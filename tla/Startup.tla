------------------------------ MODULE Startup ------------------------------
(***************************************************************************)
(* The start of the two processes, the manager (cmd/ke-manager/main.go)    *)
(* and the API server (cmd/apiserver/main.go), and their shared informers  *)
(* (pkg/informers, clients/informers/externalversions/factory.go).         *)
(*                                                                         *)
(* An informer that is asked for after Start is registered but never runs, *)
(* and WaitForCacheSync waits only for the ones that run: whoever reads a  *)
(* lister without waiting, or for a resource nobody asked for in time,     *)
(* reads an empty list.                                                    *)
(***************************************************************************)
EXTENDS Integers, Sequences, FiniteSets

CONSTANT MaxDeaths   \* deaths of a process, by a failed call or a panic

ASSUME DeathsAssumption == MaxDeaths \in Nat

VARIABLES
    stage,     \* stage[p]: how far the main function of process p is
    informers, \* informers[p]: factory.informers
    started,   \* started[p]: factory.startedInformers
    synced,    \* synced[p]: the informers whose HasSynced is true
    deaths

startVars == <<stage, informers, started, synced, deaths>>

Process == {"manager", "apiserver"}

KeEyeGver == {"inspectrules", "inspectplans", "inspecttasks", "inspectresults"}

(* The resources of Kubernetes itself are one here.                        *)
K8sEyeGver == {"kubernetes"}

Resource == KeEyeGver \cup K8sEyeGver

(* What each main function does, one call after the other.                 *)
ManagerMain == <<"clients", "forResources", "start", "waitKubeEye", "waitKubernetes", "up">>

ApiServerMain == <<"clients", "forResources", "start", "waitKubeEye", "waitKubernetes", "up">>

Main(p) == IF p = "manager" THEN ManagerMain ELSE ApiServerMain

StartInit ==
    /\ stage = [p \in Process |-> 1]
    /\ informers = [p \in Process |-> {}]
    /\ started = [p \in Process |-> {}]
    /\ synced = [p \in Process |-> {}]
    /\ deaths = 0

At(p, label) == Main(p)[stage[p]] = label
Up(p) == At(p, "up")
Step(p) == stage' = [stage EXCEPT ![p] = @ + 1]

(* GetKubeConfigInCluster and K8SClients, whose errors end the process (in *)
(* the API server by a nil pointer), and NewInformerFactory.               *)
MakeClients(p) ==
    /\ At(p, "clients") /\ Step(p)
    /\ UNCHANGED <<informers, started, synced, deaths>>

ForResources(p) ==
    /\ At(p, "forResources") /\ Step(p)
    /\ informers' = [informers EXCEPT ![p] = @ \cup KeEyeGver \cup K8sEyeGver]
    /\ UNCHANGED <<started, synced, deaths>>

(* Both factories start what they know by now.                             *)
Start(p) ==
    /\ At(p, "start") /\ Step(p)
    /\ started' = [started EXCEPT ![p] = informers[p]]
    /\ UNCHANGED <<informers, synced, deaths>>

(* Faulty variant: nobody waits.                                           *)
WaitForCacheSyncNot(p) ==
    /\ At(p, "waitKubeEye") \/ At(p, "waitKubernetes")
    /\ Step(p)
    /\ UNCHANGED <<informers, started, synced, deaths>>

WaitForCacheSync(p) ==
    /\ \/ At(p, "waitKubeEye") /\ started[p] \cap KeEyeGver \subseteq synced[p]
       \/ At(p, "waitKubernetes") /\ started[p] \cap K8sEyeGver \subseteq synced[p]
    /\ Step(p)
    /\ UNCHANGED <<informers, started, synced, deaths>>

(* The first lists of a factory's running informers arrive; nobody can     *)
(* tell the informers of one factory apart before all have.                *)
FirstSync(p, factory) ==
    /\ started[p] \cap factory # {} /\ ~(started[p] \cap factory \subseteq synced[p])
    /\ synced' = [synced EXCEPT ![p] = @ \cup (started[p] \cap factory)]
    /\ UNCHANGED <<stage, informers, started, deaths>>

Dies(p) ==
    /\ deaths < MaxDeaths /\ deaths' = deaths + 1
    /\ stage' = [stage EXCEPT ![p] = 1]
    /\ informers' = [informers EXCEPT ![p] = {}]
    /\ started' = [started EXCEPT ![p] = {}]
    /\ synced' = [synced EXCEPT ![p] = {}]

StartStep(p) ==
    \/ MakeClients(p) \/ ForResources(p) \/ Start(p) \/ WaitForCacheSync(p)
    \/ FirstSync(p, KeEyeGver) \/ FirstSync(p, K8sEyeGver)

-----------------------------------------------------------------------------
StartTypeOK ==
    /\ stage \in [Process -> 1..6]
    /\ informers \in [Process -> SUBSET Resource]
    /\ started \in [Process -> SUBSET Resource]
    /\ synced \in [Process -> SUBSET Resource]
    /\ deaths \in 0..MaxDeaths
=============================================================================
