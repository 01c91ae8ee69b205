---------------------------- MODULE InspectTask ----------------------------
(***************************************************************************)
(* The InspectTask controller (pkg/controllers/inspecttask_controller.go): *)
(* Reconcile for one InspectTask, against the API server.                  *)
(*                                                                         *)
(* The controller reads the task from an informer cache that lags behind   *)
(* the API server, and writes with optimistic concurrency: an Update made  *)
(* from an outdated read is refused.  Between the read and the last write  *)
(* of one Reconcile lies the whole inspection, minutes long.               *)
(*                                                                         *)
(* createJobsInspect is one label here ("pool"); module JobPool models it. *)
(***************************************************************************)
EXTENDS Integers, FiniteSets

CONSTANTS
    Clusters,      \* the clusters to inspect
    MultiCluster,  \* Spec.ClusterName is set; if not, Clusters is {"default"}
    MaxTouches,    \* edits of the task by somebody else
    MaxCrashes,    \* crashes of the manager
    MaxErrors      \* failed calls to an API server

ASSUME ClustersAssumption ==
    /\ IsFiniteSet(Clusters) /\ Clusters # {}
    /\ MultiCluster \in BOOLEAN
    /\ ~MultiCluster => Cardinality(Clusters) = 1

ASSUME BoundsAssumption == MaxTouches \in Nat /\ MaxCrashes \in Nat /\ MaxErrors \in Nat

VARIABLES
    task,     \* the InspectTask in the API server
    cache,    \* the copy of it in the informer cache
    queued,   \* the work queue holds the task's key
    wake,     \* what is about to queue it: a watch event, a retry's delay
    ctl,      \* where Reconcile is
    my,       \* the copy of the task this Reconcile read
    cpc,      \* cpc[c]: where createInspect is for cluster c
    phases,   \* the phases in my.Status.JobPhase
    plan,     \* LastTaskStatus of the InspectPlan
    result,   \* result[c]: the InspectResult, "guarded" once it has its finalizer
    file,     \* file[c]: its report file exists
    config,   \* config[c]: temporary rule ConfigMap, service account, roles
    expired,  \* isTimeout(task.CreationTimestamp)
    touches, crashes, errors

taskVars  == <<task, cache, queued, wake>>
ctlVars   == <<ctl, my, cpc, phases>>
outVars   == <<result, file, config>>
faultVars == <<touches, crashes, errors>>
vars == <<taskVars, ctlVars, plan, outVars, expired, faultVars>>

-----------------------------------------------------------------------------
(* Types                                                                   *)

Status == {"", "Running", "Succeeded", "Failed"}

(* ver is the resourceVersion; exists is false once the object is gone.    *)
Task == [exists: BOOLEAN, ver: Nat, fin: BOOLEAN, del: BOOLEAN,
         started: BOOLEAN, status: Status, ended: BOOLEAN]

NewTask == [exists |-> TRUE, ver |-> 0, fin |-> FALSE, del |-> FALSE,
            started |-> FALSE, status |-> "", ended |-> FALSE]

CtlLabel == {"idle", "addFinalizer", "dropFinalizer", "setEnd", "planRunning",
             "setStart", "config", "inspect", "setStatus", "planFinal"}

ClusterLabel == {"idle", "client", "init", "rules", "generate", "pool", "refused",
                 "create", "clean", "ok", "err"}

ResultState == {"none", "bare", "guarded"}

Terminal(t) == t.status \in {"Succeeded", "Failed"}

Init ==
    /\ task = NewTask /\ cache = NewTask /\ queued = TRUE /\ wake = {}
    /\ ctl = "idle" /\ my = NewTask
    /\ cpc = [c \in Clusters |-> "idle"] /\ phases = {}
    /\ plan = "Pending"
    /\ result = [c \in Clusters |-> "none"]
    /\ file = [c \in Clusters |-> FALSE]
    /\ config = [c \in Clusters |-> FALSE]
    /\ expired = FALSE
    /\ touches = 0 /\ crashes = 0 /\ errors = 0

-----------------------------------------------------------------------------
(* The API server and the work queue                                       *)

(* Reconcile returns; an error puts the key back into the queue, after a   *)
(* delay.                                                                  *)
Return(err) ==
    /\ ctl' = "idle"
    /\ wake' = IF err THEN wake \cup {"retry"} ELSE wake
    /\ UNCHANGED queued

(* The object after an accepted write of new; a deleted object without     *)
(* its finalizer is gone.                                                  *)
Stored(new) ==
    [new EXCEPT !.ver = task.ver + 1, !.exists = ~(new.del /\ ~new.fin)]

(* Update and Status().Update of new, read by this Reconcile: refused when *)
(* the object has changed since or is gone.  The call may also fail, before*)
(* or after the server accepted it.                                        *)
Current == task.exists /\ my.ver = task.ver

Accepted(new) ==
    Current /\ task' = Stored(new) /\ UNCHANGED <<cache, errors>>

Fault == errors < MaxErrors /\ errors' = errors + 1

Refused ==
    /\ (~Current /\ UNCHANGED errors) \/ Fault
    /\ UNCHANGED <<task, cache>>

LostReply(new) ==
    Current /\ Fault /\ task' = Stored(new) /\ UNCHANGED cache

(* Updating and returning whatever came of it.                             *)
UpdateAndReturn(new) ==
    /\ \/ Accepted(new) /\ Return(FALSE)
       \/ Refused /\ Return(TRUE)
       \/ LostReply(new) /\ Return(TRUE)
    /\ UNCHANGED <<my, cpc, phases, plan, outVars, expired, touches, crashes>>

-----------------------------------------------------------------------------
(* Reconcile                                                               *)

(* Faulty variant: a task with a verdict is left alone even when it is     *)
(* being deleted.                                                          *)
BranchVerdictFirst(t) ==
    CASE ~t.exists -> "idle"
      [] t.exists /\ Terminal(t) -> IF t.ended THEN "idle" ELSE "setEnd"
      [] t.exists /\ ~Terminal(t) /\ t.del -> "dropFinalizer"
      [] t.exists /\ ~Terminal(t) /\ ~t.del /\ ~t.fin -> "addFinalizer"
      [] OTHER -> IF t.started THEN "config" ELSE "planRunning"

(* The branch Reconcile takes for the task t it read.                      *)
Branch(t) ==
    CASE ~t.exists                       -> "idle"
      [] t.exists /\ t.del               -> "dropFinalizer"
      [] t.exists /\ ~t.del /\ ~t.fin    -> "addFinalizer"
      [] t.exists /\ ~t.del /\ t.fin /\ Terminal(t) ->
             IF t.ended THEN "idle" ELSE "setEnd"
      [] OTHER -> IF t.started THEN "config" ELSE "planRunning"

Reconcile ==
    /\ ctl = "idle" /\ queued
    /\ queued' = FALSE
    /\ my' = cache
    /\ ctl' = Branch(cache)
    /\ UNCHANGED <<task, cache, wake, cpc, phases, plan, outVars, expired, faultVars>>

AddFinalizer ==
    ctl = "addFinalizer" /\ UpdateAndReturn([my EXCEPT !.fin = TRUE])

DropFinalizer ==
    ctl = "dropFinalizer" /\ UpdateAndReturn([my EXCEPT !.fin = FALSE])

SetEnd ==
    ctl = "setEnd" /\ UpdateAndReturn([my EXCEPT !.ended = TRUE])

(* updatePlanStatus(PhaseRunning): its error ends Reconcile.               *)
PlanRunning ==
    /\ ctl = "planRunning"
    /\ \/ plan' = "Running" /\ ctl' = "setStart" /\ UNCHANGED <<queued, wake, errors>>
       \/ Fault /\ Return(TRUE) /\ UNCHANGED plan
    /\ UNCHANGED <<task, cache, my, cpc, phases, outVars, expired, touches, crashes>>

SetStart ==
    /\ ctl = "setStart"
    /\ UpdateAndReturn([my EXCEPT !.started = TRUE, !.status = "Running"])

(* GetKubeEyeConfig: the ConfigMap is not there, or is no YAML.            *)
GetKubeEyeConfigFails ==
    /\ ctl = "config" /\ Fault /\ Return(TRUE)
    /\ UNCHANGED <<task, cache, my, cpc, phases, plan, outVars, expired, touches, crashes>>

(* One goroutine per cluster, one call in default mode.                    *)
StartInspection ==
    /\ ctl = "config" /\ ctl' = "inspect" /\ phases' = {}
    /\ cpc' = [c \in Clusters |-> IF MultiCluster THEN "client" ELSE "init"]
    /\ UNCHANGED <<taskVars, my, plan, outVars, expired, faultVars>>

-----------------------------------------------------------------------------
(* createInspect for cluster c                                             *)

At(c, label) == ctl = "inspect" /\ cpc[c] = label
To(c, label) == cpc' = [cpc EXCEPT ![c] = label]

(* The client of another cluster, from the kubeconfig of its Cluster.      *)
GetMultiClusterClient(c) ==
    /\ At(c, "client") /\ To(c, "init")
    /\ UNCHANGED <<taskVars, ctl, my, phases, plan, outVars, expired, faultVars>>

(* A call that fails makes createInspect return its error.                 *)
CallFails(c) ==
    /\ \E label \in {"client", "init", "rules", "create", "clean"} : At(c, label)
    /\ Fault /\ To(c, "err")
    /\ UNCHANGED <<taskVars, ctl, my, phases, plan, outVars, expired, touches, crashes>>

(* initClusterInspectConfig and CreateInspectRule.                         *)
InitConfig(c) ==
    /\ \/ At(c, "init") /\ To(c, "rules")
       \/ At(c, "rules") /\ To(c, "generate")
    /\ config' = [config EXCEPT ![c] = TRUE]
    /\ UNCHANGED <<taskVars, ctl, my, phases, plan, result, file, expired, faultVars>>

(* GenerateResult removes the report file of an earlier attempt.  A pool   *)
(* that starts after the timeout creates no Job.                           *)
GenerateResult(c) ==
    /\ At(c, "generate")
    /\ file' = [file EXCEPT ![c] = FALSE]
    /\ To(c, IF expired THEN "refused" ELSE "pool")
    /\ UNCHANGED <<taskVars, ctl, my, phases, plan, result, config, expired, faultVars>>

(* The pool writes the report, several times over.                         *)
PoolSaves(c) ==
    /\ At(c, "pool") /\ ~file[c]
    /\ file' = [file EXCEPT ![c] = TRUE]
    /\ UNCHANGED <<taskVars, ctlVars, plan, result, config, expired, faultVars>>

(* What createJobsInspect may return: only Succeeded records when every    *)
(* result is in the report (JobPool!VerdictSound), Failed ones otherwise,  *)
(* none when no rule has a job.                                            *)
PoolOutcomes(c) ==
    IF cpc[c] = "pool" /\ file[c] THEN (SUBSET {"Succeeded", "Failed"}) \ {{}}
    ELSE {{}, {"Failed"}}

(* task.Status.JobPhase is appended to by every cluster's goroutine with   *)
(* no lock: the append may undo that of another cluster still at work.     *)
PoolReturns(c) ==
    /\ At(c, "pool") \/ At(c, "refused")
    /\ \E p \in PoolOutcomes(c) :
         \/ phases' = phases \cup p
         \/ Cardinality(Clusters) > 1 /\ phases' = p
    /\ To(c, "create")
    /\ UNCHANGED <<taskVars, ctl, my, plan, outVars, expired, faultVars>>

(* r.Create(result): an InspectResult of an earlier attempt makes it fail. *)
CreateResult(c) ==
    /\ At(c, "create")
    /\ result' = [result EXCEPT ![c] = IF @ = "none" THEN "bare" ELSE @]
    /\ To(c, IF result[c] = "none" THEN "clean" ELSE "err")
    /\ UNCHANGED <<taskVars, ctl, my, phases, plan, file, config, expired, faultVars>>

(* cleanClusterInspectConfig.                                              *)
CleanConfig(c) ==
    /\ At(c, "clean")
    /\ config' = [config EXCEPT ![c] = FALSE]
    /\ To(c, "ok")
    /\ UNCHANGED <<taskVars, ctl, my, phases, plan, result, file, expired, faultVars>>

-----------------------------------------------------------------------------
(* The end of Reconcile                                                    *)

(* Faulty variants: the errors of the clusters are returned as well;       *)
(* wait.Wait() is missing.                                                 *)
InspectionEndsStrict ==
    /\ ctl = "inspect"
    /\ \A c \in Clusters : cpc[c] \in {"ok", "err"}
    /\ cpc' = [c \in Clusters |-> "idle"]
    /\ IF \E c \in Clusters : cpc[c] = "err"
       THEN Return(TRUE)
       ELSE ctl' = "setStatus" /\ UNCHANGED <<queued, wake>>
    /\ UNCHANGED <<task, cache, my, phases, plan, outVars, expired, faultVars>>

InspectionEndsNoWait ==
    /\ ctl = "inspect" /\ ctl' = "setStatus"
    /\ cpc' = [c \in Clusters |-> "idle"]
    /\ UNCHANGED <<taskVars, my, phases, plan, outVars, expired, faultVars>>

(* In default mode the error of createInspect is returned; the errors of   *)
(* the clusters' goroutines are only logged.                               *)
InspectionEnds ==
    /\ ctl = "inspect"
    /\ \A c \in Clusters : cpc[c] \in {"ok", "err"}
    /\ cpc' = [c \in Clusters |-> "idle"]
    /\ IF ~MultiCluster /\ \E c \in Clusters : cpc[c] = "err"
       THEN Return(TRUE)
       ELSE ctl' = "setStatus" /\ UNCHANGED <<queued, wake>>
    /\ UNCHANGED <<task, cache, my, phases, plan, outVars, expired, faultVars>>

GetStatus == IF phases = {} \/ "Failed" \in phases THEN "Failed" ELSE "Succeeded"

(* Faulty variants: the status is patched whatever the version; the final  *)
(* updatePlanStatus is missing.                                            *)
SetStatusPatch ==
    /\ ctl = "setStatus" /\ ctl' = "planFinal" /\ task.exists
    /\ task' = Stored([task EXCEPT !.status = GetStatus])
    /\ UNCHANGED <<cache, queued, wake, my, cpc, phases, plan, outVars, expired, faultVars>>

SetStatusOnly ==
    ctl = "setStatus" /\ UpdateAndReturn([my EXCEPT !.status = GetStatus])

SetStatus ==
    /\ ctl = "setStatus"
    /\ LET new == [my EXCEPT !.status = GetStatus] IN
       \/ Accepted(new) /\ ctl' = "planFinal" /\ UNCHANGED <<queued, wake>>
       \/ Refused /\ Return(TRUE)
       \/ LostReply(new) /\ Return(TRUE)
    /\ UNCHANGED <<my, cpc, phases, plan, outVars, expired, touches, crashes>>

(* The last updatePlanStatus: its error is only logged.                    *)
PlanFinal ==
    /\ ctl = "planFinal" /\ Return(FALSE)
    /\ \/ plan' = GetStatus /\ UNCHANGED errors
       \/ Fault /\ UNCHANGED plan
    /\ UNCHANGED <<task, cache, my, cpc, phases, outVars, expired, touches, crashes>>

-----------------------------------------------------------------------------
(* The environment                                                         *)

(* The watch catches up: the cache is written first, then the event goes   *)
(* to the queue.                                                           *)
Sync ==
    /\ cache # task
    /\ cache' = task /\ wake' = wake \cup {"event"}
    /\ UNCHANGED <<task, queued, ctlVars, plan, outVars, expired, faultVars>>

Enqueue ==
    /\ \E w \in wake : wake' = wake \ {w}
    /\ queued' = TRUE
    /\ UNCHANGED <<task, cache, ctlVars, plan, outVars, expired, faultVars>>

(* Another client edits the task, or deletes it.                           *)
Touch ==
    /\ task.exists /\ touches < MaxTouches
    /\ touches' = touches + 1
    /\ task' = [task EXCEPT !.ver = @ + 1]
    /\ UNCHANGED <<cache, queued, wake, ctlVars, plan, outVars, expired, crashes, errors>>

Delete ==
    /\ task.exists /\ ~task.del
    /\ task' = Stored([task EXCEPT !.del = TRUE])
    /\ UNCHANGED <<cache, queued, wake, ctlVars, plan, outVars, expired, faultVars>>

(* The InspectResult controller adds its finalizer.                        *)
GuardResult(c) ==
    /\ result[c] = "bare"
    /\ result' = [result EXCEPT ![c] = "guarded"]
    /\ UNCHANGED <<taskVars, ctlVars, plan, file, config, expired, faultVars>>

(* Kubernetes deletes the InspectResults of a task that is gone.  One with *)
(* the finalizer goes through the deletion branch of the InspectResult     *)
(* controller, which removes the file.                                     *)
CollectResult(c) ==
    /\ ~task.exists /\ result[c] # "none"
    /\ result' = [result EXCEPT ![c] = "none"]
    /\ file' = IF result[c] = "guarded" THEN [file EXCEPT ![c] = FALSE] ELSE file
    /\ UNCHANGED <<taskVars, ctlVars, plan, config, expired, faultVars>>

Expire ==
    /\ ~expired /\ expired' = TRUE
    /\ UNCHANGED <<taskVars, ctlVars, plan, outVars, faultVars>>

(* The manager dies and is started again: it lists every task afresh.      *)
Crash ==
    /\ crashes < MaxCrashes /\ crashes' = crashes + 1
    /\ ctl' = "idle" /\ my' = NewTask /\ phases' = {}
    /\ cpc' = [c \in Clusters |-> "idle"]
    /\ cache' = task /\ queued' = TRUE /\ wake' = {}
    /\ UNCHANGED <<task, plan, outVars, expired, touches, errors>>

-----------------------------------------------------------------------------
(* The specification                                                       *)

CreateInspect(c) ==
    \/ GetMultiClusterClient(c) \/ InitConfig(c) \/ GenerateResult(c) \/ PoolReturns(c)
    \/ CreateResult(c) \/ CleanConfig(c)

Controller ==
    \/ Reconcile \/ AddFinalizer \/ DropFinalizer \/ SetEnd
    \/ PlanRunning \/ SetStart \/ GetKubeEyeConfigFails
    \/ StartInspection \/ InspectionEnds
    \/ SetStatus \/ PlanFinal
    \/ \E c \in Clusters : CreateInspect(c)

Environment ==
    \/ Sync \/ Enqueue \/ Touch \/ Delete \/ Expire \/ Crash
    \/ \E c \in Clusters : PoolSaves(c) \/ CallFails(c) \/ GuardResult(c) \/ CollectResult(c)

Next == Controller \/ Environment

Spec == Init /\ [][Next]_vars

(* The controller runs, every pool returns (JobPool!PoolDrains), the watch *)
(* and the garbage collector of Kubernetes work, time passes.              *)
Fairness ==
    /\ WF_vars(Controller)
    /\ WF_vars(Sync) /\ WF_vars(Enqueue)
    /\ WF_vars(Expire)
    /\ \A c \in Clusters : WF_vars(CollectResult(c))

FairSpec == Spec /\ Fairness

-----------------------------------------------------------------------------
(* Properties                                                              *)

TypeOK ==
    /\ task \in Task /\ cache \in Task /\ my \in Task
    /\ queued \in BOOLEAN /\ wake \in SUBSET {"event", "retry"} /\ ctl \in CtlLabel
    /\ cpc \in [Clusters -> ClusterLabel]
    /\ phases \in SUBSET {"Succeeded", "Failed"}
    /\ plan \in Status \cup {"Pending"}
    /\ result \in [Clusters -> ResultState] /\ file \in [Clusters -> BOOLEAN]
    /\ config \in [Clusters -> BOOLEAN] /\ expired \in BOOLEAN
    /\ touches \in 0..MaxTouches /\ crashes \in 0..MaxCrashes /\ errors \in 0..MaxErrors

(* Reconcile, its conflicts, its retries and the crashes in between do to  *)
(* the task and its plan nothing but what TaskPromise allows.              *)
Promise == INSTANCE TaskPromise WITH
    Verdicts <- {"Succeeded", "Failed"},
    status <- task.status, deleting <- task.del, present <- task.exists, heard <- plan

KeepsPromise == Promise!Spec

(* A task is Succeeded only with an InspectResult and a report behind the  *)
(* verdict, however often the manager crashed on the way, as long as no    *)
(* call failed (the failures of a cluster's calls are only logged) and     *)
(* nobody else has edited the task (which makes Reconcile start again).    *)
ReportBehindSuccess ==
    task.exists /\ task.status = "Succeeded" /\ errors = 0 /\ touches = 0
        => \E c \in Clusters : result[c] # "none" /\ file[c]

(* README.md "Inspection timeout": every task ends in a verdict, or goes.  *)
TaskFinishes == <>(~task.exists \/ Terminal(task))

(* A deleted task goes, whatever its inspection is doing, and takes its    *)
(* InspectResults along, with the report file of each one that has its     *)
(* finalizer.                                                              *)
DeletionCleansUp ==
    /\ task.del ~> ~task.exists
    /\ \A c \in Clusters :
         /\ ~task.exists ~> result[c] = "none"
         /\ ~task.exists /\ result[c] = "guarded" ~> result[c] = "none" /\ ~file[c]

(* PlanFinal: an inspection that nobody disturbs ends in a verdict, and    *)
(* the plan is told it; or the task is deleted.                            *)
PlanLearnsVerdict ==
    []<>\/ touches + crashes + errors > 0
        \/ ~task.exists
        \/ Terminal(task) /\ plan = task.status
=============================================================================
