----------------------------- MODULE OpaChecker -----------------------------
(***************************************************************************)
(* The OPA inspection of one pod (pkg/inspect/opa_inspect.go,              *)
(* pkg/collectors/opa): the resources the rules are about are listed, then *)
(* checked by a pool of workers that take batches from one channel and     *)
(* send what they found into another, which a collector empties.  Neither  *)
(* channel is buffered: a send and its receive are one step.               *)
(*                                                                         *)
(* What Rego computes is abstracted to Denied, the resources a rule has    *)
(* something to say about: a violation, or an error of its own.            *)
(***************************************************************************)
EXTENDS Naturals, FiniteSets

CONSTANTS
    Resources,  \* what is in the cluster of the kinds the rules are about
    KeyOf,      \* the key "kind.version" of each
    StatsKey,   \* the key of the statistics of the nodes
    ListOf,     \* the call that lists it: one for each namespace
    Vital,      \* the lists of kinds that have no namespace, and of the nodes
    Denied,     \* the resources some rule denies or cannot be evaluated on
    Workers, BatchSize,
    NoOne       \* no resource

ASSUME OpaAssumption ==
    /\ IsFiniteSet(Resources) /\ IsFiniteSet(Workers) /\ Workers # {}
    /\ Denied \subseteq Resources /\ NoOne \notin Resources
    /\ BatchSize \in Nat \ {0}

VARIABLES
    opc,        \* how far RunInspect is
    held,       \* the resources in the ResourcesManager
    todo,       \* the ones that have not been sent to a worker
    tasks,      \* taskChan: open or closed
    work,       \* work[w]: what worker w has left of its batch
    exited,     \* the workers that have returned
    hand,       \* what the collector has received and not yet appended
    collector,  \* the collector: it runs until results is closed
    results,    \* resultChan: open or closed
    found       \* found[r]: how often r is in the collector's list

opaVars == <<opc, held, todo, tasks, work, exited, hand, collector, results, found>>

OpaTypeOK ==
    /\ opc \in {"off", "collect", "check", "returned", "failed"}
    /\ held \subseteq Resources /\ todo \subseteq Resources
    /\ tasks \in {"open", "closed"} /\ results \in {"open", "closed"}
    /\ work \in [Workers -> SUBSET Resources] /\ exited \subseteq Workers
    /\ hand \in Resources \cup {NoOne} /\ collector \in {"runs", "ended"}
    /\ found \in [Resources -> Nat]

Fresh ==
    /\ tasks = "open" /\ results = "open" /\ collector = "runs"
    /\ work = [w \in Workers |-> {}] /\ exited = {} /\ hand = NoOne
    /\ found = [r \in Resources |-> 0]

OpaInit == opc = "off" /\ held = {} /\ todo = {} /\ Fresh

(* NewRulesManager, NewResourceCollector, NewOPAChecker, and the channels. *)
OpaStart ==
    /\ opc' = "collect" /\ held' = {} /\ todo' = {}
    /\ tasks' = "open" /\ results' = "open" /\ collector' = "runs"
    /\ work' = [w \in Workers |-> {}] /\ exited' = {} /\ hand' = NoOne
    /\ found' = [r \in Resources |-> 0]

(* AddRule cannot tell what a rule is about, or a client cannot be made.   *)
AddRuleFails ==
    /\ opc = "collect" /\ opc' = "failed"
    /\ UNCHANGED <<held, todo, tasks, work, exited, hand, collector, results, found>>

(* A node that is not ready, or whose statistics cannot be read, is        *)
(* skipped.                                                                *)
CollectNodeStatsSummary(failing) ==
    {r \in Resources : KeyOf[r] = StatsKey /\ ListOf[r] \notin failing}

(* AddResource for every key.  A list that fails in one namespace is       *)
(* skipped too; the failure of any other list is the failure of the job.   *)
AddResource ==
    /\ opc = "collect"
    /\ \E failing \in SUBSET {ListOf[r] : r \in Resources} :
         IF failing \cap Vital # {}
         THEN opc' = "failed" /\ UNCHANGED <<held, todo>>
         ELSE /\ opc' = "check"
              /\ held' = {r \in Resources : KeyOf[r] # StatsKey /\ ListOf[r] \notin failing}
                         \cup CollectNodeStatsSummary(failing)
              /\ todo' = held'
    /\ UNCHANGED <<tasks, work, exited, hand, collector, results, found>>

-----------------------------------------------------------------------------
(* VailOpaRulesResult: the goroutine that sends the batches                *)

OfKey(S, k) == {r \in S : KeyOf[r] = k}

(* The next batch of a key: full, or the rest of it.                       *)
IsBatch(B, k) ==
    /\ B # {} /\ B \subseteq OfKey(todo, k)
    /\ Cardinality(B) = BatchSize \/ (Cardinality(B) < BatchSize /\ B = OfKey(todo, k))

(* The keys are walked through one after the other, in any order, and the  *)
(* statistics come last.                                                   *)
IsTurn(k) ==
    /\ \A r \in held : KeyOf[r] # k => (r \in todo <=> OfKey(held, KeyOf[r]) \subseteq todo)
    /\ k = StatsKey => todo \subseteq OfKey(held, k)

SendTask(w) ==
    /\ opc = "check" /\ tasks = "open"
    /\ w \notin exited /\ work[w] = {}
    /\ \E k \in {KeyOf[r] : r \in todo} : \E B \in SUBSET todo :
         /\ IsTurn(k) /\ IsBatch(B, k)
         /\ work' = [work EXCEPT ![w] = B] /\ todo' = todo \ B
    /\ UNCHANGED <<opc, held, tasks, exited, hand, collector, results, found>>

(* Faulty variant: taskChan is not closed.                                 *)
CloseTasksForgotten == opc = "check" /\ tasks = "open" /\ todo = {} /\ UNCHANGED opaVars

CloseTasks ==
    /\ opc = "check" /\ tasks = "open" /\ todo = {}
    /\ tasks' = "closed"
    /\ UNCHANGED <<opc, held, todo, work, exited, hand, collector, results, found>>

-----------------------------------------------------------------------------
(* The workers                                                             *)

(* One resource of the batch: its result, if it has items, is sent to the  *)
(* collector once that is ready to receive.                                *)
Check(w, r) ==
    /\ opc = "check" /\ r \in work[w]
    /\ work' = [work EXCEPT ![w] = @ \ {r}]
    /\ IF r \in Denied
       THEN hand = NoOne /\ collector = "runs" /\ results = "open" /\ hand' = r
       ELSE UNCHANGED hand
    /\ UNCHANGED <<opc, held, todo, tasks, exited, collector, results, found>>

checkResource(w, r) == KeyOf[r] # StatsKey /\ Check(w, r)

checkNodeStatsSummary(w, r) == KeyOf[r] = StatsKey /\ Check(w, r)

(* worker: its loop ends when taskChan is closed.                          *)
WorkerEnds(w) ==
    /\ opc = "check" /\ tasks = "closed"
    /\ w \notin exited /\ work[w] = {}
    /\ exited' = exited \cup {w}
    /\ UNCHANGED <<opc, held, todo, tasks, work, hand, collector, results, found>>

-----------------------------------------------------------------------------
(* The collector, and the end                                              *)

AppendResult ==
    /\ opc = "check" /\ hand # NoOne
    /\ found' = [found EXCEPT ![hand] = @ + 1] /\ hand' = NoOne
    /\ UNCHANGED <<opc, held, todo, tasks, work, exited, collector, results>>

CollectorEnds ==
    /\ opc = "check" /\ collector = "runs" /\ hand = NoOne /\ results = "closed"
    /\ collector' = "ended"
    /\ UNCHANGED <<opc, held, todo, tasks, work, exited, hand, results, found>>

(* wg.Wait(), then close(resultChan).                                      *)
CloseResults ==
    /\ opc = "check" /\ results = "open" /\ exited = Workers
    /\ results' = "closed"
    /\ UNCHANGED <<opc, held, todo, tasks, work, exited, hand, collector, found>>

(* Faulty variant: resultWg.Wait() is missing.                             *)
VailOpaRulesResultEarly ==
    /\ opc = "check" /\ results = "closed"
    /\ opc' = "returned"
    /\ UNCHANGED <<held, todo, tasks, work, exited, hand, collector, results, found>>

(* resultWg.Wait(), and the return of the list.                            *)
VailOpaRulesResult ==
    /\ opc = "check" /\ results = "closed" /\ collector = "ended"
    /\ opc' = "returned"
    /\ UNCHANGED <<held, todo, tasks, work, exited, hand, collector, results, found>>

OpaStep ==
    \/ AddRuleFails \/ AddResource \/ CloseTasks \/ AppendResult
    \/ CollectorEnds \/ CloseResults \/ VailOpaRulesResult
    \/ \E w \in Workers :
         \/ SendTask(w) \/ WorkerEnds(w)
         \/ \E r \in Resources : checkResource(w, r) \/ checkNodeStatsSummary(w, r)

OpaSpec == OpaInit /\ [][(opc \in {"off", "returned", "failed"} /\ OpaStart) \/ OpaStep]_opaVars

-----------------------------------------------------------------------------
(* Properties                                                              *)

(* VailOpaRulesResult: what it returns has each resource that was listed   *)
(* and that a rule denies, once, and nothing else, however the batches     *)
(* fell to the workers and however late the collector was.                 *)
OpaFindsAll ==
    opc = "returned" =>
        \A r \in Resources : found[r] = IF r \in held /\ r \in Denied THEN 1 ELSE 0
=============================================================================
