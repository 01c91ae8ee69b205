------------------------- MODULE InspectTaskProofs -------------------------
(***************************************************************************)
(* Proofs about InspectTask, for any clusters and any number of edits,     *)
(* crashes and failures: type correctness, the refinement of TaskPromise,  *)
(* and the report behind a verdict.                                        *)
(***************************************************************************)
EXTENDS InspectTask, TLAPS

-----------------------------------------------------------------------------
(* The inductive invariant                                                 *)

(* A copy of the task is older than the task or equal to it.               *)
CopyOf(t) == t.ver <= task.ver /\ (t.ver = task.ver => t = task)

(* A task has started exactly when its status says so.                     *)
WellFormed(t) == t.started <=> t.status # ""

CopyInv ==
    /\ CopyOf(cache) /\ CopyOf(my) /\ CopyOf(NewTask) /\ my.ver <= cache.ver
    /\ WellFormed(task) /\ WellFormed(cache) /\ WellFormed(my)
    /\ task.exists \/ task.del

Starting   == {"planRunning", "setStart"}
Inspecting == {"config", "inspect", "setStatus"}

(* Which tasks each branch of Reconcile is for, and that the plan is told  *)
(* the verdict that was stored.                                            *)
BranchInv ==
    /\ ctl = "dropFinalizer" => my.del
    /\ ctl \in {"setEnd"} \cup Starting \cup Inspecting => ~my.del /\ my.fin
    /\ ctl \in Starting => my.status = ""
    /\ ctl \in Inspecting => my.status = "Running"
    /\ ctl = "planFinal" => task.status = GetStatus

(* Reconcile has the task in its hands and has not stored a verdict.       *)
Active == ctl \notin {"idle", "planFinal"}

Undisturbed == errors = 0 /\ touches = 0

(* Undisturbed, whatever wakes the controller comes with the last version  *)
(* of the task, or with one of the same status once the task is deleted.   *)
FreshInv ==
    Undisturbed =>
      /\ queued \/ wake # {} \/ Active => cache.status = task.status
      /\ Active => my.status = task.status
      /\ ~task.del =>
           /\ queued \/ wake # {} \/ Active => cache = task
           /\ (\A v, w \in wake : v = w) /\ (queued => wake = {})
           /\ Active => my = task /\ ~queued /\ wake = {}

(* Where a cluster's goroutine has left its report for good.               *)
Reported(c) ==
    /\ file[c]
    /\ ctl = "setStatus" \/ cpc[c] \in {"create", "clean", "ok", "err"}
    /\ ctl = "setStatus" \/ cpc[c] # "create" => result[c] # "none"

(* Without failed calls a Succeeded record has a report behind it.         *)
ReportInv ==
    /\ errors = 0 /\ task.exists /\ ctl \in {"inspect", "setStatus"} /\ "Succeeded" \in phases
         => \E c \in Clusters : Reported(c)
    /\ errors = 0 /\ ctl = "inspect" =>
         \A c \in Clusters : cpc[c] = "err" /\ task.exists => result[c] # "none"

IInv == TypeOK /\ CopyInv /\ BranchInv /\ FreshInv /\ ReportInv /\ ReportBehindSuccess

-----------------------------------------------------------------------------
(* Type correctness                                                        *)

(* What an accepted write of new makes of the task.                        *)
LEMMA StoredIs ==
    ASSUME task \in Task, NEW new \in Task
    PROVE  /\ Stored(new) \in Task
           /\ Stored(new).ver = task.ver + 1
           /\ new.fin => Stored(new).exists
           /\ new.del /\ ~new.fin => ~Stored(new).exists
           /\ Stored(new).del = new.del /\ Stored(new).fin = new.fin
           /\ Stored(new).status = new.status /\ Stored(new).started = new.started
<1> DEFINE b == ~(new.del /\ ~new.fin)
           u == [new EXCEPT !.ver = task.ver + 1]
           t == [u EXCEPT !.exists = b]
<1>1. b \in BOOLEAN /\ Stored(new) = t /\ (new.fin => b) /\ (new.del /\ ~new.fin => ~b)
  BY DEF Stored
<1> HIDE DEF b
<1>2. /\ u \in Task /\ u.ver = task.ver + 1 /\ u.del = new.del /\ u.fin = new.fin
      /\ u.status = new.status /\ u.started = new.started
  BY DEF Task
<1> HIDE DEF u
<1>3. /\ t \in Task /\ t.ver = u.ver /\ t.exists = b /\ t.del = u.del /\ t.fin = u.fin
      /\ t.status = u.status /\ t.started = u.started
  BY <1>1, <1>2 DEF Task
<1> QED BY <1>1, <1>2, <1>3

(* What each branch of Reconcile writes.                                   *)
LEMMA Writes ==
    ASSUME my \in Task, NEW s \in Status
    PROVE  /\ [my EXCEPT !.fin = TRUE] \in Task /\ [my EXCEPT !.fin = FALSE] \in Task
           /\ [my EXCEPT !.ended = TRUE] \in Task
           /\ [my EXCEPT !.started = TRUE, !.status = "Running"] \in Task
           /\ [my EXCEPT !.status = s] \in Task
  BY DEF Task, Status

(* GetStatus gives one of the two verdicts.                                *)
LEMMA StatusIs == GetStatus \in {"Succeeded", "Failed"} /\ GetStatus \in Status
  BY DEF GetStatus, Status

(* Steps that only move the goroutines of the clusters on.                 *)
ClusterStep ==
    \E c \in Clusters :
        \/ GetMultiClusterClient(c) \/ InitConfig(c) \/ GenerateResult(c) \/ PoolReturns(c)
        \/ CreateResult(c) \/ CleanConfig(c) \/ PoolSaves(c) \/ CallFails(c)

ClusterTypeOK ==
    /\ cpc \in [Clusters -> ClusterLabel] /\ phases \in SUBSET {"Succeeded", "Failed"}
    /\ result \in [Clusters -> ResultState] /\ file \in [Clusters -> BOOLEAN]
    /\ config \in [Clusters -> BOOLEAN]

(* A cluster's step touches its own records, the report and the failures.  *)
LEMMA ClusterTypes ==
    ASSUME TypeOK, ClusterStep
    PROVE  /\ ClusterTypeOK' /\ errors' \in 0..MaxErrors
           /\ errors' = errors \/ errors' = errors + 1
           /\ ctl = "inspect"
           /\ UNCHANGED <<taskVars, ctl, my, plan, expired, touches, crashes>>
<1> PICK c \in Clusters :
        \/ GetMultiClusterClient(c) \/ InitConfig(c) \/ GenerateResult(c) \/ PoolReturns(c)
        \/ CreateResult(c) \/ CleanConfig(c) \/ PoolSaves(c) \/ CallFails(c)
  BY DEF ClusterStep
<1> USE DEF TypeOK, ClusterTypeOK, At, To, taskVars, outVars, faultVars, ctlVars, ClusterLabel,
            ResultState
<1>1. CASE GetMultiClusterClient(c) BY <1>1 DEF GetMultiClusterClient
<1>2. CASE InitConfig(c) BY <1>2 DEF InitConfig
<1>3. CASE GenerateResult(c) BY <1>3 DEF GenerateResult
<1>4. CASE PoolReturns(c)
  <2>1. \A p \in PoolOutcomes(c) : p \subseteq {"Succeeded", "Failed"}
    BY DEF PoolOutcomes
  <2> QED BY <1>4, <2>1 DEF PoolReturns
<1>5. CASE CreateResult(c) BY <1>5 DEF CreateResult
<1>6. CASE CleanConfig(c) BY <1>6 DEF CleanConfig
<1>7. CASE PoolSaves(c) BY <1>7 DEF PoolSaves
<1>8. CASE CallFails(c) BY <1>8, BoundsAssumption DEF CallFails, Fault
<1> QED BY <1>1, <1>2, <1>3, <1>4, <1>5, <1>6, <1>7, <1>8

(* Every step keeps the types.                                             *)
LEMMA TypeStep == ASSUME TypeOK, Next PROVE TypeOK'
<1>0. /\ task \in Task /\ cache \in Task /\ my \in Task /\ NewTask \in Task
      /\ \A s \in Status : [my EXCEPT !.status = s] \in Task
  BY Writes DEF TypeOK, NewTask, Task, Status
<1>1. ASSUME NEW new \in Task, UpdateAndReturn(new) PROVE TypeOK'
  BY <1>0, <1>1, StoredIs, BoundsAssumption
     DEF UpdateAndReturn, Accepted, Refused, LostReply, Fault, Return, TypeOK, outVars, CtlLabel
<1>2. CASE ClusterStep
  BY <1>2, ClusterTypes DEF TypeOK, ClusterTypeOK, taskVars
<1>3. CASE Reconcile
  BY <1>3 DEF Reconcile, Branch, TypeOK, outVars, faultVars, CtlLabel
<1>4. CASE AddFinalizer \/ DropFinalizer \/ SetEnd \/ SetStart
  BY <1>0, <1>1, <1>4, Writes, StatusIs DEF AddFinalizer, DropFinalizer, SetEnd, SetStart
<1>5. CASE PlanRunning \/ GetKubeEyeConfigFails \/ PlanFinal
  <2> USE BoundsAssumption DEF Fault, Return, TypeOK, outVars, CtlLabel
  <2>1. CASE PlanRunning
    <3>1. "Running" \in Status
      BY DEF Status
    <3>2. CASE Fault /\ Return(TRUE) /\ UNCHANGED plan
      BY <2>1, <3>2 DEF PlanRunning
    <3> QED BY <2>1, <3>1, <3>2 DEF PlanRunning
  <2>2. CASE GetKubeEyeConfigFails BY <2>2 DEF GetKubeEyeConfigFails
  <2>3. CASE PlanFinal BY <2>3, StatusIs DEF PlanFinal
  <2> QED BY <1>5, <2>1, <2>2, <2>3
<1>6. CASE StartInspection \/ InspectionEnds
  BY <1>6 DEF StartInspection, InspectionEnds, Return, TypeOK, taskVars, outVars, faultVars,
              CtlLabel, ClusterLabel
<1>7. CASE SetStatus
  BY <1>0, <1>7, StoredIs, StatusIs, BoundsAssumption
     DEF SetStatus, Accepted, Refused, LostReply, Fault, Return, TypeOK, outVars, CtlLabel
<1>8. CASE Sync \/ Enqueue \/ Expire
  BY <1>8 DEF Sync, Enqueue, Expire, TypeOK, taskVars, ctlVars, outVars, faultVars
<1>9. CASE Touch
  <2>1. [task EXCEPT !.ver = @ + 1] \in Task
    BY <1>0 DEF Task
  <2> QED BY <1>9, <2>1, BoundsAssumption DEF Touch, TypeOK, ctlVars, outVars
<1>10. CASE Delete
  <2>1. [task EXCEPT !.del = TRUE] \in Task
    BY <1>0 DEF Task
  <2> QED BY <1>0, <1>10, <2>1, StoredIs DEF Delete, TypeOK, ctlVars, outVars, faultVars
<1>11. CASE \E c \in Clusters : GuardResult(c) \/ CollectResult(c)
  BY <1>11 DEF GuardResult, CollectResult, TypeOK, taskVars, ctlVars, faultVars, ResultState
<1>12. CASE Crash
  BY <1>0, <1>12, BoundsAssumption DEF Crash, TypeOK, outVars, CtlLabel, ClusterLabel
<1> QED
  BY <1>2, <1>3, <1>4, <1>5, <1>6, <1>7, <1>8, <1>9, <1>10, <1>11, <1>12
     DEF Next, Controller, Environment, CreateInspect, ClusterStep

(* The first state has the types.                                          *)
LEMMA InitTypes == Init => TypeOK
<1>1. NewTask \in Task /\ "Pending" \in Status \cup {"Pending"}
  BY DEF NewTask, Task, Status
<1>2. Init => /\ cpc \in [Clusters -> ClusterLabel] /\ result \in [Clusters -> ResultState]
              /\ file \in [Clusters -> BOOLEAN] /\ config \in [Clusters -> BOOLEAN]
  BY DEF Init, ClusterLabel, ResultState
<1>3. Init => queued \in BOOLEAN /\ expired \in BOOLEAN /\ ctl \in CtlLabel
  BY DEF Init, CtlLabel
<1>4. Init => touches \in 0..MaxTouches /\ crashes \in 0..MaxCrashes /\ errors \in 0..MaxErrors
  BY BoundsAssumption DEF Init
<1> QED BY <1>1, <1>2, <1>3, <1>4 DEF Init, TypeOK

(* Every behaviour is well typed.                                          *)
THEOREM TaskTypeCorrect == Spec => []TypeOK
<1>1. Init => TypeOK
  BY InitTypes
<1>2. TypeOK /\ [Next]_vars => TypeOK'
  <2>1. TypeOK /\ UNCHANGED vars => TypeOK'
    BY DEF vars, taskVars, ctlVars, outVars, faultVars, TypeOK
  <2> QED BY <2>1, TypeStep
<1> QED BY <1>1, <1>2, PTL DEF Spec

-----------------------------------------------------------------------------
(* What a step does to the task                                            *)

(* Its finalizer, its end time or nothing that is modelled has changed.    *)
Kept ==
    /\ task.exists /\ task'.exists
    /\ task'.status = task.status /\ task'.started = task.started /\ task'.del = task.del

Started ==
    /\ ctl = "setStart" /\ my = task
    /\ task.exists /\ task'.exists /\ ~task.del /\ ~task'.del
    /\ task.status = "" /\ task'.status = "Running" /\ task'.started

Decided ==
    /\ ctl = "setStatus" /\ my = task
    /\ task.exists /\ task'.exists /\ ~task.del /\ ~task'.del
    /\ task.status = "Running" /\ task'.status = GetStatus /\ task'.started

Deleted ==
    /\ task.exists /\ ~task.del /\ task'.del
    /\ task'.status = task.status /\ task'.started = task.started

Gone ==
    /\ task.exists /\ task.del /\ task'.del /\ ~task'.exists
    /\ task'.status = task.status /\ task'.started = task.started

(* A write from the version that is current finds the task as it was read. *)
LEMMA CurrentIs == ASSUME CopyInv, Current PROVE my = task
  BY DEF CopyInv, CopyOf, Current

(* The task changes in one of five ways, and always under a new version.   *)
LEMMA TaskMoves ==
    ASSUME TypeOK, CopyInv, BranchInv, Next
    PROVE  \/ task' = task
           \/ task'.ver = task.ver + 1 /\ (Kept \/ Started \/ Decided \/ Deleted \/ Gone)
<1> DEFINE Goal == \/ task' = task
                   \/ task'.ver = task.ver + 1 /\ (Kept \/ Started \/ Decided \/ Deleted \/ Gone)
<1>0. task \in Task /\ my \in Task
  BY DEF TypeOK
<1>1. ASSUME NEW new, UpdateAndReturn(new) PROVE task' = task \/ (Current /\ task' = Stored(new))
  BY <1>1 DEF UpdateAndReturn, Accepted, Refused, LostReply
<1>2. CASE AddFinalizer
  <2> DEFINE new == [my EXCEPT !.fin = TRUE]
  <2>1. /\ new \in Task /\ new.fin /\ new.del = my.del /\ new.status = my.status
        /\ new.started = my.started
    BY <1>0 DEF Task
  <2> HIDE DEF new
  <2>2. task' = task \/ (Current /\ task' = Stored(new))
    BY <1>1, <1>2 DEF AddFinalizer, new
  <2> QED BY <1>0, <2>1, <2>2, StoredIs, CurrentIs DEF Kept, Current
<1>3. CASE DropFinalizer
  <2> DEFINE new == [my EXCEPT !.fin = FALSE]
  <2>1. /\ new \in Task /\ ~new.fin /\ new.del = my.del /\ new.status = my.status
        /\ new.started = my.started
    BY <1>0 DEF Task
  <2> HIDE DEF new
  <2>2. task' = task \/ (Current /\ task' = Stored(new))
    BY <1>1, <1>3 DEF DropFinalizer, new
  <2>3. my.del
    BY <1>3 DEF DropFinalizer, BranchInv
  <2> QED BY <1>0, <2>1, <2>2, <2>3, StoredIs, CurrentIs DEF Gone, Current
<1>4. CASE SetEnd
  <2> DEFINE new == [my EXCEPT !.ended = TRUE]
  <2>1. /\ new \in Task /\ new.fin = my.fin /\ new.del = my.del /\ new.status = my.status
        /\ new.started = my.started
    BY <1>0 DEF Task
  <2> HIDE DEF new
  <2>2. task' = task \/ (Current /\ task' = Stored(new))
    BY <1>1, <1>4 DEF SetEnd, new
  <2>3. my.fin
    BY <1>4 DEF SetEnd, BranchInv
  <2> QED BY <1>0, <2>1, <2>2, <2>3, StoredIs, CurrentIs DEF Kept, Current
<1>5. CASE SetStart
  <2> DEFINE new == [my EXCEPT !.started = TRUE, !.status = "Running"]
  <2>1. /\ new \in Task /\ new.fin = my.fin /\ new.del = my.del /\ new.status = "Running"
        /\ new.started
    BY <1>0 DEF Task, Status
  <2> HIDE DEF new
  <2>2. task' = task \/ (Current /\ task' = Stored(new))
    BY <1>1, <1>5 DEF SetStart, new
  <2>3. ctl = "setStart" /\ my.fin /\ ~my.del /\ my.status = ""
    BY <1>5 DEF SetStart, BranchInv, Starting
  <2> QED BY <1>0, <2>1, <2>2, <2>3, StoredIs, CurrentIs DEF Started, Current
<1>6. CASE SetStatus
  <2> DEFINE new == [my EXCEPT !.status = GetStatus]
  <2>1. /\ new \in Task /\ new.fin = my.fin /\ new.del = my.del /\ new.status = GetStatus
        /\ new.started = my.started
    BY <1>0, StatusIs DEF Task
  <2> HIDE DEF new
  <2>2. task' = task \/ (Current /\ task' = Stored(new))
    BY <1>6 DEF SetStatus, Accepted, Refused, LostReply, new
  <2>3. ctl = "setStatus" /\ my.fin /\ ~my.del /\ my.status = "Running" /\ my.started
    BY <1>6 DEF SetStatus, BranchInv, Inspecting, CopyInv, WellFormed
  <2> QED BY <1>0, <2>1, <2>2, <2>3, StoredIs, CurrentIs DEF Decided, Current
<1>7. CASE Touch
  BY <1>0, <1>7 DEF Touch, Kept, Task
<1>8. CASE Delete
  <2> DEFINE new == [task EXCEPT !.del = TRUE]
  <2>1. new \in Task /\ new.del /\ new.status = task.status /\ new.started = task.started
    BY <1>0 DEF Task
  <2> HIDE DEF new
  <2> QED BY <1>0, <1>8, <2>1, StoredIs DEF Delete, Deleted, new
<1>9. CASE ClusterStep
  BY <1>9, ClusterTypes DEF taskVars
<1>10. CASE \/ Reconcile \/ PlanRunning \/ GetKubeEyeConfigFails \/ StartInspection
            \/ InspectionEnds \/ PlanFinal \/ Sync \/ Enqueue \/ Expire \/ Crash
            \/ \E c \in Clusters : GuardResult(c) \/ CollectResult(c)
  BY <1>10 DEF Reconcile, PlanRunning, GetKubeEyeConfigFails, StartInspection, InspectionEnds,
               PlanFinal, Sync, Enqueue, Expire, Crash, GuardResult, CollectResult, taskVars
<1> QED
  BY <1>2, <1>3, <1>4, <1>5, <1>6, <1>7, <1>8, <1>9, <1>10
     DEF Next, Controller, Environment, CreateInspect, ClusterStep

(* Reads of Reconcile and of the watch.                                    *)
LEMMA Reads ==
    ASSUME TypeOK, Next
    PROVE  /\ cache' = cache \/ (cache' = task /\ task' = task)
           /\ \/ my' = my
              \/ my' = cache /\ cache' = cache /\ Reconcile
              \/ my' = NewTask /\ cache' = task /\ Crash
<1>1. CASE ClusterStep
  BY <1>1, ClusterTypes DEF taskVars
<1>2. CASE AddFinalizer \/ DropFinalizer \/ SetEnd \/ SetStart \/ SetStatus
  BY <1>2 DEF AddFinalizer, DropFinalizer, SetEnd, SetStart, SetStatus, UpdateAndReturn,
              Accepted, Refused, LostReply
<1>3. CASE Reconcile \/ Sync \/ Crash
  BY <1>3 DEF Reconcile, Sync, Crash, ctlVars
<1>4. CASE \/ PlanRunning \/ GetKubeEyeConfigFails \/ StartInspection
           \/ InspectionEnds \/ PlanFinal \/ Enqueue \/ Touch \/ Delete \/ Expire
           \/ \E c \in Clusters : GuardResult(c) \/ CollectResult(c)
  BY <1>4 DEF PlanRunning, GetKubeEyeConfigFails, StartInspection, InspectionEnds,
              PlanFinal, Enqueue, Touch, Delete, Expire, GuardResult, CollectResult, taskVars, ctlVars
<1> QED
  BY <1>1, <1>2, <1>3, <1>4 DEF Next, Controller, Environment, CreateInspect, ClusterStep

(* Every step keeps what holds of the copies.                              *)
LEMMA CopyStep ==
    ASSUME TypeOK, CopyInv, BranchInv, Next
    PROVE  CopyInv'
<1>0. /\ task \in Task /\ cache \in Task /\ my \in Task /\ NewTask.ver = 0
      /\ task' \in Task /\ cache' \in Task /\ my' \in Task /\ WellFormed(NewTask)
  BY TypeStep DEF TypeOK, NewTask, WellFormed
<1>1. task.ver \in Nat /\ cache.ver \in Nat /\ my.ver \in Nat /\ task'.ver \in Nat
  BY <1>0 DEF Task
<1>2. ASSUME NEW t, t.ver \in Nat, CopyOf(t) PROVE t.ver <= task'.ver /\ (t.ver = task'.ver => t = task')
  BY <1>1, <1>2, TaskMoves DEF CopyOf
<1>3. WellFormed(task')
  BY TaskMoves, StatusIs DEF CopyInv, WellFormed, Kept, Started, Decided, Deleted, Gone
<1>4. CopyOf(cache)' /\ CopyOf(NewTask)'
  BY <1>0, <1>1, <1>2, Reads DEF CopyInv, CopyOf
<1>5. CopyOf(my)' /\ (my.ver <= cache.ver)'
  BY <1>0, <1>1, <1>2, Reads DEF CopyInv, CopyOf
<1>6. WellFormed(cache)' /\ WellFormed(my)'
  BY <1>0, <1>3, Reads DEF CopyInv, WellFormed
<1>7. task'.exists \/ task'.del
  BY TaskMoves DEF CopyInv, Kept, Started, Decided, Deleted, Gone
<1> QED BY <1>3, <1>4, <1>5, <1>6, <1>7 DEF CopyInv, WellFormed

-----------------------------------------------------------------------------
(* Where Reconcile is                                                      *)

(* A verdict, once it is told to the plan, stays while Reconcile ends.     *)
LEMMA VerdictKept ==
    ASSUME TypeOK, CopyInv, BranchInv, Next, ctl = "planFinal", phases' = phases
    PROVE  task'.status = GetStatus'
  BY TaskMoves DEF BranchInv, GetStatus, Kept, Started, Decided, Deleted, Gone

(* Every step keeps what holds in each branch of Reconcile.                *)
LEMMA BranchStep ==
    ASSUME TypeOK, CopyInv, BranchInv, Next
    PROVE  BranchInv'
<1> USE DEF Starting, Inspecting
<1>1. ASSUME UNCHANGED <<ctl, my, phases>> PROVE BranchInv'
  BY <1>1, VerdictKept DEF BranchInv
<1>2. ASSUME ctl' = "idle" PROVE BranchInv'
  BY <1>2 DEF BranchInv
<1>3. CASE Reconcile
  <2>1. cache \in Task /\ cache.status \in Status
    BY DEF TypeOK, Task
  <2>2. ctl' = Branch(cache) /\ my' = cache /\ WellFormed(cache)
    BY <1>3 DEF Reconcile, CopyInv
  <2> QED BY <2>1, <2>2 DEF BranchInv, Branch, Terminal, WellFormed, Status
<1>4. CASE AddFinalizer \/ DropFinalizer \/ SetEnd \/ SetStart \/ GetKubeEyeConfigFails
           \/ PlanFinal \/ Crash
  BY <1>2, <1>4 DEF AddFinalizer, DropFinalizer, SetEnd, SetStart, GetKubeEyeConfigFails,
                    PlanFinal, Crash, UpdateAndReturn, Return
<1>5. CASE PlanRunning
  BY <1>2, <1>5 DEF PlanRunning, Return, BranchInv
<1>6. CASE StartInspection \/ InspectionEnds
  BY <1>2, <1>6 DEF StartInspection, InspectionEnds, Return, BranchInv
<1>7. CASE SetStatus
  <2> DEFINE new == [my EXCEPT !.status = GetStatus]
  <2>1. CASE Accepted(new) /\ ctl' = "planFinal"
    <3>1. my \in Task /\ task \in Task /\ new \in Task /\ new.status = GetStatus
      BY StatusIs DEF TypeOK, Task
    <3> HIDE DEF new
    <3>2. task'.status = GetStatus
      BY <2>1, <3>1, StoredIs DEF Accepted
    <3>3. GetStatus' = GetStatus
      BY <1>7 DEF SetStatus, GetStatus
    <3> QED BY <2>1, <3>2, <3>3 DEF BranchInv
  <2> QED BY <1>2, <1>7, <2>1 DEF SetStatus, Return
<1>8. CASE ClusterStep
  <2>1. ctl = "inspect" /\ UNCHANGED <<taskVars, ctl, my>>
    BY <1>8, ClusterTypes
  <2> QED BY <2>1 DEF BranchInv
<1>9. CASE Sync \/ Enqueue \/ Touch \/ Delete \/ Expire
           \/ \E c \in Clusters : GuardResult(c) \/ CollectResult(c)
  BY <1>1, <1>9 DEF Sync, Enqueue, Touch, Delete, Expire, GuardResult, CollectResult, ctlVars
<1> QED
  BY <1>3, <1>4, <1>5, <1>6, <1>7, <1>8, <1>9
     DEF Next, Controller, Environment, CreateInspect, ClusterStep

-----------------------------------------------------------------------------
(* What wakes the controller                                               *)

(* Faults and edits are only counted up.                                   *)
LEMMA Disturbances ==
    ASSUME TypeOK, Next
    PROVE  (errors' = 0 => errors = 0) /\ (Undisturbed' => Undisturbed)
<1>0. errors \in Nat /\ touches \in Nat
  BY BoundsAssumption DEF TypeOK
<1>1. ASSUME errors' = errors \/ errors' = errors + 1, touches' = touches \/ touches' = touches + 1
      PROVE  (errors' = 0 => errors = 0) /\ (Undisturbed' => Undisturbed)
  BY <1>0, <1>1 DEF Undisturbed
<1>2. CASE ClusterStep
  BY <1>1, <1>2, ClusterTypes
<1>3. CASE AddFinalizer \/ DropFinalizer \/ SetEnd \/ SetStart \/ SetStatus
  BY <1>1, <1>3 DEF AddFinalizer, DropFinalizer, SetEnd, SetStart, SetStatus, UpdateAndReturn,
              Accepted, Refused, LostReply, Fault
<1>4. CASE Reconcile \/ PlanRunning \/ GetKubeEyeConfigFails \/ StartInspection \/ InspectionEnds
           \/ PlanFinal
  BY <1>1, <1>4 DEF Reconcile, PlanRunning, GetKubeEyeConfigFails, StartInspection, InspectionEnds,
              PlanFinal, Fault, faultVars
<1>5. CASE Sync \/ Enqueue \/ Touch \/ Delete \/ Expire \/ Crash
           \/ \E c \in Clusters : GuardResult(c) \/ CollectResult(c)
  BY <1>1, <1>5 DEF Sync, Enqueue, Touch, Delete, Expire, Crash, GuardResult, CollectResult, faultVars
<1> QED
  BY <1>2, <1>3, <1>4, <1>5 DEF Next, Controller, Environment, CreateInspect, ClusterStep

(* A change of the task finds the controller with nothing in its queue, or *)
(* the task deleted.                                                       *)
LEMMA WriteFresh ==
    ASSUME TypeOK, CopyInv, BranchInv, FreshInv, Next, Undisturbed', Active, Current,
           task' # task, cache' = cache, queued' = queued, wake' = wake, ~Active'
    PROVE  FreshInv'
<1>0. Undisturbed /\ my = task
  BY Disturbances, CurrentIs
<1>1. CASE ~task.del
  BY <1>0, <1>1 DEF FreshInv
<1>2. CASE task.del
  BY <1>0, <1>2, TaskMoves DEF FreshInv, Kept, Started, Decided, Deleted, Gone
<1> QED BY <1>1, <1>2

(* A write is refused only after the task has been deleted.                *)
LEMMA RefusedFresh ==
    ASSUME TypeOK, CopyInv, FreshInv, Next, Undisturbed', Active, ~Current, ~Active',
           task' = task, cache' = cache, queued' = queued, wake' = wake \cup {"retry"}
    PROVE  FreshInv'
<1>0. Undisturbed
  BY Disturbances
<1>1. task.del
  BY <1>0 DEF FreshInv, CopyInv, Current
<1> QED BY <1>0, <1>1 DEF FreshInv

(* Every step keeps an undisturbed controller on the last version.         *)
LEMMA FreshStep ==
    ASSUME TypeOK, CopyInv, BranchInv, FreshInv, Next
    PROVE  FreshInv'
<1> SUFFICES ASSUME Undisturbed' PROVE FreshInv'
  BY DEF FreshInv
<1>0. Undisturbed /\ errors = 0 /\ errors' = 0 /\ touches = 0 /\ touches' = 0
  BY Disturbances DEF Undisturbed
<1>1. ASSUME UNCHANGED <<task, cache, queued, wake, my>>, Active' => Active PROVE FreshInv'
  BY <1>0, <1>1 DEF FreshInv
<1>2. ~Fault
  BY <1>0 DEF Fault
<1>3. ASSUME NEW new \in Task PROVE Stored(new) # task
  <2>1. task \in Task /\ task.ver \in Nat
    BY DEF TypeOK, Task
  <2> QED BY <1>3, <2>1, StoredIs
<1>4. ASSUME NEW new \in Task, UpdateAndReturn(new), Active PROVE FreshInv'
  <2>1. CASE Accepted(new) /\ Return(FALSE)
    BY <1>3, <1>4, <2>1, WriteFresh DEF Accepted, Return, Active
  <2>2. CASE Refused /\ Return(TRUE)
    BY <1>2, <1>4, <2>2, RefusedFresh DEF Refused, Return, Active
  <2> QED BY <1>2, <1>4, <2>1, <2>2 DEF UpdateAndReturn, LostReply
<1>5. CASE AddFinalizer \/ DropFinalizer \/ SetEnd \/ SetStart
  <2>1. my \in Task
    BY DEF TypeOK
  <2> QED BY <1>4, <1>5, <2>1, Writes, StatusIs DEF AddFinalizer, DropFinalizer, SetEnd, SetStart, Active
<1>6. CASE SetStatus
  <2> DEFINE new == [my EXCEPT !.status = GetStatus]
  <2>1. new \in Task
    BY Writes, StatusIs DEF TypeOK
  <2> HIDE DEF new
  <2>2. Active
    BY <1>6 DEF SetStatus, Active
  <2>3. CASE Accepted(new) /\ ctl' = "planFinal" /\ UNCHANGED <<queued, wake>>
    BY <1>3, <2>1, <2>2, <2>3, WriteFresh DEF Accepted, Active
  <2>4. CASE Refused /\ Return(TRUE)
    BY <1>2, <2>2, <2>4, RefusedFresh DEF Refused, Return, Active
  <2> QED BY <1>2, <1>6, <2>3, <2>4 DEF SetStatus, LostReply, new
<1>7. CASE Reconcile
  BY <1>0, <1>7 DEF Reconcile, FreshInv, Active
<1>8. CASE PlanRunning \/ GetKubeEyeConfigFails \/ StartInspection \/ PlanFinal
  BY <1>1, <1>2, <1>8 DEF PlanRunning, GetKubeEyeConfigFails, StartInspection, PlanFinal, Return,
                          Active, taskVars
<1>9. CASE InspectionEnds
  <2>1. CASE ctl' = "setStatus"
    BY <1>1, <1>9, <2>1 DEF InspectionEnds, Return, Active
  <2>2. CASE Return(TRUE)
    BY <1>0, <1>9, <2>2 DEF InspectionEnds, Return, FreshInv, Active
  <2> QED BY <1>9, <2>1, <2>2 DEF InspectionEnds
<1>10. CASE ClusterStep
  BY <1>1, <1>10, ClusterTypes DEF taskVars, Active
<1>11. CASE Sync
  BY <1>0, <1>11 DEF Sync, FreshInv, Active, ctlVars
<1>12. CASE Enqueue
  BY <1>0, <1>12 DEF Enqueue, FreshInv, Active, ctlVars
<1>13. CASE Touch
  BY <1>0, <1>13 DEF Touch
<1>14. CASE Delete
  <2>1. task'.del /\ task'.status = task.status
    <3>1. [task EXCEPT !.del = TRUE] \in Task /\ [task EXCEPT !.del = TRUE].del
          /\ [task EXCEPT !.del = TRUE].status = task.status /\ task \in Task
      BY DEF TypeOK, Task
    <3> QED BY <1>14, <3>1, StoredIs DEF Delete
  <2> QED BY <1>0, <1>14, <2>1 DEF Delete, FreshInv, Active, ctlVars
<1>15. CASE Crash
  BY <1>15 DEF Crash, FreshInv, Active
<1>16. CASE Expire \/ \E c \in Clusters : GuardResult(c) \/ CollectResult(c)
  BY <1>1, <1>16 DEF Expire, GuardResult, CollectResult, taskVars, ctlVars, Active
<1> QED
  BY <1>5, <1>6, <1>7, <1>8, <1>9, <1>10, <1>11, <1>12, <1>13, <1>14, <1>15, <1>16
     DEF Next, Controller, Environment, CreateInspect, ClusterStep

-----------------------------------------------------------------------------
(* The report behind a verdict                                             *)

(* The task is not there again once it is gone.                            *)
LEMMA StaysGone ==
    ASSUME TypeOK, CopyInv, BranchInv, Next, task'.exists
    PROVE  task.exists
  BY TaskMoves DEF Kept, Started, Decided, Deleted, Gone

(* The steps of a cluster's goroutine keep the records and reports         *)
(* together.                                                               *)
LEMMA ClusterReport ==
    ASSUME TypeOK, ReportInv, ClusterStep, errors = 0, errors' = 0
    PROVE  ReportInv'
<1>0. /\ ctl = "inspect" /\ ctl' = "inspect" /\ task' = task
      /\ cpc \in [Clusters -> ClusterLabel] /\ result \in [Clusters -> ResultState]
      /\ file \in [Clusters -> BOOLEAN]
  BY ClusterTypes DEF TypeOK, taskVars
<1>1. PICK c \in Clusters :
        \/ GetMultiClusterClient(c) \/ InitConfig(c) \/ GenerateResult(c) \/ PoolReturns(c)
        \/ CreateResult(c) \/ CleanConfig(c) \/ PoolSaves(c) \/ CallFails(c)
  BY DEF ClusterStep
<1> USE DEF At, To, outVars, ctlVars
<1>2. CASE GetMultiClusterClient(c) \/ InitConfig(c)
  BY <1>0, <1>2 DEF GetMultiClusterClient, InitConfig, ReportInv, Reported
<1>3. CASE GenerateResult(c)
  BY <1>0, <1>3 DEF GenerateResult, ReportInv, Reported
<1>4. CASE PoolReturns(c)
  <2>1. PICK p \in PoolOutcomes(c) : phases' = phases \cup p \/ phases' = p
    BY <1>4 DEF PoolReturns
  <2>2. /\ cpc[c] \in {"pool", "refused"} /\ cpc'[c] = "create" /\ UNCHANGED <<file, result>>
        /\ \A d \in Clusters \ {c} : cpc'[d] = cpc[d]
    BY <1>0, <1>4 DEF PoolReturns
  <2>3. ASSUME NEW d \in Clusters, Reported(d) PROVE Reported(d)'
    BY <1>0, <2>2, <2>3 DEF Reported
  <2>4. "Succeeded" \in p => Reported(c)'
    BY <1>0, <2>2 DEF PoolOutcomes, Reported
  <2>5. "Succeeded" \in phases' /\ task'.exists => \E d \in Clusters : Reported(d)'
    BY <1>0, <2>1, <2>3, <2>4 DEF ReportInv
  <2>6. \A d \in Clusters : cpc'[d] = "err" /\ task'.exists => result'[d] # "none"
    BY <1>0, <2>2 DEF ReportInv
  <2> QED BY <1>0, <2>5, <2>6 DEF ReportInv
<1>5. CASE CreateResult(c)
  <2>1. /\ cpc[c] = "create" /\ cpc'[c] \in {"clean", "err"} /\ UNCHANGED <<file, phases>>
        /\ result'[c] # "none"
        /\ \A d \in Clusters \ {c} : cpc'[d] = cpc[d] /\ result'[d] = result[d]
    BY <1>0, <1>5 DEF CreateResult, ResultState
  <2>2. ASSUME NEW d \in Clusters, Reported(d) PROVE Reported(d)'
    BY <1>0, <2>1, <2>2 DEF Reported
  <2>3. \A d \in Clusters : cpc'[d] = "err" /\ task'.exists => result'[d] # "none"
    BY <1>0, <2>1 DEF ReportInv
  <2> QED BY <1>0, <2>1, <2>2, <2>3 DEF ReportInv
<1>6. CASE CleanConfig(c) \/ PoolSaves(c)
  BY <1>0, <1>6 DEF CleanConfig, PoolSaves, ReportInv, Reported
<1>7. CASE CallFails(c)
  BY <1>7 DEF CallFails, Fault
<1> QED BY <1>1, <1>2, <1>3, <1>4, <1>5, <1>6, <1>7

(* Steps that leave the goroutines of the clusters alone.                  *)
LEMMA OtherReport ==
    ASSUME TypeOK, CopyInv, BranchInv, ReportInv, Next, UNCHANGED <<cpc, phases, file, result>>,
           ctl' = ctl \/ ctl' \notin {"inspect", "setStatus"}
    PROVE  ReportInv'
  BY StaysGone, Disturbances DEF ReportInv, Reported

(* Every step keeps a report behind a record of success.                   *)
LEMMA ReportStep ==
    ASSUME TypeOK, CopyInv, BranchInv, ReportInv, Next
    PROVE  ReportInv'
<1>1. CASE errors' # 0
  BY <1>1 DEF ReportInv
<1>2. CASE ClusterStep
  BY <1>1, <1>2, ClusterReport, Disturbances
<1>3. CASE AddFinalizer \/ DropFinalizer \/ SetEnd \/ SetStart \/ SetStatus
  BY <1>3, OtherReport DEF AddFinalizer, DropFinalizer, SetEnd, SetStart, SetStatus, UpdateAndReturn,
              Return, outVars
<1>4. CASE PlanRunning \/ GetKubeEyeConfigFails \/ PlanFinal
  BY <1>4, OtherReport DEF PlanRunning, GetKubeEyeConfigFails, PlanFinal, Return, outVars
<1>5. CASE Reconcile
  BY <1>5, OtherReport DEF Reconcile, Branch, outVars
<1>6. CASE Sync \/ Enqueue \/ Touch \/ Delete \/ Expire
  BY <1>6, OtherReport DEF Sync, Enqueue, Touch, Delete, Expire, ctlVars, outVars
<1>7. CASE Crash
  BY <1>7 DEF Crash, ReportInv
<1>8. CASE StartInspection
  BY <1>8 DEF StartInspection, ReportInv
<1>9. CASE InspectionEnds
  <2>1. CASE ctl' = "idle"
    BY <2>1 DEF ReportInv
  <2>2. CASE ctl' = "setStatus"
    <3>1. ctl = "inspect" /\ UNCHANGED <<phases, file, result, task, errors>>
      BY <1>9, <2>2 DEF InspectionEnds, outVars, faultVars
    <3>2. \A c \in Clusters : Reported(c) => Reported(c)'
      BY <1>9, <2>2, <3>1 DEF InspectionEnds, Reported
    <3> QED BY <2>2, <3>1, <3>2 DEF ReportInv
  <2> QED BY <1>9, <2>1, <2>2 DEF InspectionEnds, Return
<1>10. CASE \E c \in Clusters : GuardResult(c)
  <2>1. /\ UNCHANGED <<ctl, cpc, phases, file>>
        /\ \A d \in Clusters : result[d] # "none" => result'[d] # "none"
    BY <1>10 DEF GuardResult, TypeOK, ResultState, ctlVars
  <2> QED BY <2>1, StaysGone, Disturbances DEF ReportInv, Reported
<1>11. CASE \E c \in Clusters : CollectResult(c)
  BY <1>11 DEF CollectResult, ReportInv, taskVars
<1> QED
  BY <1>2, <1>3, <1>4, <1>5, <1>6, <1>7, <1>8, <1>9, <1>10, <1>11
     DEF Next, Controller, Environment, CreateInspect, ClusterStep

(* Which steps touch InspectResults and reports.                           *)
LEMMA OutMoves ==
    ASSUME Next
    PROVE  \/ UNCHANGED <<result, file>>
           \/ ClusterStep
           \/ \E c \in Clusters : GuardResult(c) \/ CollectResult(c)
<1>1. CASE AddFinalizer \/ DropFinalizer \/ SetEnd \/ SetStart \/ SetStatus
  BY <1>1 DEF AddFinalizer, DropFinalizer, SetEnd, SetStart, SetStatus, UpdateAndReturn, outVars
<1>2. CASE Reconcile \/ PlanRunning \/ GetKubeEyeConfigFails \/ StartInspection
           \/ InspectionEnds \/ PlanFinal \/ Sync \/ Enqueue \/ Touch \/ Delete \/ Expire \/ Crash
  BY <1>2 DEF Reconcile, PlanRunning, GetKubeEyeConfigFails, StartInspection, InspectionEnds,
              PlanFinal, Sync, Enqueue, Touch, Delete, Expire, Crash, outVars
<1> QED
  BY <1>1, <1>2 DEF Next, Controller, Environment, CreateInspect, ClusterStep

(* The verdict Succeeded comes with a report, and nothing takes the report *)
(* away while the verdict stands.                                          *)
LEMMA SuccessStep ==
    ASSUME IInv, Next
    PROVE  ReportBehindSuccess'
<1> SUFFICES ASSUME task'.exists, task'.status = "Succeeded", Undisturbed'
             PROVE  \E c \in Clusters : result'[c] # "none" /\ file'[c]
  BY DEF ReportBehindSuccess, Undisturbed
<1>0. TypeOK /\ CopyInv /\ BranchInv /\ FreshInv /\ ReportInv /\ ReportBehindSuccess
  BY DEF IInv
<1>1. Undisturbed /\ errors = 0 /\ touches = 0 /\ task.exists
  BY <1>0, Disturbances, StaysGone DEF Undisturbed
<1>2. CASE task.status = "Succeeded"
  <2>1. PICK c \in Clusters : result[c] # "none" /\ file[c]
    BY <1>0, <1>1, <1>2 DEF ReportBehindSuccess
  <2>2. ~ClusterStep
    BY <1>0, <1>1, <1>2, ClusterTypes DEF FreshInv, BranchInv, Active, Inspecting
  <2>3. CASE \E d \in Clusters : GuardResult(d)
    BY <1>0, <2>1, <2>3 DEF GuardResult, TypeOK
  <2>4. ~\E d \in Clusters : CollectResult(d)
    BY <1>1 DEF CollectResult
  <2> QED BY <2>1, <2>2, <2>3, <2>4, OutMoves
<1>3. CASE task.status # "Succeeded"
  <2>1. task' # task /\ ctl = "setStatus" /\ GetStatus = "Succeeded"
    BY <1>0, <1>3, TaskMoves DEF Kept, Started, Decided, Deleted, Gone
  <2>2. "Succeeded" \in phases
    BY <1>0, <2>1 DEF GetStatus, TypeOK
  <2>3. PICK c \in Clusters : Reported(c)
    BY <1>0, <1>1, <2>1, <2>2 DEF ReportInv
  <2>4. result[c] # "none" /\ file[c]
    BY <2>1, <2>3 DEF Reported
  <2>5. ~ClusterStep
    BY <1>0, <2>1, ClusterTypes
  <2>6. ~\E d \in Clusters : GuardResult(d) \/ CollectResult(d)
    BY <2>1 DEF GuardResult, CollectResult, taskVars
  <2> QED BY <2>4, <2>5, <2>6, OutMoves
<1> QED BY <1>2, <1>3

-----------------------------------------------------------------------------
(* The theorems                                                            *)

(* The task as the plan's controller created it.                           *)
LEMMA NewTaskIs ==
    /\ NewTask.exists = TRUE /\ NewTask.ver = 0 /\ NewTask.del = FALSE
    /\ NewTask.started = FALSE /\ NewTask.status = ""
  BY DEF NewTask

(* The inductive invariant holds in every state.                           *)
THEOREM TaskInvariant == Spec => []IInv
<1>1. Init => IInv
  <2> SUFFICES ASSUME Init PROVE IInv
    OBVIOUS
  <2>1. task = NewTask /\ cache = NewTask /\ my = NewTask /\ ctl = "idle" /\ wake = {}
    BY DEF Init
  <2>2. CopyInv
    <3>1. NewTask.ver <= NewTask.ver
      <4>1. NewTask.ver = 0
        BY NewTaskIs
      <4> QED BY <4>1
    <3>2. CopyOf(NewTask)
      BY <2>1, <3>1, Zenon DEF CopyOf
    <3>3. WellFormed(NewTask)
      BY NewTaskIs DEF WellFormed
    <3>4. NewTask.exists
      BY NewTaskIs, Zenon
    <3> QED BY <2>1, <3>1, <3>2, <3>3, <3>4, Zenon DEF CopyInv
  <2>3. BranchInv
    BY <2>1 DEF BranchInv, Starting, Inspecting
  <2>5. FreshInv
    BY <2>1 DEF FreshInv, Active
  <2>4. ReportInv /\ ReportBehindSuccess
    BY <2>1, NewTaskIs DEF ReportInv, ReportBehindSuccess
  <2> QED BY <2>2, <2>3, <2>4, <2>5, InitTypes DEF IInv
<1>2. IInv /\ [Next]_vars => IInv'
  <2>1. IInv /\ Next => IInv'
    BY TypeStep, CopyStep, BranchStep, FreshStep, ReportStep, SuccessStep DEF IInv
  <2>2. IInv /\ UNCHANGED vars => IInv'
    <3> SUFFICES ASSUME IInv, UNCHANGED vars PROVE IInv'
      OBVIOUS
    <3> USE DEF vars, taskVars, ctlVars, outVars, faultVars
    <3>1. TypeOK' /\ CopyInv'
      BY DEF IInv, TypeOK, CopyInv, CopyOf, WellFormed
    <3>2. BranchInv' /\ FreshInv'
      BY DEF IInv, BranchInv, GetStatus, FreshInv, Undisturbed, Active
    <3>3. ReportInv' /\ ReportBehindSuccess'
      BY DEF IInv, ReportInv, Reported, ReportBehindSuccess
    <3> QED BY <3>1, <3>2, <3>3 DEF IInv
  <2> QED BY <2>1, <2>2
<1> QED BY <1>1, <1>2, PTL DEF Spec

(* SetStatus, createInspect: without failed calls and edits by others a    *)
(* task is Succeeded only with an InspectResult and a report behind it, in *)
(* any number of clusters and after any number of crashes.                 *)
THEOREM TaskReportBehindSuccess == Spec => []ReportBehindSuccess
  BY TaskInvariant, PTL DEF IInv

-----------------------------------------------------------------------------
(* The refinement of TaskPromise                                           *)

(* What a plan hears of its task.                                          *)
LEMMA PlanMoves ==
    ASSUME TypeOK, Next
    PROVE  \/ plan' = plan
           \/ task' = task /\ (plan' = "Running" \/ (ctl = "planFinal" /\ plan' = GetStatus))
<1>1. CASE AddFinalizer \/ DropFinalizer \/ SetEnd \/ SetStart \/ SetStatus
  BY <1>1 DEF AddFinalizer, DropFinalizer, SetEnd, SetStart, SetStatus, UpdateAndReturn
<1>2. CASE ClusterStep
  BY <1>2, ClusterTypes
<1>3. CASE PlanRunning \/ PlanFinal
  BY <1>3 DEF PlanRunning, PlanFinal
<1>4. CASE Reconcile \/ GetKubeEyeConfigFails \/ StartInspection \/ InspectionEnds
           \/ Sync \/ Enqueue \/ Touch \/ Delete \/ Expire \/ Crash
           \/ \E c \in Clusters : GuardResult(c) \/ CollectResult(c)
  BY <1>4 DEF Reconcile, GetKubeEyeConfigFails, StartInspection, InspectionEnds, Sync, Enqueue,
              Touch, Delete, Expire, Crash, GuardResult, CollectResult
<1> QED
  BY <1>1, <1>2, <1>3, <1>4 DEF Next, Controller, Environment, CreateInspect, ClusterStep

(* Every step of the controller and its environment is a step of the       *)
(* promise, or none.                                                       *)
LEMMA PromiseStep ==
    ASSUME IInv, Next
    PROVE  [Promise!Next]_(Promise!vars)
<1>0. TypeOK /\ CopyInv /\ BranchInv
  BY DEF IInv
<1>1. CASE task' # task
  <2>1. plan' = plan
    BY <1>0, <1>1, PlanMoves
  <2>2. Kept \/ Started \/ Decided \/ Deleted \/ Gone
    BY <1>0, <1>1, TaskMoves
  <2>3. /\ task.exists \in BOOLEAN /\ task'.exists \in BOOLEAN
        /\ task.del \in BOOLEAN /\ task'.del \in BOOLEAN
    BY <1>0, TypeStep DEF TypeOK, Task
  <2>4. CASE Kept
    <3>1. task'.exists = task.exists
      BY <2>3, <2>4 DEF Kept
    <3> QED BY <2>1, <2>4, <3>1 DEF Kept, Promise!vars
  <2>5. CASE Started
    <3>1. task'.exists = task.exists /\ task'.del = task.del
      BY <2>3, <2>5 DEF Started
    <3>2. Promise!Start
      BY <2>1, <2>5, <3>1 DEF Started, Promise!Start
    <3> QED BY <3>2 DEF Promise!Next
  <2>6. CASE Decided
    <3>1. task'.exists = task.exists /\ task'.del = task.del
      BY <2>3, <2>6 DEF Decided
    <3>2. Promise!Decide
      BY <2>1, <2>6, <3>1, StatusIs DEF Decided, Promise!Decide
    <3> QED BY <3>2 DEF Promise!Next
  <2>7. CASE Deleted
    <3>1. task'.del = TRUE
      BY <2>3, <2>7 DEF Deleted
    <3>2. Promise!Delete
      BY <2>1, <2>3, <2>7, <3>1 DEF Deleted, Promise!Delete
    <3> QED BY <3>2 DEF Promise!Next
  <2>8. CASE Gone
    <3>1. task'.exists = FALSE /\ task'.del = task.del
      BY <2>3, <2>8 DEF Gone
    <3>2. Promise!Go
      BY <2>1, <2>8, <3>1 DEF Gone, Promise!Go
    <3> QED BY <3>2 DEF Promise!Next
  <2> QED BY <2>2, <2>4, <2>5, <2>6, <2>7, <2>8
<1>2. CASE task' = task
  <2>1. CASE plan' = plan
    BY <1>2, <2>1 DEF Promise!vars
  <2>2. CASE plan' = "Running"
    BY <1>2, <2>2 DEF Promise!Next, Promise!Hear
  <2>3. CASE ctl = "planFinal" /\ plan' = GetStatus
    <3>1. task.status = GetStatus
      BY <1>0, <2>3 DEF BranchInv
    <3> QED BY <1>2, <2>3, <3>1, StatusIs DEF Promise!Next, Promise!Hear
  <2> QED BY <1>0, <2>1, <2>2, <2>3, PlanMoves
<1> QED BY <1>1, <1>2

(* The InspectTask controller implements TaskPromise: whatever conflicts,  *)
(* retries, lost replies, edits and crashes there are, the task starts     *)
(* once, gets one verdict, none after its deletion, and its plan is told   *)
(* nothing else.                                                           *)
THEOREM TaskKeepsPromise == Spec => KeepsPromise
<1>1. Init => Promise!Init
  BY NewTaskIs DEF Init, Promise!Init
<1>2. IInv /\ [Next]_vars => [Promise!Next]_(Promise!vars)
  <2>1. UNCHANGED vars => UNCHANGED Promise!vars
    BY DEF vars, taskVars, Promise!vars
  <2> QED BY <2>1, PromiseStep
<1> QED BY <1>1, <1>2, TaskInvariant, PTL DEF Spec, KeepsPromise, Promise!Spec
=============================================================================
