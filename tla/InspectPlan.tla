---------------------------- MODULE InspectPlan ----------------------------
(***************************************************************************)
(* The InspectPlan controller (pkg/controllers/inspectplan_controller.go): *)
(* Reconcile for one InspectPlan, which counts the plan at the rules it    *)
(* names, creates InspectTasks when they are due and trims old ones.       *)
(*                                                                         *)
(* The plan is read from a cache that lags behind the API server.  Others  *)
(* write it too: users, and the InspectTask controller, which reports the  *)
(* progress of a task into the plan's status.                              *)
(*                                                                         *)
(* Time is counted in minutes, because a task is named after the minute it *)
(* was created in.  Minute 0 stands for a time, or a name, that is unset.  *)
(***************************************************************************)
EXTENDS Integers, FiniteSets, Sequences, SequencesExt

CONSTANTS
    Rules,       \* names of InspectRules
    Installed,   \* the ones that exist
    RuleNames,   \* Spec.RuleNames at first, a sequence of rules
    RuleEdits,   \* what a user may change it to
    Cron,        \* Spec.Schedule is set, and Spec.Once is not
    Period,      \* a Schedule's period
    OnceAt,      \* Spec.Once; 1 if neither it nor Schedule is set
    Suspended,   \* Spec.Suspend at first
    MaxTasks,    \* Spec.MaxTasks, 0 if unset
    MaxMinute,   \* bound of the clock
    MaxEdits, MaxCrashes, MaxErrors,
    MaxStale,    \* calls of Reconcile by timer while the cache is outdated
    Absent       \* an annotation that is not there

ASSUME SpecAssumption ==
    /\ IsFiniteSet(Rules) /\ Installed \subseteq Rules
    /\ RuleNames \in Seq(Rules) /\ RuleEdits \subseteq Seq(Rules)
    /\ Cron \in BOOLEAN /\ Suspended \in BOOLEAN
    /\ Period \in Nat \ {0} /\ OnceAt \in Nat \ {0} /\ MaxTasks \in Nat

ASSUME BoundsAssumption ==
    /\ MaxMinute \in Nat \ {0}
    /\ MaxEdits \in Nat /\ MaxCrashes \in Nat /\ MaxErrors \in Nat /\ MaxStale \in Nat

VARIABLES
    plan,     \* the InspectPlan in the API server
    cache,    \* the copy of it in the informer cache
    queued,   \* the work queue holds the plan's key
    timer,    \* the minute the key is to be queued at, or 0
    ctl,      \* where Reconcile is
    old, my,  \* the plan as this Reconcile read it, and as it changed it
    now,      \* the time this Reconcile read
    tasks,    \* tasks[m]: the task named after minute m
    tcache,   \* what the informer cache shows of the tasks
    count,    \* count[r]: the annotation join-plan-num of rule r
    lister,   \* the same in the lister's copy of the rule
    fresh,    \* the rules whose copy in the lister has the latest version
    minute,   \* the clock
    edits,    \* edits of the plan by users so far
    off,      \* the rules they have taken off it, put back or not
    crashes, errors, stale

queueVars == <<queued, timer>>
ctlVars   == <<ctl, old, my, now>>
taskVars  == <<tasks, tcache>>
ruleVars  == <<count, lister, fresh>>
editVars  == <<edits, off>>
faultVars == <<editVars, crashes, errors, stale>>
vars == <<plan, cache, queueVars, ctlVars, taskVars, ruleVars, minute, faultVars>>

-----------------------------------------------------------------------------
(* Types                                                                   *)

Minutes == 1..MaxMinute
Phase   == {"Pending", "Running", "Succeeded", "Failed"}
PlanStatus == Phase \cup {""}

Plan == [exists: BOOLEAN, ver: Nat, fin: BOOLEAN, del: BOOLEAN, suspend: BOOLEAN,
         ruleNames: Seq(Rules), labels: SUBSET Rules, ruleNum: Nat,
         status: PlanStatus, last: Nat, sched: Nat,
         names: Seq(Minutes \X Phase)]

NewPlan == [exists |-> TRUE, ver |-> 0, fin |-> FALSE, del |-> FALSE,
            suspend |-> Suspended, ruleNames |-> RuleNames, labels |-> {},
            ruleNum |-> 0, status |-> "", last |-> 0, sched |-> 0, names |-> <<>>]

TaskState == {"none", "Pending", "Running", "Succeeded", "Failed", "deleted"}

(* What Reconcile sees of a task: whether it is there, and its verdict.    *)
View == [m \in DOMAIN tasks |->
            IF tasks[m] \in {"Pending", "Running"} THEN "open" ELSE tasks[m]]
Live(state) == state \notin {"none", "deleted"}

CtlLabel == {"idle", "addFinalizer", "release", "dropFinalizer", "addRules",
             "subRules", "updateRules", "setPending", "create", "clean", "write"}

Init ==
    /\ plan = NewPlan /\ cache = NewPlan /\ queued = TRUE /\ timer = 0
    /\ ctl = "idle" /\ old = NewPlan /\ my = NewPlan /\ now = 1
    /\ tasks = [m \in Minutes |-> "none"] /\ tcache = tasks
    /\ count = [r \in Rules |-> Absent] /\ lister = count /\ fresh = Rules
    /\ minute = 1
    /\ edits = 0 /\ off = {} /\ crashes = 0 /\ errors = 0 /\ stale = 0

-----------------------------------------------------------------------------
(* The API server and the work queue                                       *)

Fault == errors < MaxErrors /\ errors' = errors + 1

(* An accepted write.  One that changes nothing makes no new version, and  *)
(* so no event; a deleted plan without its finalizer is gone.              *)
Stored(new) ==
    IF new = [plan EXCEPT !.ver = new.ver] THEN plan
    ELSE [new EXCEPT !.ver = plan.ver + 1, !.exists = ~(new.del /\ ~new.fin)]

Earliest(t) == IF timer = 0 \/ t < timer THEN t ELSE timer

(* Reconcile returns, for good or to be called again at minute t; its      *)
(* local variables are no more.                                            *)
Leave        == ctl' = "idle" /\ old' = NewPlan /\ my' = NewPlan /\ now' = 1
Return       == Leave /\ UNCHANGED timer
RequeueAt(t) == Leave /\ timer' = Earliest(t)
ReturnError  == RequeueAt(minute)

Current == plan.exists /\ old.ver = plan.ver

(* Update or Status().Update of new, and Reconcile's return.               *)
UpdateAndReturn(new) ==
    /\ \/ Current /\ plan' = Stored(new) /\ Return /\ UNCHANGED errors
       \/ ~Current /\ ReturnError /\ UNCHANGED <<plan, errors>>
       \/ Current /\ Fault /\ plan' \in {plan, Stored(new)} /\ ReturnError
    /\ UNCHANGED <<cache, queued, taskVars, ruleVars, minute, editVars, crashes, stale>>

-----------------------------------------------------------------------------
(* What Reconcile decides                                                  *)

(* GetUpdatePlanRule takes the labels away one by one along RuleNames; the *)
(* names it meets once no label is left are new.  Labels that remain at    *)
(* the end are of rules to be dropped.                                     *)
LabelsAfter(p, i) == p.labels \ {p.ruleNames[j] : j \in 1..i}
Dropped(p) == LabelsAfter(p, Len(p.ruleNames))
Joined(p)  == {p.ruleNames[i] : i \in {j \in DOMAIN p.ruleNames : LabelsAfter(p, j - 1) = {}}}

(* nextScheduledTimeDuration.                                              *)
NextTime(t) == (t \div Period + 1) * Period

Due(p) ==
    IF Cron THEN p.sched = 0 \/ NextTime(p.sched) <= minute
    ELSE p.last = 0 /\ OnceAt <= minute

(* Faulty variant: a plan that is not due is not requeued.                 *)
WaitsUntilNever(p) == 0

(* When a plan that is not due is looked at again; 0 is never.             *)
WaitsUntil(p) ==
    CASE Cron               -> NextTime(minute)
      [] ~Cron /\ p.last = 0 -> OnceAt
      [] OTHER              -> 0

(* What a plan that is not being deleted calls for; "idle" is a return.    *)
Upkeep(p) ==
    CASE ~p.fin                                  -> "addFinalizer"
      [] p.fin /\ Dropped(p) # {}                -> "subRules"
      [] p.fin /\ Dropped(p) = {} /\ Joined(p) # {} -> "addRules"
      [] OTHER -> CASE p.status = ""               -> "setPending"
                    [] p.status # "" /\ p.suspend  -> "idle"
                    [] OTHER -> IF Due(p) THEN "create" ELSE "wait"

(* Faulty variant: a plan that has its task is left alone even when it is  *)
(* being deleted.                                                          *)
BranchDoneFirst(p) ==
    CASE ~p.exists \/ p.last # 0          -> "idle"
      [] p.exists /\ p.last = 0 /\ p.del  -> "release"
      [] OTHER                            -> Upkeep(p)

(* The branch Reconcile takes for the plan p it read.                      *)
Branch(p) ==
    CASE ~p.exists          -> "idle"
      [] p.exists /\ p.del  -> "release"
      [] OTHER              -> Upkeep(p)

Reconcile ==
    /\ ctl = "idle" /\ queued
    /\ queued' = FALSE
    /\ CASE Branch(cache) = "idle" -> Return
         [] Branch(cache) = "wait" -> IF WaitsUntil(cache) = 0 THEN Return
                                      ELSE RequeueAt(WaitsUntil(cache))
         [] OTHER -> /\ ctl' = Branch(cache) /\ UNCHANGED timer
                     /\ old' = cache /\ my' = cache /\ now' = minute
    /\ UNCHANGED <<plan, cache, taskVars, ruleVars, minute, faultVars>>

AddFinalizer == ctl = "addFinalizer" /\ UpdateAndReturn([my EXCEPT !.fin = TRUE])

SetPending == ctl = "setPending" /\ UpdateAndReturn([my EXCEPT !.status = "Pending"])

-----------------------------------------------------------------------------
(* Counting the plan at its rules                                          *)

OneMore(n) == IF n = Absent THEN 1 ELSE n + 1

(* Faulty variant: the count may go below zero.                            *)
OneLessUnchecked(n) == IF n = Absent THEN 1 ELSE n - 1

OneLess(n) == IF n = Absent THEN 1 ELSE IF n > 0 THEN n - 1 ELSE 0

(* What the copies in the lister become.                                   *)
Raised  == [r \in Rules |-> OneMore(lister[r])]
Lowered == [r \in Rules |-> OneLess(lister[r])]

(* Get from the lister, change, Update, rule by rule; a rule that is not   *)
(* there is skipped.  The change is made to the lister's own copy, so it   *)
(* stays there when the Update fails, as it does on an outdated copy.      *)
Recount(rules, changed, ok) ==
    LET there == rules \cap Installed IN
    /\ ok \subseteq there \cap fresh
    /\ IF ok = there \cap fresh THEN UNCHANGED errors ELSE Fault
    /\ lister' = [r \in Rules |-> IF r \in there THEN changed[r] ELSE lister[r]]
    /\ count' = [r \in Rules |-> IF r \in ok THEN lister'[r] ELSE count[r]]
    /\ fresh' = fresh \ {r \in ok : count'[r] # count[r]}
    /\ UNCHANGED <<plan, cache, queueVars, old, now, taskVars, minute, editVars, crashes, stale>>

(* Faulty variant: the label is set even when the rule's Update failed.    *)
updateAddRuleReferNumAlways ==
    /\ ctl = "addRules" /\ ctl' = "updateRules"
    /\ \E ok \in SUBSET Joined(my) :
         /\ Recount(Joined(my), Raised, ok)
         /\ my' = [my EXCEPT !.labels = @ \cup Joined(my), !.ruleNum = Len(my.ruleNames)]

updateAddRuleReferNum ==
    /\ ctl = "addRules" /\ ctl' = "updateRules"
    /\ \E ok \in SUBSET Joined(my) :
         /\ Recount(Joined(my), Raised, ok)
         /\ my' = [my EXCEPT !.labels = @ \cup ok, !.ruleNum = Len(my.ruleNames)]

(* The plan's own label of a dropped rule stays.                           *)
updateSubRuleReferNum ==
    /\ ctl = "subRules" /\ ctl' = "updateRules"
    /\ \E ok \in SUBSET Dropped(my) : Recount(Dropped(my), Lowered, ok)
    /\ my' = [my EXCEPT !.ruleNum = Len(my.ruleNames)]

UpdateRules == ctl = "updateRules" /\ UpdateAndReturn(my)

(* A deleted plan: every rule it names is recounted, then it is let go.    *)
ReleaseRules ==
    /\ ctl = "release" /\ ctl' = "dropFinalizer"
    /\ \E ok \in SUBSET ToSet(my.ruleNames) : Recount(ToSet(my.ruleNames), Lowered, ok)
    /\ my' = [my EXCEPT !.fin = FALSE]

DropFinalizer == ctl = "dropFinalizer" /\ UpdateAndReturn(my)

-----------------------------------------------------------------------------
(* Creating a task                                                         *)

(* GetStatus of a task: one without records yet is Failed.                 *)
GetStatus(state) == IF state = "Succeeded" THEN "Succeeded" ELSE "Failed"

(* The plan's status with task m, as updateStatus (a single inspection) or *)
(* the end of Reconcile (a periodic one) makes it.                         *)
WithTask(p, m, phase) ==
    LET known == {i \in DOMAIN p.names : p.names[i][1] = m} IN
    IF Cron
    THEN [p EXCEPT !.names = Append(@, <<m, phase>>), !.last = m,
                   !.sched = now, !.status = "Pending"]
    ELSE [p EXCEPT !.last = m, !.sched = minute, !.status = phase,
                   !.names = IF known = {} THEN Append(@, <<m, phase>>)
                             ELSE [@ EXCEPT ![Min(known)] = <<m, phase>>]]

AfterCreate == IF Cron /\ MaxTasks > 0 THEN "clean" ELSE "write"

(* createInspectTask: the task is looked up in the cache by the name of    *)
(* the current minute.  Creating one that the cache does not show yet, or  *)
(* any other failure, is an error.                                         *)
FindTask ==
    /\ ctl = "create" /\ Live(tcache[minute])
    /\ my' = WithTask(my, minute, GetStatus(tcache[minute]))
    /\ ctl' = AfterCreate
    /\ UNCHANGED <<plan, cache, queueVars, old, now, taskVars, ruleVars, minute, faultVars>>

CreateTask ==
    /\ ctl = "create" /\ ~Live(tcache[minute]) /\ tasks[minute] = "none"
    /\ tasks' = [tasks EXCEPT ![minute] = "Pending"]
    /\ my' = WithTask(my, minute, "Pending")
    /\ ctl' = AfterCreate
    /\ UNCHANGED <<plan, cache, queueVars, old, now, tcache, ruleVars, minute, faultVars>>

CreateTaskFails ==
    /\ ctl = "create" /\ ~Live(tcache[minute])
    /\ IF tasks[minute] = "none" THEN Fault ELSE UNCHANGED errors
    /\ ReturnError
    /\ UNCHANGED <<plan, cache, queued, taskVars, ruleVars, minute, editVars, crashes, stale>>

(* Faulty variant: a task that has not failed has succeeded.               *)
ConvertedHopeful(m) == <<m, IF tcache[m] = "Failed" THEN "Failed" ELSE "Succeeded">>

(* ConvertTaskStatus: a task without an end is Pending.                    *)
Converted(m) ==
    <<m, IF tcache[m] \in {"Succeeded", "Failed"} THEN GetStatus(tcache[m]) ELSE "Pending">>

Listed == {m \in Minutes : Live(tcache[m])}
Newest(S, n) == {m \in S : Cardinality({k \in S : k > m}) < n}
InOrder(S, i) == CHOOSE m \in S : Cardinality({k \in S : k < m}) = i - 1

(* Faulty variant: one task too many is deleted.                           *)
KeptOneShort == Newest(Listed, MaxTasks - 1)

(* The tasks cleanTask keeps.                                              *)
Kept == Newest(Listed, MaxTasks)

(* cleanTask, from the lister; a Delete that fails is only logged.         *)
cleanTask ==
    /\ ctl = "clean" /\ ctl' = "write"
    /\ \/ /\ tasks' = [m \in Minutes |-> IF m \in Listed \ Kept THEN "deleted" ELSE tasks[m]]
          /\ UNCHANGED errors
       \/ Listed # Kept /\ Fault /\ UNCHANGED tasks
    /\ my' = IF Cardinality(Listed) < MaxTasks THEN my
             ELSE [my EXCEPT !.names =
                      [i \in 1..Cardinality(Kept) |-> Converted(InOrder(Kept, i))]]
    /\ UNCHANGED <<plan, cache, queueVars, old, now, tcache, ruleVars, minute, editVars, crashes, stale>>

(* The merge patch from old to my: a field that this Reconcile changed     *)
(* replaces whatever the API server holds, whatever its version.           *)
Patched ==
    [plan EXCEPT !.names  = IF my.names = old.names THEN @ ELSE my.names,
                 !.last   = IF my.last = old.last THEN @ ELSE my.last,
                 !.sched  = IF my.sched = old.sched THEN @ ELSE my.sched,
                 !.status = IF my.status = old.status THEN @ ELSE my.status]

UpdateStatus == ctl = "write" /\ ~Cron /\ UpdateAndReturn(my)

PatchStatus ==
    /\ ctl = "write" /\ Cron
    /\ \/ plan.exists /\ plan' = Stored(Patched) /\ RequeueAt(minute) /\ UNCHANGED errors
       \/ ~plan.exists /\ ReturnError /\ UNCHANGED <<plan, errors>>
       \/ plan.exists /\ Fault /\ plan' \in {plan, Stored(Patched)} /\ ReturnError
    /\ UNCHANGED <<cache, queued, taskVars, ruleVars, minute, editVars, crashes, stale>>

-----------------------------------------------------------------------------
(* The InspectTask controller, as the plan sees it                         *)

(* updatePlanStatus.                                                       *)
Reported(m, phase) ==
    LET known == {i \in DOMAIN plan.names : plan.names[i][1] = m} IN
    Stored([plan EXCEPT !.status = phase,
                        !.names = IF known = {} THEN @
                                  ELSE [@ EXCEPT ![Min(known)] = <<m, phase>>]])

(* One task is inspected at a time.                                        *)
TaskRuns(m) ==
    /\ plan.exists /\ tasks[m] = "Pending"
    /\ \A k \in Minutes : tasks[k] # "Running"
    /\ tasks' = [tasks EXCEPT ![m] = "Running"]
    /\ plan' = Reported(m, "Running")
    /\ UNCHANGED <<cache, queueVars, ctlVars, tcache, ruleVars, minute, faultVars>>

(* The last report is not repeated when it fails.                          *)
TaskEnds(m) ==
    /\ tasks[m] = "Running"
    /\ \E verdict \in {"Succeeded", "Failed"} :
         /\ tasks' = [tasks EXCEPT ![m] = verdict]
         /\ \/ plan.exists /\ plan' = Reported(m, verdict) /\ UNCHANGED errors
            \/ ~plan.exists /\ UNCHANGED <<plan, errors>>
            \/ plan.exists /\ Fault /\ UNCHANGED plan
    /\ UNCHANGED <<cache, queueVars, ctlVars, tcache, ruleVars, minute, editVars, crashes, stale>>

-----------------------------------------------------------------------------
(* The environment                                                         *)

SyncPlan ==
    /\ cache # plan /\ cache' = plan /\ queued' = TRUE
    /\ UNCHANGED <<plan, timer, ctlVars, taskVars, ruleVars, minute, faultVars>>

SyncTasks ==
    /\ tcache # View /\ tcache' = View
    /\ UNCHANGED <<plan, cache, queueVars, ctlVars, tasks, ruleVars, minute, faultVars>>

SyncRules ==
    /\ <<lister, fresh>> # <<count, Rules>>
    /\ lister' = count /\ fresh' = Rules
    /\ UNCHANGED <<plan, cache, queueVars, ctlVars, taskVars, count, minute, faultVars>>

Wake ==
    /\ timer # 0 /\ timer <= minute
    /\ timer' = 0 /\ queued' = TRUE
    /\ \/ cache = plan /\ UNCHANGED stale
       \/ cache # plan /\ stale < MaxStale /\ stale' = stale + 1
    /\ UNCHANGED <<plan, cache, ctlVars, taskVars, ruleVars, minute, editVars, crashes, errors>>

Tick ==
    /\ minute < MaxMinute /\ minute' = minute + 1
    /\ UNCHANGED <<plan, cache, queueVars, ctlVars, taskVars, ruleVars, faultVars>>

Edit ==
    /\ plan.exists /\ ~plan.del /\ edits < MaxEdits /\ edits' = edits + 1
    /\ \/ \E names \in RuleEdits :
            /\ plan' = Stored([plan EXCEPT !.ruleNames = names])
            /\ off' = off \cup (ToSet(plan.ruleNames) \ ToSet(names))
       \/ plan' = Stored([plan EXCEPT !.suspend = ~@]) /\ UNCHANGED off
       \/ plan' = Stored([plan EXCEPT !.del = TRUE]) /\ UNCHANGED off
    /\ UNCHANGED <<cache, queueVars, ctlVars, taskVars, ruleVars, minute, crashes, errors, stale>>

(* The tasks carry an owner reference with the plan's UID: the garbage     *)
(* collector deletes those of a plan that is gone, one that a Reconcile    *)
(* has created after it included.                                          *)
CollectTasks ==
    /\ ~plan.exists /\ \E m \in Minutes : Live(tasks[m])
    /\ tasks' = [m \in Minutes |-> IF Live(tasks[m]) THEN "deleted" ELSE tasks[m]]
    /\ UNCHANGED <<plan, cache, queueVars, ctlVars, tcache, ruleVars, minute, faultVars>>

Crash ==
    /\ crashes < MaxCrashes /\ crashes' = crashes + 1
    /\ Leave
    /\ cache' = plan /\ tcache' = View /\ lister' = count /\ fresh' = Rules
    /\ queued' = TRUE /\ timer' = 0
    /\ UNCHANGED <<plan, tasks, count, minute, editVars, errors, stale>>

-----------------------------------------------------------------------------
(* The specification                                                       *)

Controller ==
    \/ Reconcile \/ AddFinalizer \/ SetPending
    \/ updateAddRuleReferNum \/ updateSubRuleReferNum \/ UpdateRules
    \/ ReleaseRules \/ DropFinalizer
    \/ FindTask \/ CreateTask \/ CreateTaskFails \/ cleanTask
    \/ UpdateStatus \/ PatchStatus

TaskController == \E m \in Minutes : TaskRuns(m) \/ TaskEnds(m)

Caches == SyncPlan \/ SyncTasks \/ SyncRules \/ Wake

Next == Controller \/ TaskController \/ Caches \/ Tick \/ Edit \/ CollectTasks \/ Crash

Spec == Init /\ [][Next]_vars

(* The controller runs, the caches catch up, time passes, the garbage      *)
(* collector of Kubernetes works.                                          *)
Fairness ==
    /\ WF_vars(Controller)
    /\ WF_vars(SyncPlan) /\ WF_vars(SyncTasks) /\ WF_vars(Wake)
    /\ WF_vars(Tick) /\ WF_vars(CollectTasks)

FairSpec == Spec /\ Fairness

-----------------------------------------------------------------------------
(* Properties                                                              *)

TypeOK ==
    /\ plan \in Plan /\ cache \in Plan /\ old \in Plan /\ my \in Plan
    /\ queued \in BOOLEAN /\ timer \in Nat /\ ctl \in CtlLabel /\ now \in Minutes
    /\ tasks \in [Minutes -> TaskState] /\ tcache \in [Minutes -> TaskState \cup {"open"}]
    /\ count \in [Rules -> Nat \cup {Absent}] /\ lister \in [Rules -> Nat \cup {Absent}]
    /\ fresh \subseteq Rules /\ off \subseteq Rules
    /\ minute \in Minutes

(* cleanTask, README.md "maximum number of retained inspection results":   *)
(* whatever the lister shows, a task is deleted only when MaxTasks newer   *)
(* ones have been created.                                                 *)
NewestAreKept ==
    [][\A m \in Minutes :
         plan.exists /\ Live(tasks[m]) /\ ~Live(tasks'[m])
            => Cardinality({k \in Minutes : k > m /\ tasks[k] # "none"}) >= MaxTasks]_vars

(* A task in such a state was created, and succeeded if that is recorded   *)
(* of it, and may be gone since.                                           *)
Told(state, phase) ==
    state # "none" /\ (phase = "Succeeded" => state \in {"Succeeded", "deleted"})

RecordsFollow(p, states) ==
    /\ \A e \in ToSet(p.names) : Told(states[e[1]], e[2])
    /\ p.status \notin {"", "Pending"} => \E m \in Minutes : Told(states[m], p.status)

(* PatchStatus, updateStatus, updatePlanStatus: the patch of the status,   *)
(* which carries no version, and the tasks in the lister may be outdated,  *)
(* so a phase recorded of a task may be taken back; but no success is      *)
(* recorded of a task that has not succeeded, nor is the plan said to run, *)
(* to succeed or to fail without a task of it.                             *)
RecordsFollowTasks == RecordsFollow(plan, tasks)

(* updateAddRuleReferNum: a plan that names a rule and bears its label is  *)
(* counted at that rule, whatever failed, conflicted or crashed on the     *)
(* way, and whatever the lister's copy held, unless the rule was taken off *)
(* the plan before: one that is put back is not counted anew, as the plan  *)
(* still bears its label.                                                  *)
LabelledIsCounted ==
    plan.exists /\ ~plan.del =>
        \A r \in (plan.labels \cap ToSet(plan.ruleNames)) \ off : count[r] \in Nat \ {0}

(* README.md "If only a single inspection is required": a plan without a   *)
(* schedule inspects once.                                                 *)
SingleInspection == ~Cron => Cardinality({m \in Minutes : tasks[m] # "none"}) <= 1

(* Such a plan does inspect, unless it is paused or deleted first, or is   *)
(* caught in one of two dead ends: a rule taken off the plan keeps its     *)
(* label, or the Update of a rule failed and that of the plan, which then  *)
(* changes nothing, causes no further Reconcile.                           *)
SingleRuns ==
    minute >= OnceAt ~> \/ \E m \in Minutes : tasks[m] # "none"
                        \/ plan.del \/ plan.suspend
                        \/ Dropped(plan) # {} \/ Joined(plan) # {}

(* README.md "the inspection will be performed every 30 minutes": every    *)
(* slot of the schedule is served.                                         *)
PeriodicRuns ==
    \A s \in Minutes : (minute >= s /\ s % Period = 0)
        ~> plan.sched >= s \/ plan.suspend \/ plan.del

(* Reconcile's deletion branch, and the owner reference that               *)
(* createInspectTask writes: a plan that is being deleted goes, whatever   *)
(* Reconcile was at, and the collector deletes its tasks, one that was     *)
(* created as the plan went included.  (A task's own finalizer is the      *)
(* matter of InspectTask.)                                                 *)
DeletedPlanGoes == plan.del ~> ~plan.exists /\ \A m \in Minutes : ~Live(tasks[m])

=============================================================================
