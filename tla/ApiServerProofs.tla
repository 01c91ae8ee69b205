-------------------------- MODULE ApiServerProofs --------------------------
(***************************************************************************)
(* Proofs about ApiServer, for any number of requests in progress and any  *)
(* number of deaths and failures: type correctness, the listers a process  *)
(* serves from, the counts of an import, the start of a plan, the bounds   *)
(* of a list and the walk over its pages.  They rest on versions: a copy   *)
(* with the version of the object is the object itself.                    *)
(***************************************************************************)
EXTENDS ApiServer, QueryProofs, FiniteSetTheorems

-----------------------------------------------------------------------------
(* The inductive invariant                                                 *)

(* A copy of the rule, in the manager's cache or in Reconcile's hands.     *)
CopyOf(c) == c.ver <= rule.ver /\ (c.exists /\ c.ver = rule.ver => c = rule)

(* Reconcile has read a rule that was in the state its branch is for.      *)
RuleInv ==
    /\ CopyOf(rcache) /\ CopyOf(rmy)
    /\ rctl # "idle" => rmy.exists
    /\ rctl = "start" => rmy.state = ""
    /\ rctl = "complete" => rmy.state = "StartImport"

(* How far a main function is tells which informers run and have synced.   *)
StartInv == \A p \in Process :
    /\ stage[p] >= 3 => informers[p] = Resource
    /\ stage[p] >= 4 => started[p] = Resource
    /\ stage[p] >= 5 => KeEyeGver \subseteq synced[p]

(* A request that has looked at the current version of the plan has seen   *)
(* that it may be started.                                                 *)
PlanInv ==
    /\ plist.ver <= plan.ver /\ (plist.exists /\ plist.ver = plan.ver => plist = plan)
    /\ \A q \in Requests : req[q] = "checked" =>
           seen[q] <= plan.ver /\ (seen[q] = plan.ver => ~Busy(plan))

IInv == TypeOK /\ RuleInv /\ StartInv /\ PlanInv

-----------------------------------------------------------------------------
(* The operators of the model                                              *)

(* ComputeLevel counts.                                                    *)
LEMMA LevelsAreNumbers == \A s \in Specs : ComputeLevel(s) \in [Level -> Nat]
<1> SUFFICES ASSUME NEW s \in Specs, NEW S \in SUBSET DOMAIN s
             PROVE  Cardinality(S) \in Nat
  BY DEF ComputeLevel
<1>1. s \in Seq(SpecItem)
  BY SpecsAssumption
<1>2. DOMAIN s = 1..Len(s) /\ Len(s) \in Nat
  BY <1>1
<1>3. IsFiniteSet(DOMAIN s)
  BY <1>2, FS_Interval
<1> QED BY <1>3, FS_Subset, FS_CardinalityType

(* The rule as it is created.                                              *)
LEMMA NewRuleIs ==
    ASSUME NEW s \in Specs
    PROVE  /\ NewRule(s) \in Rule /\ NewRule(s).ver = 0 /\ NewRule(s).state = ""
           /\ NewRule(s).spec = s
  BY DEF NewRule, Rule, ImportState, NoCount, Level

(* The empty entry of a cache.                                             *)
LEMMA NoRuleIs == NoRule \in Rule /\ NoRule.ver = 0 /\ ~NoRule.exists
<1> DEFINE r == NewRule(FirstSpec)
           n == [r EXCEPT !.exists = FALSE]
<1>1. r \in Rule /\ r.ver = 0
  BY NewRuleIs, SpecsAssumption
<1>2. NoRule = n
  BY DEF NoRule
<1> HIDE DEF r
<1>3. n \in Rule /\ n.ver = r.ver /\ ~n.exists
  BY <1>1 DEF Rule
<1> QED BY <1>1, <1>2, <1>3

(* What an accepted write of new makes of the rule.                        *)
LEMMA RuleStoredIs ==
    ASSUME rule \in Rule, NEW new \in Rule
    PROVE  /\ RuleStored(new) \in Rule /\ RuleStored(new).ver = rule.ver + 1
           /\ RuleStored(new).state = new.state /\ RuleStored(new).spec = new.spec
           /\ RuleStored(new).levels = new.levels
<1> DEFINE b == ~(new.del /\ ~new.fin)
           u == [new EXCEPT !.ver = rule.ver + 1]
           t == [u EXCEPT !.exists = b]
<1>1. b \in BOOLEAN /\ RuleStored(new) = t
  BY DEF RuleStored
<1> HIDE DEF b
<1>2. /\ u \in Rule /\ u.ver = rule.ver + 1 /\ u.state = new.state /\ u.spec = new.spec
      /\ u.levels = new.levels
  BY DEF Rule
<1> HIDE DEF u
<1>3. /\ t \in Rule /\ t.ver = u.ver /\ t.state = u.state /\ t.spec = u.spec
      /\ t.levels = u.levels
  BY <1>1, <1>2 DEF Rule
<1> QED BY <1>1, <1>2, <1>3

(* The informers of a process are those of its main function.              *)
LEMMA MainIs ==
    ASSUME NEW p \in Process, stage \in [Process -> 1..6]
    PROVE  /\ At(p, "clients") <=> stage[p] = 1
           /\ At(p, "forResources") <=> stage[p] = 2
           /\ At(p, "start") <=> stage[p] = 3
           /\ At(p, "waitKubeEye") <=> stage[p] = 4
           /\ At(p, "waitKubernetes") <=> stage[p] = 5
           /\ Up(p) <=> stage[p] = 6
<1>1. stage[p] \in {1, 2, 3, 4, 5, 6}
  OBVIOUS
<1>2. Main(p) = <<"clients", "forResources", "start", "waitKubeEye", "waitKubernetes", "up">>
  BY DEF Main, ManagerMain, ApiServerMain
<1> QED BY <1>1, <1>2 DEF At, Up
-----------------------------------------------------------------------------
(* What a step does to the rule, to the plan and to the processes          *)

RuleCreated == ~rule.exists /\ \E s \in Specs : rule' = [NewRule(s) EXCEPT !.ver = rule.ver + 1]

RuleEdited == rule.exists /\ \E s \in Specs : rule' = RuleStored([rule EXCEPT !.spec = s])

RuleDeleted == rule.exists /\ rule' = RuleStored([rule EXCEPT !.del = TRUE])

RuleOthers ==
    UNCHANGED <<rcache, rqueued, rctl, rmy, rfaults, startVars, plan, plist, rlist, req, seen>>

RuleWritten == (RuleCreated \/ RuleEdited \/ RuleDeleted) /\ RuleOthers

PlanWritten ==
    /\ plan' \in Plan /\ plan'.ver = plan.ver + 1
    /\ UNCHANGED <<ruleVars, startVars, plist, rlist, req, seen>>

Quiet == UNCHANGED <<ruleVars, startVars, plan, plist, rlist, req, seen>>

ListSynced ==
    /\ (plist' = plan /\ rlist' = rlist) \/ (rlist' = rule /\ plist' = plist)
    /\ UNCHANGED <<ruleVars, startVars, plan, req, seen>>

Moves ==
    \/ Quiet \/ RuleWritten \/ PlanWritten \/ ListSynced \/ Manager \/ Watch \/ ProcessDies
    \/ \E q \in Requests : PatchInspectPlanStatus(q) \/ PatchStatus(q)
    \/ \E p \in Process : Starting(p)

Counted ==
    /\ dirty' \in BOOLEAN /\ asked' \in 0..MaxRequests
    /\ answer' \in {"none", "ok", "error", "panic"}

(* A plan that is written gets the next version.                           *)
LEMMA PlanWrites ==
    ASSUME plan \in Plan, NEW s \in Phase
    PROVE  /\ NewPlan(plan.ver + 1) \in Plan /\ NewPlan(plan.ver + 1).ver = plan.ver + 1
           /\ [plan EXCEPT !.ver = @ + 1, !.suspend = ~@] \in Plan
           /\ [plan EXCEPT !.ver = @ + 1, !.suspend = ~@].ver = plan.ver + 1
           /\ [plan EXCEPT !.ver = @ + 1, !.exists = FALSE] \in Plan
           /\ [plan EXCEPT !.ver = @ + 1, !.exists = FALSE].ver = plan.ver + 1
           /\ [plan EXCEPT !.ver = @ + 1, !.status = s] \in Plan
           /\ [plan EXCEPT !.ver = @ + 1, !.status = s].ver = plan.ver + 1
<1> DEFINE u == [plan EXCEPT !.ver = plan.ver + 1]
           b == ~plan.suspend
<1>1. NewPlan(plan.ver + 1) \in Plan /\ NewPlan(plan.ver + 1).ver = plan.ver + 1
  <2>1. "" \in Phase
    BY DEF Phase
  <2>2. plan.ver + 1 \in Nat
    BY DEF Plan
  <2> DEFINE n == plan.ver + 1
  <2> HIDE DEF n
  <2>3. n \in Nat => NewPlan(n) \in Plan /\ NewPlan(n).ver = n
    BY <2>1 DEF NewPlan, Plan
  <2> QED BY <2>2, <2>3 DEF n
<1>2. b \in BOOLEAN /\ u \in Plan /\ u.ver = plan.ver + 1
  BY DEF Plan
<1>3. /\ [plan EXCEPT !.ver = @ + 1, !.suspend = ~@] = [u EXCEPT !.suspend = b]
      /\ [plan EXCEPT !.ver = @ + 1, !.exists = FALSE] = [u EXCEPT !.exists = FALSE]
      /\ [plan EXCEPT !.ver = @ + 1, !.status = s] = [u EXCEPT !.status = s]
  BY DEF Plan
<1> HIDE DEF u, b
<1>4. /\ [u EXCEPT !.suspend = b] \in Plan /\ [u EXCEPT !.suspend = b].ver = u.ver
      /\ [u EXCEPT !.exists = FALSE] \in Plan /\ [u EXCEPT !.exists = FALSE].ver = u.ver
      /\ [u EXCEPT !.status = s] \in Plan /\ [u EXCEPT !.status = s].ver = u.ver
  BY <1>2 DEF Plan
<1> QED BY <1>1, <1>2, <1>3, <1>4

(* Every step of the specification is one of these.                        *)
LEMMA Cases == ASSUME TypeOK, Next PROVE Moves /\ Counted
<1> USE DEF TypeOK
<1>1. ASSUME NEW a \in {"ok", "error", "panic"}, Reads(a) PROVE Quiet /\ Counted
  BY <1>1, RequestsAssumption DEF Reads, Arrives, Answers, listVars, Quiet, Counted
<1>2. ASSUME NEW b, NEW new \in Plan, new.ver = plan.ver + 1, WritesPlan(b, new)
      PROVE  (Quiet \/ PlanWritten) /\ Counted
  BY <1>2, RequestsAssumption
     DEF WritesPlan, Arrives, Answers, listVars, Quiet, PlanWritten, Counted
<1>3. ASSUME NEW b, NEW new, WritesRule(b, new)
      PROVE  (Quiet \/ (b /\ rule' = new /\ RuleOthers)) /\ Counted
  BY <1>3, RequestsAssumption
     DEF WritesRule, Arrives, Answers, listVars, Quiet, RuleOthers, ruleVars, Counted
<1>4. CASE Handler
  <2>1. CASE \/ ListInspectRule \/ ListInspectPlan \/ ListInspectTask \/ ListInspectResult
             \/ GetInspectRule \/ GetInspectPlan \/ GetInspectTask
             \/ DownloadInspectResult \/ GetRequestBody
             \/ DeleteInspectRule \/ DeleteInspectTask
    <3>1. \E a \in {"ok", "error", "panic"} : Reads(a)
      BY <2>1 DEF ListInspectRule, ListInspectPlan, List, ListInspectTask, ListInspectResult,
           GetInspectRule, GetInspectPlan, GetInspectTask, DownloadInspectResult,
           GetRequestBody, DeleteInspectRule, DeleteInspectTask
    <3> QED BY <1>1, <3>1 DEF Moves
  <2>2. CASE GetInspectResult
    BY <2>2, RequestsAssumption
       DEF GetInspectResult, Arrives, Answers, Moves, Quiet, Counted
  <2>3. CASE CreateInspectRule
    <3>0. PICK s \in Specs : WritesRule(~rule.exists, [NewRule(s) EXCEPT !.ver = rule.ver + 1])
      BY <2>3 DEF CreateInspectRule
    <3> DEFINE b == ~rule.exists
               n == [NewRule(s) EXCEPT !.ver = rule.ver + 1]
    <3>1. WritesRule(b, n)
      BY <3>0
    <3> HIDE DEF b, n
    <3>2. (Quiet \/ (b /\ rule' = n /\ RuleOthers)) /\ Counted
      BY <1>3, <3>1, Zenon
    <3>3. b /\ rule' = n => RuleCreated
      BY DEF b, n, RuleCreated
    <3> QED BY <3>2, <3>3 DEF Moves, RuleWritten
  <2>4. CASE UpdateInspectRule
    <3>0. PICK s \in Specs, current \in BOOLEAN :
            WritesRule(rule.exists /\ current, RuleStored([rule EXCEPT !.spec = s]))
      BY <2>4 DEF UpdateInspectRule
    <3> DEFINE b == rule.exists /\ current
               n == RuleStored([rule EXCEPT !.spec = s])
    <3>1. WritesRule(b, n)
      BY <3>0
    <3> HIDE DEF b, n
    <3>2. (Quiet \/ (b /\ rule' = n /\ RuleOthers)) /\ Counted
      BY <1>3, <3>1, Zenon
    <3>3. b /\ rule' = n => RuleEdited
      BY DEF b, n, RuleEdited
    <3> QED BY <3>2, <3>3 DEF Moves, RuleWritten
  <2>5. CASE CreateInspectPlan \/ UpdateInspectPlan \/ PatchInspectPlan \/ DeleteInspectPlan
    <3> DEFINE Good(n) == n \in Plan /\ n.ver = plan.ver + 1
    <3>0. ASSUME NEW n, Good(n), NEW b, WritesPlan(b, n) PROVE Moves /\ Counted
      BY <1>2, <3>0 DEF Moves
    <3>1. /\ Good(NewPlan(plan.ver + 1)) /\ Good([plan EXCEPT !.ver = @ + 1, !.suspend = ~@])
          /\ Good([plan EXCEPT !.ver = @ + 1, !.exists = FALSE])
      BY PlanWrites DEF Phase
    <3> HIDE DEF Good
    <3>2. CASE CreateInspectPlan
      BY <3>0, <3>1, <3>2, Zenon DEF CreateInspectPlan
    <3>3. CASE UpdateInspectPlan
      BY <3>0, <3>1, <3>3, Zenon DEF UpdateInspectPlan
    <3>4. CASE PatchInspectPlan
      BY <3>0, <3>1, <3>4, Zenon DEF PatchInspectPlan
    <3>5. CASE DeleteInspectPlan
      BY <3>0, <3>1, <3>5, Zenon DEF DeleteInspectPlan
    <3> QED BY <2>5, <3>2, <3>3, <3>4, <3>5
  <2>6. CASE \E q \in Requests : PatchInspectPlanStatus(q) \/ PatchStatus(q)
    BY <2>6, RequestsAssumption DEF PatchInspectPlanStatus, PatchStatus, Arrives, Answers,
         listVars, Moves, Counted
  <2> QED BY <1>4, <2>1, <2>2, <2>3, <2>4, <2>5, <2>6 DEF Handler
<1>5. CASE Manager \/ Watch \/ (ProcessDies /\ Answers("none"))
  BY <1>5 DEF Manager, Watch, ProcessDies, Answers, apiVars, listVars, reqVars, Moves, Counted
<1>6. CASE \E p \in Process : Starting(p)
  BY <1>6 DEF Starting, Answers, reqVars, Moves, Counted
<1>7. CASE SyncLists /\ Answers("none")
  BY <1>7 DEF SyncLists, SyncPlans, SyncRules, SyncResults, Answers, reqVars, Moves, Quiet,
              ListSynced, Counted
<1>8. CASE PlanMoves /\ Answers("none")
  <2>1. \E s \in Phase : plan' = [plan EXCEPT !.ver = @ + 1, !.status = s]
    BY <1>8 DEF PlanMoves, Phase
  <2> QED BY <1>8, <2>1, PlanWrites
             DEF PlanMoves, Answers, listVars, reqVars, Moves, PlanWritten, Counted
<1>9. CASE DeleteRule /\ Answers("none")
  BY <1>9, RequestsAssumption
     DEF DeleteRule, Answers, listVars, Moves, RuleWritten, RuleOthers, RuleDeleted, Counted
<1> QED BY <1>4, <1>5, <1>6, <1>7, <1>8, <1>9 DEF Next

-----------------------------------------------------------------------------
(* The rule                                                                *)

(* What Reconcile writes keeps the type.                                   *)
LEMMA RuleWrites ==
    ASSUME NEW r \in Rule, NEW s \in Specs, NEW levels \in [Level -> Nat]
    PROVE  /\ [r EXCEPT !.fin = TRUE] \in Rule /\ [r EXCEPT !.fin = FALSE] \in Rule
           /\ [r EXCEPT !.del = TRUE] \in Rule /\ [r EXCEPT !.spec = s] \in Rule
           /\ [r EXCEPT !.state = "StartImport"] \in Rule
           /\ [r EXCEPT !.state = "ImportComplete", !.levels = levels] \in Rule
           /\ [r EXCEPT !.ver = rule.ver + 1].state = r.state
           /\ rule \in Rule => /\ [r EXCEPT !.ver = rule.ver + 1] \in Rule
                               /\ [r EXCEPT !.ver = rule.ver + 1].ver = rule.ver + 1
<1>1. "StartImport" \in ImportState /\ "ImportComplete" \in ImportState
  BY DEF ImportState
<1> DEFINE C == [Level -> Nat]
<1> HIDE DEF C
<1>2. levels \in C /\ Rule = [exists: BOOLEAN, ver: Nat, fin: BOOLEAN, del: BOOLEAN,
                              spec: Specs, state: ImportState, levels: C]
  BY DEF C, Rule
<1>3. /\ [r EXCEPT !.fin = TRUE] \in Rule /\ [r EXCEPT !.fin = FALSE] \in Rule
      /\ [r EXCEPT !.del = TRUE] \in Rule /\ [r EXCEPT !.spec = s] \in Rule
  BY DEF Rule
<1>4. [r EXCEPT !.state = "StartImport"] \in Rule
  BY <1>1 DEF Rule
<1>5. [r EXCEPT !.state = "ImportComplete", !.levels = levels] \in Rule
  BY <1>1 DEF Rule
<1>6. /\ [r EXCEPT !.ver = rule.ver + 1].state = r.state
      /\ rule \in Rule => /\ [r EXCEPT !.ver = rule.ver + 1] \in Rule
                          /\ [r EXCEPT !.ver = rule.ver + 1].ver = rule.ver + 1
  BY DEF Rule
<1> QED BY <1>3, <1>4, <1>5, <1>6

(* How the rule changes: never without a new version, and its counts only  *)
(* with the import of the spec that is stored.                             *)
RuleChanges ==
    /\ rule' \in Rule
    /\ rule' = rule \/ rule'.ver = rule.ver + 1
    /\ rule'.state = "ImportComplete" =>
         \/ rule.state = "ImportComplete" /\ rule'.levels = rule.levels
         \/ /\ rule.exists /\ rule.state = "StartImport"
            /\ rule'.spec = rule.spec /\ rule'.levels = ComputeLevel(rule.spec)
    /\ rule.exists /\ rule.state = "ImportComplete" => rule'.state = "ImportComplete"

(* The controller's own part, and the copies it has.                       *)
LEMMA ControllerChanges ==
    ASSUME RuleTypeOK, RuleInv, RuleController
    PROVE  /\ RuleChanges /\ rcache' = rcache
           /\ rqueued' \in BOOLEAN /\ rctl' \in RuleLabel /\ rfaults' \in 0..MaxManagerFaults
           /\ \/ rctl' = "idle" /\ rmy' = NoRule
              \/ /\ rmy' = rcache /\ rule' = rule /\ rcache.exists
                 /\ rctl' = "start" => rcache.state = ""
                 /\ rctl' = "complete" => rcache.state = "StartImport"
<1> USE DEF RuleTypeOK
<1>1. ASSUME NEW new \in Rule, RuleUpdate(new), rctl # "idle",
             rmy = rule =>
               \/ new.state = rule.state /\ new.levels = rule.levels
               \/ new.state = "StartImport" /\ rule.state = ""
               \/ /\ new.state = "ImportComplete" /\ rule.state = "StartImport"
                  /\ new.spec = rule.spec /\ new.levels = ComputeLevel(rule.spec)
      PROVE  /\ RuleChanges /\ rcache' = rcache
             /\ rqueued' \in BOOLEAN /\ rctl' = "idle" /\ rmy' = NoRule
             /\ rfaults' \in 0..MaxManagerFaults
  <2>1. RuleCurrent => rmy = rule /\ rule.exists
    BY <1>1 DEF RuleCurrent, RuleInv, CopyOf
  <2>2. /\ rule' = rule \/ (RuleCurrent /\ rule' = RuleStored(new))
        /\ rqueued' \in BOOLEAN /\ rctl' = "idle" /\ rmy' = NoRule
        /\ rfaults' \in 0..MaxManagerFaults /\ rcache' = rcache
    <3>1. rqueued' = rqueued \/ rqueued' = TRUE
      BY <1>1 DEF RuleUpdate
    <3>2. rfaults' = rfaults \/ RuleFault
      BY <1>1 DEF RuleUpdate
    <3>3. rfaults' \in 0..MaxManagerFaults
      BY <3>2, FaultsAssumption DEF RuleFault
    <3>4. /\ rule' = rule \/ (RuleCurrent /\ rule' = RuleStored(new))
          /\ rctl' = "idle" /\ rmy' = NoRule /\ rcache' = rcache
      BY <1>1 DEF RuleUpdate
    <3> QED BY <3>1, <3>3, <3>4
  <2>3. CASE rule' = rule
    BY <2>2, <2>3 DEF RuleChanges
  <2>4. CASE RuleCurrent /\ rule' = RuleStored(new)
    BY <1>1, <2>1, <2>2, <2>4, RuleStoredIs DEF RuleChanges
  <2> QED BY <2>2, <2>3, <2>4
<1>2. CASE RuleReconcile
  <2>1. rctl' = RuleBranch(rcache) /\ rule' = rule /\ rcache' = rcache /\ rqueued' \in BOOLEAN
        /\ rfaults' = rfaults /\ rmy' = IF rctl' = "idle" THEN NoRule ELSE rcache
    BY <1>2 DEF RuleReconcile
  <2>2. RuleChanges
    BY <2>1 DEF RuleChanges
  <2>3. rcache.state \in ImportState
    BY DEF Rule
  <2>4. /\ RuleBranch(rcache) \in RuleLabel
        /\ RuleBranch(rcache) # "idle" => rcache.exists
        /\ RuleBranch(rcache) = "start" => rcache.state = ""
        /\ RuleBranch(rcache) = "complete" => rcache.state = "StartImport"
    BY <2>3 DEF RuleBranch, RuleLabel, ImportState
  <2> QED BY <2>1, <2>2, <2>4
<1>3. CASE AddFinalizer
  <2> DEFINE n == [rmy EXCEPT !.fin = TRUE]
  <2>1. n \in Rule
    BY RuleWrites, LevelsAreNumbers, SpecsAssumption
  <2>2. n.state = rmy.state /\ n.levels = rmy.levels
    BY DEF Rule
  <2>3. RuleUpdate(n) /\ rctl = "addFinalizer"
    BY <1>3 DEF AddFinalizer
  <2> HIDE DEF n
  <2> QED BY <1>1, <2>1, <2>2, <2>3 DEF RuleLabel
<1>4. CASE DropFinalizer
  <2> DEFINE n == [rmy EXCEPT !.fin = FALSE]
  <2>1. n \in Rule
    BY RuleWrites, LevelsAreNumbers, SpecsAssumption
  <2>2. n.state = rmy.state /\ n.levels = rmy.levels
    BY DEF Rule
  <2>3. RuleUpdate(n) /\ rctl = "dropFinalizer"
    BY <1>4 DEF DropFinalizer
  <2> HIDE DEF n
  <2> QED BY <1>1, <2>1, <2>2, <2>3 DEF RuleLabel
<1>5. CASE StartImport
  <2> DEFINE n == [rmy EXCEPT !.state = "StartImport"]
  <2>1. n \in Rule
    BY RuleWrites, LevelsAreNumbers, SpecsAssumption
  <2>2. n.state = "StartImport"
    BY DEF Rule
  <2>3. RuleUpdate(n) /\ rctl = "start" /\ rmy.state = ""
    BY <1>5 DEF StartImport, RuleInv
  <2> HIDE DEF n
  <2> QED BY <1>1, <2>1, <2>2, <2>3 DEF RuleLabel
<1>6. CASE CompleteImport
  <2> DEFINE n == [rmy EXCEPT !.state = "ImportComplete", !.levels = ComputeLevel(rmy.spec)]
  <2>1. rmy.spec \in Specs
    BY DEF Rule
  <2>2. n \in Rule
    BY <2>1, RuleWrites, LevelsAreNumbers
  <2>3. n.state = "ImportComplete" /\ n.spec = rmy.spec /\ n.levels = ComputeLevel(rmy.spec)
    BY DEF Rule
  <2>4. RuleUpdate(n) /\ rctl = "complete" /\ rmy.state = "StartImport"
    BY <1>6 DEF CompleteImport, RuleInv
  <2> HIDE DEF n
  <2> QED BY <1>1, <2>2, <2>3, <2>4 DEF RuleLabel
<1> QED BY <1>2, <1>3, <1>4, <1>5, <1>6 DEF RuleController

(* The users' part.                                                        *)
LEMMA UserChanges == ASSUME RuleTypeOK, RuleWritten PROVE RuleChanges
<1> USE DEF RuleTypeOK
<1>1. CASE RuleCreated
  <2>1. PICK s \in Specs : rule' = [NewRule(s) EXCEPT !.ver = rule.ver + 1] /\ ~rule.exists
    BY <1>1 DEF RuleCreated
  <2> DEFINE n == NewRule(s)
  <2>2. n \in Rule /\ n.state = ""
    BY NewRuleIs
  <2> HIDE DEF n
  <2>3. rule' = [n EXCEPT !.ver = rule.ver + 1]
    BY <2>1 DEF n
  <2>4. rule' \in Rule /\ rule'.ver = rule.ver + 1 /\ rule'.state = ""
    BY <2>2, <2>3, RuleWrites, LevelsAreNumbers
  <2> QED BY <2>1, <2>4 DEF RuleChanges
<1>2. CASE RuleEdited \/ RuleDeleted
  <2>1. PICK n \in Rule : /\ n.state = rule.state /\ n.levels = rule.levels
                          /\ rule' = RuleStored(n)
    <3>1. CASE RuleEdited
      <4>1. PICK s \in Specs : rule' = RuleStored([rule EXCEPT !.spec = s])
        BY <3>1 DEF RuleEdited
      <4>2. [rule EXCEPT !.spec = s] \in Rule
        BY RuleWrites, LevelsAreNumbers
      <4>3. /\ [rule EXCEPT !.spec = s].state = rule.state
            /\ [rule EXCEPT !.spec = s].levels = rule.levels
        BY DEF Rule
      <4> QED BY <4>1, <4>2, <4>3
    <3>2. CASE RuleDeleted
      <4>1. rule' = RuleStored([rule EXCEPT !.del = TRUE])
        BY <3>2 DEF RuleDeleted
      <4>2. [rule EXCEPT !.del = TRUE] \in Rule
        BY RuleWrites, LevelsAreNumbers, SpecsAssumption
      <4>3. /\ [rule EXCEPT !.del = TRUE].state = rule.state
            /\ [rule EXCEPT !.del = TRUE].levels = rule.levels
        BY DEF Rule
      <4> QED BY <4>1, <4>2, <4>3
    <3> QED BY <1>2, <3>1, <3>2
  <2> QED BY <2>1, RuleStoredIs DEF RuleChanges
<1> QED BY <1>1, <1>2 DEF RuleWritten

(* Every step keeps what holds of the rule and of its copies.              *)
LEMMA RuleStep ==
    ASSUME TypeOK, RuleInv, Moves
    PROVE  RuleTypeOK' /\ RuleInv' /\ RuleChanges
<1> USE DEF TypeOK
<1>0. RuleTypeOK
  OBVIOUS
<1>1. ASSUME RuleChanges PROVE \A c \in Rule : CopyOf(c) => CopyOf(c)'
  <2> SUFFICES ASSUME NEW c \in Rule, CopyOf(c) PROVE c.ver <= rule'.ver /\ (c.exists /\ c.ver = rule'.ver => c = rule')
    BY DEF CopyOf
  <2>1. c.ver \in Nat /\ rule.ver \in Nat
    BY <1>0 DEF RuleTypeOK, Rule
  <2> QED BY <1>1, <2>1 DEF CopyOf, RuleChanges
<1>2. CopyOf(NoRule) /\ NoRule \in Rule /\ CopyOf(rule)
  BY <1>0, NoRuleIs DEF CopyOf, RuleTypeOK, Rule
<1>3. CASE RuleController
  <2>1. CopyOf(NoRule)' /\ CopyOf(rcache)'
    BY <1>0, <1>1, <1>2, <1>3, ControllerChanges DEF RuleInv, RuleTypeOK
  <2>2. CopyOf(rmy)'
    BY <1>0, <1>3, <2>1, ControllerChanges DEF CopyOf
  <2> QED BY <1>0, <1>2, <1>3, <2>1, <2>2, ControllerChanges DEF RuleTypeOK, RuleInv, RuleChanges
<1>4. CASE RuleWritten
  <2>1. RuleChanges
    BY <1>0, <1>4, UserChanges
  <2>2. UNCHANGED <<rcache, rqueued, rctl, rmy, rfaults>>
    BY <1>4 DEF RuleWritten, RuleOthers
  <2>3. CopyOf(rcache)' /\ CopyOf(rmy)'
    BY <1>0, <1>1, <2>1, <2>2 DEF RuleInv, RuleTypeOK, CopyOf
  <2> QED BY <1>0, <2>1, <2>2, <2>3 DEF RuleTypeOK, RuleInv, RuleChanges
<1>5. CASE /\ rule' = rule /\ rfaults' = rfaults /\ rqueued' \in BOOLEAN
           /\ rcache' \in {rcache, rule, NoRule}
           /\ (rctl' = rctl /\ rmy' = rmy) \/ (rctl' = "idle" /\ rmy' = NoRule)
  <2>1. RuleChanges
    BY <1>0, <1>5 DEF RuleTypeOK, RuleChanges
  <2>2. CopyOf(rcache)' /\ CopyOf(rmy)'
    BY <1>2, <1>5 DEF RuleInv, CopyOf
  <2> QED BY <1>0, <1>2, <1>5, <2>1, <2>2 DEF RuleTypeOK, RuleInv, RuleLabel
<1> QED
  BY <1>0, <1>3, <1>4, <1>5
     DEF Moves, Quiet, PlanWritten, ListSynced, Manager, Watch, RuleSync, ProcessDies,
         PatchInspectPlanStatus, PatchStatus, Starting, ruleVars, RuleTypeOK

-----------------------------------------------------------------------------
(* The processes                                                           *)

(* Each main function goes on, or starts anew.                             *)
LEMMA StartKeeps ==
    ASSUME StartTypeOK, StartInv, NEW p \in Process, StartStep(p) \/ Dies(p)
    PROVE  StartTypeOK' /\ StartInv'
<1> USE DEF StartTypeOK
<1>0. /\ KeEyeGver \subseteq Resource /\ K8sEyeGver \subseteq Resource
      /\ Resource = KeEyeGver \cup K8sEyeGver /\ p \in DOMAIN stage
  BY DEF Resource
<1>1. CASE MakeClients(p)
  BY <1>1, MainIs DEF MakeClients, Step, StartInv
<1>2. CASE ForResources(p)
  BY <1>0, <1>2, MainIs DEF ForResources, Step, StartInv
<1>3. CASE Start(p)
  BY <1>3, MainIs DEF Start, Step, StartInv
<1>4. CASE WaitForCacheSync(p)
  <2>1. stage[p] \in {4, 5} /\ stage' = [stage EXCEPT ![p] = stage[p] + 1]
        /\ UNCHANGED <<informers, started, synced, deaths>>
    BY <1>4, MainIs DEF WaitForCacheSync, Step
  <2>2. KeEyeGver \subseteq synced[p]
    <3>1. CASE stage[p] = 4
      <4>1. started[p] \cap KeEyeGver \subseteq synced[p]
        BY <1>4, <3>1, MainIs DEF WaitForCacheSync
      <4>2. started[p] = Resource
        BY <3>1 DEF StartInv
      <4> QED BY <1>0, <4>1, <4>2
    <3>2. CASE stage[p] = 5
      BY <3>2 DEF StartInv
    <3> QED BY <2>1, <3>1, <3>2
  <2> QED BY <2>1, <2>2 DEF StartInv
<1>5. CASE FirstSync(p, KeEyeGver) \/ FirstSync(p, K8sEyeGver)
  <2>1. PICK S \in SUBSET Resource : synced' = [synced EXCEPT ![p] = @ \cup S]
    BY <1>0, <1>5 DEF FirstSync
  <2>2. UNCHANGED <<stage, informers, started, deaths>>
    BY <1>5 DEF FirstSync
  <2> QED BY <2>1, <2>2 DEF StartInv
<1>6. CASE Dies(p)
  <2>1. deaths' \in 0..MaxDeaths
    BY <1>6, DeathsAssumption DEF Dies
  <2> QED BY <1>6, <2>1 DEF Dies, StartInv
<1> QED BY <1>1, <1>2, <1>3, <1>4, <1>5, <1>6 DEF StartStep

(* Every step keeps what holds of the processes.                           *)
LEMMA ProcessStep == ASSUME TypeOK, StartInv, Moves PROVE StartTypeOK' /\ StartInv'
<1>1. CASE UNCHANGED startVars
  BY <1>1 DEF TypeOK, StartTypeOK, StartInv, startVars
<1>2. CASE \E p \in Process : StartStep(p) \/ Dies(p)
  BY <1>2, StartKeeps DEF TypeOK
<1> QED
  BY <1>1, <1>2 DEF Moves, Quiet, RuleWritten, RuleOthers, PlanWritten, ListSynced, Manager, Watch,
       ProcessDies, PatchInspectPlanStatus, PatchStatus, Starting, Process

-----------------------------------------------------------------------------
(* The plan                                                                *)

(* Every step keeps what holds of the plan, its copy and the requests.     *)
LEMMA PlanStep ==
    ASSUME TypeOK, PlanInv, Moves
    PROVE  /\ plan' \in Plan /\ plist' \in Plan /\ rlist' \in Rule
           /\ req' \in [Requests -> {"idle", "checked"}] /\ seen' \in [Requests -> Nat]
           /\ PlanInv'
<1> USE DEF TypeOK
<1>0. /\ plan.ver \in Nat /\ plist.ver \in Nat /\ rule \in Rule /\ NoRule \in Rule
  BY NoRuleIs DEF Plan, RuleTypeOK
<1>1. NoPlan \in Plan /\ NoPlan.ver = 0 /\ ~NoPlan.exists
  <2>1. "" \in Phase
    BY DEF Phase
  <2> QED BY <2>1 DEF NoPlan, NewPlan, Plan
<1>2. CASE PlanWritten
  BY <1>0, <1>2 DEF PlanWritten, PlanInv
<1>3. CASE ListSynced
  BY <1>0, <1>3 DEF ListSynced, PlanInv
<1>4. ASSUME NEW q \in Requests, PatchInspectPlanStatus(q)
      PROVE  /\ plan' \in Plan /\ plist' \in Plan /\ rlist' \in Rule
             /\ req' \in [Requests -> {"idle", "checked"}] /\ seen' \in [Requests -> Nat]
             /\ PlanInv'
  <2>1. UNCHANGED <<plan, plist, rlist>>
    BY <1>4 DEF PatchInspectPlanStatus, listVars
  <2>2. CASE UNCHANGED <<req, seen>>
    BY <2>1, <2>2 DEF PlanInv, Busy
  <2>3. CASE /\ plist.exists /\ ~Busy(plist) /\ req' = [req EXCEPT ![q] = "checked"]
             /\ seen' = [seen EXCEPT ![q] = plist.ver]
    <3>1. plist.ver = plan.ver => ~Busy(plan)
      BY <2>3 DEF PlanInv
    <3>2. req' \in [Requests -> {"idle", "checked"}] /\ seen' \in [Requests -> Nat]
      BY <1>0, <2>3
    <3>3. ASSUME NEW r \in Requests, req'[r] = "checked"
          PROVE  seen'[r] <= plan.ver /\ (seen'[r] = plan.ver => ~Busy(plan))
      BY <1>0, <2>3, <3>1, <3>3 DEF PlanInv
    <3> QED BY <2>1, <3>2, <3>3 DEF PlanInv, Busy
  <2> QED BY <1>4, <2>2, <2>3 DEF PatchInspectPlanStatus
<1>5. ASSUME NEW q \in Requests, PatchStatus(q)
      PROVE  /\ plan' \in Plan /\ plist' \in Plan /\ rlist' \in Rule
             /\ req' \in [Requests -> {"idle", "checked"}] /\ seen' \in [Requests -> Nat]
             /\ PlanInv'
  <2>1. plan' = plan \/ (plan' \in Plan /\ plan'.ver = plan.ver + 1)
    <3>1. "" \in Phase
      BY DEF Phase
    <3> QED BY <1>5, <3>1, PlanWrites DEF PatchStatus
  <2>2. /\ req' = [req EXCEPT ![q] = "idle"] /\ seen' = [seen EXCEPT ![q] = 0]
        /\ UNCHANGED <<plist, rlist>>
    BY <1>5 DEF PatchStatus, listVars
  <2>3. ASSUME NEW r \in Requests, req'[r] = "checked"
        PROVE  seen'[r] <= plan'.ver /\ (seen'[r] = plan'.ver => ~Busy(plan'))
    <3>1. r # q /\ seen'[r] = seen[r] /\ req[r] = "checked"
      BY <2>2, <2>3
    <3> QED BY <1>0, <2>1, <3>1 DEF PlanInv
  <2> QED BY <1>0, <2>1, <2>2, <2>3 DEF PlanInv, Busy
<1>6. CASE /\ UNCHANGED plan
           /\ \/ UNCHANGED <<plist, req, seen>>
              \/ plist' = plan /\ UNCHANGED <<req, seen>>
              \/ /\ req' = [q \in Requests |-> "idle"] /\ seen' = [q \in Requests |-> 0]
                 /\ plist' = NoPlan
           /\ rlist' \in {rlist, rule, NoRule}
  <2>1. CASE req' = [q \in Requests |-> "idle"] /\ seen' = [q \in Requests |-> 0] /\ plist' = NoPlan
    BY <1>0, <1>1, <1>6, <2>1 DEF PlanInv
  <2>2. CASE UNCHANGED <<plist, req, seen>>
    BY <1>0, <1>6, <2>2 DEF PlanInv, Busy
  <2>3. CASE plist' = plan /\ UNCHANGED <<req, seen>>
    BY <1>0, <1>6, <2>3 DEF PlanInv, Busy
  <2> QED BY <1>6, <2>1, <2>2, <2>3
<1> QED
  BY <1>2, <1>3, <1>4, <1>5, <1>6
     DEF Moves, Quiet, RuleWritten, RuleOthers, Manager, Watch, ProcessDies, Starting, apiVars,
         listVars, reqVars

-----------------------------------------------------------------------------
(* The theorems                                                            *)

(* The first state.                                                        *)
LEMMA ApiInit == Init => IInv
<1> SUFFICES ASSUME Init PROVE IInv
  OBVIOUS
<1>1. /\ rule = NewRule(FirstSpec) /\ rcache = NoRule /\ rmy = NoRule /\ rctl = "idle"
      /\ rlist = NoRule
  BY DEF Init, RuleInit
<1>2. rule \in Rule /\ rule.ver = 0 /\ rcache \in Rule /\ rmy \in Rule /\ rlist \in Rule
  BY <1>1, NewRuleIs, NoRuleIs, SpecsAssumption
<1>3. RuleTypeOK
  <2>1. rqueued \in BOOLEAN /\ rctl \in RuleLabel
    BY DEF Init, RuleInit, RuleLabel
  <2>2. rfaults \in 0..MaxManagerFaults
    BY FaultsAssumption DEF Init, RuleInit
  <2> QED BY <1>2, <2>1, <2>2 DEF RuleTypeOK
<1>4. RuleInv
  <2>1. CopyOf(NoRule)
    BY <1>2, NoRuleIs DEF CopyOf
  <2> QED BY <1>1, <2>1 DEF RuleInv
<1>5. StartTypeOK /\ StartInv
  BY DeathsAssumption DEF Init, StartInit, StartTypeOK, StartInv
<1>6. plan \in Plan /\ plan.ver = 0 /\ plist \in Plan /\ plist.ver = 0 /\ ~plist.exists
  <2>1. "" \in Phase /\ "Succeeded" \in Phase
    BY DEF Phase
  <2>2. plan = [NewPlan(0) EXCEPT !.status = "Succeeded"] /\ plist = NoPlan
    BY DEF Init
  <2>3. NewPlan(0) \in Plan /\ NewPlan(0).ver = 0
    BY <2>1 DEF NewPlan, Plan
  <2> DEFINE n == NewPlan(0)
  <2> HIDE DEF n
  <2>4. n \in Plan => /\ [n EXCEPT !.status = "Succeeded"] \in Plan
                      /\ [n EXCEPT !.status = "Succeeded"].ver = n.ver
                      /\ [n EXCEPT !.exists = FALSE] \in Plan
                      /\ [n EXCEPT !.exists = FALSE].ver = n.ver
                      /\ ~[n EXCEPT !.exists = FALSE].exists
    BY <2>1 DEF Plan
  <2> QED BY <2>2, <2>3, <2>4 DEF n, NoPlan
<1>7. /\ req \in [Requests -> {"idle", "checked"}] /\ seen \in [Requests -> Nat]
      /\ \A q \in Requests : req[q] = "idle"
  BY DEF Init
<1>8. asked \in 0..MaxRequests
  BY RequestsAssumption DEF Init
<1>9. dirty \in BOOLEAN /\ answer \in {"none", "ok", "error", "panic"}
  BY DEF Init
<1>10. PlanInv
  BY <1>6, <1>7 DEF PlanInv
<1> QED BY <1>2, <1>3, <1>4, <1>5, <1>6, <1>7, <1>8, <1>9, <1>10 DEF IInv, TypeOK

(* The inductive invariant holds in every state.                           *)
THEOREM ApiInvariant == Spec => []IInv
<1>1. IInv /\ Next => IInv'
  <2> SUFFICES ASSUME IInv, Next PROVE IInv'
    OBVIOUS
  <2>1. TypeOK /\ RuleInv /\ StartInv /\ PlanInv
    BY DEF IInv
  <2>2. Moves /\ Counted
    BY <2>1, Cases
  <2> QED BY <2>1, <2>2, RuleStep, ProcessStep, PlanStep DEF IInv, TypeOK, Counted
<1>2. IInv /\ UNCHANGED vars => IInv'
  <2> SUFFICES ASSUME IInv, UNCHANGED vars PROVE IInv'
    OBVIOUS
  <2> USE DEF IInv, vars, ruleVars, startVars, apiVars, listVars, reqVars
  <2>1. TypeOK'
    BY DEF TypeOK, RuleTypeOK, StartTypeOK
  <2>2. RuleInv' /\ StartInv' /\ PlanInv'
    BY DEF RuleInv, CopyOf, StartInv, PlanInv, Busy
  <2> QED BY <2>1, <2>2
<1> QED BY ApiInit, <1>1, <1>2, PTL DEF Spec

(* Every variable of the API server and of the manager keeps its type.     *)
THEOREM ApiTypeCorrect == Spec => []TypeOK
  BY ApiInvariant, PTL DEF IInv

(* main: no process serves before the listers it reads are filled, after   *)
(* any number of deaths.                                                   *)
THEOREM ApiServedFromSynced == Spec => []ServedFromSynced
<1>1. IInv => ServedFromSynced
  BY MainIs DEF IInv, TypeOK, StartTypeOK, StartInv, ServedFromSynced
<1> QED BY <1>1, ApiInvariant, PTL

(* The lists are made of objects, the rules' names are their own, and a    *)
(* list and one page fit into an int.                                      *)
LEMMA ListedAre ==
    /\ Cardinality(ListedRules) \in Nat
    /\ TypeOK =>
         /\ ListedRules \in SUBSET Object /\ IsFiniteSet(ListedRules)
         /\ \A a, b \in ListedRules : a # b => a.name # b.name
         /\ Cardinality(ListedRules) + DefaultLimit <= MaxInt
         /\ ListedPlans \in SUBSET Object /\ IsFiniteSet(ListedPlans)
         /\ Cardinality(ListedPlans) + DefaultLimit <= MaxInt
<1>1. ASSUME NEW S, IsFiniteSet(S), NEW x, NEW T \in {S, S \cup {x}}
      PROVE  IsFiniteSet(T) /\ Cardinality(T) \in Nat /\ Cardinality(T) <= Cardinality(S) + 1
  <2>1. /\ IsFiniteSet(S \cup {x}) /\ Cardinality(S) \in Nat
        /\ Cardinality(S \cup {x}) <= Cardinality(S) + 1
    <3>1. Cardinality(S) \in Nat
      BY <1>1, FS_CardinalityType
    <3>2. /\ IsFiniteSet(S \cup {x})
          /\ Cardinality(S \cup {x}) = IF x \in S THEN Cardinality(S) ELSE Cardinality(S) + 1
      BY <1>1, FS_AddElement
    <3> QED BY <3>1, <3>2
  <2>2. IsFiniteSet(T) /\ Cardinality(T) <= Cardinality(S) + 1
    <3>1. CASE T = S
      BY <1>1, <2>1, <3>1
    <3>2. CASE T = S \cup {x}
      BY <2>1, <3>2
    <3> QED BY <3>1, <3>2
  <2> QED BY <2>2, FS_CardinalityType
<1>2. ListedRules \in {OtherRules, OtherRules \cup {RuleObject}}
  BY DEF ListedRules
<1>3. ListedPlans \in {OtherPlans, OtherPlans \cup {PlanObject(plist)}}
  BY DEF ListedPlans
<1>4. /\ Cardinality(OtherRules) \in Nat /\ Cardinality(OtherPlans) \in Nat
      /\ Cardinality(OtherRules) + 1 + DefaultLimit <= MaxInt
      /\ Cardinality(OtherPlans) + 1 + DefaultLimit <= MaxInt
      /\ DefaultLimit \in Nat /\ MaxInt \in Nat
  BY ListsAssumption, WidthAssumption, FS_CardinalityType
<1>5. /\ IsFiniteSet(ListedRules) /\ Cardinality(ListedRules) \in Nat
      /\ Cardinality(ListedRules) <= Cardinality(OtherRules) + 1
  BY <1>1, <1>2, ListsAssumption
<1>6. /\ IsFiniteSet(ListedPlans) /\ Cardinality(ListedPlans) \in Nat
      /\ Cardinality(ListedPlans) <= Cardinality(OtherPlans) + 1
  BY <1>1, <1>3, ListsAssumption
<1>7. /\ Cardinality(ListedRules) + DefaultLimit <= MaxInt
      /\ Cardinality(ListedPlans) + DefaultLimit <= MaxInt
  BY <1>4, <1>5, <1>6
<1>8. RuleObject \in Object
  BY DEF RuleObject, Object
<1>9. TypeOK => PlanObject(plist) \in Object
  BY DEF TypeOK, Plan, Phase, PlanObject, RuleObject, Object
<1>10. TypeOK => ListedRules \in SUBSET Object /\ ListedPlans \in SUBSET Object
  BY <1>2, <1>3, <1>8, <1>9, ListsAssumption
<1>11. \A a, b \in ListedRules : a # b => a.name # b.name
  BY <1>2, ListsAssumption
<1> QED BY <1>5, <1>6, <1>7, <1>10, <1>11

(* ListInspectRule: whatever the lister holds, no page and no limit make a *)
(* request panic, unless their sum overflows.                              *)
THEOREM ApiListsInBounds == Spec => []ListsInBounds
<1>1. ListsInBounds
  BY ListedAre, PagesInBounds DEF ListsInBounds
<1> QED BY <1>1, PTL

(* ListInspectRule, ListInspectPlan: whatever the listers hold, a client   *)
(* that walks the pages of a sorted list meets every object once.          *)
THEOREM ApiWalkMeetsAll == Spec => []WalkMeetsAll
<1>1. TypeOK => WalkMeetsAll
  <2> SUFFICES ASSUME TypeOK, NEW asc \in BOOLEAN
               PROVE  /\ \A by \in {"createTime", "name"} :
                           PagesTile("inspectrules", ListedRules, by, asc)
                      /\ PagesTile("inspectplans", ListedPlans, "createTime", asc)
    BY DEF WalkMeetsAll
  <2>1. \A by \in {"createTime", "name"} : PagesTile("inspectrules", ListedRules, by, asc)
    BY ListedAre, RulePagesTile
  <2>2. PagesTile("inspectplans", ListedPlans, "createTime", asc)
    BY ListedAre, TimePagesTile
  <2> QED BY <2>1, <2>2
<1> QED BY <1>1, ApiTypeCorrect, PTL

(* CompleteImport: the counts of an import are those of the spec they are  *)
(* stored with, whatever is edited, deleted and created meanwhile.         *)
THEOREM ApiCountsMatchSpec == Spec => CountsMatchSpec
<1> DEFINE Counts ==
      /\ rule.state # "ImportComplete" /\ rule'.state = "ImportComplete"
            => rule'.levels = ComputeLevel(rule'.spec) /\ rule'.spec = rule.spec
      /\ rule.state = "ImportComplete" /\ rule.exists
            => rule'.state = rule.state /\ rule'.levels = rule.levels
<1>1. IInv /\ [Next]_vars => [Counts]_ruleVars
  <2> SUFFICES ASSUME IInv, Next PROVE Counts
    BY DEF vars
  <2>1. RuleChanges
    BY Cases, RuleStep DEF IInv
  <2> QED BY <2>1 DEF RuleChanges
<1> QED BY <1>1, ApiInvariant, PTL DEF Spec, CountsMatchSpec

(* PatchInspectPlanStatus: a plan that is pending or running is started    *)
(* again only by a request that looked at an older version of it, however  *)
(* many requests are in progress at once.                                  *)
THEOREM ApiRepeatNeedsStaleLook == Spec => RepeatNeedsStaleLook
<1>1. IInv => \A q \in Requests : req[q] = "checked" /\ Busy(plan) => seen[q] # plan.ver
  BY DEF IInv, PlanInv
<1> DEFINE Stale == \A q \in Requests :
         req[q] = "checked" /\ plan'.ver # plan.ver /\ plan'.status = "" /\ Busy(plan)
         /\ req'[q] = "idle"
            => seen[q] # plan.ver
<1>2. IInv /\ [Next]_vars => [Stale]_vars
  BY <1>1
<1> QED BY <1>2, ApiInvariant, PTL DEF Spec, RepeatNeedsStaleLook
=============================================================================
