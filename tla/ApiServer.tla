----------------------------- MODULE ApiServer -----------------------------
(***************************************************************************)
(* The API server (pkg/server, cmd/apiserver): its handlers, each request  *)
(* in a goroutine of its own, composed with the start of the processes     *)
(* (Startup), the lists (Query) and the InspectRules controller of the     *)
(* manager (RuleImport).                                                   *)
(*                                                                         *)
(* The handlers read from listers that lag behind Kubernetes and write to  *)
(* Kubernetes.  The state of one rule and one plan is followed, among      *)
(* others that only fill the lists.                                        *)
(***************************************************************************)
EXTENDS RuleImport, Query, Startup

CONSTANTS
    Requests,     \* the requests that start a plan, in progress at once
    MaxRequests,  \* requests altogether
    MaxFaults,    \* failed calls and deaths of processes altogether
    OtherRules,   \* the other rules and plans, as the lists show them
    OtherPlans,
    Urls          \* the parameters of a list's URL, its page and limit apart

ASSUME RequestsAssumption == MaxRequests \in Nat /\ MaxFaults \in Nat

VARIABLES
    plan,     \* the InspectPlan in Kubernetes
    plist,    \* the copy of it in the API server's lister
    rlist,    \* the copy of the InspectRule in the API server's lister
    dirty,    \* the lister's copy of the InspectResult holds the report
    req,      \* req[q]: where the goroutine of request q is
    seen,     \* seen[q]: the version of the plan it looked at
    asked,    \* requests so far
    answer    \* the answer of the handler that has just returned

listVars == <<plist, rlist, dirty>>
reqVars == <<req, seen, asked>>
apiVars == <<plan, listVars, reqVars>>
vars == <<ruleVars, startVars, apiVars, answer>>

-----------------------------------------------------------------------------
Phase == {"", "Pending", "Running", "Succeeded"}

Plan == [exists: BOOLEAN, ver: Nat, status: Phase, suspend: BOOLEAN]

NewPlan(v) == [exists |-> TRUE, ver |-> v, status |-> "", suspend |-> FALSE]

NoPlan == [NewPlan(0) EXCEPT !.exists = FALSE]

Busy(p) == p.status \in {"Pending", "Running"}

(* The objects a list of each kind is made from.                           *)
RuleObject == [name |-> 1, uid |-> 1, time |-> 1, started |-> 0, duration |-> 0, policy |-> 0,
               status |-> "", type |-> "",
               suspend |-> FALSE, once |-> FALSE, schedule |-> FALSE]

PlanObject(p) == [RuleObject EXCEPT !.status = p.status, !.suspend = p.suspend]

(* A lister keeps one rule under a name; a list and a page beside it are   *)
(* far from the largest int.                                               *)
ASSUME ListsAssumption ==
    /\ IsFiniteSet(OtherRules) /\ OtherRules \subseteq Object
    /\ IsFiniteSet(OtherPlans) /\ OtherPlans \subseteq Object
    /\ \A a, b \in OtherRules \cup {RuleObject} : a # b => a.name # b.name
    /\ \A S \in {OtherRules, OtherPlans} : Cardinality(S) + 1 + DefaultLimit <= MaxInt

ListedRules == OtherRules \cup (IF rlist.exists THEN {RuleObject} ELSE {})

ListedPlans == OtherPlans \cup (IF plist.exists THEN {PlanObject(plist)} ELSE {})

Init ==
    /\ RuleInit /\ StartInit
    /\ plan = [NewPlan(0) EXCEPT !.status = "Succeeded"] /\ plist = NoPlan
    /\ rlist = NoRule /\ dirty = FALSE
    /\ req = [q \in Requests |-> "idle"] /\ seen = [q \in Requests |-> 0]
    /\ asked = 0 /\ answer = "none"

-----------------------------------------------------------------------------
(* Requests                                                                *)

Arrives == Up("apiserver") /\ asked < MaxRequests /\ asked' = asked + 1
Answers(a) == answer' = a

(* A handler that only reads.                                              *)
Reads(a) ==
    /\ Arrives /\ Answers(a)
    /\ UNCHANGED <<ruleVars, startVars, plan, listVars, req, seen>>

(* A label selector that cannot be parsed is an error, bounds outside the  *)
(* list a panic.                                                           *)
List(kind, listed) ==
    \/ Reads("error")
    \/ LET left == UNION {Filtered(kind, listed, ParseFilter(u)) : u \in Urls}
           sizes == {Cardinality(T) : T \in left}
       IN  \E fits \in UNION {Slices[n] : n \in sizes} :
             Reads(IF fits THEN "ok" ELSE "panic")

ListInspectRule == List("inspectrules", ListedRules)

ListInspectPlan == List("inspectplans", ListedPlans)

ListInspectTask == \E a \in {"ok", "error", "panic"} : Reads(a)

(* Whether the report is there and is JSON, which it is not while the      *)
(* manager writes it.                                                      *)
GetFileResultData == BOOLEAN

(* ListInspectResult: with details, or as customized or prometheus data,   *)
(* one report of the page that the manager has removed or is writing fails *)
(* the whole answer.  Bounds outside the list are a panic, and so is a     *)
(* page that is no list.                                                   *)
ListInspectResult ==
    \/ Reads("panic")
    \/ \E details \in BOOLEAN, whole \in GetFileResultData :
          Reads(IF details /\ ~whole THEN "error" ELSE "ok")

GetInspectTask == Reads("ok") \/ Reads("error")

GetInspectRule == Reads(IF rlist.exists THEN "ok" ELSE "error")

GetInspectPlan == Reads(IF plist.exists THEN "ok" ELSE "error")

(* GetInspectResult: html, json and customized read the report; with       *)
(* details it is read into the lister's own object.                        *)
GetInspectResult == \E type \in {"report", "plain", "details"}, whole \in GetFileResultData :
    /\ Arrives
    /\ Answers(IF type # "plain" /\ ~whole THEN "error" ELSE "ok")
    /\ dirty' = (dirty \/ (type = "details" /\ whole))
    /\ UNCHANGED <<ruleVars, startVars, plan, plist, rlist, req, seen>>

DownloadInspectResult == \E whole \in BOOLEAN : Reads(IF whole THEN "ok" ELSE "error")

(* GetRequestBody: a body that cannot be read or parsed.                   *)
GetRequestBody == Reads("error")

(* A handler that makes one call to Kubernetes, which accepts or refuses.  *)
WritesRule(accepts, new) ==
    /\ Arrives /\ Answers(IF accepts THEN "ok" ELSE "error")
    /\ rule' = IF accepts THEN new ELSE rule
    /\ UNCHANGED <<rcache, rqueued, rctl, rmy, rfaults, startVars, plan, listVars, req, seen>>

WritesPlan(accepts, new) ==
    /\ Arrives /\ Answers(IF accepts THEN "ok" ELSE "error")
    /\ plan' = IF accepts THEN new ELSE plan
    /\ UNCHANGED <<ruleVars, startVars, listVars, req, seen>>

CreateInspectRule == \E s \in Specs :
    WritesRule(~rule.exists, [NewRule(s) EXCEPT !.ver = rule.ver + 1])

(* PUT: refused unless the copy the client has edited is current.          *)
UpdateInspectRule == \E s \in Specs, current \in BOOLEAN :
    WritesRule(rule.exists /\ current, RuleStored([rule EXCEPT !.spec = s]))

(* The route has no :name, and the name that is deleted is empty.          *)
DeleteInspectRule == Reads("error")

CreateInspectPlan == WritesPlan(~plan.exists, NewPlan(plan.ver + 1))

UpdateInspectPlan == \E current \in BOOLEAN :
    WritesPlan(plan.exists /\ current, [plan EXCEPT !.ver = @ + 1, !.suspend = ~@])

(* A merge patch has no version.                                           *)
PatchInspectPlan ==
    WritesPlan(plan.exists, [plan EXCEPT !.ver = @ + 1, !.suspend = ~@])

(* The finalizer of the plan is the InspectPlan controller's business.     *)
DeleteInspectPlan ==
    WritesPlan(plan.exists, [plan EXCEPT !.ver = @ + 1, !.exists = FALSE])

(* The task's end is the InspectTask controller's business.                *)
DeleteInspectTask == Reads("ok") \/ Reads("error")

(* Faulty variant: whatever the lister shows, the plan is started.         *)
PatchInspectPlanStatusUnchecked(q) ==
    /\ req[q] = "idle" /\ Arrives /\ plist.exists
    /\ req' = [req EXCEPT ![q] = "checked"]
    /\ seen' = [seen EXCEPT ![q] = plist.ver]
    /\ UNCHANGED <<ruleVars, startVars, plan, listVars>> /\ Answers("none")

(* PatchInspectPlanStatus, up to its call: the lister decides.  After the  *)
(* answer that there is no such plan the handler goes on, into a panic.    *)
PatchInspectPlanStatus(q) ==
    /\ req[q] = "idle" /\ Arrives
    /\ \/ ~plist.exists /\ Answers("panic") /\ UNCHANGED <<req, seen>>
       \/ plist.exists /\ Busy(plist) /\ Answers("error") /\ UNCHANGED <<req, seen>>
       \/ /\ plist.exists /\ ~Busy(plist)
          /\ req' = [req EXCEPT ![q] = "checked"]
          /\ seen' = [seen EXCEPT ![q] = plist.ver]
          /\ Answers("none")
    /\ UNCHANGED <<ruleVars, startVars, plan, listVars>>

(* The merge patch {status: {lastTaskStatus: ""}}.                         *)
PatchStatus(q) ==
    /\ req[q] = "checked" /\ req' = [req EXCEPT ![q] = "idle"]
    /\ seen' = [seen EXCEPT ![q] = 0]
    /\ Answers(IF plan.exists THEN "ok" ELSE "error")
    /\ plan' = IF plan.exists THEN [plan EXCEPT !.ver = @ + 1, !.status = ""] ELSE plan
    /\ UNCHANGED <<ruleVars, startVars, listVars, asked>>

-----------------------------------------------------------------------------
(* The environment                                                         *)

(* The watches of the API server.                                          *)
SyncPlans == plist # plan /\ plist' = plan /\ UNCHANGED <<rlist, dirty>>

SyncRules == rlist # rule /\ rlist' = rule /\ UNCHANGED <<plist, dirty>>

(* The InspectResult anew, without the report.                             *)
SyncResults == dirty /\ dirty' = FALSE /\ UNCHANGED <<plist, rlist>>

SyncLists ==
    /\ Up("apiserver") /\ (SyncPlans \/ SyncRules \/ SyncResults)
    /\ UNCHANGED <<ruleVars, startVars, plan, reqVars>>

(* The plan's inspection goes on in the manager (module InspectPlan).      *)
PlanMoves ==
    /\ Up("manager") /\ plan.exists /\ plan.status # "Succeeded"
    /\ plan' = [plan EXCEPT !.ver = @ + 1,
                  !.status = CASE @ = "" -> "Pending" [] @ = "Pending" -> "Running"
                               [] OTHER -> "Succeeded"]
    /\ UNCHANGED <<ruleVars, startVars, listVars, reqVars>>

(* kubectl delete; counted with the requests.                              *)
DeleteRule ==
    /\ asked < MaxRequests /\ asked' = asked + 1
    /\ rule.exists /\ ~rule.del
    /\ rule' = RuleStored([rule EXCEPT !.del = TRUE])
    /\ UNCHANGED <<rcache, rqueued, rctl, rmy, rfaults, startVars, plan, listVars, req, seen>>

(* A process that dies takes its caches and its goroutines along.          *)
ProcessDies ==
    \/ /\ Dies("manager")
       /\ rctl' = "idle" /\ rqueued' = FALSE /\ rcache' = NoRule /\ rmy' = NoRule
       /\ UNCHANGED <<rule, rfaults, apiVars>>
    \/ /\ Dies("apiserver")
       /\ req' = [q \in Requests |-> "idle"] /\ seen' = [q \in Requests |-> 0]
       /\ plist' = NoPlan /\ rlist' = NoRule /\ dirty' = FALSE
       /\ UNCHANGED <<ruleVars, plan, asked>>

-----------------------------------------------------------------------------
(* RegisterRouter.                                                         *)
Handler ==
    \/ ListInspectRule \/ ListInspectPlan \/ ListInspectTask \/ ListInspectResult
    \/ GetInspectRule \/ GetInspectPlan \/ GetInspectTask \/ GetInspectResult
    \/ DownloadInspectResult \/ GetRequestBody
    \/ CreateInspectRule \/ UpdateInspectRule \/ DeleteInspectRule
    \/ CreateInspectPlan \/ UpdateInspectPlan \/ PatchInspectPlan
    \/ DeleteInspectPlan \/ DeleteInspectTask
    \/ \E q \in Requests : PatchInspectPlanStatus(q) \/ PatchStatus(q)

Manager == Up("manager") /\ RuleController /\ Answers("none") /\ UNCHANGED <<startVars, apiVars>>
Watch == Up("manager") /\ RuleSync /\ Answers("none") /\ UNCHANGED <<startVars, apiVars>>

(* The start of a process, at whose end its caches hold a first list.      *)
Starting(p) ==
    /\ StartStep(p) /\ Answers("none")
    /\ UNCHANGED <<rule, rctl, rmy, rfaults, plan, dirty, reqVars>>
    /\ IF p = "manager" /\ Up(p)' THEN rcache' = rule /\ rqueued' = TRUE
       ELSE UNCHANGED <<rcache, rqueued>>
    /\ IF p = "apiserver" /\ Up(p)' THEN rlist' = rule /\ plist' = plan
       ELSE UNCHANGED <<rlist, plist>>

Next ==
    /\ \/ Handler \/ Manager \/ Watch \/ \E p \in Process : Starting(p)
       \/ (SyncLists \/ PlanMoves \/ DeleteRule \/ ProcessDies) /\ Answers("none")
    /\ rfaults' + deaths' <= MaxFaults

(* The processes start, the controller runs, its watch works.              *)
Spec ==
    /\ Init /\ [][Next]_vars
    /\ WF_vars(Manager) /\ WF_vars(Watch) /\ \A p \in Process : WF_vars(Starting(p))

-----------------------------------------------------------------------------
(* Properties                                                              *)

TypeOK ==
    /\ RuleTypeOK /\ StartTypeOK
    /\ plan \in Plan /\ plist \in Plan /\ rlist \in Rule
    /\ dirty \in BOOLEAN
    /\ req \in [Requests -> {"idle", "checked"}] /\ seen \in [Requests -> Nat]
    /\ asked \in 0..MaxRequests /\ answer \in {"none", "ok", "error", "panic"}

(* main: no controller runs and no request is served before the listers    *)
(* they read are filled, after any number of restarts.                     *)
ServedFromSynced == \A p \in Process : Up(p) => KeEyeGver \subseteq synced[p]

(* ListInspectRule, ListInspectPlan: whatever the lister holds when a      *)
(* request is answered, a client that walks the pages of a sorted list     *)
(* meets every object once.                                                *)
WalkMeetsAll == answer # "none" =>
    \A asc \in BOOLEAN :
        /\ \A by \in {"createTime", "name"} :
             PagesTile("inspectrules", ListedRules, by, asc)
        /\ PagesTile("inspectplans", ListedPlans, "createTime", asc)

(* No page and no limit of a request makes a list handler panic, unless    *)
(* their sum overflows.                                                    *)
ListsInBounds == answer # "none" => PageInBounds(Cardinality(ListedRules))

(* "Please do not repeat the execution": a plan that is pending or running *)
(* is started again only by a request that looked at an older version of   *)
(* it.                                                                     *)
RepeatNeedsStaleLook ==
    [][\A q \in Requests :
         req[q] = "checked" /\ plan'.ver # plan.ver /\ plan'.status = "" /\ Busy(plan)
         /\ req'[q] = "idle"
            => seen[q] # plan.ver]_vars
=============================================================================
