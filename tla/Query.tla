------------------------------- MODULE Query -------------------------------
(***************************************************************************)
(* Lists of the API server, pkg/server/query: the query of a request, its  *)
(* page, the order and the filters of the four kinds of objects            *)
(* (pkg/server/api).                                                       *)
(*                                                                         *)
(* Go's int has a width: MaxInt is its largest value.  A string that is    *)
(* only compared is the number of its place in the order of strings.       *)
(***************************************************************************)
EXTENDS Integers, Sequences, FiniteSets

CONSTANTS
    MaxInt,        \* the largest int
    DefaultLimit   \* NewPagination: items per page, 10

ASSUME WidthAssumption == MaxInt \in Nat /\ DefaultLimit \in 1..MaxInt

Wrap(x) == ((x + MaxInt + 1) % (2 * (MaxInt + 1))) - (MaxInt + 1)

-----------------------------------------------------------------------------
(* A parameter of the URL: left out, not an int, or an int (-1 for all the *)
(* negative ones, which are told apart nowhere).                           *)
None == [kind |-> "none", n |-> 0]

Param == {None, [kind |-> "bad", n |-> 0]} \cup [kind: {"int"}, n: -1..MaxInt]

(* The offset is computed before the limit of the request is read.         *)
ParsePagination(page, limit) ==
    [offset |-> IF page.kind = "int" /\ page.n >= 1
                THEN Wrap((page.n - 1) * DefaultLimit) ELSE 0,
     limit  |-> IF limit.kind = "none" THEN DefaultLimit
                ELSE IF limit.kind = "int" /\ limit.n >= 1 THEN limit.n ELSE 0]

(* Faulty variant: an end past the list is left as it is.                  *)
computeIndexUncut(p, total) ==
    IF p.limit < 0 \/ p.offset < 0 \/ p.offset > total THEN <<0, 0>>
    ELSE <<p.offset, Wrap(p.offset + p.limit)>>

computeIndex(p, total) ==
    IF p.limit < 0 \/ p.offset < 0 \/ p.offset > total THEN <<0, 0>>
    ELSE LET end == Wrap(p.offset + p.limit)
         IN <<p.offset, IF end > total \/ end = 0 THEN total ELSE end>>

(* data[start:end] panics on any other bounds.                             *)
InBounds(b, total) == 0 <= b[1] /\ b[1] <= b[2] /\ b[2] <= total

(* Whether the page and limit of a request on a list of n objects do so.   *)
Slices ==
    [n \in 0..MaxInt |-> {InBounds(computeIndex(ParsePagination(page, limit), n), n) :
                              page \in Param, limit \in Param}]

-----------------------------------------------------------------------------
(* The fields of the objects that order and filters look at; type is the   *)
(* annotation of a task.  started is 0 as long as there is no such time.   *)
Object == [name: Nat, uid: Nat, time: Nat, started: Nat, duration: Nat, policy: Nat,
           status: {"", "Pending", "Running", "Succeeded"}, type: {"", "instant", "timing"},
           suspend: BOOLEAN, once: BOOLEAN, schedule: BOOLEAN]

StatusRank(s) == CASE s = "" -> 0 [] s = "Pending" -> 1 [] s = "Running" -> 2 [] OTHER -> 3

(* A time that is not there is before no other, and none is before it.     *)
StartedBefore(a, b) == a.started # 0 /\ b.started # 0 /\ a.started < b.started

comparePlan(a, b, orderBy) ==
    CASE orderBy = "createTime"        -> a.time < b.time
      [] orderBy = "lastTaskStatus"    -> StatusRank(a.status) < StatusRank(b.status)
      [] orderBy = "lastTaskStartTime" -> StartedBefore(a, b)
      [] orderBy = "inspectPolicy"     -> TRUE
      [] OTHER -> FALSE

compareTask(a, b, orderBy) ==
    CASE orderBy = "createTime"     -> a.time < b.time
      [] orderBy = "startTimestamp" -> StartedBefore(a, b)
      [] orderBy = "status"         -> StatusRank(a.status) < StatusRank(b.status)
      [] orderBy = "inspectPolicy"  -> a.policy < b.policy
      [] orderBy = "duration"       -> a.duration < b.duration
      [] OTHER -> FALSE

(* Faulty variant: rules made in the same second are not told apart.       *)
compareRuleTies(a, b, orderBy) ==
    CASE orderBy = "createTime" -> a.time < b.time
      [] orderBy = "name"       -> a.name < b.name
      [] OTHER -> FALSE

compareRule(a, b, orderBy) ==
    CASE orderBy = "createTime" ->
             IF a.time = b.time THEN a.name < b.name ELSE a.time < b.time
      [] orderBy = "name" -> a.name < b.name
      [] OTHER -> FALSE

compareResult(a, b, orderBy) == orderBy = "createTime" /\ a.time < b.time

compare(kind, a, b, orderBy) ==
    CASE kind = "inspectplans" -> comparePlan(a, b, orderBy)
      [] kind = "inspecttasks" -> compareTask(a, b, orderBy)
      [] kind = "inspectrules" -> compareRule(a, b, orderBy)
      [] OTHER -> compareResult(a, b, orderBy)

(* What sort.Slice is given: Desc negates the comparison, so that two      *)
(* equal objects each come before the other.                               *)
Before(kind, a, b, orderBy, asc) ==
    IF asc THEN compare(kind, a, b, orderBy) ELSE ~compare(kind, a, b, orderBy)

(* The lists sort.Slice may answer with for the objects in S, which the    *)
(* lister hands out in the order of a map: two objects that come before    *)
(* each other, or neither before the other, may stand either way.          *)
Sorted(kind, S, orderBy, asc) ==
    {s \in [1..Cardinality(S) -> S] :
        /\ \A i, j \in DOMAIN s : i # j => s[i] # s[j]
        /\ orderBy # "" =>
             \A i, j \in DOMAIN s : i < j =>
                 ~(/\ Before(kind, s[j], s[i], orderBy, asc)
                   /\ ~Before(kind, s[i], s[j], orderBy, asc))}

-----------------------------------------------------------------------------
(* Filters: a filter is a function from keys to values.  Of a value for a  *)
(* name is told whether it is a UUID, and of which object, and which names *)
(* contain it.  Whatever the URL has beside the parameters of the list is  *)
(* a filter.                                                               *)
ParseFilter(url) ==
    [k \in DOMAIN url \ {"limit", "page", "sortBy", "ascending", "labelSelector",
                          "details", "type", "source"} |-> url[k]]

filterPlan(o, k, v) ==
    CASE k = "suspend"        -> o.suspend = (v = "true")
      [] k = "lastTaskStatus" -> o.status = v
      [] k = "strategy"       -> IF v = "cycle" THEN ~o.once /\ o.schedule ELSE o.once
      [] k = "inspectType"    -> (v = "instant") = (~o.schedule /\ ~o.once)
      [] k = "name"           -> IF v.isUUID THEN o.uid = v.uid ELSE o.name \in v.names

filterTask(o, k, v) ==
    CASE k = "status"      -> o.status = v
      [] k = "inspectType" -> o.type = v

Keys(kind) ==
    IF kind = "inspectplans" THEN {"suspend", "lastTaskStatus", "strategy", "inspectType", "name"}
    ELSE {"status", "inspectType"}

(* Whether a plan or a task may pass.  The keys are met in the order of a  *)
(* map, the answer to the last known key holds for the unknown ones behind *)
(* it, and a key that is met before any known one refuses the object.      *)
filterWalk(kind, o, f) ==
    LET known == DOMAIN f \cap Keys(kind)
        passes(k) == IF kind = "inspectplans" THEN filterPlan(o, k, f[k]) ELSE filterTask(o, k, f[k])
    IN  CASE \E k \in known : ~passes(k)         -> {FALSE}
          [] known = {} /\ DOMAIN f # {}          -> {FALSE}
          [] OTHER -> IF DOMAIN f = known THEN {TRUE} ELSE {TRUE, FALSE}

(* Rules and results are asked for their names, and for nothing else.      *)
filterName(o, f) == "name" \in DOMAIN f /\ o.name \in f["name"].names

(* F: what may be left of the objects in S; without a filter, all.         *)
Filtered(kind, S, f) ==
    LET outcomes(o) == CASE DOMAIN f = {} -> {TRUE}
                         [] DOMAIN f # {} /\ kind \in {"inspectplans", "inspecttasks"} ->
                                filterWalk(kind, o, f)
                         [] OTHER -> {filterName(o, f)}
    IN  {T \in SUBSET S : \A o \in S : (o \in T) \in outcomes(o)}

(* GetPageData for a list that is filtered and sorted; a panic answers     *)
(* with nothing.                                                           *)
GetPageData(s, page, limit) ==
    LET b == computeIndex(ParsePagination(page, limit), Len(s))
    IN [total |-> Len(s),
        items |-> IF InBounds(b, Len(s)) THEN SubSeq(s, b[1] + 1, b[2]) ELSE <<>>]

-----------------------------------------------------------------------------
(* Properties                                                              *)

(* computeIndex: no page and no limit makes the slice expression panic, as *)
(* long as the sum of offset and limit fits into an int.                   *)
PageInBounds(total) ==
    \A page, limit \in Param :
        LET p == ParsePagination(page, limit) IN
        p.offset + p.limit <= MaxInt => InBounds(computeIndex(p, total), total)

(* A client that asks for one page after the other, without a limit, gets  *)
(* every object of S once, although each request sorts anew what the       *)
(* lister hands out in any order.  Rules are told apart by their names,    *)
(* plans, tasks and results only by the second they were created in.       *)
PagesTile(kind, S, orderBy, asc) ==
    kind = "inspectrules" \/ (\A a, b \in S : a # b => a.time # b.time)
    => LET last == (Cardinality(S) \div DefaultLimit) + 1
       IN \A sorted \in [1..last -> Sorted(kind, S, orderBy, asc)] :
            LET pages == [n \in 1..last |->
                    GetPageData(sorted[n], [kind |-> "int", n |-> n], None).items]
            IN \A o \in S :
                 Cardinality({at \in (1..last) \X (1..DefaultLimit) :
                                 at[2] <= Len(pages[at[1]]) /\ pages[at[1]][at[2]] = o}) = 1
=============================================================================
