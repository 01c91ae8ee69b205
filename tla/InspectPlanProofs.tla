------------------------- MODULE InspectPlanProofs -------------------------
(***************************************************************************)
(* Proofs about InspectPlan, for any rules, any schedule, any number of    *)
(* minutes, edits, crashes and failures: type correctness, the counts of   *)
(* the plan at its rules, the tasks that cleanTask keeps, and what the     *)
(* plan's status says of its tasks.                                        *)
(***************************************************************************)
EXTENDS InspectPlan, FiniteSetTheorems, SequenceTheorems, TLAPS

-----------------------------------------------------------------------------
(* The inductive invariant                                                 *)

(* A copy of the plan is older than the plan or equal to it.               *)
CopyOf(p) == p.ver <= plan.ver /\ (p.ver = plan.ver => p = plan) /\ (p.del => plan.del)

(* The labels of rules the plan does not name are of rules taken off it.   *)
Known(p) == p.labels \ ToSet(p.ruleNames) \subseteq off

Counted(r) == count[r] \in Nat \ {0}

CopyInv ==
    /\ CopyOf(cache) /\ Known(plan) /\ Known(cache)
    /\ ctl # "idle" => CopyOf(old) /\ Known(old)

(* What Reconcile has changed so far in its copy; only addRules gives it   *)
(* labels, those of the rules whose counts were stored.                    *)
MyInv == ctl # "idle" =>
    /\ my.del = old.del /\ my.ruleNames = old.ruleNames
    /\ ctl \in {"release", "dropFinalizer"} => old.del
    /\ ctl # "updateRules" => my.labels = old.labels
    /\ ctl = "updateRules" => Known(my) /\ \A r \in my.labels \ old.labels : Counted(r)

(* Also while the plan does not exist or is about to lose a rule.          *)
CountInv == ~plan.del => \A r \in plan.labels \ off : Counted(r)

(* The lister shows only tasks that were created.                          *)
TaskInv == \A m \in Minutes : Live(tcache[m]) => tasks[m] # "none"

IInv == TypeOK /\ CopyInv /\ MyInv /\ CountInv /\ TaskInv

-----------------------------------------------------------------------------
(* The operators of the model                                              *)

(* What the proofs need to know of a changed copy of a plan.               *)
Like(p, q) == p.del = q.del /\ p.ruleNames = q.ruleNames /\ p.labels = q.labels

(* The changes of a plan that keep its rules, its labels and its deletion. *)
LEMMA Changes ==
    ASSUME NEW p \in Plan
    PROVE  /\ \A b \in BOOLEAN :
                /\ [p EXCEPT !.fin = b] \in Plan /\ Like([p EXCEPT !.fin = b], p)
                /\ [p EXCEPT !.suspend = b] \in Plan /\ Like([p EXCEPT !.suspend = b], p)
                /\ [p EXCEPT !.exists = b] \in Plan /\ Like([p EXCEPT !.exists = b], p)
                /\ [p EXCEPT !.exists = b].ver = p.ver
           /\ \A n \in Nat :
                /\ [p EXCEPT !.ruleNum = n] \in Plan /\ Like([p EXCEPT !.ruleNum = n], p)
                /\ [p EXCEPT !.last = n] \in Plan /\ Like([p EXCEPT !.last = n], p)
                /\ [p EXCEPT !.sched = n] \in Plan /\ Like([p EXCEPT !.sched = n], p)
                /\ [p EXCEPT !.ver = n] \in Plan /\ Like([p EXCEPT !.ver = n], p)
                /\ [p EXCEPT !.ver = n].ver = n
           /\ \A s \in PlanStatus :
                [p EXCEPT !.status = s] \in Plan /\ Like([p EXCEPT !.status = s], p)
           /\ \A list \in Seq(Minutes \X Phase) :
                [p EXCEPT !.names = list] \in Plan /\ Like([p EXCEPT !.names = list], p)
<1> DEFINE R == Seq(Rules)
           T == Seq(Minutes \X Phase)
<1>1. Plan = [exists: BOOLEAN, ver: Nat, fin: BOOLEAN, del: BOOLEAN, suspend: BOOLEAN,
              ruleNames: R, labels: SUBSET Rules, ruleNum: Nat,
              status: PlanStatus, last: Nat, sched: Nat, names: T]
  BY DEF Plan
<1> HIDE DEF R, T
<1>3. ASSUME NEW b \in BOOLEAN
      PROVE  /\ [p EXCEPT !.fin = b] \in Plan /\ Like([p EXCEPT !.fin = b], p)
             /\ [p EXCEPT !.suspend = b] \in Plan /\ Like([p EXCEPT !.suspend = b], p)
             /\ [p EXCEPT !.exists = b] \in Plan /\ Like([p EXCEPT !.exists = b], p)
             /\ [p EXCEPT !.exists = b].ver = p.ver
  BY <1>1 DEF Like
<1>4. ASSUME NEW n \in Nat
      PROVE  /\ [p EXCEPT !.ruleNum = n] \in Plan /\ Like([p EXCEPT !.ruleNum = n], p)
             /\ [p EXCEPT !.last = n] \in Plan /\ Like([p EXCEPT !.last = n], p)
             /\ [p EXCEPT !.sched = n] \in Plan /\ Like([p EXCEPT !.sched = n], p)
             /\ [p EXCEPT !.ver = n] \in Plan /\ Like([p EXCEPT !.ver = n], p)
             /\ [p EXCEPT !.ver = n].ver = n
  BY <1>1 DEF Like
<1>5. ASSUME NEW s \in PlanStatus
      PROVE  [p EXCEPT !.status = s] \in Plan /\ Like([p EXCEPT !.status = s], p)
  BY <1>1 DEF Like
<1>6. ASSUME NEW list \in T
      PROVE  [p EXCEPT !.names = list] \in Plan /\ Like([p EXCEPT !.names = list], p)
  BY <1>1 DEF Like
<1> QED BY <1>3, <1>4, <1>5, <1>6, Zenon DEF T

(* The changes of its rules, its labels and its deletion.                  *)
LEMMA OtherChanges ==
    ASSUME NEW p \in Plan
    PROVE  /\ [p EXCEPT !.del = TRUE] \in Plan /\ [p EXCEPT !.del = TRUE].del = TRUE
           /\ [p EXCEPT !.del = TRUE].labels = p.labels
           /\ [p EXCEPT !.del = TRUE].ruleNames = p.ruleNames
           /\ \A list \in Seq(Rules) :
                /\ [p EXCEPT !.ruleNames = list] \in Plan
                /\ [p EXCEPT !.ruleNames = list].ruleNames = list
                /\ [p EXCEPT !.ruleNames = list].labels = p.labels
                /\ [p EXCEPT !.ruleNames = list].del = p.del
           /\ \A S \in SUBSET Rules :
                /\ [p EXCEPT !.labels = S] \in Plan /\ [p EXCEPT !.labels = S].labels = S
                /\ [p EXCEPT !.labels = S].ruleNames = p.ruleNames
                /\ [p EXCEPT !.labels = S].del = p.del
<1> DEFINE R == Seq(Rules)
           T == Seq(Minutes \X Phase)
<1>1. Plan = [exists: BOOLEAN, ver: Nat, fin: BOOLEAN, del: BOOLEAN, suspend: BOOLEAN,
              ruleNames: R, labels: SUBSET Rules, ruleNum: Nat,
              status: PlanStatus, last: Nat, sched: Nat, names: T]
  BY DEF Plan
<1> HIDE DEF R, T
<1>2. /\ [p EXCEPT !.del = TRUE] \in Plan /\ [p EXCEPT !.del = TRUE].del = TRUE
      /\ [p EXCEPT !.del = TRUE].labels = p.labels
      /\ [p EXCEPT !.del = TRUE].ruleNames = p.ruleNames
  BY <1>1
<1>3. ASSUME NEW list \in R
      PROVE  /\ [p EXCEPT !.ruleNames = list] \in Plan
             /\ [p EXCEPT !.ruleNames = list].ruleNames = list
             /\ [p EXCEPT !.ruleNames = list].labels = p.labels
             /\ [p EXCEPT !.ruleNames = list].del = p.del
  BY <1>1
<1>4. ASSUME NEW S \in SUBSET Rules
      PROVE  /\ [p EXCEPT !.labels = S] \in Plan /\ [p EXCEPT !.labels = S].labels = S
             /\ [p EXCEPT !.labels = S].ruleNames = p.ruleNames
             /\ [p EXCEPT !.labels = S].del = p.del
  BY <1>1
<1> QED BY <1>2, <1>3, <1>4, Zenon DEF R

(* The types of a plan's fields.                                           *)
LEMMA Fields ==
    ASSUME NEW p \in Plan
    PROVE  /\ p.ver \in Nat /\ p.ruleNames \in Seq(Rules) /\ p.labels \subseteq Rules
           /\ p.del \in BOOLEAN /\ p.fin \in BOOLEAN /\ p.suspend \in BOOLEAN
           /\ p.last \in Nat /\ p.sched \in Nat
           /\ p.names \in Seq(Minutes \X Phase) /\ p.status \in PlanStatus
           /\ ToSet(p.ruleNames) \subseteq Rules /\ Len(p.ruleNames) \in Nat
<1>1. /\ p.ver \in Nat /\ p.ruleNames \in Seq(Rules) /\ p.labels \subseteq Rules
      /\ p.last \in Nat /\ p.sched \in Nat
      /\ p.names \in Seq(Minutes \X Phase) /\ p.status \in PlanStatus
  BY DEF Plan
<1>2. p.del \in BOOLEAN /\ p.fin \in BOOLEAN /\ p.suspend \in BOOLEAN
  BY DEF Plan
<1>3. ToSet(p.ruleNames) \subseteq Rules /\ Len(p.ruleNames) \in Nat
  BY <1>1 DEF ToSet
<1> QED BY <1>1, <1>2, <1>3

(* The plan as it is created.                                              *)
LEMMA NewPlanIs ==
    /\ NewPlan \in Plan /\ NewPlan.labels = {} /\ NewPlan.ver = 0
    /\ NewPlan.del = FALSE /\ NewPlan.ruleNames = RuleNames
<1>1. "" \in PlanStatus /\ <<>> \in Seq(Minutes \X Phase)
  BY DEF PlanStatus
<1> DEFINE R == Seq(Rules)
           T == Seq(Minutes \X Phase)
           e == <<>>
           b == Suspended
<1>2. Plan = [exists: BOOLEAN, ver: Nat, fin: BOOLEAN, del: BOOLEAN, suspend: BOOLEAN,
              ruleNames: R, labels: SUBSET Rules, ruleNum: Nat,
              status: PlanStatus, last: Nat, sched: Nat, names: T]
  BY DEF Plan
<1>3. NewPlan = [exists |-> TRUE, ver |-> 0, fin |-> FALSE, del |-> FALSE,
                 suspend |-> b, ruleNames |-> RuleNames, labels |-> {},
                 ruleNum |-> 0, status |-> "", last |-> 0, sched |-> 0, names |-> e]
  BY DEF NewPlan
<1>4. e \in T /\ RuleNames \in R /\ b \in BOOLEAN
  BY <1>1, SpecAssumption
<1> HIDE DEF R, T, e, b
<1>5. NewPlan \in Plan
  BY <1>1, <1>2, <1>3, <1>4
<1>6. NewPlan.labels = {} /\ NewPlan.ver = 0 /\ NewPlan.ruleNames = RuleNames
  BY <1>3
<1>7. NewPlan.del = FALSE
  BY <1>3, Zenon
<1> QED BY <1>5, <1>6, <1>7

(* What an accepted write of new makes of the plan.                        *)
LEMMA StoredIs ==
    ASSUME plan \in Plan, NEW new \in Plan
    PROVE  /\ Stored(new) \in Plan /\ Like(Stored(new), new)
           /\ Stored(new) = plan \/ Stored(new).ver = plan.ver + 1
<1> DEFINE b == ~(new.del /\ ~new.fin)
           u == [new EXCEPT !.ver = plan.ver + 1]
           t == [u EXCEPT !.exists = b]
           v == [plan EXCEPT !.ver = new.ver]
<1>0. plan.ver + 1 \in Nat /\ new.ver \in Nat /\ b \in BOOLEAN
  BY Fields
<1>1. CASE new = v
  <2>1. Like(v, plan)
    BY <1>0, Changes
  <2>2. Stored(new) = plan
    BY <1>1 DEF Stored
  <2> QED BY <1>1, <2>1, <2>2 DEF Like
<1>2. CASE new # v
  <2>1. Stored(new) = t
    BY <1>2 DEF Stored
  <2> HIDE DEF b
  <2>2. u \in Plan /\ Like(u, new) /\ u.ver = plan.ver + 1
    BY <1>0, Changes
  <2> HIDE DEF u
  <2>3. t \in Plan /\ Like(t, u) /\ t.ver = u.ver
    BY <1>0, <2>2, Changes
  <2> QED BY <2>1, <2>2, <2>3 DEF Like
<1> QED BY <1>1, <1>2

(* When a plan is looked at again.                                         *)
LEMMA Times ==
    ASSUME TypeOK
    PROVE  /\ minute \in Nat /\ WaitsUntil(cache) \in Nat
           /\ \A t \in Nat : Earliest(t) \in Nat
<1>1. minute \in Nat /\ timer \in Nat
  BY BoundsAssumption DEF TypeOK, Minutes
<1>2. NextTime(minute) \in Nat
  <2>1. minute \div Period \in Nat
    BY <1>1, SpecAssumption
  <2> DEFINE d == minute \div Period
  <2> HIDE DEF d
  <2>2. d \in Nat => (d + 1) * Period \in Nat
    BY SpecAssumption
  <2> QED BY <2>1, <2>2 DEF d, NextTime
<1> QED BY <1>1, <1>2, SpecAssumption DEF WaitsUntil, Earliest

(* The list of tasks with one more, or with another phase of one.          *)
LEMMA Lists ==
    ASSUME NEW list \in Seq(Minutes \X Phase), NEW m \in Minutes, NEW s \in Phase, NEW i
    PROVE  /\ Append(list, <<m, s>>) \in Seq(Minutes \X Phase)
           /\ [list EXCEPT ![i] = <<m, s>>] \in Seq(Minutes \X Phase)
<1> DEFINE T == Minutes \X Phase
           e == <<m, s>>
<1>1. e \in T /\ list \in Seq(T)
  OBVIOUS
<1> HIDE DEF T, e
<1>2. Append(list, e) \in Seq(T)
  BY <1>1
<1>3. [list EXCEPT ![i] = e] \in Seq(T)
  <2>1. PICK n \in Nat : list \in [1..n -> T]
    BY <1>1, SeqDef
  <2>2. [list EXCEPT ![i] = e] \in [1..n -> T]
    BY <1>1, <2>1
  <2> DEFINE f == [list EXCEPT ![i] = e]
  <2>3. f \in [1..n -> T]
    BY <2>2
  <2> HIDE DEF f
  <2>4. f \in UNION {[1..k -> T] : k \in Nat}
    BY <2>3
  <2>5. f \in Seq(T)
    BY <2>4, SeqDef, Zenon
  <2> QED BY <2>5 DEF f
<1> QED BY <1>2, <1>3 DEF T, e

(* The plan with its new task, or with what a task has reported.           *)
LEMMA Noted ==
    ASSUME TypeOK, NEW p \in Plan, NEW m \in Minutes, NEW s \in Phase
    PROVE  WithTask(p, m, s) \in Plan /\ Like(WithTask(p, m, s), p)
<1>0. /\ p.names \in Seq(Minutes \X Phase) /\ m \in Nat /\ now \in Nat /\ minute \in Nat
      /\ s \in PlanStatus /\ "Pending" \in PlanStatus
  <2>1. p.names \in Seq(Minutes \X Phase)
    BY Fields
  <2>2. m \in Nat /\ now \in Nat /\ minute \in Nat
    BY BoundsAssumption DEF TypeOK, Minutes
  <2> QED BY <2>1, <2>2 DEF Phase, PlanStatus
<1> DEFINE known == {i \in DOMAIN p.names : p.names[i][1] = m}
           k == Min(known)
           one == Append(p.names, <<m, s>>)
           two == IF known = {} THEN one ELSE [p.names EXCEPT ![k] = <<m, s>>]
<1> HIDE DEF k
<1>1. one \in Seq(Minutes \X Phase)
  BY <1>0, Lists
<1>2. [p.names EXCEPT ![k] = <<m, s>>] \in Seq(Minutes \X Phase)
  BY <1>0, Lists
<1>3. two \in Seq(Minutes \X Phase)
  BY <1>1, <1>2, Zenon
<1>4. WithTask(p, m, s) =
        IF Cron THEN [p EXCEPT !.names = one, !.last = m, !.sched = now, !.status = "Pending"]
        ELSE [p EXCEPT !.last = m, !.sched = minute, !.status = s, !.names = two]
  BY Zenon DEF WithTask, k
<1> HIDE DEF one, two
<1> DEFINE a1 == [p EXCEPT !.names = one]
           a2 == [a1 EXCEPT !.last = m]
           a3 == [a2 EXCEPT !.sched = now]
           a4 == [a3 EXCEPT !.status = "Pending"]
           b1 == [p EXCEPT !.last = m]
           b2 == [b1 EXCEPT !.sched = minute]
           b3 == [b2 EXCEPT !.status = s]
           b4 == [b3 EXCEPT !.names = two]
<1>5. /\ [p EXCEPT !.names = one, !.last = m, !.sched = now, !.status = "Pending"] = a4
      /\ [p EXCEPT !.last = m, !.sched = minute, !.status = s, !.names = two] = b4
  BY DEF Plan
<1>6. a4 \in Plan /\ Like(a4, p)
  <2>1. a1 \in Plan /\ Like(a1, p)
    BY <1>1, Changes
  <2> HIDE DEF a1
  <2>2. a2 \in Plan /\ Like(a2, a1)
    BY <1>0, <2>1, Changes
  <2> HIDE DEF a2
  <2>3. a3 \in Plan /\ Like(a3, a2)
    BY <1>0, <2>2, Changes
  <2> HIDE DEF a3
  <2>4. a4 \in Plan /\ Like(a4, a3)
    BY <1>0, <2>3, Changes
  <2> HIDE DEF a4
  <2> QED BY <2>1, <2>2, <2>3, <2>4 DEF Like
<1>7. b4 \in Plan /\ Like(b4, p)
  <2>1. b1 \in Plan /\ Like(b1, p)
    BY <1>0, Changes
  <2> HIDE DEF b1
  <2>2. b2 \in Plan /\ Like(b2, b1)
    BY <1>0, <2>1, Changes
  <2> HIDE DEF b2
  <2>3. b3 \in Plan /\ Like(b3, b2)
    BY <1>0, <2>2, Changes
  <2> HIDE DEF b3
  <2>4. b4 \in Plan /\ Like(b4, b3)
    BY <1>3, <2>3, Changes
  <2> HIDE DEF b4
  <2> QED BY <2>1, <2>2, <2>3, <2>4 DEF Like
<1> HIDE DEF a4, b4
<1> QED BY <1>4, <1>5, <1>6, <1>7

(* The plan with what a task has reported.                                 *)
LEMMA ReportedIs ==
    ASSUME plan \in Plan, NEW m \in Minutes, NEW s \in Phase
    PROVE  \E new \in Plan : Like(new, plan) /\ Reported(m, s) = Stored(new)
<1>0. plan.names \in Seq(Minutes \X Phase) /\ s \in PlanStatus
  BY Fields DEF PlanStatus
<1> DEFINE known == {i \in DOMAIN plan.names : plan.names[i][1] = m}
           k == Min(known)
           two == IF known = {} THEN plan.names ELSE [plan.names EXCEPT ![k] = <<m, s>>]
           a == [plan EXCEPT !.status = s]
           b == [a EXCEPT !.names = two]
<1> HIDE DEF k
<1>1. [plan.names EXCEPT ![k] = <<m, s>>] \in Seq(Minutes \X Phase)
  BY <1>0, Lists
<1>2. two \in Seq(Minutes \X Phase)
  BY <1>0, <1>1
<1>3. Reported(m, s) = Stored([plan EXCEPT !.status = s, !.names = two])
  BY Zenon DEF Reported, k
<1> HIDE DEF two
<1>4. [plan EXCEPT !.status = s, !.names = two] = b
  BY DEF Plan
<1>5. a \in Plan /\ Like(a, plan)
  BY <1>0, Changes
<1> HIDE DEF a
<1>6. b \in Plan /\ Like(b, a)
  BY <1>2, <1>5, Changes
<1> HIDE DEF b
<1> QED BY <1>3, <1>4, <1>5, <1>6 DEF Like

(* The plan with the patch of this Reconcile.                              *)
LEMMA PatchedIs ==
    ASSUME plan \in Plan, my \in Plan
    PROVE  Patched \in Plan /\ Like(Patched, plan)
<1>0. /\ plan.names \in Seq(Minutes \X Phase) /\ my.names \in Seq(Minutes \X Phase)
      /\ plan.last \in Nat /\ my.last \in Nat /\ plan.sched \in Nat /\ my.sched \in Nat
      /\ plan.status \in PlanStatus /\ my.status \in PlanStatus
  BY Fields
<1> DEFINE names == IF my.names = old.names THEN plan.names ELSE my.names
           last == IF my.last = old.last THEN plan.last ELSE my.last
           sched == IF my.sched = old.sched THEN plan.sched ELSE my.sched
           status == IF my.status = old.status THEN plan.status ELSE my.status
           a == [plan EXCEPT !.names = names]
           b == [a EXCEPT !.last = last]
           c == [b EXCEPT !.sched = sched]
           d == [c EXCEPT !.status = status]
<1>1. /\ names \in Seq(Minutes \X Phase) /\ last \in Nat /\ sched \in Nat
      /\ status \in PlanStatus
  BY <1>0
<1>2. Patched = [plan EXCEPT !.names = names, !.last = last, !.sched = sched, !.status = status]
  BY DEF Patched
<1> HIDE DEF names, last, sched, status
<1>3. Patched = d
  BY <1>2 DEF Plan
<1>4. a \in Plan /\ Like(a, plan)
  BY <1>1, Changes
<1> HIDE DEF a
<1>5. b \in Plan /\ Like(b, a)
  BY <1>1, <1>4, Changes
<1> HIDE DEF b
<1>6. c \in Plan /\ Like(c, b)
  BY <1>1, <1>5, Changes
<1> HIDE DEF c
<1>7. d \in Plan /\ Like(d, c)
  BY <1>1, <1>6, Changes
<1> HIDE DEF d
<1> QED BY <1>3, <1>4, <1>5, <1>6, <1>7 DEF Like

(* InOrder finds a task for each place of the list.                        *)
LEMMA InOrderIs ==
    ASSUME NEW S \in SUBSET Nat, IsFiniteSet(S), NEW i \in 1..Cardinality(S)
    PROVE  InOrder(S, i) \in S
<1> DEFINE n == Cardinality(S)
           below(m) == {k \in S : k < m}
           rank == [m \in S |-> Cardinality(below(m))]
<1>0. n \in Nat
  BY FS_CardinalityType
<1>1. ASSUME NEW m \in S
      PROVE  IsFiniteSet(below(m)) /\ Cardinality(below(m)) \in 0..(n - 1)
  <2>1. below(m) \subseteq S \ {m} /\ IsFiniteSet(S \ {m})
    BY FS_RemoveElement
  <2>2. Cardinality(S \ {m}) = n - 1
    BY FS_RemoveElement
  <2>3. IsFiniteSet(below(m)) /\ Cardinality(below(m)) <= Cardinality(S \ {m})
    BY <2>1, FS_Subset
  <2>4. Cardinality(below(m)) \in Nat
    BY <2>3, FS_CardinalityType
  <2> QED BY <1>0, <2>2, <2>3, <2>4
<1>2. ASSUME NEW m \in S, NEW l \in S, m < l
      PROVE  Cardinality(below(m)) < Cardinality(below(l))
  <2>0. m \in Nat /\ l \in Nat /\ \A k \in S : k \in Nat
    OBVIOUS
  <2>1. below(m) \subseteq below(l) /\ m \in below(l) /\ m \notin below(m)
    <3>1. ASSUME NEW k \in S, k < m PROVE k < l
      BY <1>2, <2>0, <3>1
    <3>2. ~(m < m) /\ m < l
      BY <1>2, <2>0
    <3> QED BY <3>1, <3>2
  <2>2. IsFiniteSet(below(l)) /\ IsFiniteSet(below(m))
    BY <1>1
  <2>3. Cardinality(below(l)) \in Nat /\ Cardinality(below(m)) \in Nat
    BY <2>2, FS_CardinalityType
  <2>4. Cardinality(below(m)) <= Cardinality(below(l))
    BY <2>1, <2>2, FS_Subset
  <2>5. Cardinality(below(m)) # Cardinality(below(l))
    BY <2>1, <2>2, FS_Subset
  <2> QED BY <2>3, <2>4, <2>5
<1>3. rank \in Injection(S, 0..(n - 1))
  <2>1. rank \in [S -> 0..(n - 1)]
    BY <1>1
  <2>2. ASSUME NEW m \in S, NEW l \in S, rank[m] = rank[l] PROVE m = l
    <3>1. Cardinality(below(m)) = Cardinality(below(l))
      BY <2>2
    <3>2. Cardinality(below(m)) \in Nat
      BY <1>1, FS_CardinalityType
    <3>3. ~(m < l) /\ ~(l < m)
      BY <1>2, <3>1, <3>2
    <3> QED BY <3>3
  <2> QED BY <2>1, <2>2 DEF Injection, IsInjective
<1>4. IsFiniteSet(0..(n - 1)) /\ Cardinality(0..(n - 1)) = n
  <2>1. 0 \in Int /\ n - 1 \in Int
    BY <1>0
  <2>2. /\ IsFiniteSet(0..(n - 1))
        /\ Cardinality(0..(n - 1)) = IF 0 > n - 1 THEN 0 ELSE (n - 1) - 0 + 1
    BY <2>1, FS_Interval
  <2>3. (IF 0 > n - 1 THEN 0 ELSE (n - 1) - 0 + 1) = n
    BY <1>0
  <2> QED BY <2>2, <2>3
<1>5. rank \in Surjection(S, 0..(n - 1))
  BY <1>3, <1>4, FS_Injection
<1>6. i - 1 \in 0..(n - 1)
  BY <1>0
<1>7. \E m \in S : Cardinality(below(m)) = i - 1
  BY <1>5, <1>6 DEF Surjection
<1> QED BY <1>7 DEF InOrder

(* What recounting the plan does to the rules.                             *)
LEMMA Recounted ==
    ASSUME TypeOK, NEW S \in SUBSET Rules, NEW ok \in SUBSET S,
           NEW changed \in [Rules -> Nat \cup {Absent}], Recount(S, changed, ok)
    PROVE  /\ count' \in [Rules -> Nat \cup {Absent}]
           /\ lister' \in [Rules -> Nat \cup {Absent}] /\ fresh' \subseteq Rules
           /\ ok \subseteq S /\ \A r \in Rules : count'[r] = IF r \in ok THEN changed[r] ELSE count[r]
           /\ UNCHANGED <<plan, cache, queueVars, old, now, taskVars, minute, off>>
<1>1. ok \subseteq S \cap Installed
  BY DEF Recount
<1>2. /\ lister' = [r \in Rules |-> IF r \in S \cap Installed THEN changed[r] ELSE lister[r]]
      /\ count' = [r \in Rules |-> IF r \in ok THEN lister'[r] ELSE count[r]]
      /\ fresh' = fresh \ {r \in ok : count'[r] # count[r]}
      /\ UNCHANGED <<plan, cache, queueVars, old, now, taskVars, minute, off>>
  BY DEF Recount, editVars
<1> QED BY <1>1, <1>2 DEF TypeOK

(* The counts that recounting stores.                                      *)
LEMMA RaisedLowered ==
    ASSUME TypeOK
    PROVE  /\ Raised \in [Rules -> Nat \cup {Absent}] /\ Lowered \in [Rules -> Nat \cup {Absent}]
           /\ \A r \in Rules : Raised[r] \in Nat \ {0}
  BY DEF TypeOK, Raised, Lowered, OneMore, OneLess

-----------------------------------------------------------------------------
(* Type correctness                                                        *)

(* Update or Status().Update, and the return of Reconcile.                 *)
LEMMA UpdateIs ==
    ASSUME TypeOK, NEW new \in Plan, UpdateAndReturn(new)
    PROVE  /\ plan' = plan \/ (old.ver = plan.ver /\ plan' = Stored(new))
           /\ plan' \in Plan
           /\ ctl' = "idle" /\ old' = NewPlan /\ my' = NewPlan /\ now' = 1 /\ timer' \in Nat
           /\ UNCHANGED <<cache, queued, tasks, tcache, count, lister, fresh, minute, off>>
<1>1. plan' = plan \/ (old.ver = plan.ver /\ plan' = Stored(new))
  BY DEF UpdateAndReturn, Current
<1>2. plan' \in Plan
  BY <1>1, StoredIs DEF TypeOK
<1>3. ctl' = "idle" /\ old' = NewPlan /\ my' = NewPlan /\ now' = 1
  BY Zenon DEF UpdateAndReturn, Return, ReturnError, RequeueAt, Leave
<1>4. timer' \in Nat
  <2>1. timer' = timer \/ timer' = Earliest(minute)
    BY DEF UpdateAndReturn, Return, ReturnError, RequeueAt
  <2> QED BY <2>1, Times DEF TypeOK
<1>5. UNCHANGED <<cache, queued, tasks, tcache, count, lister, fresh, minute, off>>
  BY DEF UpdateAndReturn, taskVars, ruleVars, editVars
<1> QED BY <1>1, <1>2, <1>3, <1>4, <1>5

(* The rules that a plan drops or joins are rules.                         *)
LEMMA RulesOf ==
    ASSUME NEW p \in Plan
    PROVE  Dropped(p) \subseteq Rules /\ Joined(p) \subseteq Rules
<1>1. Dropped(p) \subseteq Rules
  BY Fields DEF Dropped, LabelsAfter
<1>2. Joined(p) \subseteq Rules
  <2>1. p.ruleNames \in Seq(Rules)
    BY Fields
  <2>2. \A i \in DOMAIN p.ruleNames : p.ruleNames[i] \in Rules
    BY <2>1
  <2> QED BY <2>2 DEF Joined
<1> QED BY <1>1, <1>2

(* The variables that an Update leaves behind have their types.            *)
LEMMA TypeUpdate ==
    ASSUME TypeOK, NEW new \in Plan, UpdateAndReturn(new)
    PROVE  TypeOK'
<1>1. NewPlan \in Plan /\ 1 \in Minutes
  BY NewPlanIs, BoundsAssumption DEF Minutes
<1>2. /\ plan' \in Plan
      /\ ctl' = "idle" /\ old' = NewPlan /\ my' = NewPlan /\ now' = 1 /\ timer' \in Nat
      /\ UNCHANGED <<cache, queued, tasks, tcache, count, lister, fresh, minute, off>>
  BY UpdateIs
<1> QED BY <1>1, <1>2 DEF TypeOK, CtlLabel

(* The branches of Reconcile.                                              *)
LEMMA Branches ==
    ASSUME NEW p
    PROVE  Branch(p) \in (CtlLabel \ {"updateRules", "dropFinalizer", "clean", "write"}) \cup {"wait"}
<1>1. Upkeep(p) \in {"addFinalizer", "subRules", "addRules", "setPending", "idle", "create", "wait"}
  BY DEF Upkeep
<1>2. Branch(p) \in {"idle", "release", Upkeep(p)}
  BY DEF Branch
<1> QED BY <1>1, <1>2 DEF CtlLabel

(* Reconcile starts.                                                       *)
LEMMA ReconcileIs ==
    ASSUME TypeOK, Reconcile
    PROVE  /\ timer' \in Nat /\ queued' = FALSE
           /\ \/ ctl' = "idle" /\ old' = NewPlan /\ my' = NewPlan /\ now' = 1
              \/ /\ ctl' = Branch(cache) /\ old' = cache /\ my' = cache /\ now' = minute
                 /\ ctl' \in CtlLabel \ {"updateRules", "dropFinalizer", "clean", "write"}
           /\ UNCHANGED <<plan, cache, tasks, tcache, count, lister, fresh, minute, off>>
<1>1. UNCHANGED <<plan, cache, tasks, tcache, count, lister, fresh, minute, off>> /\ queued' = FALSE
  BY DEF Reconcile, taskVars, ruleVars, faultVars, editVars
<1>2. CASE Branch(cache) = "idle"
  <2>1. Return
    BY <1>2 DEF Reconcile
  <2> QED BY <1>1, <2>1 DEF Return, Leave, TypeOK
<1>3. CASE Branch(cache) = "wait"
  <2>1. Return \/ RequeueAt(WaitsUntil(cache))
    BY <1>3 DEF Reconcile
  <2>2. timer' = timer \/ timer' = Earliest(WaitsUntil(cache))
    BY <2>1 DEF Return, RequeueAt
  <2>3. timer' \in Nat
    BY <2>2, Times DEF TypeOK
  <2> QED BY <1>1, <2>1, <2>3 DEF Return, RequeueAt, Leave
<1>4. CASE Branch(cache) \notin {"idle", "wait"}
  <2>1. ctl' = Branch(cache) /\ UNCHANGED timer /\ old' = cache /\ my' = cache /\ now' = minute
    BY <1>4 DEF Reconcile
  <2> QED BY <1>1, <1>4, <2>1, Branches DEF TypeOK
<1> QED BY <1>2, <1>3, <1>4

(* cleanTask makes the list of the tasks it keeps.                         *)
LEMMA CleanIs ==
    ASSUME TypeOK, cleanTask
    PROVE  my' \in Plan /\ Like(my', my) /\ tasks' \in [Minutes -> TaskState]
<1>1. Kept \subseteq Minutes /\ Kept \subseteq Nat /\ IsFiniteSet(Kept)
  <2>1. Kept \subseteq Minutes
    BY DEF Kept, Newest, Listed
  <2>2. IsFiniteSet(Minutes) /\ Minutes \subseteq Nat
    BY BoundsAssumption, FS_Interval DEF Minutes
  <2> QED BY <2>1, <2>2, FS_Subset
<1> DEFINE n == Cardinality(Kept)
           list == [i \in 1..n |-> Converted(InOrder(Kept, i))]
<1>2. n \in Nat
  BY <1>1, FS_CardinalityType
<1>3. ASSUME NEW i \in 1..n PROVE Converted(InOrder(Kept, i)) \in Minutes \X Phase
  <2>1. InOrder(Kept, i) \in Minutes
    BY <1>1, InOrderIs
  <2> QED BY <2>1 DEF Converted, GetStatus, Phase
<1>4. list \in Seq(Minutes \X Phase)
  <2> DEFINE T == Minutes \X Phase
  <2>1. \A i \in 1..n : Converted(InOrder(Kept, i)) \in T
    BY <1>3
  <2> HIDE DEF T, n
  <2>2. list \in [1..n -> T]
    BY <2>1
  <2> HIDE DEF list
  <2>3. list \in UNION {[1..k -> T] : k \in Nat}
    BY <1>2, <2>2
  <2>4. list \in Seq(T)
    BY <2>3, SeqDef, Zenon
  <2> QED BY <2>4 DEF T
<1>5. my' = my \/ my' = [my EXCEPT !.names = list]
  BY DEF cleanTask
<1> HIDE DEF list
<1>6. my' \in Plan /\ Like(my', my)
  <2>1. my \in Plan
    BY DEF TypeOK
  <2>2. [my EXCEPT !.names = list] \in Plan /\ Like([my EXCEPT !.names = list], my)
    BY <1>4, <2>1, Changes
  <2> QED BY <1>5, <2>1, <2>2 DEF Like
<1>7. tasks' \in [Minutes -> TaskState]
  BY DEF cleanTask, TypeOK, TaskState
<1> QED BY <1>6, <1>7

(* The rules that Reconcile recounts, and what it notes in its copy.       *)
LEMMA CountsAre ==
    ASSUME TypeOK
    PROVE  /\ updateAddRuleReferNum =>
                     \E ok \in SUBSET Joined(my) :
                       /\ Recount(Joined(my), Raised, ok)
                       /\ my' \in Plan /\ my'.labels = my.labels \cup ok
                       /\ my'.del = my.del /\ my'.ruleNames = my.ruleNames
           /\ updateSubRuleReferNum \/ ReleaseRules => my' \in Plan /\ Like(my', my)
<1>0. my \in Plan /\ Len(my.ruleNames) \in Nat /\ my.labels \subseteq Rules
  BY Fields DEF TypeOK
<1>1. ASSUME updateAddRuleReferNum
      PROVE  \E ok \in SUBSET Joined(my) :
                       /\ Recount(Joined(my), Raised, ok)
                       /\ my' \in Plan /\ my'.labels = my.labels \cup ok
                       /\ my'.del = my.del /\ my'.ruleNames = my.ruleNames
  <2>1. PICK ok \in SUBSET Joined(my) :
          /\ Recount(Joined(my), Raised, ok)
          /\ my' = [my EXCEPT !.labels = @ \cup ok, !.ruleNum = Len(my.ruleNames)]
    BY <1>1 DEF updateAddRuleReferNum
  <2> DEFINE S == my.labels \cup ok
             n == Len(my.ruleNames)
             a == [my EXCEPT !.labels = S]
             b == [a EXCEPT !.ruleNum = n]
  <2>2. my' = b
    BY <1>0, <2>1 DEF Plan
  <2>3. S \in SUBSET Rules /\ n \in Nat
    BY <1>0, RulesOf
  <2> HIDE DEF S, n
  <2>4. a \in Plan /\ a.labels = S /\ a.ruleNames = my.ruleNames /\ a.del = my.del
    BY <1>0, <2>3, OtherChanges
  <2> HIDE DEF a
  <2>5. b \in Plan /\ Like(b, a)
    BY <2>3, <2>4, Changes
  <2> HIDE DEF b
  <2>6. /\ Recount(Joined(my), Raised, ok)
        /\ my' \in Plan /\ my'.labels = my.labels \cup ok
        /\ my'.del = my.del /\ my'.ruleNames = my.ruleNames
    BY <2>1, <2>2, <2>4, <2>5 DEF Like, S
  <2> QED BY <2>6
<1>2. ASSUME updateSubRuleReferNum PROVE my' \in Plan /\ Like(my', my)
  BY <1>0, <1>2, Changes DEF updateSubRuleReferNum
<1>3. ASSUME ReleaseRules PROVE my' \in Plan /\ Like(my', my)
  BY <1>0, <1>3, Changes DEF ReleaseRules
<1> QED BY <1>1, <1>2, <1>3

(* The three recounts, as the other variables see them.                    *)
LEMMA RecountIs ==
    ASSUME TypeOK, updateAddRuleReferNum \/ updateSubRuleReferNum \/ ReleaseRules
    PROVE  /\ count' \in [Rules -> Nat \cup {Absent}]
           /\ lister' \in [Rules -> Nat \cup {Absent}] /\ fresh' \subseteq Rules
           /\ my' \in Plan /\ my'.del = my.del /\ my'.ruleNames = my.ruleNames
           /\ ctl' \in {"updateRules", "dropFinalizer"}
           /\ UNCHANGED <<plan, cache, queued, timer, old, now, tasks, tcache, minute, off>>
<1>0. /\ Raised \in [Rules -> Nat \cup {Absent}] /\ Lowered \in [Rules -> Nat \cup {Absent}]
      /\ Joined(my) \subseteq Rules /\ Dropped(my) \subseteq Rules
      /\ ToSet(my.ruleNames) \subseteq Rules
  BY RaisedLowered, RulesOf, Fields DEF TypeOK
<1>1. \E S \in SUBSET Rules, changed \in {Raised, Lowered} :
        \E ok \in SUBSET S : Recount(S, changed, ok)
  <2>1. CASE updateAddRuleReferNum
    BY <1>0, <2>1 DEF updateAddRuleReferNum
  <2>2. CASE updateSubRuleReferNum
    BY <1>0, <2>2 DEF updateSubRuleReferNum
  <2>3. CASE ReleaseRules
    BY <1>0, <2>3 DEF ReleaseRules
  <2> QED BY <2>1, <2>2, <2>3
<1>2. PICK S \in SUBSET Rules, changed \in {Raised, Lowered} :
         \E ok \in SUBSET S : Recount(S, changed, ok)
  BY <1>1
<1>3. changed \in [Rules -> Nat \cup {Absent}]
  BY <1>0
<1>4. /\ count' \in [Rules -> Nat \cup {Absent}]
      /\ lister' \in [Rules -> Nat \cup {Absent}] /\ fresh' \subseteq Rules
      /\ UNCHANGED <<plan, cache, queueVars, old, now, taskVars, minute, off>>
  BY <1>2, <1>3, Recounted
<1>5. my' \in Plan /\ my'.del = my.del /\ my'.ruleNames = my.ruleNames
  BY CountsAre DEF Like
<1>6. ctl' \in {"updateRules", "dropFinalizer"}
  BY DEF updateAddRuleReferNum, updateSubRuleReferNum, ReleaseRules
<1> QED BY <1>4, <1>5, <1>6 DEF queueVars, taskVars

(* Finding or creating the task of this minute.                            *)
LEMMA CreateIs ==
    ASSUME TypeOK, FindTask \/ CreateTask
    PROVE  /\ my' \in Plan /\ Like(my', my) /\ tasks' \in [Minutes -> TaskState]
           /\ ctl' \in {"clean", "write"}
           /\ UNCHANGED <<plan, cache, queued, timer, old, now, tcache, count, lister, fresh,
                          minute, off>>
<1>0. my \in Plan /\ minute \in Minutes
  BY DEF TypeOK
<1>1. \E s \in Phase : my' = WithTask(my, minute, s)
  BY DEF FindTask, CreateTask, GetStatus, Phase
<1>2. my' \in Plan /\ Like(my', my)
  BY <1>0, <1>1, Noted
<1>3. tasks' \in [Minutes -> TaskState]
  BY DEF FindTask, CreateTask, TypeOK, TaskState, taskVars
<1>4. ctl' \in {"clean", "write"}
  BY DEF FindTask, CreateTask, AfterCreate
<1>5. UNCHANGED <<plan, cache, queued, timer, old, now, tcache, count, lister, fresh, minute, off>>
  BY DEF FindTask, CreateTask, queueVars, taskVars, ruleVars, faultVars, editVars
<1> QED BY <1>2, <1>3, <1>4, <1>5

(* The returns of Reconcile other than Update's.                           *)
LEMMA ReturnIs ==
    ASSUME TypeOK, CreateTaskFails \/ PatchStatus
    PROVE  /\ plan' = plan \/ plan' = Stored(Patched)
           /\ CreateTaskFails => plan' = plan
           /\ plan' \in Plan
           /\ ctl' = "idle" /\ old' = NewPlan /\ my' = NewPlan /\ now' = 1 /\ timer' \in Nat
           /\ UNCHANGED <<cache, queued, tasks, tcache, count, lister, fresh, minute, off>>
<1>1. (plan' = plan \/ plan' = Stored(Patched)) /\ (CreateTaskFails => plan' = plan)
  BY DEF CreateTaskFails, PatchStatus
<1>2. plan' \in Plan
  BY <1>1, PatchedIs, StoredIs DEF TypeOK
<1>3. RequeueAt(minute)
  BY DEF CreateTaskFails, PatchStatus, ReturnError
<1>4. ctl' = "idle" /\ old' = NewPlan /\ my' = NewPlan /\ now' = 1 /\ timer' = Earliest(minute)
  BY <1>3 DEF RequeueAt, Leave
<1>5. timer' \in Nat
  BY <1>4, Times
<1>6. UNCHANGED <<cache, queued, tasks, tcache, count, lister, fresh, minute, off>>
  BY DEF CreateTaskFails, PatchStatus, taskVars, ruleVars, editVars
<1> QED BY <1>1, <1>2, <1>4, <1>5, <1>6

(* The progress of a task.                                                 *)
LEMMA TaskIs ==
    ASSUME TypeOK, NEW m \in Minutes, TaskRuns(m) \/ TaskEnds(m)
    PROVE  /\ plan' = plan \/ \E new \in Plan : Like(new, plan) /\ plan' = Stored(new)
           /\ plan' \in Plan /\ tasks[m] # "none" /\ tasks'[m] # "none"
           /\ tasks' \in [Minutes -> TaskState]
           /\ \A k \in Minutes \ {m} : tasks'[k] = tasks[k]
           /\ UNCHANGED <<cache, queued, timer, ctl, old, my, now, tcache, count, lister, fresh,
                          minute, off>>
<1>1. plan' = plan \/ \E s \in Phase : plan' = Reported(m, s)
  BY DEF TaskRuns, TaskEnds, Phase
<1>2. plan' = plan \/ \E new \in Plan : Like(new, plan) /\ plan' = Stored(new)
  BY <1>1, ReportedIs DEF TypeOK
<1>3. plan' \in Plan
  BY <1>2, StoredIs DEF TypeOK
<1>4. /\ tasks[m] # "none" /\ tasks'[m] # "none"
      /\ tasks' \in [Minutes -> TaskState] /\ \A k \in Minutes \ {m} : tasks'[k] = tasks[k]
  BY DEF TaskRuns, TaskEnds, TypeOK, TaskState
<1>5. UNCHANGED <<cache, queued, timer, ctl, old, my, now, tcache, count, lister, fresh, minute, off>>
  BY DEF TaskRuns, TaskEnds, queueVars, ctlVars, ruleVars, faultVars, editVars
<1> QED BY <1>2, <1>3, <1>4, <1>5

(* An edit by a user.                                                      *)
LEMMA EditIs ==
    ASSUME TypeOK, Edit
    PROVE  /\ \E new \in Plan :
                /\ plan' = Stored(new) /\ (plan.del => new.del) /\ new.labels = plan.labels
                /\ off' = off \cup (ToSet(plan.ruleNames) \ ToSet(new.ruleNames))
           /\ plan' \in Plan
           /\ UNCHANGED <<cache, queued, timer, ctl, old, my, now, tasks, tcache, count, lister,
                          fresh, minute>>
<1>0. plan \in Plan /\ plan.suspend \in BOOLEAN
  BY Fields DEF TypeOK
<1>1. \E new \in Plan :
        /\ plan' = Stored(new) /\ (plan.del => new.del) /\ new.labels = plan.labels
        /\ off' = off \cup (ToSet(plan.ruleNames) \ ToSet(new.ruleNames))
  <2>1. CASE \E names \in RuleEdits :
            /\ plan' = Stored([plan EXCEPT !.ruleNames = names])
            /\ off' = off \cup (ToSet(plan.ruleNames) \ ToSet(names))
    <3>1. PICK names \in RuleEdits :
            /\ plan' = Stored([plan EXCEPT !.ruleNames = names])
            /\ off' = off \cup (ToSet(plan.ruleNames) \ ToSet(names))
      BY <2>1
    <3> DEFINE new == [plan EXCEPT !.ruleNames = names]
    <3>2. names \in Seq(Rules)
      BY SpecAssumption
    <3>3. /\ new \in Plan /\ new.ruleNames = names /\ new.labels = plan.labels
          /\ new.del = plan.del
      BY <1>0, <3>2, OtherChanges, Zenon
    <3> HIDE DEF new
    <3> QED BY <3>1, <3>3 DEF new
  <2>2. CASE plan' = Stored([plan EXCEPT !.suspend = ~@]) /\ UNCHANGED off
    <3> DEFINE b == ~plan.suspend
               new == [plan EXCEPT !.suspend = b]
    <3>1. b \in BOOLEAN /\ plan' = Stored(new)
      BY <1>0, <2>2
    <3> HIDE DEF b
    <3>2. new \in Plan /\ Like(new, plan)
      BY <1>0, <3>1, Changes
    <3> HIDE DEF new
    <3> QED BY <2>2, <3>1, <3>2 DEF Like
  <2>3. CASE plan' = Stored([plan EXCEPT !.del = TRUE]) /\ UNCHANGED off
    <3> DEFINE new == [plan EXCEPT !.del = TRUE]
    <3>1. /\ new \in Plan /\ new.del = TRUE /\ new.ruleNames = plan.ruleNames
          /\ new.labels = plan.labels
      BY <1>0, OtherChanges
    <3> HIDE DEF new
    <3> QED BY <2>3, <3>1 DEF new
  <2> QED BY <2>1, <2>2, <2>3 DEF Edit
<1>2. plan' \in Plan
  BY <1>0, <1>1, StoredIs
<1>3. UNCHANGED <<cache, queued, timer, ctl, old, my, now, tasks, tcache, count, lister, fresh, minute>>
  BY DEF Edit, queueVars, ctlVars, taskVars, ruleVars
<1> QED BY <1>1, <1>2, <1>3

(* The caches and the clock.                                               *)
LEMMA CachesAre ==
    ASSUME TypeOK, Caches \/ Tick
    PROVE  /\ cache' \in {cache, plan} /\ tcache' \in {tcache, View}
           /\ UNCHANGED <<plan, ctl, old, my, now, tasks, count, off>>
           /\ TypeOK'
<1>1. UNCHANGED <<plan, ctl, old, my, now, tasks, count, off>>
  BY DEF Caches, SyncPlan, SyncTasks, SyncRules, Wake, Tick, ctlVars, taskVars, ruleVars,
         faultVars, editVars
<1>2. cache' \in {cache, plan} /\ tcache' \in {tcache, View} /\ queued' \in {queued, TRUE}
  BY DEF Caches, SyncPlan, SyncTasks, SyncRules, Wake, Tick, taskVars, queueVars
<1>3. timer' \in {timer, 0} /\ lister' \in {lister, count} /\ fresh' \in {fresh, Rules}
  BY DEF Caches, SyncPlan, SyncTasks, SyncRules, Wake, Tick, ruleVars, queueVars
<1>4. minute' \in Minutes
  BY BoundsAssumption DEF Caches, SyncPlan, SyncTasks, SyncRules, Wake, Tick, TypeOK, Minutes
<1>5. View \in [Minutes -> TaskState \cup {"open"}]
  BY DEF View, TypeOK
<1>6. queued' \in BOOLEAN
  BY <1>2 DEF TypeOK
<1>7. TypeOK'
  BY <1>1, <1>2, <1>3, <1>4, <1>5, <1>6 DEF TypeOK
<1> QED BY <1>1, <1>2, <1>7

(* Every step keeps every variable within its type.                        *)
LEMMA TypeStep ==
    ASSUME TypeOK, [Next]_vars
    PROVE  TypeOK'
<1>0. my \in Plan /\ NewPlan \in Plan /\ 1 \in Minutes /\ 0 \in Nat
  BY NewPlanIs, BoundsAssumption DEF TypeOK, Minutes
<1>1. CASE Reconcile
  BY <1>0, <1>1, ReconcileIs DEF TypeOK, CtlLabel
<1>2. CASE AddFinalizer
  BY <1>0, <1>2, Changes, TypeUpdate DEF AddFinalizer
<1>3. CASE SetPending
  <2>1. "Pending" \in PlanStatus
    BY DEF PlanStatus, Phase
  <2> QED BY <1>0, <1>3, <2>1, Changes, TypeUpdate DEF SetPending
<1>4. CASE UpdateRules \/ DropFinalizer \/ UpdateStatus
  BY <1>0, <1>4, TypeUpdate DEF UpdateRules, DropFinalizer, UpdateStatus
<1>5. CASE updateAddRuleReferNum \/ updateSubRuleReferNum \/ ReleaseRules
  BY <1>5, RecountIs DEF TypeOK, CtlLabel
<1>6. CASE FindTask \/ CreateTask
  BY <1>6, CreateIs DEF TypeOK, CtlLabel
<1>7. CASE CreateTaskFails \/ PatchStatus
  BY <1>0, <1>7, ReturnIs DEF TypeOK, CtlLabel
<1>8. CASE cleanTask
  <2>1. /\ ctl' = "write"
        /\ UNCHANGED <<plan, cache, queued, timer, old, now, tcache, count, lister, fresh, minute, off>>
    BY <1>8 DEF cleanTask, queueVars, ruleVars, editVars
  <2> QED BY <1>8, <2>1, CleanIs DEF TypeOK, CtlLabel
<1>9. CASE TaskController
  <2>1. PICK m \in Minutes : TaskRuns(m) \/ TaskEnds(m)
    BY <1>9 DEF TaskController
  <2> QED BY <2>1, TaskIs DEF TypeOK
<1>10. CASE Caches \/ Tick
  BY <1>10, CachesAre
<1>11. CASE Edit
  <2>1. off' \subseteq Rules
    <3>1. ToSet(plan.ruleNames) \subseteq Rules
      BY Fields DEF TypeOK
    <3> QED BY <1>11, <3>1, EditIs DEF TypeOK
  <2> QED BY <1>11, <2>1, EditIs DEF TypeOK
<1>12. CASE CollectTasks
  <2>1. tasks' \in [Minutes -> TaskState]
    BY <1>12 DEF CollectTasks, TypeOK, TaskState
  <2> QED BY <1>12, <2>1 DEF CollectTasks, TypeOK, queueVars, ctlVars, ruleVars, faultVars, editVars
<1>13. CASE Crash
  <2>1. View \in [Minutes -> TaskState \cup {"open"}]
    BY DEF View, TypeOK
  <2> QED BY <1>0, <1>13, <2>1 DEF Crash, Leave, TypeOK, CtlLabel, editVars
<1>14. CASE UNCHANGED vars
  BY <1>14 DEF vars, TypeOK, queueVars, ctlVars, taskVars, ruleVars, faultVars, editVars
<1> QED BY <1>1, <1>2, <1>3, <1>4, <1>5, <1>6, <1>7, <1>8, <1>9, <1>10, <1>11, <1>12, <1>13,
           <1>14 DEF Next, Controller

-----------------------------------------------------------------------------
(* Labels and counts                                                       *)

(* How any step may change the plan: only the Update after addRules gives  *)
(* it labels, and it is accepted only if Reconcile had read this version.  *)
PlanMay ==
    /\ plan' = plan \/ plan'.ver = plan.ver + 1
    /\ plan.del => plan'.del
    /\ off \subseteq off'
    /\ plan'.labels \ ToSet(plan'.ruleNames) \subseteq off'
    /\ \/ plan'.labels = plan.labels
       \/ ctl = "updateRules" /\ plan = old /\ plan'.labels = my.labels

(* An Update of a copy with the rules, labels and deletion of my.          *)
LEMMA UpdateMay ==
    ASSUME IInv, ctl # "idle", NEW new \in Plan, UpdateAndReturn(new), Like(new, my)
    PROVE  PlanMay
<1>1. /\ plan \in Plan /\ off' = off
      /\ plan' = plan \/ (old.ver = plan.ver /\ plan' = Stored(new))
  BY UpdateIs DEF IInv, TypeOK
<1>2. CASE plan' = plan
  BY <1>1, <1>2 DEF PlanMay, IInv, CopyInv, Known
<1>3. CASE plan' # plan
  <2>1. old.ver = plan.ver /\ plan' = Stored(new) /\ old = plan
    BY <1>1, <1>3 DEF IInv, CopyInv, CopyOf
  <2>2. plan'.ver = plan.ver + 1 /\ Like(plan', new)
    BY <1>1, <1>3, <2>1, StoredIs
  <2>3. Like(plan', my) /\ my.del = plan.del /\ my.ruleNames = plan.ruleNames
    BY <2>1, <2>2 DEF Like, IInv, MyInv
  <2>4. /\ ctl # "updateRules" => my.labels = plan.labels
        /\ ctl = "updateRules" => Known(my)
    BY <2>1 DEF IInv, MyInv
  <2>5. plan'.labels \ ToSet(plan'.ruleNames) \subseteq off
    BY <2>3, <2>4 DEF Like, IInv, CopyInv, Known
  <2> QED BY <1>1, <2>1, <2>2, <2>3, <2>4, <2>5 DEF Like, PlanMay
<1> QED BY <1>2, <1>3

(* A write that keeps rules, labels and deletion.                          *)
LEMMA SameMay ==
    ASSUME IInv, NEW new \in Plan, Like(new, plan), plan' = Stored(new), off' = off
    PROVE  PlanMay
<1>1. Like(plan', plan) /\ (plan' = plan \/ plan'.ver = plan.ver + 1)
  BY StoredIs DEF IInv, TypeOK, Like
<1> QED BY <1>1 DEF Like, PlanMay, IInv, CopyInv, Known

(* No step changes the plan otherwise.                                     *)
LEMMA PlanStep ==
    ASSUME IInv, [Next]_vars
    PROVE  PlanMay
<1>0. plan \in Plan /\ my \in Plan /\ TypeOK
  BY DEF IInv, TypeOK
<1>1. ASSUME UNCHANGED <<plan, off>> PROVE PlanMay
  BY <1>1 DEF PlanMay, IInv, CopyInv, Known
<1>2. CASE AddFinalizer
  <2>1. [my EXCEPT !.fin = TRUE] \in Plan /\ Like([my EXCEPT !.fin = TRUE], my)
    BY <1>0, Changes
  <2> QED BY <1>2, <2>1, UpdateMay DEF AddFinalizer
<1>3. CASE SetPending
  <2>1. [my EXCEPT !.status = "Pending"] \in Plan /\ Like([my EXCEPT !.status = "Pending"], my)
    BY <1>0, Changes DEF PlanStatus, Phase
  <2> QED BY <1>3, <2>1, UpdateMay DEF SetPending
<1>4. CASE UpdateRules \/ DropFinalizer \/ UpdateStatus
  <2>1. Like(my, my) /\ ctl # "idle"
    BY <1>4 DEF Like, UpdateRules, DropFinalizer, UpdateStatus
  <2> QED BY <1>0, <1>4, <2>1, UpdateMay DEF UpdateRules, DropFinalizer, UpdateStatus
<1>5. CASE CreateTaskFails \/ PatchStatus
  <2>1. (plan' = plan \/ plan' = Stored(Patched)) /\ off' = off
    BY <1>0, <1>5, ReturnIs
  <2>2. Patched \in Plan /\ Like(Patched, plan)
    BY <1>0, PatchedIs
  <2> QED BY <1>1, <2>1, <2>2, SameMay
<1>6. CASE TaskController
  <2>1. PICK m \in Minutes : TaskRuns(m) \/ TaskEnds(m)
    BY <1>6 DEF TaskController
  <2>2. /\ plan' = plan \/ \E new \in Plan : Like(new, plan) /\ plan' = Stored(new)
        /\ off' = off
    BY <1>0, <2>1, TaskIs
  <2> QED BY <1>1, <2>2, SameMay
<1>7. CASE Edit
  <2>1. PICK new \in Plan :
          /\ plan' = Stored(new) /\ (plan.del => new.del) /\ new.labels = plan.labels
          /\ off' = off \cup (ToSet(plan.ruleNames) \ ToSet(new.ruleNames))
    BY <1>0, <1>7, EditIs
  <2>2. Like(plan', new) /\ (plan' = plan \/ plan'.ver = plan.ver + 1)
    BY <1>0, <2>1, StoredIs
  <2>3. new.labels \ ToSet(new.ruleNames) \subseteq off'
    BY <2>1 DEF IInv, CopyInv, Known
  <2> QED BY <2>1, <2>2, <2>3 DEF Like, PlanMay
<1>8. CASE updateAddRuleReferNum \/ updateSubRuleReferNum \/ ReleaseRules
  BY <1>0, <1>1, <1>8, RecountIs
<1>9. CASE Caches \/ Tick
  BY <1>0, <1>1, <1>9, CachesAre
<1>10. CASE \/ Reconcile \/ FindTask \/ CreateTask \/ cleanTask \/ CollectTasks \/ Crash
            \/ UNCHANGED vars
  BY <1>1, <1>10 DEF Reconcile, FindTask, CreateTask, cleanTask, CollectTasks, Crash, vars,
                     faultVars, editVars
<1> QED BY <1>2, <1>3, <1>4, <1>5, <1>6, <1>7, <1>8, <1>9, <1>10 DEF Next, Controller

(* A rule that is counted and was never taken off stays counted, for as    *)
(* long as the plan is not being deleted.                                  *)
LEMMA CountStep ==
    ASSUME IInv, [Next]_vars
    PROVE  \A r \in Rules \ off : ~plan.del /\ Counted(r) => Counted(r)'
<1>0. my \in Plan /\ TypeOK
  BY DEF IInv, TypeOK
<1>1. ASSUME UNCHANGED count PROVE \A r \in Rules \ off : Counted(r) => Counted(r)'
  BY <1>1 DEF Counted
<1>2. CASE updateAddRuleReferNum
  <2>1. PICK ok \in SUBSET Joined(my) : Recount(Joined(my), Raised, ok)
    BY <1>2 DEF updateAddRuleReferNum
  <2>2. \A r \in Rules : count'[r] = IF r \in ok THEN Raised[r] ELSE count[r]
    BY <1>0, <2>1, Recounted, RulesOf, RaisedLowered
  <2>3. \A r \in Rules : Raised[r] \in Nat \ {0}
    BY <1>0, RaisedLowered
  <2> QED BY <2>2, <2>3 DEF Counted
<1>3. CASE updateSubRuleReferNum
  <2>1. PICK ok \in SUBSET Dropped(my) : Recount(Dropped(my), Lowered, ok)
    BY <1>3 DEF updateSubRuleReferNum
  <2>2. \A r \in Rules : count'[r] = IF r \in ok THEN Lowered[r] ELSE count[r]
    <3>1. Dropped(my) \in SUBSET Rules /\ Lowered \in [Rules -> Nat \cup {Absent}]
      BY <1>0, RulesOf, RaisedLowered
    <3> QED BY <1>0, <2>1, <3>1, Recounted
  <2>3. Dropped(my) \subseteq off
    <3>1. my.labels = old.labels /\ my.ruleNames = old.ruleNames /\ Known(old)
      BY <1>3 DEF updateSubRuleReferNum, IInv, MyInv, CopyInv
    <3>2. Dropped(my) = my.labels \ ToSet(my.ruleNames)
      <4>1. my.ruleNames \in Seq(Rules)
        BY <1>0, Fields
      <4>2. DOMAIN my.ruleNames = 1..Len(my.ruleNames)
        BY <4>1
      <4> QED BY <4>2 DEF Dropped, LabelsAfter, ToSet
    <3> QED BY <3>1, <3>2 DEF Known
  <2> QED BY <2>2, <2>3 DEF Counted
<1>4. CASE ReleaseRules
  BY <1>4 DEF ReleaseRules, IInv, MyInv, CopyInv, CopyOf
<1>5. CASE AddFinalizer
  <2>1. [my EXCEPT !.fin = TRUE] \in Plan
    BY <1>0, Changes
  <2> QED BY <1>0, <1>1, <1>5, <2>1, UpdateIs DEF AddFinalizer
<1>6. CASE \/ SetPending \/ UpdateRules \/ DropFinalizer \/ UpdateStatus
  BY <1>1, <1>6 DEF SetPending, UpdateRules, DropFinalizer, UpdateStatus, UpdateAndReturn, ruleVars
<1>7. CASE \/ Reconcile \/ FindTask \/ CreateTask \/ CreateTaskFails \/ cleanTask \/ PatchStatus
           \/ TaskController
  BY <1>1, <1>7 DEF Reconcile, FindTask, CreateTask, CreateTaskFails, cleanTask, PatchStatus,
                    TaskController, TaskRuns, TaskEnds, ruleVars
<1>8. CASE \/ Caches \/ Tick \/ Edit \/ CollectTasks \/ Crash \/ UNCHANGED vars
  BY <1>1, <1>8 DEF Caches, SyncPlan, SyncTasks, SyncRules, Wake, Tick, Edit, CollectTasks, Crash,
                    vars, ruleVars
<1> QED BY <1>2, <1>3, <1>4, <1>5, <1>6, <1>7, <1>8 DEF Next, Controller

(* What Reconcile has read is the cache's copy, and the cache's copy is    *)
(* the plan.                                                               *)
LEMMA ReadStep ==
    ASSUME TypeOK, [Next]_vars
    PROVE  /\ cache' = cache \/ (cache' = plan /\ plan' = plan)
           /\ ctl' # "idle" => \/ ctl # "idle" /\ old' = old
                               \/ plan' = plan /\ cache' = cache /\ old' = cache
<1>0. my \in Plan
  BY DEF TypeOK
<1>1. CASE Reconcile
  BY <1>1, ReconcileIs
<1>2. CASE AddFinalizer \/ SetPending \/ UpdateRules \/ DropFinalizer \/ UpdateStatus
  BY <1>2 DEF AddFinalizer, SetPending, UpdateRules, DropFinalizer, UpdateStatus, UpdateAndReturn,
              Return, ReturnError, RequeueAt, Leave
<1>3. CASE updateAddRuleReferNum \/ updateSubRuleReferNum \/ ReleaseRules
  <2>1. ctl # "idle"
    BY <1>3 DEF updateAddRuleReferNum, updateSubRuleReferNum, ReleaseRules
  <2> QED BY <1>3, <2>1, RecountIs
<1>4. CASE FindTask \/ CreateTask \/ cleanTask
  BY <1>4 DEF FindTask, CreateTask, cleanTask
<1>5. CASE CreateTaskFails \/ PatchStatus
  BY <1>5, ReturnIs
<1>6. CASE TaskController \/ Edit \/ CollectTasks \/ UNCHANGED vars
  BY <1>6 DEF TaskController, TaskRuns, TaskEnds, Edit, CollectTasks, vars, ctlVars
<1>7. CASE Caches \/ Tick
  BY <1>7 DEF Caches, SyncPlan, SyncTasks, SyncRules, Wake, Tick, ctlVars
<1>8. CASE Crash
  BY <1>8 DEF Crash, Leave
<1> QED BY <1>1, <1>2, <1>3, <1>4, <1>5, <1>6, <1>7, <1>8 DEF Next, Controller

(* A copy stays one whatever becomes of the plan.                          *)
LEMMA CopyKept ==
    ASSUME TypeOK, PlanMay, plan' \in Plan, NEW p \in Plan, CopyOf(p), Known(p)
    PROVE  /\ p.ver <= plan'.ver /\ (p.ver = plan'.ver => p = plan') /\ (p.del => plan'.del)
           /\ p.labels \ ToSet(p.ruleNames) \subseteq off'
<1>1. p.ver \in Nat /\ plan.ver \in Nat /\ plan'.ver \in Nat
  BY Fields DEF TypeOK
<1>2. p.ver <= plan'.ver /\ (p.ver = plan'.ver => p = plan')
  BY <1>1 DEF PlanMay, CopyOf
<1>3. p.del => plan'.del
  BY DEF PlanMay, CopyOf
<1> QED BY <1>2, <1>3 DEF PlanMay, Known

(* Every step leaves the copies copies.                                     *)
LEMMA CopyStep ==
    ASSUME IInv, TypeOK', PlanMay, [Next]_vars
    PROVE  CopyInv'
<1>0. /\ plan \in Plan /\ cache \in Plan /\ old \in Plan /\ plan' \in Plan /\ TypeOK
      /\ CopyOf(cache) /\ Known(cache)
  BY DEF IInv, TypeOK, CopyInv
<1>1. CopyOf(plan) /\ Known(plan)
  <2>1. plan.ver \in Nat
    BY <1>0, Fields
  <2> QED BY <2>1 DEF CopyOf, IInv, CopyInv
<1>2. \A p \in {plan, cache} :
        /\ p.ver <= plan'.ver /\ (p.ver = plan'.ver => p = plan') /\ (p.del => plan'.del)
        /\ p.labels \ ToSet(p.ruleNames) \subseteq off'
  BY <1>0, <1>1, CopyKept
<1>3. CopyOf(cache)' /\ Known(cache)'
  <2>1. cache' \in {plan, cache}
    BY <1>0, ReadStep
  <2> QED BY <1>2, <2>1 DEF CopyOf, Known
<1>4. Known(plan)'
  BY DEF Known, PlanMay
<1>5. ASSUME ctl' # "idle" PROVE CopyOf(old)' /\ Known(old)'
  <2>1. CASE ctl # "idle" /\ old' = old
    <3>1. CopyOf(old) /\ Known(old)
      BY <2>1 DEF IInv, CopyInv
    <3>2. /\ old.ver <= plan'.ver /\ (old.ver = plan'.ver => old = plan') /\ (old.del => plan'.del)
          /\ old.labels \ ToSet(old.ruleNames) \subseteq off'
      BY <1>0, <3>1, CopyKept
    <3> QED BY <2>1, <3>2 DEF CopyOf, Known
  <2>2. CASE old' = cache
    BY <1>2, <2>2 DEF CopyOf, Known
  <2> QED BY <1>0, <1>5, <2>1, <2>2, ReadStep
<1> QED BY <1>3, <1>4, <1>5 DEF CopyInv

(* The labels that Reconcile adds to its copy are of rules it has counted. *)
LEMMA MyStep ==
    ASSUME IInv, PlanMay, [Next]_vars
    PROVE  MyInv'
<1>0. TypeOK /\ my \in Plan /\ cache \in Plan
  BY DEF IInv, TypeOK
<1>1. ASSUME ctl' = "idle" PROVE MyInv'
  BY <1>1 DEF MyInv
<1>2. ASSUME UNCHANGED <<ctl, old, my, count>> PROVE MyInv'
  <2>1. Known(my) => Known(my)'
    BY <1>2 DEF Known, PlanMay
  <2>2. \A r : Counted(r)' = Counted(r)
    BY <1>2 DEF Counted
  <2> QED BY <1>2, <2>1, <2>2 DEF IInv, MyInv
<1>3. ASSUME UNCHANGED <<old, off>>, Like(my', my), ctl # "idle", ctl # "updateRules",
             ctl' \in {"clean", "write", "dropFinalizer"},
             ctl' = "dropFinalizer" => ctl = "release"
      PROVE  MyInv'
  BY <1>3 DEF Like, IInv, MyInv
<1>4. CASE Reconcile
  <2>1. CASE ctl' = Branch(cache) /\ old' = cache /\ my' = cache
             /\ ctl' \in CtlLabel \ {"updateRules", "dropFinalizer", "clean", "write"}
    <3>1. Branch(cache) = "release" => cache.del
      <4>1. Upkeep(cache) # "release"
        BY DEF Upkeep
      <4> QED BY <4>1 DEF Branch
    <3> QED BY <2>1, <3>1 DEF MyInv, CtlLabel
  <2> QED BY <1>0, <1>1, <1>4, <2>1, ReconcileIs
<1>5. CASE updateAddRuleReferNum
  <2>1. ctl = "addRules" /\ ctl' = "updateRules"
    BY <1>5 DEF updateAddRuleReferNum
  <2>2. PICK ok \in SUBSET Joined(my) :
          /\ Recount(Joined(my), Raised, ok)
          /\ my' \in Plan /\ my'.labels = my.labels \cup ok
          /\ my'.del = my.del /\ my'.ruleNames = my.ruleNames
    BY <1>0, <1>5, CountsAre
  <2>3. old' = old /\ off' = off /\ \A r \in ok : r \in Rules /\ count'[r] = Raised[r]
    <3>1. Joined(my) \in SUBSET Rules /\ Raised \in [Rules -> Nat \cup {Absent}]
      BY <1>0, RulesOf, RaisedLowered
    <3> QED BY <1>0, <2>2, <3>1, Recounted
  <2>4. \A r \in ok : Counted(r)'
    BY <1>0, <2>3, RaisedLowered DEF Counted
  <2>5. my.labels = old.labels /\ my.ruleNames = old.ruleNames /\ my.del = old.del /\ Known(old)
    BY <2>1 DEF IInv, MyInv, CopyInv
  <2>6. ok \subseteq ToSet(my.ruleNames)
    BY <2>2 DEF Joined, ToSet
  <2>7. Known(my)'
    BY <2>2, <2>3, <2>5, <2>6 DEF Known
  <2>8. \A r \in my'.labels \ old'.labels : Counted(r)'
    BY <2>2, <2>3, <2>4, <2>5
  <2> QED BY <2>1, <2>2, <2>3, <2>5, <2>7, <2>8 DEF MyInv
<1>6. CASE updateSubRuleReferNum
  <2>1. ctl = "subRules" /\ ctl' = "updateRules"
    BY <1>6 DEF updateSubRuleReferNum
  <2>2. Like(my', my) /\ old' = old /\ off' = off
    BY <1>0, <1>6, CountsAre, RecountIs
  <2>3. my.labels = old.labels /\ my.ruleNames = old.ruleNames /\ my.del = old.del /\ Known(old)
    BY <2>1 DEF IInv, MyInv, CopyInv
  <2> QED BY <2>1, <2>2, <2>3 DEF Like, MyInv, Known
<1>7. CASE ReleaseRules
  <2>1. ctl = "release" /\ ctl' = "dropFinalizer"
    BY <1>7 DEF ReleaseRules
  <2>2. Like(my', my) /\ old' = old /\ off' = off
    BY <1>0, <1>7, CountsAre, RecountIs
  <2> QED BY <1>3, <2>1, <2>2
<1>8. CASE FindTask \/ CreateTask
  <2>1. ctl = "create"
    BY <1>8 DEF FindTask, CreateTask
  <2> QED BY <1>0, <1>3, <1>8, <2>1, CreateIs
<1>9. CASE cleanTask
  <2>1. ctl = "clean" /\ ctl' = "write" /\ old' = old /\ off' = off
    BY <1>9 DEF cleanTask, editVars
  <2> QED BY <1>0, <1>3, <1>9, <2>1, CleanIs
<1>10. CASE AddFinalizer \/ SetPending \/ UpdateRules \/ DropFinalizer \/ UpdateStatus
  BY <1>1, <1>10 DEF AddFinalizer, SetPending, UpdateRules, DropFinalizer, UpdateStatus,
                     UpdateAndReturn, Return, ReturnError, RequeueAt, Leave
<1>11. CASE CreateTaskFails \/ PatchStatus
  BY <1>0, <1>1, <1>11, ReturnIs
<1>12. CASE TaskController \/ Edit \/ CollectTasks \/ Caches \/ Tick \/ UNCHANGED vars
  BY <1>2, <1>12 DEF TaskController, TaskRuns, TaskEnds, Edit, CollectTasks, vars, ctlVars, ruleVars,
                     Caches, SyncPlan, SyncTasks, SyncRules, Wake, Tick
<1>13. CASE Crash
  BY <1>1, <1>13 DEF Crash, Leave
<1> QED BY <1>4, <1>5, <1>6, <1>7, <1>8, <1>9, <1>10, <1>11, <1>12, <1>13 DEF Next, Controller

(* The labels of rules never taken off are of counted rules.               *)
LEMMA CountInvStep ==
    ASSUME IInv, PlanMay, plan' \in Plan, [Next]_vars
    PROVE  CountInv'
<1>1. SUFFICES ASSUME ~plan'.del, NEW r \in plan'.labels \ off' PROVE Counted(r)'
  BY DEF CountInv, Counted
<1>2. ~plan.del /\ r \notin off /\ r \in Rules
  BY <1>1, Fields DEF PlanMay
<1>3. Counted(r)
  <2>1. CASE r \in plan.labels
    BY <1>2, <2>1 DEF IInv, CountInv
  <2>2. CASE r \notin plan.labels
    <3>1. ctl = "updateRules" /\ plan = old /\ r \in my.labels
      BY <1>1, <2>2 DEF PlanMay
    <3> QED BY <2>2, <3>1 DEF IInv, MyInv
  <2> QED BY <2>1, <2>2
<1> QED BY <1>2, <1>3, CountStep

-----------------------------------------------------------------------------
(* The tasks                                                               *)

(* What a step may do to a task: it is never forgotten, and the tasks of a *)
(* plan that is there are deleted by cleanTask only.                       *)
LEMMA TaskStep ==
    ASSUME TypeOK, [Next]_vars, NEW m \in Minutes
    PROVE  /\ tasks[m] # "none" => tasks'[m] # "none"
           /\ Live(tasks[m]) /\ ~Live(tasks'[m]) /\ plan.exists => cleanTask /\ m \in Listed \ Kept
<1>1. ASSUME tasks' = tasks
      PROVE  /\ tasks[m] # "none" => tasks'[m] # "none"
             /\ Live(tasks[m]) => Live(tasks'[m])
  BY <1>1 DEF Live
<1>2. CASE CreateTask
  BY <1>2 DEF CreateTask, Live, TypeOK
<1>3. CASE cleanTask
  <2>1. tasks' = tasks
        \/ tasks' = [k \in Minutes |-> IF k \in Listed \ Kept THEN "deleted" ELSE tasks[k]]
    BY <1>3 DEF cleanTask
  <2>2. tasks'[m] = tasks[m] \/ (tasks'[m] = "deleted" /\ m \in Listed \ Kept)
    BY <2>1
  <2> QED BY <1>3, <2>2 DEF Live
<1>4. CASE TaskController
  <2>1. PICK k \in Minutes : TaskRuns(k) \/ TaskEnds(k)
    BY <1>4 DEF TaskController
  <2>2. tasks'[m] = tasks[m] \/ tasks'[m] \in {"Running", "Succeeded", "Failed"}
    BY <2>1 DEF TaskRuns, TaskEnds, TypeOK
  <2> QED BY <2>2 DEF Live
<1>5. CASE CollectTasks
  <2>1. tasks'[m] = tasks[m] \/ tasks'[m] = "deleted"
    BY <1>5 DEF CollectTasks
  <2> QED BY <1>5, <2>1 DEF CollectTasks
<1>6. CASE \/ Reconcile \/ AddFinalizer \/ SetPending \/ UpdateRules \/ DropFinalizer
           \/ FindTask \/ CreateTaskFails \/ UpdateStatus \/ PatchStatus
  BY <1>1, <1>6 DEF Reconcile, AddFinalizer, SetPending, UpdateRules, DropFinalizer, FindTask,
                    CreateTaskFails, UpdateStatus, PatchStatus, UpdateAndReturn, taskVars
<1>7. CASE updateAddRuleReferNum \/ updateSubRuleReferNum \/ ReleaseRules
  BY <1>1, <1>7, RecountIs
<1>8. CASE Caches \/ Tick
  BY <1>1, <1>8, CachesAre
<1>9. CASE Edit \/ Crash \/ UNCHANGED vars
  BY <1>1, <1>9 DEF Edit, Crash, vars, taskVars
<1> QED BY <1>2, <1>3, <1>4, <1>5, <1>6, <1>7, <1>8, <1>9 DEF Next, Controller

(* The lister shows the tasks as they are or as they were.                 *)
LEMMA ListerStep ==
    ASSUME TypeOK, [Next]_vars
    PROVE  tcache' = tcache \/ tcache' = View
<1>1. CASE Caches \/ Tick
  BY <1>1, CachesAre
<1>2. CASE updateAddRuleReferNum \/ updateSubRuleReferNum \/ ReleaseRules
  BY <1>2, RecountIs
<1>3. CASE \/ Reconcile \/ AddFinalizer \/ SetPending \/ UpdateRules \/ DropFinalizer
           \/ FindTask \/ CreateTask \/ CreateTaskFails \/ cleanTask \/ UpdateStatus \/ PatchStatus
  BY <1>3 DEF Reconcile, AddFinalizer, SetPending, UpdateRules, DropFinalizer, FindTask, CreateTask,
              CreateTaskFails, cleanTask, UpdateStatus, PatchStatus, UpdateAndReturn, taskVars
<1>4. CASE TaskController \/ CollectTasks \/ Edit \/ Crash \/ UNCHANGED vars
  BY <1>4 DEF TaskController, TaskRuns, TaskEnds, CollectTasks, Edit, Crash, vars, taskVars
<1> QED BY <1>1, <1>2, <1>3, <1>4 DEF Next, Controller

(* The lister shows only tasks that were created.                          *)
LEMMA TaskInvStep ==
    ASSUME IInv, [Next]_vars
    PROVE  TaskInv'
<1>0. TypeOK
  BY DEF IInv
<1>1. SUFFICES ASSUME NEW m \in Minutes, Live(tcache'[m]) PROVE tasks'[m] # "none"
  BY DEF TaskInv, Live
<1>2. tasks[m] # "none"
  <2>1. CASE tcache' = tcache
    BY <1>1, <2>1 DEF IInv, TaskInv
  <2>2. CASE tcache' = View
    BY <1>0, <1>1, <2>2 DEF View, Live, TypeOK
  <2> QED BY <1>0, <2>1, <2>2, ListerStep
<1> QED BY <1>0, <1>2, TaskStep

(* A task that cleanTask deletes has MaxTasks newer ones.                  *)
LEMMA KeptStep ==
    ASSUME IInv, [Next]_vars, NEW m \in Minutes, plan.exists, Live(tasks[m]), ~Live(tasks'[m])
    PROVE  Cardinality({k \in Minutes : k > m /\ tasks[k] # "none"}) >= MaxTasks
<1> DEFINE newer == {k \in Minutes : k > m /\ tasks[k] # "none"}
           listed == {k \in Listed : k > m}
<1>0. m \in Listed \ Kept
  BY TaskStep DEF IInv
<1>1. ~(Cardinality(listed) < MaxTasks)
  BY <1>0 DEF Kept, Newest
<1>2. listed \subseteq newer
  BY DEF Listed, IInv, TaskInv
<1>3. IsFiniteSet(Minutes) /\ newer \subseteq Minutes
  BY BoundsAssumption, FS_Interval DEF Minutes
<1>4. IsFiniteSet(newer)
  BY <1>3, FS_Subset
<1>5. IsFiniteSet(listed) /\ Cardinality(listed) <= Cardinality(newer)
  BY <1>2, <1>4, FS_Subset
<1>6. Cardinality(listed) \in Nat /\ Cardinality(newer) \in Nat
  BY <1>4, <1>5, FS_CardinalityType
<1> HIDE DEF newer, listed
<1>7. Cardinality(newer) >= MaxTasks
  BY <1>1, <1>5, <1>6, SpecAssumption
<1> QED BY <1>7 DEF newer

-----------------------------------------------------------------------------
(* What is recorded of the tasks                                           *)

Ended == {"Succeeded", "deleted"}

ListFollows(list, states) == \A e \in ToSet(list) : Told(states[e[1]], e[2])

StatusFollows(s, states) ==
    s \notin {"", "Pending"} => \E m \in Minutes : Told(states[m], s)

(* The plan, its copies and the lister's tasks all speak of tasks that are *)
(* there, and of successes that are.                                       *)
RecordsInv ==
    /\ RecordsFollow(plan, tasks) /\ RecordsFollow(cache, tasks)
    /\ ctl # "idle" => RecordsFollow(my, tasks)
    /\ \A m \in Minutes : tcache[m] = "Succeeded" => tasks[m] \in Ended

SameRecords(p, q) == p.names = q.names /\ p.status = q.status

(* The two parts of a record.                                              *)
LEMMA RecordsAre ==
    ASSUME NEW p, NEW states
    PROVE  RecordsFollow(p, states) <=>
              ListFollows(p.names, states) /\ StatusFollows(p.status, states)
BY DEF RecordsFollow, ListFollows, StatusFollows

(* Plans with the same records follow the same tasks.                      *)
LEMMA SameFollow ==
    ASSUME NEW p, NEW q, NEW states, SameRecords(p, q), RecordsFollow(q, states)
    PROVE  RecordsFollow(p, states)
BY RecordsAre DEF SameRecords

(* A list with one more task, or with another phase of one.                *)
LEMMA ListsFollow ==
    ASSUME NEW list \in Seq(Minutes \X Phase), NEW states, NEW m \in Minutes, NEW s \in Phase,
           NEW i, ListFollows(list, states), Told(states[m], s)
    PROVE  /\ ListFollows(Append(list, <<m, s>>), states)
           /\ ListFollows([list EXCEPT ![i] = <<m, s>>], states)
<1> DEFINE T == Minutes \X Phase
           e == <<m, s>>
<1>0. e \in T /\ list \in Seq(T) /\ e[1] = m /\ e[2] = s
  OBVIOUS
<1> HIDE DEF T, e
<1>1. ASSUME NEW x \in ToSet(Append(list, e)) PROVE Told(states[x[1]], x[2])
  <2>1. x = e \/ x \in ToSet(list)
    <3>1. PICK k \in DOMAIN Append(list, e) : x = Append(list, e)[k]
      BY <1>1 DEF ToSet
    <3>2. k \in 1..Len(list) + 1 /\ Len(list) \in Nat /\ DOMAIN list = 1..Len(list)
      BY <1>0, <3>1
    <3>3. CASE k = Len(list) + 1
      BY <1>0, <3>1, <3>3
    <3>4. CASE k # Len(list) + 1
      <4>1. k \in 1..Len(list)
        BY <3>2, <3>4
      <4>2. x = list[k]
        BY <1>0, <3>1, <4>1
      <4> QED BY <3>2, <4>1, <4>2 DEF ToSet
    <3> QED BY <3>3, <3>4
  <2> QED BY <1>0, <2>1 DEF ListFollows
<1>2. ASSUME NEW x \in ToSet([list EXCEPT ![i] = e]) PROVE Told(states[x[1]], x[2])
  <2>1. x = e \/ x \in ToSet(list)
    BY <1>2 DEF ToSet
  <2> QED BY <1>0, <2>1 DEF ListFollows
<1>3. ListFollows(Append(list, e), states)
  BY <1>1 DEF ListFollows
<1>4. ListFollows([list EXCEPT ![i] = e], states)
  BY <1>2 DEF ListFollows
<1> QED BY <1>3, <1>4 DEF e

(* Tasks that are created stay, and those that have succeeded stay so,     *)
(* until they are deleted.                                                 *)
LEMMA EndedStep ==
    ASSUME TypeOK, [Next]_vars, NEW m \in Minutes, tasks[m] \in Ended
    PROVE  tasks'[m] \in Ended
<1>1. ASSUME tasks' = tasks PROVE tasks'[m] \in Ended
  BY <1>1
<1>2. CASE CreateTask
  BY <1>2 DEF CreateTask, Ended, TypeOK
<1>3. CASE cleanTask
  <2>1. tasks' = tasks
        \/ tasks' = [k \in Minutes |-> IF k \in Listed \ Kept THEN "deleted" ELSE tasks[k]]
    BY <1>3 DEF cleanTask
  <2>2. tasks'[m] = tasks[m] \/ tasks'[m] = "deleted"
    BY <2>1
  <2> QED BY <2>2 DEF Ended
<1>4. CASE TaskController
  <2>1. PICK k \in Minutes : TaskRuns(k) \/ TaskEnds(k)
    BY <1>4 DEF TaskController
  <2>2. tasks[k] \notin Ended /\ \A l \in Minutes \ {k} : tasks'[l] = tasks[l]
    BY <2>1 DEF TaskRuns, TaskEnds, TypeOK, Ended
  <2> QED BY <2>2
<1>5. CASE CollectTasks
  <2>1. tasks'[m] = tasks[m] \/ tasks'[m] = "deleted"
    BY <1>5 DEF CollectTasks
  <2> QED BY <2>1 DEF Ended
<1>6. CASE \/ Reconcile \/ AddFinalizer \/ SetPending \/ UpdateRules \/ DropFinalizer
           \/ FindTask \/ CreateTaskFails \/ UpdateStatus \/ PatchStatus
  BY <1>1, <1>6 DEF Reconcile, AddFinalizer, SetPending, UpdateRules, DropFinalizer, FindTask,
                    CreateTaskFails, UpdateStatus, PatchStatus, UpdateAndReturn, taskVars
<1>7. CASE updateAddRuleReferNum \/ updateSubRuleReferNum \/ ReleaseRules
  BY <1>1, <1>7, RecountIs
<1>8. CASE Caches \/ Tick
  BY <1>1, <1>8, CachesAre
<1>9. CASE Edit \/ Crash \/ UNCHANGED vars
  BY <1>1, <1>9 DEF Edit, Crash, vars, taskVars
<1> QED BY <1>2, <1>3, <1>4, <1>5, <1>6, <1>7, <1>8, <1>9 DEF Next, Controller

(* Records that follow the tasks do so after every step of theirs.         *)
LEMMA RecordsStay ==
    ASSUME TypeOK, [Next]_vars, NEW p \in Plan, RecordsFollow(p, tasks)
    PROVE  RecordsFollow(p, tasks')
<1>1. ASSUME NEW m \in Minutes, NEW s, Told(tasks[m], s) PROVE Told(tasks'[m], s)
  BY <1>1, TaskStep, EndedStep DEF Told, Ended
<1>2. \A e \in ToSet(p.names) : e[1] \in Minutes
  <2> DEFINE T == Minutes \X Phase
  <2>1. p.names \in Seq(T)
    BY Fields
  <2> HIDE DEF T
  <2>2. \A e \in ToSet(p.names) : e \in T
    BY <2>1 DEF ToSet
  <2> QED BY <2>2 DEF T
<1>3. ListFollows(p.names, tasks')
  BY <1>1, <1>2, RecordsAre DEF ListFollows
<1>4. StatusFollows(p.status, tasks')
  BY <1>1, RecordsAre, Zenon DEF StatusFollows
<1> QED BY <1>3, <1>4, RecordsAre

(* The changes of a plan that keep its records.                            *)
LEMMA KeepRecords ==
    ASSUME NEW p \in Plan
    PROVE  /\ \A b : /\ SameRecords([p EXCEPT !.fin = b], p)
                     /\ SameRecords([p EXCEPT !.suspend = b], p)
                     /\ SameRecords([p EXCEPT !.exists = b], p)
                     /\ SameRecords([p EXCEPT !.del = b], p)
           /\ \A n : /\ SameRecords([p EXCEPT !.ver = n], p)
                     /\ SameRecords([p EXCEPT !.last = n], p)
                     /\ SameRecords([p EXCEPT !.sched = n], p)
                     /\ SameRecords([p EXCEPT !.ruleNum = n], p)
           /\ \A S : /\ SameRecords([p EXCEPT !.labels = S], p)
                     /\ SameRecords([p EXCEPT !.ruleNames = S], p)
<1> DEFINE R == Seq(Rules)
           T == Seq(Minutes \X Phase)
<1>1. Plan = [exists: BOOLEAN, ver: Nat, fin: BOOLEAN, del: BOOLEAN, suspend: BOOLEAN,
              ruleNames: R, labels: SUBSET Rules, ruleNum: Nat,
              status: PlanStatus, last: Nat, sched: Nat, names: T]
  BY DEF Plan
<1> HIDE DEF R, T
<1>2. ASSUME NEW b
      PROVE  /\ SameRecords([p EXCEPT !.fin = b], p)
             /\ SameRecords([p EXCEPT !.suspend = b], p)
             /\ SameRecords([p EXCEPT !.exists = b], p)
             /\ SameRecords([p EXCEPT !.del = b], p)
  BY <1>1 DEF SameRecords
<1>3. ASSUME NEW n
      PROVE  /\ SameRecords([p EXCEPT !.ver = n], p)
             /\ SameRecords([p EXCEPT !.last = n], p)
             /\ SameRecords([p EXCEPT !.sched = n], p)
             /\ SameRecords([p EXCEPT !.ruleNum = n], p)
  BY <1>1 DEF SameRecords
<1>4. ASSUME NEW S
      PROVE  /\ SameRecords([p EXCEPT !.labels = S], p)
             /\ SameRecords([p EXCEPT !.ruleNames = S], p)
  BY <1>1 DEF SameRecords
<1> QED BY <1>2, <1>3, <1>4

(* The changes of its records.                                             *)
LEMMA NewRecords ==
    ASSUME NEW p \in Plan
    PROVE  /\ \A s : /\ [p EXCEPT !.status = s].status = s
                     /\ [p EXCEPT !.status = s].names = p.names
           /\ \A list : /\ [p EXCEPT !.names = list].names = list
                        /\ [p EXCEPT !.names = list].status = p.status
<1> DEFINE R == Seq(Rules)
           T == Seq(Minutes \X Phase)
<1>1. Plan = [exists: BOOLEAN, ver: Nat, fin: BOOLEAN, del: BOOLEAN, suspend: BOOLEAN,
              ruleNames: R, labels: SUBSET Rules, ruleNum: Nat,
              status: PlanStatus, last: Nat, sched: Nat, names: T]
  BY DEF Plan
<1> HIDE DEF R, T
<1> QED BY <1>1

(* An accepted write keeps the records of what is written.                 *)
LEMMA StoredRecords ==
    ASSUME plan \in Plan, NEW new \in Plan
    PROVE  SameRecords(Stored(new), new)
<1> DEFINE b == ~(new.del /\ ~new.fin)
           u == [new EXCEPT !.ver = plan.ver + 1]
           t == [u EXCEPT !.exists = b]
           v == [plan EXCEPT !.ver = new.ver]
<1>0. plan.ver + 1 \in Nat
  BY Fields
<1>1. CASE new = v
  <2>1. SameRecords(v, plan)
    BY KeepRecords
  <2>2. Stored(new) = plan
    BY <1>1 DEF Stored
  <2> QED BY <1>1, <2>1, <2>2 DEF SameRecords
<1>2. CASE new # v
  <2>1. Stored(new) = t
    BY <1>2 DEF Stored
  <2> HIDE DEF b
  <2>2. u \in Plan /\ SameRecords(u, new)
    BY <1>0, Changes, KeepRecords
  <2> HIDE DEF u
  <2>3. SameRecords(t, u)
    BY <2>2, KeepRecords
  <2> QED BY <2>1, <2>2, <2>3 DEF SameRecords
<1> QED BY <1>1, <1>2

(* The plan with its new task.                                             *)
LEMMA NotedRecords ==
    ASSUME TypeOK, NEW p \in Plan, NEW m \in Minutes, NEW s \in Phase, NEW states,
           RecordsFollow(p, states), Told(states[m], s)
    PROVE  RecordsFollow(WithTask(p, m, s), states)
<1>0. /\ p.names \in Seq(Minutes \X Phase) /\ m \in Nat /\ now \in Nat /\ minute \in Nat
      /\ s \in PlanStatus /\ "Pending" \in PlanStatus
  <2>1. p.names \in Seq(Minutes \X Phase)
    BY Fields
  <2>2. m \in Nat /\ now \in Nat /\ minute \in Nat
    BY BoundsAssumption DEF TypeOK, Minutes
  <2> QED BY <2>1, <2>2 DEF Phase, PlanStatus
<1> DEFINE known == {i \in DOMAIN p.names : p.names[i][1] = m}
           k == Min(known)
           one == Append(p.names, <<m, s>>)
           two == IF known = {} THEN one ELSE [p.names EXCEPT ![k] = <<m, s>>]
<1> HIDE DEF k
<1>1. /\ one \in Seq(Minutes \X Phase) /\ ListFollows(one, states)
      /\ [p.names EXCEPT ![k] = <<m, s>>] \in Seq(Minutes \X Phase)
      /\ ListFollows([p.names EXCEPT ![k] = <<m, s>>], states)
  <2>1. ListFollows(p.names, states)
    BY RecordsAre
  <2> QED BY <1>0, <2>1, Lists, ListsFollow
<1>2. two \in Seq(Minutes \X Phase) /\ ListFollows(two, states)
  BY <1>1, Zenon
<1>3. StatusFollows(s, states) /\ StatusFollows("Pending", states)
  BY DEF StatusFollows
<1>4. WithTask(p, m, s) =
        IF Cron THEN [p EXCEPT !.names = one, !.last = m, !.sched = now, !.status = "Pending"]
        ELSE [p EXCEPT !.last = m, !.sched = minute, !.status = s, !.names = two]
  BY Zenon DEF WithTask, k
<1> HIDE DEF one, two
<1> DEFINE a1 == [p EXCEPT !.names = one]
           a2 == [a1 EXCEPT !.last = m]
           a3 == [a2 EXCEPT !.sched = now]
           a4 == [a3 EXCEPT !.status = "Pending"]
           b1 == [p EXCEPT !.last = m]
           b2 == [b1 EXCEPT !.sched = minute]
           b3 == [b2 EXCEPT !.status = s]
           b4 == [b3 EXCEPT !.names = two]
<1>5. /\ [p EXCEPT !.names = one, !.last = m, !.sched = now, !.status = "Pending"] = a4
      /\ [p EXCEPT !.last = m, !.sched = minute, !.status = s, !.names = two] = b4
  BY DEF Plan
<1>6. a4.names = one /\ a4.status = "Pending"
  <2>1. a1 \in Plan /\ a1.names = one
    BY <1>1, Changes, NewRecords
  <2> HIDE DEF a1
  <2>2. a2 \in Plan /\ SameRecords(a2, a1)
    BY <1>0, <2>1, Changes, KeepRecords
  <2> HIDE DEF a2
  <2>3. a3 \in Plan /\ SameRecords(a3, a2)
    BY <1>0, <2>2, Changes, KeepRecords
  <2> HIDE DEF a3
  <2>4. a4.status = "Pending" /\ a4.names = a3.names
    BY <2>3, NewRecords
  <2> HIDE DEF a4
  <2> QED BY <2>1, <2>2, <2>3, <2>4 DEF SameRecords
<1>7. b4.names = two /\ b4.status = s
  <2>1. b1 \in Plan
    BY <1>0, Changes
  <2> HIDE DEF b1
  <2>2. b2 \in Plan
    BY <1>0, <2>1, Changes
  <2> HIDE DEF b2
  <2>3. b3 \in Plan /\ b3.status = s
    BY <1>0, <2>2, Changes, NewRecords
  <2> HIDE DEF b3
  <2>4. b4.names = two /\ b4.status = b3.status
    BY <2>3, NewRecords
  <2> HIDE DEF b4
  <2> QED BY <2>3, <2>4
<1> HIDE DEF a4, b4
<1>8. ListFollows(a4.names, states) /\ StatusFollows(a4.status, states)
  BY <1>1, <1>3, <1>6
<1>9. ListFollows(b4.names, states) /\ StatusFollows(b4.status, states)
  BY <1>2, <1>3, <1>7
<1> QED BY <1>4, <1>5, <1>8, <1>9, RecordsAre, Zenon

(* The plan with what a task has reported.                                 *)
LEMMA ReportedRecords ==
    ASSUME plan \in Plan, NEW m \in Minutes, NEW s \in Phase, NEW states,
           RecordsFollow(plan, states), Told(states[m], s)
    PROVE  RecordsFollow(Reported(m, s), states)
<1>0. plan.names \in Seq(Minutes \X Phase) /\ s \in PlanStatus /\ ListFollows(plan.names, states)
  BY Fields, RecordsAre DEF PlanStatus
<1> DEFINE known == {i \in DOMAIN plan.names : plan.names[i][1] = m}
           k == Min(known)
           two == IF known = {} THEN plan.names ELSE [plan.names EXCEPT ![k] = <<m, s>>]
           a == [plan EXCEPT !.status = s]
           b == [a EXCEPT !.names = two]
<1> HIDE DEF k
<1>1. /\ [plan.names EXCEPT ![k] = <<m, s>>] \in Seq(Minutes \X Phase)
      /\ ListFollows([plan.names EXCEPT ![k] = <<m, s>>], states)
  BY <1>0, Lists, ListsFollow
<1>2. two \in Seq(Minutes \X Phase) /\ ListFollows(two, states)
  BY <1>0, <1>1, Zenon
<1>3. Reported(m, s) = Stored([plan EXCEPT !.status = s, !.names = two])
  BY Zenon DEF Reported, k
<1> HIDE DEF two
<1>4. [plan EXCEPT !.status = s, !.names = two] = b
  BY DEF Plan
<1>5. a \in Plan /\ a.status = s
  BY <1>0, Changes, NewRecords
<1> HIDE DEF a
<1>6. b \in Plan /\ b.names = two /\ b.status = a.status
  BY <1>2, <1>5, Changes, NewRecords
<1> HIDE DEF b
<1>7. StatusFollows(s, states)
  BY DEF StatusFollows
<1>8. RecordsFollow(b, states)
  BY <1>2, <1>5, <1>6, <1>7, RecordsAre
<1> QED BY <1>3, <1>4, <1>6, <1>8, StoredRecords, SameFollow

(* The plan with the patch of this Reconcile.                              *)
LEMMA PatchedRecords ==
    ASSUME plan \in Plan, my \in Plan, NEW states,
           RecordsFollow(plan, states), RecordsFollow(my, states)
    PROVE  RecordsFollow(Patched, states)
<1>0. /\ plan.names \in Seq(Minutes \X Phase) /\ my.names \in Seq(Minutes \X Phase)
      /\ plan.last \in Nat /\ my.last \in Nat /\ plan.sched \in Nat /\ my.sched \in Nat
      /\ plan.status \in PlanStatus /\ my.status \in PlanStatus
  BY Fields
<1> DEFINE names == IF my.names = old.names THEN plan.names ELSE my.names
           last == IF my.last = old.last THEN plan.last ELSE my.last
           sched == IF my.sched = old.sched THEN plan.sched ELSE my.sched
           status == IF my.status = old.status THEN plan.status ELSE my.status
           a == [plan EXCEPT !.names = names]
           b == [a EXCEPT !.last = last]
           c == [b EXCEPT !.sched = sched]
           d == [c EXCEPT !.status = status]
<1>1. /\ names \in Seq(Minutes \X Phase) /\ last \in Nat /\ sched \in Nat
      /\ status \in PlanStatus
  BY <1>0
<1>2. ListFollows(names, states) /\ StatusFollows(status, states)
  BY RecordsAre
<1>3. Patched = [plan EXCEPT !.names = names, !.last = last, !.sched = sched, !.status = status]
  BY DEF Patched
<1> HIDE DEF names, last, sched, status
<1>4. Patched = d
  BY <1>3 DEF Plan
<1>5. a \in Plan /\ a.names = names
  <2>1. a \in Plan
    BY <1>1, Changes
  <2>2. a.names = names
    BY NewRecords
  <2> QED BY <2>1, <2>2
<1> HIDE DEF a
<1>6. b \in Plan /\ SameRecords(b, a)
  BY <1>1, <1>5, Changes, KeepRecords
<1> HIDE DEF b
<1>7. c \in Plan /\ SameRecords(c, b)
  BY <1>1, <1>6, Changes, KeepRecords
<1> HIDE DEF c
<1>8. d.status = status /\ d.names = c.names
  BY <1>7, NewRecords
<1> HIDE DEF d
<1>9. d.names = names
  BY <1>5, <1>6, <1>7, <1>8 DEF SameRecords
<1> QED BY <1>2, <1>4, <1>8, <1>9, RecordsAre

(* cleanTask records the tasks it keeps as the lister shows them, and the  *)
(* lister shows no success that is not there.                              *)
LEMMA CleanRecords ==
    ASSUME IInv, RecordsInv, cleanTask, NEW states, RecordsFollow(my, states),
           \A m \in Minutes : tasks[m] # "none" => states[m] # "none",
           \A m \in Minutes : tasks[m] \in Ended => states[m] \in Ended
    PROVE  RecordsFollow(my', states)
<1>0. my \in Plan
  BY DEF IInv, TypeOK
<1>1. Kept \subseteq Listed /\ Kept \subseteq Minutes /\ Kept \subseteq Nat /\ IsFiniteSet(Kept)
  <2>1. Kept \subseteq Listed /\ Kept \subseteq Minutes
    BY DEF Kept, Newest, Listed
  <2>2. IsFiniteSet(Minutes) /\ Minutes \subseteq Nat
    BY BoundsAssumption, FS_Interval DEF Minutes
  <2> QED BY <2>1, <2>2, FS_Subset
<1> DEFINE n == Cardinality(Kept)
           list == [i \in 1..n |-> Converted(InOrder(Kept, i))]
<1>2. ASSUME NEW m \in Listed
      PROVE  /\ Converted(m)[1] = m
             /\ Told(states[m], Converted(m)[2])
  <2>1. m \in Minutes /\ tasks[m] # "none"
    BY DEF Listed, IInv, TaskInv
  <2>2. Converted(m)[1] = m /\ (Converted(m)[2] = "Succeeded" => tcache[m] = "Succeeded")
    BY DEF Converted, GetStatus
  <2>3. tcache[m] = "Succeeded" => states[m] \in Ended
    BY <2>1 DEF RecordsInv
  <2> QED BY <2>1, <2>2, <2>3 DEF Told, Ended
<1>3. ListFollows(list, states)
  <2> SUFFICES ASSUME NEW e \in ToSet(list) PROVE Told(states[e[1]], e[2])
    BY DEF ListFollows
  <2>1. PICK i \in 1..n : e = Converted(InOrder(Kept, i))
    BY DEF ToSet
  <2>2. InOrder(Kept, i) \in Listed
    BY <1>1, InOrderIs
  <2> QED BY <1>2, <2>1, <2>2
<1>4. my' = my \/ my' = [my EXCEPT !.names = list]
  BY DEF cleanTask
<1> HIDE DEF list
<1>5. [my EXCEPT !.names = list].names = list /\ [my EXCEPT !.names = list].status = my.status
  BY <1>0, NewRecords
<1>6. StatusFollows(my.status, states)
  BY RecordsAre
<1>7. RecordsFollow([my EXCEPT !.names = list], states)
  BY <1>3, <1>5, <1>6, RecordsAre
<1> QED BY <1>4, <1>7

(* An edit by a user leaves the records alone.                             *)
LEMMA EditRecords ==
    ASSUME TypeOK, Edit
    PROVE  SameRecords(plan', plan)
<1>0. plan \in Plan /\ plan.suspend \in BOOLEAN
  BY Fields DEF TypeOK
<1>1. CASE \E names \in RuleEdits : plan' = Stored([plan EXCEPT !.ruleNames = names])
  <2>1. PICK names \in RuleEdits : plan' = Stored([plan EXCEPT !.ruleNames = names])
    BY <1>1
  <2> DEFINE new == [plan EXCEPT !.ruleNames = names]
  <2>2. names \in Seq(Rules)
    BY SpecAssumption
  <2>3. new \in Plan
    BY <1>0, <2>2, OtherChanges, Zenon
  <2>4. SameRecords(new, plan)
    BY <1>0, KeepRecords
  <2> HIDE DEF new
  <2> QED BY <1>0, <2>1, <2>3, <2>4, StoredRecords DEF SameRecords, new
<1>2. CASE plan' = Stored([plan EXCEPT !.suspend = ~@])
  <2> DEFINE b == ~plan.suspend
             new == [plan EXCEPT !.suspend = b]
  <2>1. b \in BOOLEAN /\ plan' = Stored(new)
    BY <1>0, <1>2
  <2> HIDE DEF b
  <2>2. new \in Plan
    BY <1>0, <2>1, Changes
  <2>3. SameRecords(new, plan)
    BY <1>0, KeepRecords
  <2> HIDE DEF new
  <2> QED BY <1>0, <2>1, <2>2, <2>3, StoredRecords DEF SameRecords
<1>3. CASE plan' = Stored([plan EXCEPT !.del = TRUE])
  <2> DEFINE new == [plan EXCEPT !.del = TRUE]
  <2>1. new \in Plan
    BY <1>0, OtherChanges
  <2>2. SameRecords(new, plan)
    BY <1>0, KeepRecords
  <2> HIDE DEF new
  <2> QED BY <1>0, <1>3, <2>1, <2>2, StoredRecords DEF SameRecords, new
<1> QED BY <1>1, <1>2, <1>3 DEF Edit

(* An Update of records that follow the tasks.                             *)
LEMMA UpdateRecords ==
    ASSUME TypeOK, NEW new \in Plan, UpdateAndReturn(new), NEW states,
           RecordsFollow(plan, states), RecordsFollow(new, states)
    PROVE  RecordsFollow(plan', states)
<1>1. plan' = plan \/ plan' = Stored(new)
  BY UpdateIs
<1> QED BY <1>1, StoredRecords, SameFollow DEF TypeOK

(* Whatever is written, the plan's records follow the tasks.               *)
LEMMA PlanRecordsStep ==
    ASSUME IInv, RecordsInv, [Next]_vars
    PROVE  RecordsFollow(plan', tasks')
<1>0. TypeOK /\ plan \in Plan /\ my \in Plan
  BY DEF IInv, TypeOK
<1>1. RecordsFollow(plan, tasks') /\ (ctl # "idle" => RecordsFollow(my, tasks'))
  BY <1>0, RecordsStay DEF RecordsInv
<1>2. ASSUME plan' = plan PROVE RecordsFollow(plan', tasks')
  BY <1>1, <1>2
<1>3. CASE AddFinalizer
  <2>1. [my EXCEPT !.fin = TRUE] \in Plan /\ SameRecords([my EXCEPT !.fin = TRUE], my)
    BY <1>0, Changes, KeepRecords
  <2>2. RecordsFollow([my EXCEPT !.fin = TRUE], tasks')
    BY <1>1, <1>3, <2>1, SameFollow DEF AddFinalizer
  <2> QED BY <1>0, <1>1, <1>3, <2>1, <2>2, UpdateRecords DEF AddFinalizer
<1>4. CASE SetPending
  <2> DEFINE new == [my EXCEPT !.status = "Pending"]
  <2>1. new \in Plan
    BY <1>0, Changes DEF PlanStatus, Phase
  <2>2. new.status = "Pending" /\ new.names = my.names
    BY <1>0, NewRecords
  <2>3. UpdateAndReturn(new) /\ RecordsFollow(my, tasks')
    BY <1>1, <1>4 DEF SetPending
  <2> HIDE DEF new
  <2>4. RecordsFollow(new, tasks')
    BY <2>2, <2>3, RecordsAre DEF StatusFollows
  <2> QED BY <1>0, <1>1, <2>1, <2>3, <2>4, UpdateRecords
<1>5. CASE UpdateRules \/ DropFinalizer \/ UpdateStatus
  <2>1. UpdateAndReturn(my) /\ RecordsFollow(my, tasks')
    BY <1>1, <1>5 DEF UpdateRules, DropFinalizer, UpdateStatus
  <2> QED BY <1>0, <1>1, <2>1, UpdateRecords
<1>6. CASE CreateTaskFails
  BY <1>0, <1>2, <1>6, ReturnIs
<1>7. CASE PatchStatus
  <2>1. plan' = plan \/ plan' = Stored(Patched)
    BY <1>0, <1>7, ReturnIs
  <2>2. RecordsFollow(my, tasks')
    BY <1>1, <1>7 DEF PatchStatus
  <2>3. Patched \in Plan /\ RecordsFollow(Patched, tasks')
    BY <1>0, <1>1, <2>2, PatchedIs, PatchedRecords
  <2> QED BY <1>0, <1>2, <2>1, <2>3, StoredRecords, SameFollow
<1>8. CASE TaskController
  <2>1. PICK m \in Minutes : TaskRuns(m) \/ TaskEnds(m)
    BY <1>8 DEF TaskController
  <2>2. plan' = plan \/ \E s \in Phase : plan' = Reported(m, s) /\ Told(tasks'[m], s)
    BY <1>0, <2>1 DEF TaskRuns, TaskEnds, Phase, Told, TypeOK
  <2> QED BY <1>0, <1>1, <1>2, <2>2, ReportedRecords
<1>9. CASE Edit
  <2>1. SameRecords(plan', plan)
    BY <1>0, <1>9, EditRecords
  <2> QED BY <1>1, <2>1, SameFollow
<1>10. CASE updateAddRuleReferNum \/ updateSubRuleReferNum \/ ReleaseRules
  BY <1>0, <1>2, <1>10, RecountIs
<1>11. CASE Caches \/ Tick
  BY <1>0, <1>2, <1>11, CachesAre
<1>12. CASE \/ Reconcile \/ FindTask \/ CreateTask \/ cleanTask \/ CollectTasks \/ Crash
            \/ UNCHANGED vars
  BY <1>2, <1>12 DEF Reconcile, FindTask, CreateTask, cleanTask, CollectTasks, Crash, vars
<1> QED BY <1>3, <1>4, <1>5, <1>6, <1>7, <1>8, <1>9, <1>10, <1>11, <1>12 DEF Next, Controller

(* What Reconcile has made of the records it read follows the tasks.       *)
LEMMA MyRecordsStep ==
    ASSUME IInv, RecordsInv, [Next]_vars, ctl' # "idle"
    PROVE  RecordsFollow(my', tasks')
<1>0. TypeOK /\ my \in Plan /\ cache \in Plan /\ minute \in Minutes
  BY DEF IInv, TypeOK
<1>1. RecordsFollow(cache, tasks') /\ (ctl # "idle" => RecordsFollow(my, tasks'))
  BY <1>0, RecordsStay DEF RecordsInv
<1>2. ASSUME UNCHANGED <<ctl, my>> PROVE RecordsFollow(my', tasks')
  BY <1>1, <1>2
<1>3. CASE Reconcile
  BY <1>0, <1>1, <1>3, ReconcileIs
<1>4. CASE updateAddRuleReferNum
  <2>1. PICK ok \in SUBSET Joined(my) :
          my' = [my EXCEPT !.labels = @ \cup ok, !.ruleNum = Len(my.ruleNames)]
    BY <1>4 DEF updateAddRuleReferNum
  <2>2. SameRecords(my', my)
    BY <1>0, <2>1 DEF Plan, SameRecords
  <2> QED BY <1>1, <1>4, <2>2, SameFollow DEF updateAddRuleReferNum
<1>5. CASE updateSubRuleReferNum
  <2>1. SameRecords(my', my)
    BY <1>0, <1>5, KeepRecords DEF updateSubRuleReferNum
  <2> QED BY <1>1, <1>5, <2>1, SameFollow DEF updateSubRuleReferNum
<1>6. CASE ReleaseRules
  <2>1. SameRecords(my', my)
    BY <1>0, <1>6, KeepRecords DEF ReleaseRules
  <2> QED BY <1>1, <1>6, <2>1, SameFollow DEF ReleaseRules
<1>7. CASE FindTask \/ CreateTask
  <2>1. PICK s \in Phase : my' = WithTask(my, minute, s) /\ Told(tasks'[minute], s)
    <3>1. CASE FindTask
      <4> DEFINE s == GetStatus(tcache[minute])
      <4>1. my' = WithTask(my, minute, s) /\ tasks' = tasks /\ s \in Phase
        BY <3>1 DEF FindTask, GetStatus, Phase, taskVars
      <4>2. tasks[minute] # "none"
        BY <1>0, <3>1 DEF FindTask, IInv, TaskInv
      <4>3. s = "Succeeded" => tasks[minute] \in Ended
        BY <1>0 DEF GetStatus, RecordsInv
      <4> QED BY <4>1, <4>2, <4>3 DEF Told, Ended
    <3>2. CASE CreateTask
      <4>1. my' = WithTask(my, minute, "Pending") /\ tasks'[minute] = "Pending"
        BY <1>0, <3>2 DEF CreateTask, TypeOK
      <4> QED BY <4>1 DEF Told, Phase
    <3> QED BY <1>7, <3>1, <3>2
  <2>2. RecordsFollow(my, tasks')
    BY <1>1, <1>7 DEF FindTask, CreateTask
  <2> QED BY <1>0, <2>1, <2>2, NotedRecords
<1>8. CASE cleanTask
  <2>1. RecordsFollow(my, tasks')
    BY <1>1, <1>8 DEF cleanTask
  <2>2. /\ \A m \in Minutes : tasks[m] # "none" => tasks'[m] # "none"
        /\ \A m \in Minutes : tasks[m] \in Ended => tasks'[m] \in Ended
    BY <1>0, TaskStep, EndedStep
  <2> QED BY <1>8, <2>1, <2>2, CleanRecords
<1>9. CASE AddFinalizer \/ SetPending \/ UpdateRules \/ DropFinalizer \/ UpdateStatus
  BY <1>9 DEF AddFinalizer, SetPending, UpdateRules, DropFinalizer, UpdateStatus,
              UpdateAndReturn, Return, ReturnError, RequeueAt, Leave
<1>10. CASE CreateTaskFails \/ PatchStatus
  BY <1>0, <1>10, ReturnIs
<1>11. CASE TaskController \/ Edit \/ CollectTasks \/ Caches \/ Tick \/ UNCHANGED vars
  BY <1>2, <1>11 DEF TaskController, TaskRuns, TaskEnds, Edit, CollectTasks, vars, ctlVars,
                     Caches, SyncPlan, SyncTasks, SyncRules, Wake, Tick
<1>12. CASE Crash
  BY <1>12 DEF Crash, Leave
<1> QED BY <1>3, <1>4, <1>5, <1>6, <1>7, <1>8, <1>9, <1>10, <1>11, <1>12 DEF Next, Controller

(* The lister shows a success only of a task that has succeeded.           *)
LEMMA ShownStep ==
    ASSUME IInv, RecordsInv, [Next]_vars
    PROVE  \A m \in Minutes : tcache'[m] = "Succeeded" => tasks'[m] \in Ended
<1>0. TypeOK
  BY DEF IInv
<1> SUFFICES ASSUME NEW m \in Minutes, tcache'[m] = "Succeeded" PROVE tasks'[m] \in Ended
  OBVIOUS
<1>1. tasks[m] \in Ended
  <2>1. CASE tcache' = tcache
    BY <2>1 DEF RecordsInv
  <2>2. CASE tcache' = View
    BY <1>0, <2>2 DEF View, TypeOK, Ended
  <2> QED BY <1>0, <2>1, <2>2, ListerStep
<1> QED BY <1>0, <1>1, EndedStep

-----------------------------------------------------------------------------
(* The theorems                                                            *)

(* The invariant that the others follow from: the copies of the plan in    *)
(* the cache and in Reconcile are never newer than the plan, and a label   *)
(* is written only together with the version it was decided on.            *)
THEOREM PlanInvariant == Spec => []IInv
<1>1. Init => IInv
  <2> SUFFICES ASSUME Init PROVE IInv
    OBVIOUS
  <2>1. /\ NewPlan \in Plan /\ NewPlan.labels = {} /\ NewPlan.ver = 0
        /\ NewPlan.del = FALSE /\ NewPlan.ruleNames = RuleNames
    BY NewPlanIs
  <2>2. TypeOK
    <3>1. /\ queued \in BOOLEAN /\ timer \in Nat /\ ctl \in CtlLabel /\ now \in Minutes
          /\ minute \in Minutes /\ off \subseteq Rules /\ fresh \subseteq Rules
      BY BoundsAssumption DEF Init, CtlLabel, Minutes
    <3>2. tasks \in [Minutes -> TaskState] /\ tcache \in [Minutes -> TaskState \cup {"open"}]
      BY DEF Init, TaskState
    <3>3. count \in [Rules -> Nat \cup {Absent}] /\ lister \in [Rules -> Nat \cup {Absent}]
      BY DEF Init
    <3>4. plan \in Plan /\ cache \in Plan /\ old \in Plan /\ my \in Plan
      BY <2>1 DEF Init
    <3> QED BY <3>1, <3>2, <3>3, <3>4 DEF TypeOK
  <2>3. CopyInv
    BY <2>1 DEF Init, CopyInv, CopyOf, Known
  <2>4. MyInv
    BY DEF Init, MyInv
  <2>5. CountInv
    BY <2>1 DEF Init, CountInv
  <2>6. TaskInv
    BY DEF Init, TaskInv, Live
  <2> QED BY <2>2, <2>3, <2>4, <2>5, <2>6 DEF IInv
<1>2. IInv /\ [Next]_vars => IInv'
  <2> SUFFICES ASSUME IInv, [Next]_vars PROVE IInv'
    OBVIOUS
  <2>1. TypeOK' /\ plan' \in Plan
    BY TypeStep DEF IInv, TypeOK
  <2>2. PlanMay
    BY PlanStep
  <2> QED BY <2>1, <2>2, CopyStep, MyStep, CountInvStep, TaskInvStep DEF IInv
<1> QED BY <1>1, <1>2, PTL DEF Spec

(* Every variable keeps its type, whatever is edited, fails or crashes;    *)
(* the status that cleanTask and the patch write are lists of tasks.       *)
THEOREM PlanTypeCorrect == Spec => []TypeOK
<1>1. IInv => TypeOK
  BY DEF IInv
<1> QED BY <1>1, PlanInvariant, PTL

(* updateAddRuleReferNum: a plan that bears the label of a rule it names,  *)
(* and never lost, is counted at that rule.                                *)
THEOREM PlanLabelledIsCounted == Spec => []LabelledIsCounted
<1>1. IInv => LabelledIsCounted
  BY DEF IInv, CountInv, Counted, LabelledIsCounted
<1> QED BY <1>1, PlanInvariant, PTL

(* cleanTask deletes a task only when MaxTasks newer ones were created,    *)
(* however old the list it works on.                                       *)
THEOREM PlanNewestAreKept == Spec => NewestAreKept
<1>1. IInv /\ [Next]_vars =>
        [\A m \in Minutes :
           plan.exists /\ Live(tasks[m]) /\ ~Live(tasks'[m])
              => Cardinality({k \in Minutes : k > m /\ tasks[k] # "none"}) >= MaxTasks]_vars
  BY KeptStep
<1> QED BY <1>1, PlanInvariant, PTL DEF Spec, NewestAreKept
(* PatchStatus, updateStatus, updatePlanStatus: although the status is     *)
(* patched without its version, from a plan and a list of tasks that may   *)
(* be outdated, it never records a task that was not created, nor a        *)
(* success of one that has not succeeded.                                  *)
THEOREM PlanRecordsFollowTasks == Spec => []RecordsFollowTasks
<1>1. Init => RecordsInv
  <2> SUFFICES ASSUME Init PROVE RecordsInv
    OBVIOUS
  <2>1. plan = NewPlan /\ cache = NewPlan /\ ctl = "idle" /\ \A m \in Minutes : tcache[m] = "none"
    BY DEF Init
  <2>2. ToSet(<<>>) = {}
    BY DEF ToSet
  <2>3. RecordsFollow(NewPlan, tasks)
    <3>0. NewPlan.names = <<>> /\ NewPlan.status = ""
      BY DEF NewPlan
    <3>1. ListFollows(NewPlan.names, tasks)
      BY <2>2, <3>0, Zenon DEF ListFollows
    <3>2. StatusFollows(NewPlan.status, tasks)
      BY <3>0, Zenon DEF StatusFollows
    <3> QED BY <3>1, <3>2, RecordsAre
  <2> QED BY <2>1, <2>3 DEF RecordsInv
<1>2. IInv /\ RecordsInv /\ [Next]_vars => RecordsInv'
  <2> SUFFICES ASSUME IInv, RecordsInv, [Next]_vars PROVE RecordsInv'
    OBVIOUS
  <2>1. RecordsFollow(plan', tasks')
    BY PlanRecordsStep
  <2>2. RecordsFollow(cache', tasks')
    <3>1. TypeOK /\ cache \in Plan
      BY DEF IInv, TypeOK
    <3>2. RecordsFollow(cache, tasks')
      BY <3>1, RecordsStay DEF RecordsInv
    <3> QED BY <2>1, <3>1, <3>2, ReadStep
  <2>3. ctl' # "idle" => RecordsFollow(my', tasks')
    BY MyRecordsStep
  <2> QED BY <2>1, <2>2, <2>3, ShownStep DEF RecordsInv
<1>3. RecordsInv => RecordsFollowTasks
  BY DEF RecordsInv, RecordsFollowTasks
<1> QED BY <1>1, <1>2, <1>3, PlanInvariant, PTL DEF Spec
=============================================================================
