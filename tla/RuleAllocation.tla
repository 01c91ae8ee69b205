--------------------------- MODULE RuleAllocation ---------------------------
(***************************************************************************)
(* From the InspectRules a task names to the jobs of one cluster           *)
(* (pkg/rules/rules.go, called by createInspect): the rules are merged,    *)
(* divided into jobs by node, and stored in the ConfigMap the jobs read.   *)
(*                                                                         *)
(* An InspectRule has lists of items.  The lists that are inspected on     *)
(* nodes are treated alike and so are those of the cluster: one of each    *)
(* stands for its kind.  The opas stand for the lists of the cluster, and  *)
(* componentExclude, a list of names, is there or not.                     *)
(***************************************************************************)
EXTENDS Naturals, FiniteSets, Sequences, SequencesExt

CONSTANTS
    Nodes,       \* the nodes of the cluster
    Lost,        \* names of nodes that are not in the cluster
    Labels,      \* key-value pairs
    LabelsOf,    \* the labels of each node
    NoNode,      \* a nodeName that is not there
    Blank,       \* a nodeName that is the empty string
    Names,       \* names of items
    Specs,       \* the values the Specs of the InspectRules may have
    RuleIds,     \* names of InspectRules
    Installed,   \* the ones that exist
    RefSeqs,     \* what Spec.RuleNames of the task may be
    MaxErrors    \* bound of the failed calls

Sites == Nodes \cup Lost

Item == [name: Names, node: Sites \cup {NoNode, Blank}, sel: SUBSET Labels]
RuleSpec == [items: Seq(Item), opas: Seq([name: Names]), exclude: BOOLEAN]
Ref == [rule: RuleIds, node: Sites \cup {Blank}, sel: SUBSET Labels]

ASSUME InputAssumption ==
    /\ IsFiniteSet(Nodes) /\ IsFiniteSet(Lost) /\ Nodes \cap Lost = {}
    /\ NoNode \notin Sites /\ Blank \notin Sites /\ NoNode # Blank
    /\ LabelsOf \in [Nodes -> SUBSET Labels]
    /\ Specs \subseteq RuleSpec /\ RefSeqs \subseteq Seq(Ref)
    /\ Installed \subseteq RuleIds /\ MaxErrors \in Nat

VARIABLES
    rules,    \* the Spec of each InspectRule in the lister
    refs,     \* Spec.RuleNames of the task
    pc,       \* how far createInspect is
    merged,   \* the merged lists
    total,    \* ruleTotal
    seen,     \* the nodes GetNodes returned
    jobs,     \* the jobs, in the order the pool gets them
    temp,     \* the ConfigMap named after the task: the jobs stored in it, if it is there
    errors

vars == <<rules, refs, pc, merged, total, seen, jobs, temp, errors>>

-----------------------------------------------------------------------------
(* Types                                                                   *)

(* A job's items have a node, unless they are the cluster's.               *)
Job == [kind: {"node"}, items: Seq([name: Names, node: Sites, sel: SUBSET Labels])]
       \cup [kind: {"opa"}, items: Seq([name: Names])]
       \cup [kind: {"component"}, items: {<<>>}]

Nothing == [items |-> <<>>, opas |-> <<>>]

TypeOK ==
    /\ rules \in [Installed -> Specs] /\ refs \in RefSeqs
    /\ pc \in {"merge", "generate", "store", "stored", "failed", "panicked"}
    /\ merged.items \in Seq(Item) /\ merged.opas \in Seq([name: Names])
    /\ total \in [node: Nat, opa: Nat]
    /\ seen \subseteq Nodes /\ jobs \in Seq(Job)
    /\ temp \subseteq Seq(Job) /\ Cardinality(temp) <= 1
    /\ errors \in 0..MaxErrors

Init ==
    /\ rules \in [Installed -> Specs] /\ refs \in RefSeqs
    /\ pc = "merge" /\ merged = Nothing /\ total = [node |-> 0, opa |-> 0]
    /\ seen = {} /\ jobs = <<>> /\ temp = {} /\ errors = 0

Fault == errors < MaxErrors /\ errors' = errors + 1

-----------------------------------------------------------------------------
(* Merging                                                                 *)

(* The elements of a list at some of its indices, in their order.          *)
InOrder(I, k) == CHOOSE i \in I : Cardinality({j \in I : j < i}) = k - 1
Select(list, I) == [k \in 1..Cardinality(I) |-> list[InOrder(I, k)]]

(* getRules, and the search for each of its names by SetRuleSchedule.      *)
Found == Select(refs, {i \in DOMAIN refs : refs[i].rule \in Installed})

Targeted(t) == t.node \notin {NoNode, Blank} \/ t.sel # {}

(* An item with no target of its own gets the one the task has for the     *)
(* rule.  The task's nodeName is a string, which may be empty.             *)
SetTarget(item, ref) ==
    IF Targeted(ref) /\ item.node = NoNode /\ item.sel = {}
    THEN [item EXCEPT !.node = ref.node, !.sel = ref.sel]
    ELSE item

SetRuleSchedule(ref) ==
    LET items == rules[ref.rule].items
    IN  [i \in DOMAIN items |-> SetTarget(items[i], ref)]

(* Every list of a rule with a target is taken for a list of maps, the     *)
(* names in componentExclude too.                                          *)
Panics == \E i \in DOMAIN Found : Targeted(Found[i]) /\ rules[Found[i].rule].exclude

(* The first item of a name stays.                                         *)
RuleArrayDeduplication(list) ==
    Select(list, {i \in DOMAIN list : \A j \in DOMAIN list : list[j].name = list[i].name => i <= j})

(* The lists of the rules, one after the other.                            *)
Merged(lists) ==
    LET upTo[n \in 0..Len(lists)] ==
            IF n = 0 THEN <<>> ELSE RuleArrayDeduplication(upTo[n - 1] \o lists[n])
    IN  upTo[Len(lists)]

MergeRule ==
    /\ pc = "merge"
    /\ IF Panics
       THEN pc' = "panicked" /\ UNCHANGED <<merged, total>>
       ELSE /\ pc' = "generate"
            /\ merged' = [items |-> Merged([i \in DOMAIN Found |-> SetRuleSchedule(Found[i])]),
                          opas  |-> Merged([i \in DOMAIN Found |-> rules[Found[i].rule].opas])]
            /\ total' = [node |-> Len(merged'.items), opa |-> Len(merged'.opas)]
    /\ UNCHANGED <<rules, refs, seen, jobs, temp, errors>>

-----------------------------------------------------------------------------
(* Allocation                                                              *)

Wide(item) == item.node = NoNode /\ item.sel = {}

(* The nodes a selector picks are decided for each node by the last label  *)
(* of a walk through a Go map, which may be any of the selector's.         *)
PickedByLast(item, nodes) ==
    {S \in SUBSET nodes : \A n \in nodes :
        /\ n \in S => item.sel \cap LabelsOf[n] # {}
        /\ n \notin S => item.sel \ LabelsOf[n] # {}}

(* Faulty variant: a nodeName that is empty is a node's.                   *)
SitesOfUnchecked(item, nodes) ==
    IF item.node # NoNode THEN {{item.node}} ELSE PickedByLast(item, nodes)

(* The sets of nodes an item of mergeNodeRule may be given to.             *)
SitesOf(item, nodes) ==
    CASE item.node \in Sites                      -> {{item.node}}
      [] item.node \notin Sites /\ item.sel # {}  -> PickedByLast(item, nodes)
      [] OTHER                                    -> {{}}

(* Faulty variant: the copies of an item for its nodes share one nodeName. *)
CopyForShared(item, n, picked) ==
    [item EXCEPT !.node = IF item.node \in Sites THEN @ ELSE CHOOSE m \in picked : TRUE]

(* What a node's job has of an item that was given to the nodes picked.    *)
CopyFor(item, n, picked) == [item EXCEPT !.node = n]

(* mergeNodeRule: the targeted items, by node.  given[i] is the set of     *)
(* nodes the i-th of them goes to.                                         *)
mergeNodeRule(items, given) ==
    LET copies(n) == [i \in DOMAIN items |-> CopyFor(items[i], n, given[i])]
    IN  {[kind |-> "node",
          items |-> Select(copies(n), {i \in DOMAIN items : n \in given[i]})] :
         n \in UNION {given[i] : i \in DOMAIN items}}

(* The other items go to every node.                                       *)
wideJobs(items, nodes) ==
    IF items = <<>> THEN {}
    ELSE {[kind |-> "node", items |-> [i \in DOMAIN items |-> [items[i] EXCEPT !.node = n]]] :
          n \in nodes}

Narrow(items) == Select(items, {i \in DOMAIN items : ~Wide(items[i])})

(* AllocationRule; the order of the jobs of one kind tells nothing.        *)
AllocationRule(items, nodes, given) ==
    SetToSeq(mergeNodeRule(Narrow(items), given))
    \o SetToSeq(wideJobs(Select(items, {i \in DOMAIN items : Wide(items[i])}), nodes))

Allocation(opas) == IF opas = <<>> THEN <<>> ELSE <<[kind |-> "opa", items |-> opas]>>

Component == [kind |-> "component", items |-> <<>>]

(* A failed list of the nodes is taken for an empty one.                   *)
GetNodes ==
    \/ seen' = Nodes /\ UNCHANGED errors
    \/ seen' = {} /\ Fault

(* The lists are walked through in any order.                              *)
GenerateJob ==
    LET narrow == Narrow(merged.items) IN
    /\ pc = "generate" /\ pc' = "store"
    /\ GetNodes
    /\ \E given \in [DOMAIN narrow -> UNION {SitesOf(narrow[i], seen') : i \in DOMAIN narrow}] :
         /\ \A i \in DOMAIN narrow : given[i] \in SitesOf(narrow[i], seen')
         /\ LET local == AllocationRule(merged.items, seen', given)
                opas  == Allocation(merged.opas)
            IN  jobs' \in {Append(local \o opas, Component), Append(opas \o local, Component)}
    /\ UNCHANGED <<rules, refs, merged, total, temp>>

-----------------------------------------------------------------------------
(* The ConfigMap                                                           *)

(* Faulty variant: the job after the OPA job is lost.                      *)
sortRuleOpaToAtLastOneLess(list) ==
    LET i == SelectInSeq(list, LAMBDA j : j.kind = "opa")
    IN  IF i = 0 THEN list
        ELSE SubSeq(list, 1, i - 1) \o SubSeq(list, i + 2, Len(list)) \o <<list[i]>>

sortRuleOpaToAtLast(list) ==
    LET i == SelectInSeq(list, LAMBDA j : j.kind = "opa")
    IN  IF i = 0 THEN list ELSE Append(RemoveAt(list, i), list[i])

(* Faulty variant: a ConfigMap that is there is as good as a new one.      *)
CreateInspectRuleOnce ==
    /\ pc = "store"
    /\ jobs' = sortRuleOpaToAtLast(jobs)
    /\ pc' = "stored" /\ temp' = (IF temp = {} THEN {jobs'} ELSE temp)
    /\ UNCHANGED <<rules, refs, merged, total, seen, errors>>

CreateInspectRule ==
    /\ pc = "store"
    /\ jobs' = sortRuleOpaToAtLast(jobs)
    /\ pc' = "stored" /\ temp' = {jobs'}
    /\ UNCHANGED <<rules, refs, merged, total, seen, errors>>

(* Get, Delete or Create fails: the ConfigMap there was stays, or is gone, *)
(* or is replaced by a Create whose reply is lost.                         *)
CreateInspectRuleFails ==
    /\ pc = "store" /\ Fault
    /\ jobs' = sortRuleOpaToAtLast(jobs)
    /\ pc' = "failed" /\ temp' \in {temp, {}, {jobs'}}
    /\ UNCHANGED <<rules, refs, merged, total, seen>>

(* Reconcile is called again: after the error, or after the manager died,  *)
(* be it of the panic, and was started again.                              *)
Retry ==
    /\ pc # "merge" /\ pc' = "merge"
    /\ merged' = Nothing /\ total' = [node |-> 0, opa |-> 0]
    /\ seen' = {} /\ jobs' = <<>>
    /\ UNCHANGED <<rules, refs, temp, errors>>

Next == MergeRule \/ GenerateJob \/ CreateInspectRule \/ CreateInspectRuleFails \/ Retry

Spec == Init /\ [][Next]_vars

-----------------------------------------------------------------------------
(* Properties                                                              *)

(* The places of the task's items, in the order of the task.               *)
Places == UNION {{i} \X DOMAIN rules[Found[i].rule].items : i \in DOMAIN Found}
At(p) == rules[Found[p[1]].rule].items[p[2]]
Before(p, q) == p[1] < q[1] \/ (p[1] = q[1] /\ p[2] < q[2])

(* The items no earlier one has the name of.                               *)
Firsts == {p \in Places : \A q \in Places : Before(q, p) => At(q).name # At(p).name}

(* The target of an item: its own, or else the task's for its rule.        *)
Target(p) ==
    IF At(p).node # NoNode \/ At(p).sel # {} THEN [node |-> At(p).node, sel |-> At(p).sel]
    ELSE [node |-> Found[p[1]].node, sel |-> Found[p[1]].sel]

(* Where it has to be inspected, and where it may be: a selector of more   *)
(* than one label is certain only of the nodes that have all or none.      *)
Must(t) == IF t.node \in Sites THEN {t.node} ELSE {n \in seen : t.sel \subseteq LabelsOf[n]}
May(t) ==
    CASE t.node \in Sites                   -> {t.node}
      [] t.node \notin Sites /\ t.sel = {}  -> seen
      [] OTHER                              -> {n \in seen : t.sel \cap LabelsOf[n] # {}}

LocalJobs == {i \in DOMAIN jobs : jobs[i].kind = "node"}

(* Where the items of a name are inspected: GetDeploySchedule puts a job   *)
(* on the node of its first item.                                          *)
Runs(name) == UNION {{<<i, k>> : k \in {m \in DOMAIN jobs[i].items : jobs[i].items[m].name = name}} :
                       i \in LocalJobs}
NodeOf(i) == jobs[i].items[1].node

(* Once the jobs are stored, each item of the task's rules, the first of   *)
(* its name, is inspected where its target says, and on no node twice; an  *)
(* item whose own nodeName is empty, with no selector, is excepted.  All   *)
(* items of a job have the node its pod runs on, which GetResult then      *)
(* writes into each of their results.                                      *)
InspectedWhereAsked ==
    pc = "stored" =>
     /\ \A i \in LocalJobs : \A k \in DOMAIN jobs[i].items : jobs[i].items[k].node = NodeOf(i)
     /\ \A p \in Firsts :
            LET t     == Target(p)
                runs  == Runs(At(p).name)
                where == {NodeOf(r[1]) : r \in runs}
            IN  \/ At(p).node = Blank /\ t.sel = {}
                \/ /\ Must(t) \subseteq where /\ where \subseteq May(t)
                   /\ Cardinality(runs) = Cardinality(where)

(* Each name is merged once, and ruleTotal, which the result keeps as the  *)
(* number of rules inspected, counts each once.  What CreateInspectRule    *)
(* hands to the pool has one job for the components, and the OPA job, if   *)
(* there is one, once and at the end.                                      *)
EachOnce ==
    /\ pc \in {"generate", "store", "stored"} =>
        /\ total.node = Cardinality({At(p).name : p \in Places})
        /\ total.opa = Cardinality(UNION {{rules[Found[i].rule].opas[k].name :
                           k \in DOMAIN rules[Found[i].rule].opas} : i \in DOMAIN Found})
    /\ pc = "stored" =>
        /\ Cardinality({i \in DOMAIN jobs : jobs[i].kind = "component"}) = 1
        /\ {i \in DOMAIN jobs : jobs[i].kind = "opa"} = IF total.opa > 0 THEN {Len(jobs)} ELSE {}

(* The pods look their job up in the ConfigMap: it has the jobs the pool   *)
(* was given, not those of an earlier attempt.                             *)
StoredIsRun == pc = "stored" => temp = {jobs}
=============================================================================
