-------------------------- MODULE MCRuleAllocation --------------------------
(***************************************************************************)
(* An instance of RuleAllocation for TLC: three nodes, one with both       *)
(* labels, one with one and one with none, and two InspectRules.           *)
(***************************************************************************)
EXTENDS RuleAllocation

NodeLabels == [n \in Nodes |-> CASE n = "n1" -> {"a", "b"} [] n = "n2" -> {"a"} [] OTHER -> {}]

Aim(node, sel) == [node |-> node, sel |-> sel]

(* No target, a node, one that is not there, an empty name, selectors.     *)
Aims == {Aim(NoNode, {}), Aim("n2", {}), Aim("n9", {}), Aim(Blank, {}),
         Aim(NoNode, {"a"}), Aim(NoNode, {"a", "b"})}

Items(names, aims) == {[name |-> x, node |-> t.node, sel |-> t.sel] : x \in names, t \in aims}

(* The targets that are combined in one rule.                              *)
Usual == {Aim(NoNode, {}), Aim("n2", {}), Aim(NoNode, {"a"}), Aim(NoNode, {"a", "b"})}

(* A rule with one item, with two, which may have one name, or one with an *)
(* item and a list for the cluster.                                        *)
SomeSpecs ==
    {[items |-> <<i>>, opas |-> <<>>, exclude |-> FALSE] : i \in Items({"x"}, Aims)}
    \cup {[items |-> <<i, j>>, opas |-> <<>>, exclude |-> FALSE] :
              i \in Items({"x"}, Usual), j \in Items(Names, Usual)}
    \cup {[items |-> <<i>>, opas |-> <<[name |-> x]>>, exclude |-> e] :
              i \in Items({"y"}, {Aim(NoNode, {})}), x \in Names, e \in BOOLEAN}

To(rule, node, sel) == [rule |-> rule, node |-> node, sel |-> sel]

(* The task names its rules with and without a target, a rule twice, and   *)
(* one that is not there.                                                  *)
SomeRefs ==
    {<<To("r1", Blank, {}), To("r2", Blank, {})>>,
     <<To("r1", "n1", {}), To("r2", Blank, {"a", "b"})>>,
     <<To("r3", Blank, {}), To("r2", Blank, {"a"}), To("r2", "n1", {})>>}
=============================================================================
