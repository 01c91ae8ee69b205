---------------------------- MODULE MCApiServer ----------------------------
(***************************************************************************)
(* An instance of ApiServer for TLC.                                       *)
(***************************************************************************)
EXTENDS ApiServer

(* A spec of one item without a level, and one of two items of which one   *)
(* is a component, which is not counted.                                   *)
MCFirstSpec == <<[kind |-> "sysctl", level |-> ""]>>

MCSpecs == {MCFirstSpec,
            <<[kind |-> "opas", level |-> "danger"],
              [kind |-> "component", level |-> "danger"]>>}

Other(n, t) == [RuleObject EXCEPT !.name = n, !.uid = n, !.time = t]

(* Two more rules, one of the same second: with two items on a page a walk *)
(* has two pages.                                                          *)
MCOtherRules == {Other(2, 1), Other(3, 2)}

MCOtherPlans == {Other(2, 2), Other(3, 3)}

(* No filter, one for a part of a name and one for a UUID, one that only   *)
(* plans know, one nobody knows, and a known one beside that.              *)
MCUrls == {[ascending |-> "true"],
           [name |-> [isUUID |-> FALSE, uid |-> 0, names |-> {1, 2}]],
           [name |-> [isUUID |-> TRUE, uid |-> 2, names |-> {}]],
           [suspend |-> "true", sortBy |-> "name"],
           [color |-> "red"], [color |-> "red", lastTaskStatus |-> "Running"]}
=============================================================================
