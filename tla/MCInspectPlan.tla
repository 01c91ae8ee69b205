--------------------------- MODULE MCInspectPlan ---------------------------
(***************************************************************************)
(* Instances of InspectPlan for TLC: the sequences a .cfg cannot write.    *)
(***************************************************************************)
EXTENDS InspectPlan

NoRules  == <<>>
OneRule  == <<"r1">>
TwoRules == <<"r1", "r2">>

(* One rule is left, or none.                                              *)
RemoveRule  == {OneRule}
RemoveRules == {NoRules}
NoEdits     == {}
=============================================================================
