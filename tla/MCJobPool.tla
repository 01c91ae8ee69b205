----------------------------- MODULE MCJobPool -----------------------------
(***************************************************************************)
(* Instances of JobPool for TLC.                                           *)
(***************************************************************************)
EXTENDS JobPool, TLC

CONSTANTS r1, r2, r3, n1

(* Three rules, two slots: one goroutine waits for a slot, two are in      *)
(* flight.  r3 is the opa rule, which may run on any node.                 *)
MCTarget == (r1 :> n1) @@ (r2 :> AnyNode) @@ (r3 :> AnyNode)
=============================================================================
