------------------------------- MODULE DeliveryMC -------------------------------
(***************************************************************************)
(* Two units, the second on top of the first; a checkpoint accepts the     *)
(* first.  Two users: one drives "delivery run", the other the single      *)
(* commands.                                                               *)
(***************************************************************************)
EXTENDS Delivery, TLC

CONSTANTS u1, u2, c, rc, rr, ac, ar, p1, p2

MCUnits == <<u1, u2>>
MCDependsOn == (u1 :> {}) @@ (u2 :> {u1})
MCUnitIds == c :> {u1}
MCRepairUnit == (c :> rc) @@ ("root" :> rr)
MCArtifact == (c :> ac) @@ ("root" :> ar)
MCCommands == (p1 :> {"run"}) @@ (p2 :> {"verify"})
=============================================================================
