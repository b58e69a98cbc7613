---------------------------- MODULE ComponentsMC ----------------------------
(***************************************************************************)
(* Two replacement units; a root with a proposal the parser finds defects  *)
(* in and one child; drafts with or without checkpoints, or a stop; a      *)
(* verified node over a checkpoint over a leaf; plans of three units with  *)
(* two checkpoints, nested or side by side, one with a cycle; texts that   *)
(* leave one question open, of which an answer to the first raises the     *)
(* second, which the operator cannot settle.                               *)
(***************************************************************************)
EXTENDS Components

CONSTANTS r1, r2, Explored    \* Explored: the components of the run

ExploredInit == Init /\ component \in Explored

ExploredSpec == ExploredInit /\ [][Next]_vars

MCReplacements == <<r1, r2>>

MCProposals == [n \in {"root", "child"} |-> IF n = "root" THEN {"p", "d"} ELSE {"p"}]

MCDraft(text, stopped, checkpoints) ==
    [constraints |-> IF stopped THEN {} ELSE {[id |-> "c1", units |-> {"u1"}]},
     obligations |-> IF stopped THEN {} ELSE {[id |-> "o1", units |-> {"u1"}]},
     text |-> text, stop |-> stopped, checkpoints |-> checkpoints]

MCDrafts == {MCDraft(1, FALSE, k) : k \in BOOLEAN} \cup {MCDraft(0, TRUE, FALSE)}

MCKids == [root |-> {"middle"}, middle |-> {"leaf"}, leaf |-> {}]

MCAfter(a, b, c) ==
    [u \in {"u1", "u2", "u3"} |-> CASE u = "u1" -> a [] u = "u2" -> b [] OTHER -> c]

MCPlans == {MCAfter({}, {"u1"}, {"u1", "u2"}), MCAfter({}, {"u1"}, {"u2"}),
            MCAfter({"u2"}, {"u1"}, {})}

MCOwners == {{"u1", "u2"}}

MCNeeds == <<{"q1"}, {"q2"}>>

MCFollowUps == [q1 |-> {"q2"}, q2 |-> {}]

MCFresh == <<"n1", "n2", "n3">>
=============================================================================
