--------------------------- MODULE TaskLifecycle ----------------------------
(***************************************************************************)
(* What a Sikula task promises its operator, whatever happens inside: a    *)
(* task is open until it is done or failed; only a running session can end *)
(* it; done is final; failed is left by an explicit reset; and a session   *)
(* may record done only when no required gate is owed a look at what was   *)
(* written since the gate last passed.                                     *)
(***************************************************************************)
CONSTANT Gate

VARIABLES status, running, required, owed

vars == <<status, running, required, owed>>

Init ==
    /\ status = "open"
    /\ running = FALSE
    /\ required \in SUBSET Gate
    /\ owed = {}

(* A session starts on an open task. *)
Begin ==
    /\ status = "open" /\ ~running
    /\ running' = TRUE
    /\ UNCHANGED <<status, required, owed>>

(* Something is written: any gates are owed a look. *)
Write ==
    /\ running
    /\ owed' \in SUBSET Gate /\ owed \subseteq owed'
    /\ UNCHANGED <<status, running, required>>

(* A gate looks and passes. *)
Look(g) ==
    /\ running
    /\ owed' = owed \ {g}
    /\ UNCHANGED <<status, running, required>>

Finish ==
    /\ running
    /\ owed \cap required = {}
    /\ status' = "done" /\ running' = FALSE
    /\ UNCHANGED <<required, owed>>

(* The session ends without finishing the task: it failed, it was killed,  *)
(* or it gave up for now.                                                  *)
Stop ==
    /\ running
    /\ status' \in {"open", "failed"} /\ running' = FALSE
    /\ owed' \in SUBSET Gate /\ owed \subseteq owed'
    /\ UNCHANGED required

Reset ==
    /\ ~running
    /\ status = "failed" /\ status' = "open"
    /\ UNCHANGED <<running, required, owed>>

Next == Begin \/ Write \/ (\E g \in Gate : Look(g)) \/ Finish \/ Stop \/ Reset

Spec == Init /\ [][Next]_vars
=============================================================================
