--------------------------- MODULE OrchestratorMC ---------------------------
(* Instances of Orchestrator for TLC: sets of configurations.              *)
EXTENDS Orchestrator

(* Everything on, one attempt of each kind.                                *)
Full ==
    [run_presync |-> FALSE, run_planner |-> FALSE, run_review |-> TRUE,
     run_security_review |-> TRUE, run_test_writing |-> TRUE,
     run_build |-> TRUE, run_build_per_step |-> FALSE, run_tests |-> TRUE,
     run_checks |-> TRUE, review_fix |-> FALSE, heartbeat |-> TRUE,
     max_iterations |-> 1, max_review_iterations |-> 1,
     max_security_review_iterations |-> 1]

Retrying    == {[Full EXCEPT !.max_iterations = 2]}
NoBuild     == {[Full EXCEPT !.run_build = FALSE]}
ReviewFixes == {[Full EXCEPT !.review_fix = TRUE, !.run_build = b] : b \in BOOLEAN}
Single      == Retrying \cup NoBuild \cup ReviewFixes \cup {[Full EXCEPT !.heartbeat = FALSE]}

Planned     == {[Full EXCEPT !.run_planner = TRUE, !.run_build_per_step = p] : p \in BOOLEAN}
PlannedLean == {[Full EXCEPT !.run_planner = TRUE, !.run_build_per_step = p,
                             !.run_presync = TRUE, !.run_security_review = FALSE,
                             !.run_checks = FALSE] : p \in BOOLEAN}

(* For liveness: single pass, and a plan that validates every step and then *)
(* the whole task.                                                         *)
Resumed == {Full} \cup {[c EXCEPT !.run_tests = FALSE] : c \in
                            {d \in PlannedLean : d.run_build_per_step}}
=============================================================================
