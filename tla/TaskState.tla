----------------------------- MODULE TaskState -----------------------------
(***************************************************************************)
(* The durable record of one Sikula task (core/state.py, class TaskState), *)
(* restricted to the fields the orchestrator's control flow reads, and the *)
(* pure operators over it: the build-loop budget, the resets of gates and  *)
(* counters, and the manual reset of a failed task.                        *)
(*                                                                         *)
(* A list or text field that the control flow only tests for emptiness is  *)
(* a BOOLEAN ("it is non-empty").  plan is the number of planned steps;    *)
(* 0 is the single-pass task.                                              *)
(***************************************************************************)
EXTENDS Integers

CONSTANTS Configs,      \* effective configurations a task may be created with
          MaxSteps      \* bound on the steps a planner may return

NoScope   == "none"
FinalScope == "final_full_task"

(* The effective configuration.  review_fix marks a `sikula review --fix`  *)
(* task, whose state is created with the branch's diff already recorded;   *)
(* heartbeat is a positive heartbeat interval.                             *)
Config == [run_presync: BOOLEAN, run_planner: BOOLEAN, run_review: BOOLEAN,
           run_security_review: BOOLEAN, run_test_writing: BOOLEAN,
           run_build: BOOLEAN, run_build_per_step: BOOLEAN,
           run_tests: BOOLEAN, run_checks: BOOLEAN, review_fix: BOOLEAN,
           heartbeat: BOOLEAN,
           max_iterations: Nat, max_review_iterations: Nat,
           max_security_review_iterations: Nat]

ASSUME MaxStepsAssumption == MaxSteps \in Nat

(* cmd_review forces run_review on and run_planner off for a fix task.     *)
ASSUME ConfigsAssumption ==
    /\ Configs \subseteq Config
    /\ \A c \in Configs : c.review_fix => c.run_review /\ ~c.run_planner

(* A build/fix loop is keyed by its scope: the single-pass task, one step  *)
(* of the plan, or the whole planned task.                                 *)
LoopKeys == {"none", "task", "step", "final"} \X Nat
NoKey    == <<"none", 0>>

(* What an agent's files are to the orchestrator: production code, a build *)
(* configuration file, or test artifacts in the configured test paths.     *)
Writes == {"code", "config", "tests"}

TaskStates ==
    [presync_done: BOOLEAN, implementation_prompt: BOOLEAN,
     plan_decided: BOOLEAN, plan: Nat, plan_completed: BOOLEAN,
     current_step: Nat, step_implemented: BOOLEAN, step_files_changed: BOOLEAN,
     active_scope: {NoScope, FinalScope}, final_full_task_review_done: BOOLEAN,
     files_changed: BOOLEAN, build_synced: BOOLEAN, build_iterations: Nat,
     build_loop_key: LoopKeys, build_loop_start_iteration: Nat,
     fixer_changed_code: BOOLEAN,
     review_approved: BOOLEAN, review_iterations: Nat,
     security_approved: BOOLEAN, security_review_iterations: Nat,
     tests_up_to_date: BOOLEAN,
     test_writer_audit: {"none", "running", "completed"},
     test_writer_audit_files_written: SUBSET Writes,
     test_execution_gate_records: BOOLEAN,
     done: BOOLEAN, failed: BOOLEAN]

(* A task file's state as created by the store, or the state cmd_review    *)
(* builds for a fix task: prompt, files and plan decision already set.     *)
NewTask(c) ==
    [presync_done |-> FALSE, implementation_prompt |-> c.review_fix,
     plan_decided |-> c.review_fix, plan |-> 0, plan_completed |-> FALSE,
     current_step |-> 0, step_implemented |-> FALSE,
     step_files_changed |-> FALSE, active_scope |-> NoScope,
     final_full_task_review_done |-> FALSE, files_changed |-> c.review_fix,
     build_synced |-> FALSE, build_iterations |-> 0, build_loop_key |-> NoKey,
     build_loop_start_iteration |-> 0, fixer_changed_code |-> FALSE,
     review_approved |-> FALSE, review_iterations |-> 0,
     security_approved |-> FALSE, security_review_iterations |-> 0,
     tests_up_to_date |-> FALSE, test_writer_audit |-> "none",
     test_writer_audit_files_written |-> {},
     test_execution_gate_records |-> FALSE, done |-> FALSE, failed |-> FALSE]
-----------------------------------------------------------------------------
BuildLoopKey(s) ==
    IF s.active_scope = FinalScope \/ s.plan_completed THEN <<"final", 0>>
    ELSE IF s.plan > 0 THEN <<"step", s.current_step>>
    ELSE <<"task", 0>>

BuildLoopAttemptsUsed(s) ==
    IF s.build_iterations >= s.build_loop_start_iteration
    THEN s.build_iterations - s.build_loop_start_iteration ELSE 0

BuildLoopActiveForCurrentScope(s) ==
    s.build_loop_key # NoKey /\ s.build_loop_key = BuildLoopKey(s)

(* The last attempt beyond the budget is granted to validate a fixer       *)
(* change; it may not start another fixer.                                 *)
BuildLoopCanValidate(s, max) ==
    \/ BuildLoopAttemptsUsed(s) < max
    \/ BuildLoopAttemptsUsed(s) = max /\ s.fixer_changed_code

SemanticGatesPending(c, s) ==
    \/ c.run_review /\ ~s.review_approved
    \/ c.run_security_review /\ ~s.security_approved
    \/ c.run_test_writing /\ ~s.tests_up_to_date

(* Reopening the final full-task gate when the change was made in its scope *)
ReopenFinalGate(s) ==
    [s EXCEPT !.final_full_task_review_done = @ /\ s.active_scope # FinalScope]

(* Every semantic gate goes stale: a fixer changed production code, or a   *)
(* build sync changed files that were adopted into the task.               *)
StaleAllGates(s) ==
    [ReopenFinalGate(s) EXCEPT !.review_approved = FALSE, !.review_iterations = 0,
                               !.security_approved = FALSE,
                               !.security_review_iterations = 0,
                               !.tests_up_to_date = FALSE]

TestOnlyFixKeepsSecurity(s, wrote) ==
    CASE wrote = {}        -> s
      [] wrote = {"tests"} -> [ReopenFinalGate(s) EXCEPT !.fixer_changed_code = TRUE]
      [] OTHER             -> [StaleAllGates(s) EXCEPT !.fixer_changed_code = TRUE]

FixKeepsGates(s, wrote) ==
    [s EXCEPT !.fixer_changed_code = @ \/ wrote # {}]

(* _apply_fixer_change_gate_effects: a change confined to test artifacts   *)
(* keeps the review and test-writing gates and re-opens only security.     *)
FixerChangeGateEffects(s, wrote) ==
    CASE wrote = {}        -> s
      [] wrote = {"tests"} -> [ReopenFinalGate(s) EXCEPT !.fixer_changed_code = TRUE,
                                                         !.security_approved = FALSE,
                                                         !.security_review_iterations = 0]
      [] OTHER             -> [StaleAllGates(s) EXCEPT !.fixer_changed_code = TRUE]

(* _mark_build_sync_stale_if_needed *)
MarkBuildSyncStale(s, wrote) ==
    [s EXCEPT !.build_synced = @ /\ "config" \notin wrote]

(* Files an agent reported, recorded for the task and for the current step *)
RecordFiles(s, wrote) ==
    [s EXCEPT !.files_changed = @ \/ wrote # {},
              !.step_files_changed =
                 @ \/ (wrote # {} /\ s.plan > 0 /\ s.active_scope # FinalScope)]

AdvanceKeepsApproval(s) ==
    [s EXCEPT !.current_step = @ + 1, !.step_implemented = FALSE,
              !.security_approved = FALSE, !.security_review_iterations = 0,
              !.tests_up_to_date = FALSE, !.step_files_changed = FALSE]

(* Entry of the next planned step: the per-step flags start over. *)
AdvanceStep(s) ==
    [s EXCEPT !.current_step = @ + 1, !.step_implemented = FALSE,
              !.review_approved = FALSE, !.review_iterations = 0,
              !.security_approved = FALSE, !.security_review_iterations = 0,
              !.tests_up_to_date = FALSE, !.step_files_changed = FALSE]

CompletePlan(s) ==
    [s EXCEPT !.plan_completed = TRUE, !.final_full_task_review_done = FALSE]

FinalGateKeepsApprovals(c, s) == [s EXCEPT !.active_scope = FinalScope]

(* Entry of the final full-task gate: enabled gates must pass once more    *)
(* over the whole planned task.                                            *)
OpenFinalGate(c, s) ==
    [s EXCEPT !.active_scope = FinalScope,
              !.review_approved = @ /\ ~c.run_review,
              !.review_iterations = IF c.run_review THEN 0 ELSE @,
              !.security_approved = @ /\ ~c.run_security_review,
              !.security_review_iterations = IF c.run_security_review THEN 0 ELSE @,
              !.tests_up_to_date = @ /\ ~c.run_test_writing]

(* --reset-failed keeps the gates that passed and clears every counter.    *)
(* detected: git shows changed files although none are recorded.           *)
ResetFailedState(s, detected) ==
    [s EXCEPT !.failed = FALSE, !.review_iterations = 0,
              !.security_review_iterations = 0, !.build_iterations = 0,
              !.build_loop_key = NoKey, !.build_loop_start_iteration = 0,
              !.files_changed = @ \/ detected]
=============================================================================
