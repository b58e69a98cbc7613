---------------------------- MODULE Orchestrator ----------------------------
(***************************************************************************)
(* One task driven by core/orchestrator.py: run sessions that load the     *)
(* task's durable state, call agents and build tools, save, and end; kills *)
(* of the process between any two saves; and the manual reset of a failed  *)
(* task.  The task is a standalone one (no delivery plan), in a git        *)
(* worktree of its own.                                                    *)
(*                                                                         *)
(*   disk   the TaskState last saved by the state store                    *)
(*   mem    the TaskState of the running session (equal to disk when none) *)
(*   pc     where the session is: the agent or tool it waits for, or the   *)
(*          decision it is about to take; "idle" when no session runs      *)
(*   loc    local variables of the session's call stack                    *)
(*   exit   what the last session reported to the operator                 *)
(*   work   ghost: what was really written to the worktree and which gate  *)
(*          has not looked at it since                                     *)
(*   crashes, resets   how often the environment interfered (bounded)      *)
(***************************************************************************)
EXTENDS TaskState

CONSTANTS MaxCrashes,   \* bound on kills of the process
          MaxResets,    \* bound on manual resets of a failed task
          MaxFaults     \* bound on both together

ASSUME BoundsAssumption == MaxCrashes \in Nat /\ MaxResets \in Nat /\ MaxFaults \in Nat

VARIABLES cfg, pc, mem, disk, loc, exit, work, crashes, resets

vars == <<cfg, pc, mem, disk, loc, exit, work, crashes, resets>>

Gates == {"review", "security", "tests", "validation"}

(* Who wrote: an agent or tool whose result the orchestrator handled, or   *)
(* one that was killed or failed after writing ("lost").                   *)
Origins == {"implementer", "fixer", "sync", "tests", "autofix",
            "lost_implementer", "lost_fixer", "lost_sync"}

Locations ==
    {"idle", "start", "presync", "analyze", "plan", "dispatch",
     "implement", "implemented", "resume_check",
     "review", "review_fix", "review_fixed",
     "security", "security_fix", "security_fixed", "fast_path",
     "tests", "test_writer", "test_written", "test_audit", "tests_done",
     "retest_review", "retest_reviewed", "retest_security", "gates_done",
     "build_loop", "loop_head", "sync", "build", "test", "check", "post",
     "accept", "fixer", "fixer_returned",
     "step_done", "after_plan", "final_validate"}

(* ctx: which caller the semantic gates return to.  wrote, kept: files of  *)
(* the agent call being handled, and of its first pass when it is retried. *)
Locals ==
    [ctx: {"task", "step", "final", "post"}, preexisting: BOOLEAN,
     reviewer_ran: BOOLEAN, code_changed: BOOLEAN, validation_only: BOOLEAN,
     review_before: Nat, security_before: Nat,
     wrote: SUBSET Writes, kept: SUBSET Writes, retry: BOOLEAN, tests_changed: BOOLEAN]

NoLocals ==
    [ctx |-> "task", preexisting |-> FALSE, reviewer_ran |-> FALSE,
     code_changed |-> FALSE, validation_only |-> FALSE, review_before |-> 0,
     security_before |-> 0, wrote |-> {}, kept |-> {},
     retry |-> FALSE, tests_changed |-> FALSE]

Worktrees ==
    [stale: [Gates -> SUBSET Origins], unsynced: SUBSET Origins,
     unrecorded: BOOLEAN, gated: BOOLEAN, interrupted_tests: BOOLEAN,
     full_review: BOOLEAN, fixes: Nat]

Untouched ==
    [stale |-> [g \in Gates |-> {}], unsynced |-> {}, unrecorded |-> FALSE,
     gated |-> FALSE, interrupted_tests |-> FALSE, full_review |-> FALSE,
     fixes |-> 0]

Init ==
    /\ cfg \in Configs
    /\ pc = "idle"
    /\ disk = NewTask(cfg)
    /\ mem = disk
    /\ loc = NoLocals
    /\ exit = "none"
    /\ work = Untouched
    /\ crashes = 0
    /\ resets = 0
-----------------------------------------------------------------------------
(* A write to the worktree by o that the gates gs have not looked at.      *)
Touch(w, o, gs) ==
    [w EXCEPT !.stale = [g \in Gates |-> IF g \in gs THEN @[g] \cup {o} ELSE @[g]]]

Lost(w, o) == [Touch(w, o, Gates) EXCEPT !.unrecorded = TRUE]

NeedsSync(w, o, wrote) ==
    [w EXCEPT !.unsynced = IF "config" \in wrote THEN @ \cup {o} ELSE @]

(* What the implementer may report: nothing, code, or code and build files *)
ImplementerWrites == {{}, {"code"}, {"config"}}

Looked(w, g) == [w EXCEPT !.stale = [@ EXCEPT ![g] = {}]]

(* Where the session goes next, with its state saved or only in memory.    *)
Saved(l, m)   == pc' = l /\ mem' = m /\ disk' = m /\ UNCHANGED exit
Unsaved(l, m) == pc' = l /\ mem' = m /\ UNCHANGED <<disk, exit>>
Goto(l)       == Unsaved(l, mem)

EndSession(status, d) ==
    /\ pc' = "idle"
    /\ disk' = d
    /\ mem' = d
    /\ exit' = status
    /\ loc' = NoLocals

Failed(m) == [m EXCEPT !.failed = TRUE]

FailureUnrecorded(m) == EndSession("failed", m)

FailSaved(m) == EndSession("failed", Failed(m))

(* A gate gives up inside the post-validation gates of a loop that would   *)
(* have set done: the loop returns without a save, and so does its caller. *)
LoopSetsDone(m) == BuildLoopKey(m)[1] # "step"
GateGivesUp(m) ==
    IF loc.ctx = "post" /\ LoopSetsDone(m)
    THEN EndSession("failed", m)
    ELSE FailSaved(m)

(* An agent or provider call failed; it may have written before it did.    *)
AgentFails(m, o) ==
    /\ FailSaved(m)
    /\ work' \in {work, Lost(work, o)}

ReadOnlyAgentFails ==
    /\ FailSaved(mem)
    /\ UNCHANGED work

GatesActive == work.gated /\ mem.test_execution_gate_records
-----------------------------------------------------------------------------
RestartsTerminal ==
    /\ pc = "idle"
    /\ pc' = "start"
    /\ exit' = "none"
    /\ UNCHANGED <<mem, disk, loc, work>>

(* run(): load the state, record the invocation, save.                     *)
StartRun ==
    /\ pc = "idle"
    /\ ~disk.done /\ ~disk.failed
    /\ pc' = "start"
    /\ exit' = "none"
    /\ UNCHANGED <<mem, disk, loc, work>>

(* The terminal guard: a done or failed task is left alone.                *)
RunTerminal ==
    /\ pc = "idle"
    /\ disk.done \/ disk.failed
    /\ UNCHANGED <<pc, mem, disk, loc, exit, work>>

(* Task-described validation commands the configured pipeline misses.      *)
CheckCoverage ==
    /\ pc = "start"
    /\ UNCHANGED work
    /\ \/ ~cfg.review_fix /\ FailSaved(mem)
       \/ Goto("presync") /\ UNCHANGED loc

RunPresync ==
    /\ pc = "presync"
    /\ UNCHANGED <<loc, work>>
    /\ IF cfg.run_presync /\ ~mem.presync_done
       THEN Saved("analyze", [mem EXCEPT !.presync_done = TRUE])
       ELSE Goto("analyze")

Analyze ==
    /\ pc = "analyze"
    /\ UNCHANGED work
    /\ \/ /\ mem.implementation_prompt
          /\ Goto("plan") /\ UNCHANGED loc
       \/ /\ ~mem.implementation_prompt
          /\ Saved("plan", [mem EXCEPT !.implementation_prompt = TRUE])
          /\ UNCHANGED loc
       \/ /\ ~mem.implementation_prompt
          /\ FailSaved(mem)

Plan ==
    /\ pc = "plan"
    /\ UNCHANGED work
    /\ IF ~cfg.run_planner \/ mem.plan_decided
       THEN Goto("dispatch") /\ UNCHANGED loc
       ELSE \/ \E n \in 0..MaxSteps :
                 /\ Saved("dispatch", [mem EXCEPT !.plan = n, !.plan_decided = TRUE,
                                                  !.step_files_changed = FALSE])
                 /\ UNCHANGED loc
            \/ FailSaved(mem)

Dispatch ==
    /\ pc = "dispatch"
    /\ UNCHANGED work
    /\ \/ /\ mem.plan = 0
          /\ Goto("implement")
          /\ loc' = [loc EXCEPT !.ctx = "task"]
       \/ /\ mem.plan > 0 /\ mem.plan_completed
          /\ Goto("after_plan") /\ UNCHANGED loc
       \/ /\ mem.plan > 0 /\ ~mem.plan_completed
          /\ Unsaved("implement", [mem EXCEPT !.active_scope = NoScope])
          /\ loc' = [loc EXCEPT !.ctx = "step"]
-----------------------------------------------------------------------------
(* Implementation: skipped when the task (or the step) already has it.     *)
AlreadyImplemented ==
    IF loc.ctx = "task" THEN mem.files_changed ELSE mem.step_implemented

SkipImplement ==
    /\ pc = "implement"
    /\ AlreadyImplemented
    /\ Goto("resume_check")
    /\ loc' = [loc EXCEPT !.preexisting = mem.files_changed]
    /\ UNCHANGED work

Implement ==
    /\ pc = "implement"
    /\ ~AlreadyImplemented
    /\ \/ \E wrote \in ImplementerWrites :
            /\ Saved("implemented", RecordFiles(mem, wrote))
            /\ loc' = [loc EXCEPT !.wrote = wrote, !.preexisting = mem.files_changed]
            /\ work' = IF wrote = {} THEN work
                       ELSE NeedsSync(Touch(work, "implementer", Gates), "implementer", wrote)
       \/ AgentFails(mem, "lost_implementer")

(* No reported write, but git shows files nobody recorded: they are        *)
(* adopted.                                                                *)
Adopted == [work EXCEPT !.unrecorded = FALSE]

TaskImplemented ==
    /\ pc = "implemented" /\ loc.ctx = "task"
    /\ \/ /\ mem.files_changed
          /\ Goto("resume_check") /\ UNCHANGED <<loc, work>>
       \/ /\ ~mem.files_changed /\ work.unrecorded
          /\ Unsaved("resume_check", RecordFiles(mem, {"code"}))
          /\ work' = Adopted /\ UNCHANGED loc
       \/ /\ ~mem.files_changed /\ ~work.unrecorded
          /\ FailSaved(mem) /\ UNCHANGED work

(* A lost write may have hit files that are recorded already: then git     *)
(* shows nothing to adopt.                                                 *)
StepImplemented ==
    /\ pc = "implemented" /\ loc.ctx = "step"
    /\ UNCHANGED loc
    /\ LET m == [mem EXCEPT !.step_implemented = TRUE]
       IN  \/ /\ loc.wrote # {} \/ mem.step_files_changed
              /\ Saved("resume_check", m) /\ UNCHANGED work
           \/ /\ loc.wrote = {} /\ work.unrecorded
              /\ Saved("resume_check", RecordFiles(m, {"code"})) /\ work' = Adopted
           \/ /\ loc.wrote = {} /\ ~mem.step_files_changed
              /\ Saved("step_done", m) /\ UNCHANGED work

(* A resumed build/fix loop, or a fixer change not compiled yet, goes      *)
(* straight back to validation.                                            *)
ResumeCheck ==
    /\ pc = "resume_check"
    /\ LET validate == /\ cfg.run_build
                       /\ loc.ctx = "step" => cfg.run_build_per_step
                       /\ \/ mem.fixer_changed_code
                          \/ BuildLoopActiveForCurrentScope(mem)
       IN  Goto(IF validate THEN "build_loop" ELSE "review")
    /\ UNCHANGED <<loc, work>>
-----------------------------------------------------------------------------
(* Review: the reviewer and, while fixes remain, the implementer.          *)
ReviewDue   == cfg.run_review /\ ~mem.review_approved
SecurityDue == cfg.run_security_review /\ ~mem.security_approved

SkipReview ==
    /\ pc = "review"
    /\ ~ReviewDue
    /\ Goto("security")
    /\ UNCHANGED <<loc, work>>

Approves(w, m) ==
    [Looked(w, "review") EXCEPT !.full_review = @ \/ m.active_scope = FinalScope]

Review ==
    /\ pc = "review"
    /\ ReviewDue
    /\ \/ /\ Saved("security", [mem EXCEPT !.review_approved = TRUE])
          /\ work' = Approves(work, mem)
          /\ loc' = [loc EXCEPT !.reviewer_ran = TRUE]
       \/ /\ mem.review_iterations < cfg.max_review_iterations
          /\ pc' = "review_fix"
          /\ disk' = mem
          /\ mem' = [mem EXCEPT !.review_iterations = @ + 1]
          /\ loc' = [loc EXCEPT !.reviewer_ran = TRUE]
          /\ UNCHANGED <<work, exit>>
       \/ /\ mem.review_iterations >= cfg.max_review_iterations
          /\ GateGivesUp(mem)
          /\ UNCHANGED work
       \/ ReadOnlyAgentFails

(* The implementer's fix is saved by _run_agent, then handled and saved    *)
(* once more: a kill in between loses only what the handling adds.         *)
FixGate(fixing, fixed) ==
    /\ pc = fixing
    /\ \/ \E wrote \in ImplementerWrites :
            /\ Saved(fixed, RecordFiles(mem, wrote))
            /\ loc' = [loc EXCEPT !.wrote = wrote]
            /\ work' = IF wrote = {} THEN work
                       ELSE Touch(work, "implementer", Gates \ {"tests"})
       \/ AgentFails(mem, "lost_implementer")

GateFixHandled(fixed) ==
    /\ pc = fixed
    /\ LET wrote == loc.wrote # {}
       IN  /\ Saved("review", [MarkBuildSyncStale(mem, loc.wrote)
                                 EXCEPT !.tests_up_to_date = @ /\ ~wrote])
           /\ loc' = [loc EXCEPT !.code_changed = @ \/ wrote, !.wrote = {}]
           /\ work' = IF wrote
                      THEN NeedsSync(Touch(work, "implementer", {"tests"}),
                                     "implementer", loc.wrote)
                      ELSE work

ReviewFix          == FixGate("review_fix", "review_fixed")
ReviewFixHandled   == GateFixHandled("review_fixed")
SecurityFix        == FixGate("security_fix", "security_fixed")
SecurityFixHandled == GateFixHandled("security_fixed")

SkipSecurity ==
    /\ pc = "security"
    /\ ~SecurityDue
    /\ Goto(IF loc.ctx = "task" THEN "fast_path" ELSE "tests")
    /\ UNCHANGED <<loc, work>>

(* A blocking security review withdraws the review approval as well.       *)
SecurityRejects(m) ==
    [m EXCEPT !.security_approved = FALSE, !.review_approved = FALSE]

UncountedSecurityFix(m) == [m EXCEPT !.review_iterations = 0]

CountSecurityFix(m) ==
    [m EXCEPT !.security_review_iterations = @ + 1, !.review_iterations = 0]

SecurityReview ==
    /\ pc = "security"
    /\ SecurityDue
    /\ \/ /\ Saved(IF loc.ctx = "task" THEN "fast_path" ELSE "tests",
                   [mem EXCEPT !.security_approved = TRUE])
          /\ work' = Looked(work, "security")
          /\ UNCHANGED loc
       \/ /\ mem.security_review_iterations < cfg.max_security_review_iterations
          /\ pc' = "security_fix"
          /\ disk' = SecurityRejects(mem)
          /\ mem' = CountSecurityFix(SecurityRejects(mem))
          /\ UNCHANGED <<loc, work, exit>>
       \/ /\ mem.security_review_iterations >= cfg.max_security_review_iterations
          /\ GateGivesUp(SecurityRejects(mem))
          /\ UNCHANGED work
       \/ ReadOnlyAgentFails

(* A fix task whose branch was approved as it stood is done without CI.    *)
FastPath ==
    /\ pc = "fast_path"
    /\ UNCHANGED work
    /\ LET untouched == /\ cfg.review_fix /\ loc.preexisting /\ loc.reviewer_ran
                        /\ ~loc.code_changed /\ ~mem.fixer_changed_code
       IN  \/ /\ untouched /\ ~GatesActive
              /\ EndSession("done", [mem EXCEPT !.done = TRUE])
           \/ /\ untouched /\ GatesActive /\ ~cfg.run_build
              /\ FailSaved(mem)
           \/ /\ untouched /\ GatesActive /\ cfg.run_build
              /\ Saved("tests", mem) /\ UNCHANGED loc
           \/ /\ ~untouched
              /\ Goto("tests") /\ UNCHANGED loc
-----------------------------------------------------------------------------
(* Test writing, under an audit that survives a kill: files written by an  *)
(* agent that did not complete are restored and the agent runs again.      *)
TestsUpToDate == mem.tests_up_to_date /\ mem.test_writer_audit = "none"

UnmarkedAudit(m) ==
    [m EXCEPT !.tests_up_to_date = FALSE, !.test_writer_audit_files_written = {}]

BeginAudit(m) ==
    [m EXCEPT !.test_writer_audit = "running", !.tests_up_to_date = FALSE,
              !.test_writer_audit_files_written = {}]

SkipTests ==
    /\ pc = "tests"
    /\ ~cfg.run_test_writing \/ TestsUpToDate
    /\ UNCHANGED work
    /\ IF cfg.run_test_writing /\ ~cfg.run_build /\ GatesActive
       THEN FailSaved(mem)
       ELSE Goto("tests_done") /\ loc' = [loc EXCEPT !.tests_changed = FALSE]

BeginTestWriting ==
    /\ pc = "tests"
    /\ cfg.run_test_writing /\ ~TestsUpToDate
    /\ \/ /\ mem.test_writer_audit = "none"
          /\ Saved("test_writer", BeginAudit(mem))
          /\ UNCHANGED <<loc, work>>
       \/ /\ mem.test_writer_audit = "running"
          /\ Saved("test_writer", BeginAudit(mem))
          /\ work' = [work EXCEPT !.interrupted_tests = FALSE]
          /\ UNCHANGED loc
       \/ /\ mem.test_writer_audit = "running"
          /\ FailSaved(mem)                     \* outputs could not be restored
          /\ UNCHANGED work
       \/ /\ mem.test_writer_audit = "completed"      \* only the audit is repeated
          /\ Goto("test_audit")
          /\ \E wrote \in IF mem.test_writer_audit_files_written = {}
                         THEN {{}, {"tests"}}
                         ELSE {mem.test_writer_audit_files_written} :
                loc' = [loc EXCEPT !.wrote = wrote]
          /\ UNCHANGED work

TestWriter ==
    /\ pc = "test_writer"
    /\ \/ \E wrote \in {{}, {"tests"}, {"config"}} :
            /\ Saved("test_written", [RecordFiles(mem, wrote)
                                      EXCEPT !.tests_up_to_date = TRUE])
            /\ loc' = [loc EXCEPT !.wrote = wrote]
            /\ work' = [Looked(work, "tests") EXCEPT
                         !.interrupted_tests = @ \/ wrote # {}]
       \/ /\ FailSaved(mem)
          /\ \E wrote \in BOOLEAN :
                work' = [work EXCEPT !.interrupted_tests = @ \/ wrote]

RecordAuditFiles ==
    /\ pc = "test_written"
    /\ Saved("test_audit", [mem EXCEPT !.test_writer_audit = "completed",
                                       !.test_writer_audit_files_written = loc.wrote])
    /\ UNCHANGED <<loc, work>>

(* Test files remain in the tree, with or without an execution gate.       *)
TestsRemain(w, wrote, gated) ==
    IF wrote = {} THEN w
    ELSE [NeedsSync(Touch(w, "tests", {"review", "security", "validation"}),
                    "tests", wrote) EXCEPT !.gated = gated]

(* The execution gates the audit may find active after wrote was written:  *)
(* files left as they were keep the gates they had.                        *)
GatesAfter(wrote) == IF wrote = {} THEN {work.gated} ELSE BOOLEAN

RecordGates(m, gated) == [m EXCEPT !.test_execution_gate_records = @ \/ gated]

(* A synthetic harness is restored away once and the agent retried; what   *)
(* the first pass left in place is kept and reported with the retry.       *)
RetryTestWriter ==
    /\ pc = "test_audit"
    /\ loc.wrote # {} /\ ~loc.retry
    /\ \E kept \in {{}, loc.wrote} : \E gated \in GatesAfter(kept) :
         /\ Saved("test_writer", BeginAudit(RecordGates(mem, gated)))
         /\ loc' = [loc EXCEPT !.kept = kept, !.wrote = {}, !.retry = TRUE]
         /\ work' = [TestsRemain(work, kept, gated) EXCEPT !.interrupted_tests = FALSE]

(* The audit is over: record execution gates found in the files that       *)
(* remain, clear the pending marker, mark the sync stale.                  *)
FinishAudit ==
    /\ pc = "test_audit"
    /\ \E remaining \in {{}, loc.wrote} : \E gated \in GatesAfter(remaining) :
         LET all == remaining \cup loc.kept
             m   == [RecordGates(mem, gated) EXCEPT !.test_writer_audit = "none",
                                                    !.test_writer_audit_files_written = {}]
         IN  /\ remaining # loc.wrote => loc.retry
             /\ work' = [TestsRemain(work, remaining, gated) EXCEPT !.interrupted_tests = FALSE]
             /\ IF ~cfg.run_build /\ gated
                THEN FailSaved(m)
                ELSE /\ pc' = "tests_done"
                     /\ disk' = m
                     /\ mem' = MarkBuildSyncStale(m, all)
                     /\ loc' = [loc EXCEPT !.wrote = {}, !.kept = {}, !.retry = FALSE,
                                           !.tests_changed = all # {}]
                     /\ UNCHANGED exit

(* A fix task shows test changes to the reviewers once more; that pass     *)
(* only accepts or fails.                                                  *)
Retest(m, reviewed) ==
    IF cfg.run_review /\ ~reviewed
    THEN Saved("retest_review", [m EXCEPT !.review_approved = FALSE,
                                          !.review_iterations = 0])
    ELSE IF cfg.run_security_review
    THEN Saved("retest_security", [m EXCEPT !.security_approved = FALSE,
                                            !.security_review_iterations = 0])
    ELSE Unsaved("gates_done", m)

TestsDone ==
    /\ pc = "tests_done"
    /\ IF cfg.review_fix /\ loc.tests_changed THEN Retest(mem, FALSE)
                                             ELSE Goto("gates_done")
    /\ UNCHANGED <<loc, work>>

RetestReview ==
    /\ pc = "retest_review"
    /\ \/ /\ Saved("retest_reviewed", [mem EXCEPT !.review_approved = TRUE])
          /\ loc' = [loc EXCEPT !.reviewer_ran = TRUE]
          /\ work' = Approves(work, mem)
       \/ ReadOnlyAgentFails

RetestReviewed ==
    /\ pc = "retest_reviewed"
    /\ Retest(mem, TRUE)
    /\ UNCHANGED <<loc, work>>

RetestSecurity ==
    /\ pc = "retest_security"
    /\ \/ /\ Saved("gates_done", [mem EXCEPT !.security_approved = TRUE])
          /\ work' = Looked(work, "security")
          /\ UNCHANGED loc
       \/ /\ FailSaved(SecurityRejects(mem))
          /\ UNCHANGED work
       \/ ReadOnlyAgentFails

(* The semantic gates are through: back to whoever called them.            *)
PassedFinalGate(m) ==
    IF m.active_scope = FinalScope THEN [m EXCEPT !.final_full_task_review_done = TRUE]
                                   ELSE m

GateFixed == \/ mem.review_iterations > loc.review_before
             \/ mem.security_review_iterations > loc.security_before
             \/ loc.tests_changed

GatesDone ==
    /\ pc = "gates_done"
    /\ UNCHANGED work
    /\ \/ /\ loc.ctx = "task" /\ ~cfg.run_build /\ GatesActive
          /\ FailSaved(mem)
       \/ /\ loc.ctx = "task" /\ ~cfg.run_build /\ ~GatesActive
          /\ EndSession(IF mem.files_changed THEN "done" ELSE "incomplete",
                        [mem EXCEPT !.done = mem.files_changed])
       \/ /\ loc.ctx = "task" /\ cfg.run_build
          /\ Goto("build_loop") /\ UNCHANGED loc
       \/ /\ loc.ctx = "step"
          /\ Goto(IF cfg.run_build /\ cfg.run_build_per_step
                  THEN "build_loop" ELSE "step_done")
          /\ UNCHANGED loc
       \/ /\ loc.ctx = "final"
          /\ Saved("final_validate", PassedFinalGate(mem)) /\ UNCHANGED loc
       \/ /\ loc.ctx = "post" /\ GateFixed
          /\ Saved("loop_head", PassedFinalGate(mem)) /\ UNCHANGED loc
       \/ /\ loc.ctx = "post" /\ ~GateFixed /\ mem.active_scope = FinalScope
          /\ Saved("accept", PassedFinalGate(mem)) /\ UNCHANGED loc
       \/ /\ loc.ctx = "post" /\ ~GateFixed /\ mem.active_scope # FinalScope
          /\ Goto("accept") /\ UNCHANGED loc
-----------------------------------------------------------------------------
(* The build/fix loop of one scope: sync, build, test, check, and a fixer  *)
(* for every failed attempt within the scope's budget.                     *)
BuildLoop ==
    /\ pc = "build_loop"
    /\ UNCHANGED loc
    /\ IF mem.build_loop_key = BuildLoopKey(mem)
       THEN Goto("loop_head") /\ UNCHANGED work
       ELSE /\ Saved("loop_head",
                     [mem EXCEPT !.build_loop_key = BuildLoopKey(mem),
                                 !.build_loop_start_iteration = mem.build_iterations])
            /\ work' = [work EXCEPT !.fixes = 0]

AttemptUncounted == [mem EXCEPT !.build_iterations = @ - 1]

AttemptStarted == [mem EXCEPT !.build_iterations = @ + 1]

ValidationOnlyTooLate == BuildLoopAttemptsUsed(mem) > cfg.max_iterations

(* The attempt past the budget only validates the last fix.                *)
ValidationOnly == BuildLoopAttemptsUsed(mem) >= cfg.max_iterations

(* A failed attempt goes to the fixer, unless it was the final validation  *)
(* of the last fix.                                                        *)
AttemptFailed(m, validation_only) ==
    IF validation_only THEN FailSaved(m)
    ELSE /\ Unsaved("fixer", m)
         /\ loc' = [loc EXCEPT !.validation_only = FALSE]

LoopHead ==
    /\ pc = "loop_head"
    /\ UNCHANGED work
    /\ LET resolved == [AttemptStarted EXCEPT !.test_execution_gate_records = @ /\ work.gated]
       IN  \/ /\ ~BuildLoopCanValidate(mem, cfg.max_iterations)
              /\ FailSaved(mem)
           \/ /\ BuildLoopCanValidate(mem, cfg.max_iterations) /\ GatesActive
              /\ AttemptFailed(AttemptStarted, ValidationOnly)
           \/ /\ BuildLoopCanValidate(mem, cfg.max_iterations) /\ ~GatesActive
              /\ pc' = IF mem.build_synced THEN "build" ELSE "sync"
              /\ mem' = resolved
              /\ disk' = IF ValidationOnly THEN AttemptStarted ELSE disk
              /\ loc' = [loc EXCEPT !.validation_only = ValidationOnly]
              /\ UNCHANGED exit

(* A sync may leave outputs to be adopted, also when it is not accepted    *)
(* because other outputs of its could not be cleaned up.                   *)
Sync ==
    /\ pc = "sync"
    /\ \E ok, adopted \in BOOLEAN :
         LET m == IF adopted THEN StaleAllGates(RecordFiles(mem, {"code"})) ELSE mem
         IN  /\ \/ /\ ok
                   /\ Saved("build", [m EXCEPT !.build_synced = TRUE])
                   /\ loc' = [loc EXCEPT !.code_changed = @ \/ adopted]
                \/ /\ ~ok /\ loc.validation_only
                   /\ FailSaved(m)
                \/ /\ ~ok /\ ~loc.validation_only
                   /\ Saved("fixer", m)
                   /\ loc' = [loc EXCEPT !.code_changed = @ \/ adopted]
             /\ work' = [(IF adopted THEN Touch(work, "sync", Gates) ELSE work)
                         EXCEPT !.unsynced = IF ok THEN {} ELSE @]

Build ==
    /\ pc = "build"
    /\ UNCHANGED work
    /\ \/ Unsaved("test", [mem EXCEPT !.fixer_changed_code = FALSE]) /\ UNCHANGED loc
       \/ AttemptFailed(mem, loc.validation_only)

Test ==
    /\ pc = "test"
    /\ UNCHANGED work
    /\ \/ Goto("check") /\ UNCHANGED loc
       \/ cfg.run_tests /\ AttemptFailed(mem, loc.validation_only)

(* Validation has looked at everything but what a check's fix_command       *)
(* changed after the build and the tests.                                  *)
Autofixed(w) == {w, Touch(w, "autofix", Gates)}

Check ==
    /\ pc = "check"
    /\ \/ /\ ~cfg.run_checks
          /\ Goto("post") /\ UNCHANGED loc
          /\ work' = Looked(work, "validation")
       \/ /\ cfg.run_checks
          /\ Saved("post", mem) /\ UNCHANGED loc
          /\ work' \in Autofixed(Looked(work, "validation"))
       \/ /\ cfg.run_checks /\ ~loc.validation_only
          /\ Saved("fixer", mem) /\ UNCHANGED loc
          /\ work' \in Autofixed(work)
       \/ /\ cfg.run_checks /\ loc.validation_only
          /\ FailSaved(mem)
          /\ work' \in Autofixed(work)

(* Gates made stale by the loop's own fixers run before the scope is       *)
(* accepted; a change they make is validated again.                        *)
PostValidation ==
    /\ pc = "post"
    /\ UNCHANGED work
    /\ IF SemanticGatesPending(cfg, mem)
       THEN /\ Goto("review")
            /\ loc' = [loc EXCEPT !.ctx = "post",
                                  !.review_before = mem.review_iterations,
                                  !.security_before = mem.security_review_iterations]
       ELSE Goto("accept") /\ UNCHANGED loc

Accept ==
    /\ pc = "accept"
    /\ UNCHANGED work
    /\ LET m == [mem EXCEPT !.build_loop_key = NoKey, !.build_loop_start_iteration = 0]
       IN  IF LoopSetsDone(mem)
           THEN EndSession("done", [m EXCEPT !.done = TRUE])
           ELSE Saved("step_done", m) /\ UNCHANGED loc
-----------------------------------------------------------------------------
(* The fixer.  Its files are saved by _run_agent; what they do to the gates *)
(* is saved when its result is handled.                                    *)
FixerEffects(m, wrote) == FixerChangeGateEffects(MarkBuildSyncStale(m, wrote), wrote)

FixerTouched(w, wrote) ==
    IF wrote = {} THEN w
    ELSE NeedsSync(Touch(w, "fixer", IF wrote = {"tests"} THEN {"security", "validation"}
                                     ELSE Gates), "fixer", wrote)

(* Files of a first pass whose retry never returned to the orchestrator.   *)
KeptLost(w) == IF loc.kept = {} THEN w
               ELSE NeedsSync(Touch(w, "lost_fixer", Gates), "lost_fixer", loc.kept)

FixerRan == [work EXCEPT !.fixes = IF loc.retry THEN @ ELSE @ + 1]

FixerWrites == {{}, {"code"}, {"config"}, {"tests"}}

Fixer ==
    /\ pc = "fixer"
    /\ \/ \E wrote \in FixerWrites :
            /\ Saved("fixer_returned", RecordFiles(mem, wrote))
            /\ loc' = [loc EXCEPT !.wrote = wrote]
            /\ work' = FixerRan
       \/ \E wrote \in FixerWrites \ {{}} :    \* a file operation failed half-way
            /\ FailSaved(FixerEffects(RecordFiles(mem, wrote), wrote))
            /\ work' = KeptLost(FixerTouched(FixerRan, wrote))
       \/ /\ FailSaved(mem)
          /\ work' \in {KeptLost(FixerRan), Lost(KeptLost(FixerRan), "lost_fixer")}

RetryFixer ==
    /\ pc = "fixer_returned"
    /\ loc.wrote # {} /\ ~loc.retry
    /\ \E kept \in {{}, loc.wrote} : \E gated \in GatesAfter(kept) :
         /\ Saved("fixer", RecordGates(mem, gated))
         /\ loc' = [loc EXCEPT !.kept = kept, !.wrote = {}, !.retry = TRUE]
         /\ work' = [work EXCEPT !.gated = gated]

FixerHandled ==
    /\ pc = "fixer_returned"
    /\ LET all == loc.wrote \cup loc.kept
       IN  \E gated \in GatesAfter(loc.wrote) :
             /\ Saved("loop_head", FixerEffects(RecordGates(mem, gated), all))
             /\ loc' = [loc EXCEPT !.wrote = {}, !.kept = {}, !.retry = FALSE,
                                   !.code_changed = @ \/ all # {}]
             /\ work' = [FixerTouched(work, all) EXCEPT !.gated = gated]
-----------------------------------------------------------------------------
(* The steps of a plan, and the gates over the whole of it.                *)
StepDone ==
    /\ pc = "step_done"
    /\ UNCHANGED work
    /\ IF mem.current_step < mem.plan - 1
       THEN /\ pc' = "implement"
            /\ disk' = AdvanceStep(mem)
            /\ mem' = [AdvanceStep(mem) EXCEPT !.active_scope = NoScope]
            /\ loc' = [loc EXCEPT !.ctx = "step"]
            /\ UNCHANGED exit
       ELSE Saved("after_plan", CompletePlan(mem)) /\ UNCHANGED loc

AfterPlan ==
    /\ pc = "after_plan"
    /\ UNCHANGED work
    /\ LET validate == cfg.run_build /\ (mem.fixer_changed_code
                                          \/ BuildLoopActiveForCurrentScope(mem))
       IN  \/ /\ ~mem.files_changed
              /\ FailSaved(mem)
           \/ /\ mem.files_changed /\ validate
              /\ Saved("build_loop", [mem EXCEPT !.active_scope = FinalScope])
              /\ UNCHANGED loc
           \/ /\ mem.files_changed /\ ~validate /\ ~mem.final_full_task_review_done
              /\ Saved("review", OpenFinalGate(cfg, mem))
              /\ loc' = [loc EXCEPT !.ctx = "final"]
           \/ /\ mem.files_changed /\ ~validate /\ mem.final_full_task_review_done
              /\ Goto("final_validate") /\ UNCHANGED loc

FinalValidate ==
    /\ pc = "final_validate"
    /\ UNCHANGED work
    /\ \/ /\ cfg.run_build
          /\ Saved("build_loop", [mem EXCEPT !.active_scope = FinalScope])
          /\ UNCHANGED loc
       \/ /\ ~cfg.run_build /\ GatesActive
          /\ FailSaved(mem)
       \/ /\ ~cfg.run_build /\ ~GatesActive
          /\ EndSession("done", [mem EXCEPT !.done = TRUE])
-----------------------------------------------------------------------------
(* The process is killed.  The heartbeat of a running agent or tool saved  *)
(* the session's memory when it began.                                     *)
OperationRuns ==
    \/ pc \in {"review_fix", "security_fix", "test_writer", "retest_review",
              "retest_security", "sync", "build", "fixer"}
    \/ pc = "implement" /\ ~AlreadyImplemented
    \/ pc = "review" /\ ReviewDue
    \/ pc = "security" /\ SecurityDue
    \/ pc = "test" /\ cfg.run_tests
    \/ pc = "check" /\ cfg.run_checks

(* What the killed agent or tool may have left in the worktree.            *)
LeftBehind ==
    CASE pc \in {"implement", "review_fix", "security_fix"} ->
           {work, Lost(work, "lost_implementer")}
      [] pc = "fixer" -> {KeptLost(FixerRan), Lost(KeptLost(FixerRan), "lost_fixer")}
      [] pc = "test_writer" -> {work, [work EXCEPT !.interrupted_tests = TRUE]}
      [] pc = "sync" -> {work, Touch(work, "lost_sync", Gates)}
      [] pc = "check" -> Autofixed(work)
      [] OTHER -> {work}

(* Files an agent returned whose consequences are not saved yet.           *)
Unhandled ==
    LET all == loc.wrote \cup loc.kept
        by(o) == IF all = {} THEN work ELSE NeedsSync(Touch(work, o, Gates), o, all)
    IN  CASE pc = "fixer_returned" -> by("lost_fixer")
          [] pc \in {"review_fixed", "security_fixed"} -> by("lost_implementer")
          [] pc = "fixer" -> KeptLost(work)
          [] OTHER -> work

Crash ==
    /\ pc # "idle"
    /\ crashes < MaxCrashes /\ crashes + resets < MaxFaults
    /\ crashes' = crashes + 1
    /\ \/ /\ UNCHANGED disk
          /\ work' = Unhandled
       \/ /\ OperationRuns
          /\ disk' = IF cfg.heartbeat THEN mem ELSE disk
          /\ work' \in LeftBehind
    /\ mem' = disk'
    /\ pc' = "idle"
    /\ loc' = NoLocals
    /\ exit' = "killed"
    /\ UNCHANGED <<cfg, resets>>

(* --reset-failed: the operator clears a failed task.                      *)
ResetFailed ==
    /\ pc = "idle"
    /\ disk.failed
    /\ resets < MaxResets /\ crashes + resets < MaxFaults
    /\ resets' = resets + 1
    /\ \E detected \in BOOLEAN :
         /\ detected => work.unrecorded /\ ~disk.files_changed
         /\ disk' = ResetFailedState(disk, detected)
         /\ work' = IF detected THEN Adopted ELSE work
    /\ mem' = disk'
    /\ exit' = "none"
    /\ UNCHANGED <<cfg, pc, loc, crashes>>
-----------------------------------------------------------------------------
Prepare == CheckCoverage \/ RunPresync \/ Analyze \/ Plan \/ Dispatch

ImplementStep == \/ SkipImplement \/ Implement \/ TaskImplemented
                 \/ StepImplemented \/ ResumeCheck

ReviewGates == \/ SkipReview \/ Review \/ ReviewFix \/ ReviewFixHandled
               \/ SkipSecurity \/ SecurityReview \/ SecurityFix
               \/ SecurityFixHandled \/ FastPath

TestGate == \/ SkipTests \/ BeginTestWriting \/ TestWriter \/ RecordAuditFiles
            \/ RetryTestWriter \/ FinishAudit \/ TestsDone
            \/ RetestReview \/ RetestReviewed \/ RetestSecurity

Validate == \/ GatesDone \/ BuildLoop \/ LoopHead \/ Sync \/ Build \/ Test \/ Check
            \/ PostValidation \/ Accept \/ Fixer \/ RetryFixer \/ FixerHandled

PlanSteps == StepDone \/ AfterPlan \/ FinalValidate

(* What a running session does by itself.                                  *)
Session == /\ Prepare \/ ImplementStep \/ ReviewGates \/ TestGate \/ Validate \/ PlanSteps
           /\ UNCHANGED <<cfg, crashes, resets>>

Invoke == /\ StartRun \/ RunTerminal
          /\ UNCHANGED <<cfg, crashes, resets>>

Next == Session \/ Invoke \/ Crash \/ ResetFailed

Spec == Init /\ [][Next]_vars

(* Agents and tools return or time out, and a session's own steps are      *)
(* never postponed for ever; the operator resumes a task that is not       *)
(* terminal.  Nothing is assumed of kills and resets.                      *)
FairSpec == Spec /\ WF_vars(Session) /\ WF_vars(StartRun /\ UNCHANGED <<cfg, crashes, resets>>)
-----------------------------------------------------------------------------
Exits == {"none", "done", "failed", "incomplete", "killed"}

(* Every variable has its type; crashes and resets stay within bounds.     *)
TypeOK ==
    /\ cfg \in Configs
    /\ pc \in Locations
    /\ mem \in TaskStates
    /\ disk \in TaskStates
    /\ loc \in Locals
    /\ exit \in Exits
    /\ work \in Worktrees
    /\ crashes \in 0..MaxCrashes
    /\ resets \in 0..MaxResets

(* A task recorded done has had every change to production code that an    *)
(* implementer made (even one that was killed or failed), that a fixer     *)
(* reported, or that a build sync produced, read by the reviewer in its    *)
(* final form: the approval flags survive kills, failures and resets only  *)
(* together with the code they approved.                                   *)
DoneMeansReviewed ==
    disk.done /\ cfg.run_review =>
      work.stale["review"] \cap {"implementer", "lost_implementer", "fixer", "sync"} = {}

Uninterrupted == crashes = 0 /\ resets = 0

(* The same of the security reviewer, which must also see test-only fixes; *)
(* for a review-fix task only as long as nothing interrupts it: a repeated *)
(* review of test changes reopens the review gate alone.                   *)
DoneMeansSecured ==
    disk.done /\ cfg.run_security_review /\ (cfg.review_fix => Uninterrupted) =>
      work.stale["security"] \cap {"implementer", "lost_implementer", "fixer", "sync"} = {}

(* The test writer has run after the last production change it was told    *)
(* of; a kill during the audit of a test pass in a build/fix loop, or in   *)
(* the final gate of a plan, is excluded: a resumed task may withdraw      *)
(* tests_up_to_date and then repeat only that audit (DoneMeansTestsAudited *)
(* is about the same marker).                                              *)
DoneMeansTested ==
    /\ disk.done /\ cfg.run_test_writing
    /\ cfg.run_build \/ cfg.run_planner => crashes = 0
    /\ cfg.review_fix => Uninterrupted
    =>
      work.stale["tests"] \cap {"implementer", "fixer", "sync"} = {}

(* Whatever was written last, by whom and however it ended, a passing      *)
(* validation of the whole tree came after it.  A check's fix_command is   *)
(* the documented exception: only the check itself is repeated after it.   *)
Validated == work.stale["validation"] \subseteq {"autofix"}

DoneMeansValidated ==
    disk.done /\ cfg.run_build /\ (cfg.review_fix => Uninterrupted) => Validated

(* A review-fix task skips the build only when no code was written: also   *)
(* when its run was killed or failed, and was resumed.                     *)
ReviewFixDoneMeansValidated ==
    disk.done /\ cfg.run_build /\ cfg.review_fix => Validated

(* No task is done while a test file holds an execution gate the audit     *)
(* found (a skip that hides the changed behaviour), in any of the modes    *)
(* and although the findings and the files are saved at different times.   *)
DoneMeansNoActiveGate ==
    disk.done => ~work.gated

(* Whatever is killed, reset with --reset-failed and resumed, a task is    *)
(* done only when every gate of its configuration has looked at the final  *)
(* code and no test file hides the changed behaviour.                      *)
DoneMeansGated ==
    /\ DoneMeansReviewed /\ DoneMeansSecured /\ DoneMeansTested /\ DoneMeansValidated
    /\ DoneMeansNoActiveGate

(* Test files written by an agent whose audit is not over are always       *)
(* covered by the durable pending marker, so that a resumed task can       *)
(* restore them.                                                           *)
InterruptedTestsArePending ==
    work.interrupted_tests => disk.test_writer_audit # "none"

(* "A pending test-writer audit takes precedence over tests_up_to_date on  *)
(* resume": no task is done with test files whose audit never finished.    *)
DoneMeansTestsAudited ==
    disk.done => ~work.interrupted_tests

(* A planned task is done only when the reviewer approved it as a whole,   *)
(* not merely step by step.                                                *)
DoneMeansReviewedAsAWhole ==
    disk.done /\ disk.plan > 0 /\ cfg.run_review => work.full_review

(* Within one build/fix loop the fixer runs at most max_iterations times,  *)
(* whatever is killed and resumed, because the heartbeat saves the counter *)
(* before an agent runs; without it a kill can cost one attempt its count. *)
FixerBudget ==
    work.fixes <= cfg.max_iterations + (IF cfg.heartbeat THEN 0 ELSE crashes)

(* build_synced is reset when build-config files change: no build runs     *)
(* over a handled change of a build configuration without a new sync.      *)
SyncedBuild ==
    pc = "build" => work.unsynced \cap {"implementer", "fixer"} = {}

(* A session that reports failure has recorded it: a failed task stays     *)
(* failed until --reset-failed.                                            *)
FailurePersisted == exit = "failed" => disk.failed

(* A fixer's writes are never accepted unreviewed, however its call ended. *)
DoneMeansFixesReviewed ==
    disk.done /\ cfg.run_review => "lost_fixer" \notin work.stale["review"]

(* done is for ever, and failed is only undone by an operator's reset; no  *)
(* kill or late save of a session resurrects a finished task.              *)
TerminalStable ==
    [][/\ disk.done => disk'.done /\ ~disk'.failed
       /\ disk.failed => disk'.failed \/ resets' # resets]_vars

(* What the gates are owed: changes of the origins each answers for.  A    *)
(* review-fix task answers for the review alone (see DoneMeansSecured and  *)
(* ReviewFixDoneMeansValidated).                                           *)
AcceptanceGates == {"review", "security", "validation"}

AnswersFor(g) ==
    IF g = "validation" THEN Origins \ {"autofix"}
    ELSE {"implementer", "lost_implementer", "fixer", "sync"}

Owed == {g \in AcceptanceGates : work.stale[g] \cap AnswersFor(g) # {}}

Required ==
    {g \in AcceptanceGates :
        \/ g = "review" /\ cfg.run_review
        \/ g = "security" /\ cfg.run_security_review /\ ~cfg.review_fix
        \/ g = "validation" /\ cfg.run_build /\ ~cfg.review_fix}

(* A step of the plan that changed files is left, for the next step or for *)
(* the final gate, only when every gate that runs per step has looked at   *)
(* those changes in their final form.  A kill can cost the test writer's   *)
(* gate in a step with a build/fix loop: what the loop withdraws after it, *)
(* the resumed task only audits (see DoneMeansTested).                     *)
StepLeft == \/ disk'.current_step # disk.current_step
            \/ disk'.plan_completed # disk.plan_completed

StepBuilds == cfg.run_build /\ cfg.run_build_per_step

StepApproved ==
    /\ cfg.run_review => disk.review_approved
    /\ cfg.run_security_review => disk.security_approved
    /\ cfg.run_test_writing /\ (StepBuilds => crashes = 0) => disk.tests_up_to_date
    /\ Owed \cap Required \subseteq IF StepBuilds THEN {} ELSE {"validation"}

StepsLeaveApproved ==
    [][StepLeft /\ disk.step_files_changed => StepApproved]_vars

Status == IF disk.done THEN "done" ELSE IF disk.failed THEN "failed" ELSE "open"

Lifecycle == INSTANCE TaskLifecycle WITH
    Gate <- AcceptanceGates, status <- Status, running <- (pc # "idle"),
    required <- Required, owed <- Owed

(* The orchestrator implements the task's lifecycle.                       *)
ImplementsLifecycle == Lifecycle!Spec

(* The nested budgets terminate: every session ends.                       *)
SessionEnds == pc # "idle" ~> pc = "idle"

(* A task that is resumed whenever it is not terminal becomes terminal,    *)
(* although some sessions end without a record of why.                     *)
EventuallyTerminal == []<>(disk.done \/ disk.failed)
=============================================================================
