---------------------------- MODULE Orchestrator_proofs ----------------------------
(***************************************************************************)
(* Type correctness of Orchestrator for every set of configurations and    *)
(* every bound, along its actions, and two safety properties of a session: *)
(* a terminal task stays as it is, and test files of an interrupted writer *)
(* are always covered by the durable pending marker.                       *)
(***************************************************************************)
EXTENDS Orchestrator, TLAPS

(***************************************************************************)
(* Types of the operators of TaskState, and the fields each of them leaves *)
(* alone.  A state is a record of 26 fields: the later proofs replace its  *)
(* fields through the Put lemmas, without expanding TaskStates.            *)
(***************************************************************************)
(* Every field the control flow computes with has its type.                *)
LEMMA GetNumber ==
    ASSUME NEW s \in TaskStates
    PROVE  /\ s.plan \in Nat
           /\ s.current_step \in Nat
           /\ s.build_iterations \in Nat
           /\ s.build_loop_start_iteration \in Nat
           /\ s.review_iterations \in Nat
           /\ s.security_review_iterations \in Nat
  BY DEF TaskStates

LEMMA GetFlag ==
    ASSUME NEW s \in TaskStates
    PROVE  /\ s.presync_done \in BOOLEAN
           /\ s.implementation_prompt \in BOOLEAN
           /\ s.plan_decided \in BOOLEAN
           /\ s.plan_completed \in BOOLEAN
           /\ s.step_implemented \in BOOLEAN
           /\ s.step_files_changed \in BOOLEAN
           /\ s.final_full_task_review_done \in BOOLEAN
           /\ s.files_changed \in BOOLEAN
           /\ s.build_synced \in BOOLEAN
           /\ s.fixer_changed_code \in BOOLEAN
           /\ s.review_approved \in BOOLEAN
           /\ s.security_approved \in BOOLEAN
           /\ s.tests_up_to_date \in BOOLEAN
           /\ s.test_execution_gate_records \in BOOLEAN
           /\ s.done \in BOOLEAN
           /\ s.failed \in BOOLEAN
  BY DEF TaskStates

LEMMA GetOther ==
    ASSUME NEW s \in TaskStates
    PROVE  /\ s.active_scope \in {NoScope, FinalScope}
           /\ s.build_loop_key \in LoopKeys
           /\ s.test_writer_audit \in {"none", "running", "completed"}
           /\ s.test_writer_audit_files_written \in SUBSET Writes
  BY DEF TaskStates

(* Replacing one field by a value of its type gives a state.               *)
LEMMA PutProgress ==
    ASSUME NEW s \in TaskStates, NEW b \in BOOLEAN
    PROVE  /\ [s EXCEPT !.presync_done = b] \in TaskStates
           /\ [s EXCEPT !.implementation_prompt = b] \in TaskStates
           /\ [s EXCEPT !.plan_decided = b] \in TaskStates
           /\ [s EXCEPT !.plan_completed = b] \in TaskStates
           /\ [s EXCEPT !.step_implemented = b] \in TaskStates
           /\ [s EXCEPT !.step_files_changed = b] \in TaskStates
           /\ [s EXCEPT !.final_full_task_review_done = b] \in TaskStates
           /\ [s EXCEPT !.files_changed = b] \in TaskStates
  BY SMTT(30) DEF TaskStates

LEMMA PutGate ==
    ASSUME NEW s \in TaskStates, NEW b \in BOOLEAN
    PROVE  /\ [s EXCEPT !.build_synced = b] \in TaskStates
           /\ [s EXCEPT !.fixer_changed_code = b] \in TaskStates
           /\ [s EXCEPT !.review_approved = b] \in TaskStates
           /\ [s EXCEPT !.security_approved = b] \in TaskStates
           /\ [s EXCEPT !.tests_up_to_date = b] \in TaskStates
           /\ [s EXCEPT !.test_execution_gate_records = b] \in TaskStates
           /\ [s EXCEPT !.done = b] \in TaskStates
           /\ [s EXCEPT !.failed = b] \in TaskStates
  BY SMTT(30) DEF TaskStates

LEMMA PutNumber ==
    ASSUME NEW s \in TaskStates, NEW n \in Nat
    PROVE  /\ [s EXCEPT !.plan = n] \in TaskStates
           /\ [s EXCEPT !.current_step = n] \in TaskStates
           /\ [s EXCEPT !.build_iterations = n] \in TaskStates
           /\ [s EXCEPT !.build_loop_start_iteration = n] \in TaskStates
           /\ [s EXCEPT !.review_iterations = n] \in TaskStates
           /\ [s EXCEPT !.security_review_iterations = n] \in TaskStates
  BY SMTT(30) DEF TaskStates

LEMMA PutScope ==
    ASSUME NEW s \in TaskStates, NEW x \in {NoScope, FinalScope}
    PROVE  [s EXCEPT !.active_scope = x] \in TaskStates
  BY DEF TaskStates

LEMMA PutLoopKey ==
    ASSUME NEW s \in TaskStates, NEW k \in LoopKeys
    PROVE  [s EXCEPT !.build_loop_key = k] \in TaskStates
  BY DEF TaskStates

LEMMA PutAudit ==
    ASSUME NEW s \in TaskStates, NEW a \in {"none", "running", "completed"}
    PROVE  [s EXCEPT !.test_writer_audit = a] \in TaskStates
  BY DEF TaskStates

LEMMA PutAuditFiles ==
    ASSUME NEW s \in TaskStates, NEW f \in SUBSET Writes
    PROVE  [s EXCEPT !.test_writer_audit_files_written = f] \in TaskStates
  BY DEF TaskStates
-----------------------------------------------------------------------------
LEMMA LoopKeyType ==
    /\ NoKey \in LoopKeys
    /\ \A s \in TaskStates : BuildLoopKey(s) \in LoopKeys
  <1>1. NoKey \in LoopKeys
    BY DEF NoKey, LoopKeys
  <1>2. ASSUME NEW s \in TaskStates PROVE BuildLoopKey(s) \in LoopKeys
    BY <1>2, GetNumber DEF BuildLoopKey, LoopKeys
  <1> QED
    BY <1>1, <1>2

LEMMA NewTaskType ==
    ASSUME NEW c \in Config PROVE NewTask(c) \in TaskStates
  <1>1. c.review_fix \in BOOLEAN
    BY DEF Config
  <1> QED
    BY <1>1, LoopKeyType DEF NewTask, TaskStates

LEMMA ReopenFinalGateType ==
    ASSUME NEW s \in TaskStates PROVE ReopenFinalGate(s) \in TaskStates
  <1>1. (s.final_full_task_review_done /\ s.active_scope # FinalScope) \in BOOLEAN
    OBVIOUS
  <1> QED
    BY <1>1, PutProgress DEF ReopenFinalGate

LEMMA StaleAllGatesType ==
    ASSUME NEW s \in TaskStates PROVE StaleAllGates(s) \in TaskStates
  BY ReopenFinalGateType, PutGate, PutNumber DEF StaleAllGates

LEMMA FixerChangeGateEffectsType ==
    ASSUME NEW s \in TaskStates, NEW wrote
    PROVE  FixerChangeGateEffects(s, wrote) \in TaskStates
  <1>1. CASE wrote = {}
    BY <1>1 DEF FixerChangeGateEffects
  <1>2. CASE wrote = {"tests"}
    BY <1>2, ReopenFinalGateType, PutGate, PutNumber DEF FixerChangeGateEffects
  <1>3. CASE wrote \notin {{}, {"tests"}}
    BY <1>3, StaleAllGatesType, PutGate DEF FixerChangeGateEffects
  <1> QED
    BY <1>1, <1>2, <1>3

LEMMA MarkBuildSyncStaleType ==
    ASSUME NEW s \in TaskStates, NEW wrote
    PROVE  MarkBuildSyncStale(s, wrote) \in TaskStates
  <1>1. (s.build_synced /\ "config" \notin wrote) \in BOOLEAN
    OBVIOUS
  <1> QED
    BY <1>1, PutGate DEF MarkBuildSyncStale

LEMMA RecordFilesType ==
    ASSUME NEW s \in TaskStates, NEW wrote
    PROVE  RecordFiles(s, wrote) \in TaskStates
  <1> DEFINE f == s.files_changed \/ wrote # {}
             r == [s EXCEPT !.files_changed = f]
             g == r.step_files_changed
                    \/ (wrote # {} /\ r.plan > 0 /\ r.active_scope # FinalScope)
  <1>1. f \in BOOLEAN /\ g \in BOOLEAN
    OBVIOUS
  <1>2. r \in TaskStates
    BY <1>1, PutProgress
  <1>3. [r EXCEPT !.step_files_changed = g] \in TaskStates
    BY <1>1, <1>2, PutProgress
  <1>4. RecordFiles(s, wrote) = [r EXCEPT !.step_files_changed = g]
    BY DEF RecordFiles, TaskStates
  <1> QED
    BY <1>3, <1>4

LEMMA AdvanceStepType ==
    ASSUME NEW s \in TaskStates PROVE AdvanceStep(s) \in TaskStates
  <1> DEFINE r1 == [s EXCEPT !.current_step = @ + 1]
             r2 == [r1 EXCEPT !.step_implemented = FALSE,
                              !.review_approved = FALSE, !.review_iterations = 0]
             r3 == [r2 EXCEPT !.security_approved = FALSE,
                              !.security_review_iterations = 0,
                              !.tests_up_to_date = FALSE]
  <1> s.current_step + 1 \in Nat
    BY GetNumber
  <1>1. r1 \in TaskStates
    BY PutNumber
  <1>2. r2 \in TaskStates
    BY <1>1, PutProgress, PutGate, PutNumber
  <1>3. r3 \in TaskStates
    BY <1>2, PutGate, PutNumber
  <1>4. AdvanceStep(s) = [r3 EXCEPT !.step_files_changed = FALSE]
    BY DEF AdvanceStep
  <1> QED
    BY <1>3, <1>4, PutProgress

LEMMA CompletePlanType ==
    ASSUME NEW s \in TaskStates PROVE CompletePlan(s) \in TaskStates
  BY PutProgress, PutGate DEF CompletePlan

LEMMA OpenFinalGateType ==
    ASSUME NEW s \in TaskStates, NEW c
    PROVE  OpenFinalGate(c, s) \in TaskStates
  <1> DEFINE r1 == [s EXCEPT !.active_scope = FinalScope]
             r2 == [r1 EXCEPT !.review_approved = @ /\ ~c.run_review]
             r3 == [r2 EXCEPT !.review_iterations = IF c.run_review THEN 0 ELSE @]
             r4 == [r3 EXCEPT !.security_approved = @ /\ ~c.run_security_review]
             r5 == [r4 EXCEPT !.security_review_iterations =
                                IF c.run_security_review THEN 0 ELSE @]
             r6 == [r5 EXCEPT !.tests_up_to_date = @ /\ ~c.run_test_writing]
  <1>1. r1 \in TaskStates
    BY DEF TaskStates
  <1>2. r2 \in TaskStates
    BY <1>1, PutGate
  <1>3. r3 \in TaskStates
    <2> (IF c.run_review THEN 0 ELSE r2.review_iterations) \in Nat
      BY <1>2, GetNumber
    <2> QED
      BY <1>2, PutNumber
  <1>4. r4 \in TaskStates
    BY <1>3, PutGate
  <1>5. r5 \in TaskStates
    <2> (IF c.run_security_review THEN 0 ELSE r4.security_review_iterations) \in Nat
      BY <1>4, GetNumber
    <2> QED
      BY <1>4, PutNumber
  <1>6. r6 \in TaskStates
    BY <1>5, PutGate
  <1>7. OpenFinalGate(c, s) = r6
    BY DEF OpenFinalGate
  <1> QED
    BY <1>6, <1>7

LEMMA ResetFailedStateType ==
    ASSUME NEW s \in TaskStates, NEW detected \in BOOLEAN
    PROVE  ResetFailedState(s, detected) \in TaskStates
  BY LoopKeyType, PutProgress, PutGate, PutNumber, PutLoopKey DEF ResetFailedState
-----------------------------------------------------------------------------
(* Two states agree on whether the task is over and on its pending audit.  *)
Agree(r, s) == /\ r.done = s.done
               /\ r.failed = s.failed
               /\ r.test_writer_audit = s.test_writer_audit

(* None of the operators ends a task, reopens it, or touches its audit     *)
(* marker; the manual reset clears failed only.                            *)
LEMMA StaleAllGatesAgrees ==
    ASSUME NEW s \in TaskStates PROVE Agree(StaleAllGates(s), s)
  BY DEF StaleAllGates, ReopenFinalGate, Agree, TaskStates

LEMMA FixerChangeGateEffectsAgrees ==
    ASSUME NEW s \in TaskStates, NEW wrote
    PROVE  Agree(FixerChangeGateEffects(s, wrote), s)
  BY DEF FixerChangeGateEffects, StaleAllGates, ReopenFinalGate, Agree, TaskStates

LEMMA MarkBuildSyncStaleAgrees ==
    ASSUME NEW s \in TaskStates, NEW wrote
    PROVE  Agree(MarkBuildSyncStale(s, wrote), s)
  BY DEF MarkBuildSyncStale, Agree, TaskStates

LEMMA RecordFilesAgrees ==
    ASSUME NEW s \in TaskStates, NEW wrote
    PROVE  Agree(RecordFiles(s, wrote), s)
  BY DEF RecordFiles, Agree, TaskStates

LEMMA PlanStepsAgree ==
    ASSUME NEW s \in TaskStates, NEW c
    PROVE  /\ Agree(AdvanceStep(s), s)
           /\ Agree(CompletePlan(s), s)
           /\ Agree(OpenFinalGate(c, s), s)
  <1>1. Agree(AdvanceStep(s), s)
    BY DEF AdvanceStep, Agree, TaskStates
  <1>2. Agree(CompletePlan(s), s)
    BY DEF CompletePlan, Agree, TaskStates
  <1>3. Agree(OpenFinalGate(c, s), s)
    BY DEF OpenFinalGate, Agree, TaskStates
  <1> QED
    BY <1>1, <1>2, <1>3

LEMMA ResetFailedStateAgrees ==
    ASSUME NEW s \in TaskStates, NEW detected
    PROVE  /\ ResetFailedState(s, detected).done = s.done
           /\ ResetFailedState(s, detected).failed = FALSE
           /\ ResetFailedState(s, detected).test_writer_audit = s.test_writer_audit
  BY DEF ResetFailedState, TaskStates

(***************************************************************************)
(* The orchestrator's types.                                               *)
(***************************************************************************)

(* The types of what a session works on: the part of TypeOK its steps can  *)
(* disturb.                                                                *)
SessionType ==
    /\ pc \in Locations
    /\ mem \in TaskStates
    /\ disk \in TaskStates
    /\ loc \in Locals
    /\ exit \in Exits
    /\ work \in Worktrees

(* Local variables.                                                        *)
LEMMA LocalsType ==
    ASSUME NEW l \in Locals
    PROVE  /\ l.kept \in SUBSET Writes
           /\ l.wrote \in SUBSET Writes
           /\ l.code_changed \in BOOLEAN
           /\ l.ctx \in {"task", "step", "final", "post"}
  BY DEF Locals

LEMMA PutLocal ==
    ASSUME NEW l \in Locals, NEW b \in BOOLEAN
    PROVE  /\ [l EXCEPT !.preexisting = b] \in Locals
           /\ [l EXCEPT !.reviewer_ran = b] \in Locals
           /\ [l EXCEPT !.code_changed = b] \in Locals
           /\ [l EXCEPT !.validation_only = b] \in Locals
           /\ [l EXCEPT !.retry = b] \in Locals
           /\ [l EXCEPT !.tests_changed = b] \in Locals
  BY DEF Locals

LEMMA PutFiles ==
    ASSUME NEW l \in Locals, NEW f \in SUBSET Writes
    PROVE  /\ [l EXCEPT !.wrote = f] \in Locals
           /\ [l EXCEPT !.kept = f] \in Locals
  BY DEF Locals

LEMMA PutContext ==
    ASSUME NEW l \in Locals, NEW c \in {"task", "step", "final", "post"}
    PROVE  [l EXCEPT !.ctx = c] \in Locals
  BY DEF Locals

LEMMA NoLocalsType == NoLocals \in Locals
  BY DEF NoLocals, Locals
-----------------------------------------------------------------------------
(* The worktree's ghost record.                                            *)
LEMMA PutWork ==
    ASSUME NEW w \in Worktrees, NEW b \in BOOLEAN
    PROVE  /\ [w EXCEPT !.unrecorded = b] \in Worktrees
           /\ [w EXCEPT !.gated = b] \in Worktrees
           /\ [w EXCEPT !.interrupted_tests = b] \in Worktrees
           /\ [w EXCEPT !.full_review = b] \in Worktrees
  BY DEF Worktrees

LEMMA PutFixes ==
    ASSUME NEW w \in Worktrees, NEW n \in Nat
    PROVE  [w EXCEPT !.fixes = n] \in Worktrees
  BY DEF Worktrees

LEMMA WorkType ==
    ASSUME NEW w \in Worktrees
    PROVE  /\ w.fixes \in Nat
           /\ w.unsynced \in SUBSET Origins
           /\ w.stale \in [Gates -> SUBSET Origins]
           /\ w.gated \in BOOLEAN
           /\ w.interrupted_tests \in BOOLEAN
  BY DEF Worktrees

LEMMA PutUnsynced ==
    ASSUME NEW w \in Worktrees, NEW u \in SUBSET Origins
    PROVE  [w EXCEPT !.unsynced = u] \in Worktrees
  BY DEF Worktrees

LEMMA PutStale ==
    ASSUME NEW w \in Worktrees, NEW st \in [Gates -> SUBSET Origins]
    PROVE  [w EXCEPT !.stale = st] \in Worktrees
  BY DEF Worktrees

LEMMA UntouchedType == Untouched \in Worktrees
  BY DEF Untouched, Worktrees

LEMMA TouchType ==
    ASSUME NEW w \in Worktrees, NEW o \in Origins, NEW gs
    PROVE  Touch(w, o, gs) \in Worktrees
  <1>1. [g \in Gates |-> IF g \in gs THEN w.stale[g] \cup {o} ELSE w.stale[g]]
          \in [Gates -> SUBSET Origins]
    BY WorkType
  <1> QED
    BY <1>1, PutStale DEF Touch

LEMMA LostType ==
    ASSUME NEW w \in Worktrees, NEW o \in Origins
    PROVE  Lost(w, o) \in Worktrees
  BY TouchType, PutWork DEF Lost

LEMMA NeedsSyncType ==
    ASSUME NEW w \in Worktrees, NEW o \in Origins, NEW wrote
    PROVE  NeedsSync(w, o, wrote) \in Worktrees
  <1>1. (IF "config" \in wrote THEN w.unsynced \cup {o} ELSE w.unsynced) \in SUBSET Origins
    BY WorkType
  <1> QED
    BY <1>1, PutUnsynced DEF NeedsSync

LEMMA LookedType ==
    ASSUME NEW w \in Worktrees, NEW g \in Gates
    PROVE  Looked(w, g) \in Worktrees
  <1>1. [w.stale EXCEPT ![g] = {}] \in [Gates -> SUBSET Origins]
    BY WorkType
  <1> QED
    BY <1>1, PutStale DEF Looked

LEMMA OriginsListed ==
    /\ {"implementer", "fixer", "sync", "tests", "autofix",
        "lost_implementer", "lost_fixer", "lost_sync"} \subseteq Origins
    /\ {"review", "security", "tests", "validation"} \subseteq Gates
  BY DEF Origins, Gates

LEMMA AdoptedType ==
    ASSUME work \in Worktrees PROVE Adopted \in Worktrees
  BY PutWork DEF Adopted

LEMMA ApprovesType ==
    ASSUME NEW w \in Worktrees, NEW m PROVE Approves(w, m) \in Worktrees
  <1> DEFINE l == Looked(w, "review")
  <1>1. l \in Worktrees
    BY LookedType, OriginsListed
  <1> HIDE DEF l
  <1>2. (l.full_review \/ m.active_scope = FinalScope) \in BOOLEAN
    OBVIOUS
  <1>3. [l EXCEPT !.full_review = @ \/ m.active_scope = FinalScope] \in Worktrees
    BY <1>1, <1>2, PutWork
  <1> QED
    BY <1>3 DEF Approves, l

LEMMA TestsRemainType ==
    ASSUME NEW w \in Worktrees, NEW wrote, NEW gated \in BOOLEAN
    PROVE  TestsRemain(w, wrote, gated) \in Worktrees
  BY TouchType, NeedsSyncType, OriginsListed, PutWork DEF TestsRemain

LEMMA FixerTouchedType ==
    ASSUME NEW w \in Worktrees, NEW wrote
    PROVE  FixerTouched(w, wrote) \in Worktrees
  BY TouchType, NeedsSyncType, OriginsListed DEF FixerTouched

LEMMA KeptLostType ==
    ASSUME NEW w \in Worktrees PROVE KeptLost(w) \in Worktrees
  BY TouchType, NeedsSyncType, OriginsListed DEF KeptLost

LEMMA FixerRanType ==
    ASSUME work \in Worktrees PROVE FixerRan \in Worktrees
  <1>1. (IF loc.retry THEN work.fixes ELSE work.fixes + 1) \in Nat
    BY WorkType
  <1> QED
    BY <1>1, PutFixes DEF FixerRan

LEMMA AutofixedType ==
    ASSUME NEW w \in Worktrees PROVE Autofixed(w) \subseteq Worktrees
  BY TouchType, OriginsListed DEF Autofixed
-----------------------------------------------------------------------------
(* What the actions make of the task's state.                              *)
LEMMA FailedType ==
    ASSUME NEW m \in TaskStates PROVE Failed(m) \in TaskStates
  BY PutGate DEF Failed

LEMMA SecurityRejectsType ==
    ASSUME NEW m \in TaskStates PROVE SecurityRejects(m) \in TaskStates
  BY PutGate DEF SecurityRejects

LEMMA CountSecurityFixType ==
    ASSUME NEW m \in TaskStates PROVE CountSecurityFix(m) \in TaskStates
  <1> m.security_review_iterations + 1 \in Nat
    BY GetNumber
  <1> QED
    BY PutNumber DEF CountSecurityFix

LEMMA BeginAuditType ==
    ASSUME NEW m \in TaskStates PROVE BeginAudit(m) \in TaskStates
  BY PutGate, PutAudit, PutAuditFiles DEF BeginAudit

LEMMA RecordGatesType ==
    ASSUME NEW m \in TaskStates, NEW gated PROVE RecordGates(m, gated) \in TaskStates
  <1> (m.test_execution_gate_records \/ gated) \in BOOLEAN
    OBVIOUS
  <1> QED
    BY PutGate DEF RecordGates

LEMMA PassedFinalGateType ==
    ASSUME NEW m \in TaskStates PROVE PassedFinalGate(m) \in TaskStates
  BY PutProgress DEF PassedFinalGate

LEMMA AttemptStartedType ==
    ASSUME mem \in TaskStates PROVE AttemptStarted \in TaskStates
  <1> mem.build_iterations + 1 \in Nat
    BY GetNumber
  <1> QED
    BY PutNumber DEF AttemptStarted

LEMMA FixerEffectsType ==
    ASSUME NEW m \in TaskStates, NEW wrote PROVE FixerEffects(m, wrote) \in TaskStates
  BY FixerChangeGateEffectsType, MarkBuildSyncStaleType DEF FixerEffects
-----------------------------------------------------------------------------
(* The ways a step moves on: saved, unsaved, or ending the session.        *)
MoveType ==
    /\ pc' \in Locations
    /\ mem' \in TaskStates
    /\ disk' \in TaskStates
    /\ exit' \in Exits

EndType == MoveType /\ loc' \in Locals

LEMMA SavedType ==
    ASSUME SessionType, NEW l \in Locations, NEW m \in TaskStates, Saved(l, m)
    PROVE  MoveType
  BY DEF SessionType, Saved, MoveType

LEMMA UnsavedType ==
    ASSUME SessionType, NEW l \in Locations, NEW m \in TaskStates, Unsaved(l, m)
    PROVE  MoveType
  BY DEF SessionType, Unsaved, MoveType

LEMMA GotoType ==
    ASSUME SessionType, NEW l \in Locations, Goto(l)
    PROVE  MoveType
  BY UnsavedType DEF SessionType, Goto

LEMMA EndSessionType ==
    ASSUME SessionType, NEW status \in Exits, NEW d \in TaskStates,
           EndSession(status, d)
    PROVE  EndType
  BY NoLocalsType DEF EndSession, EndType, MoveType, Locations

LEMMA FailSavedType ==
    ASSUME SessionType, NEW m \in TaskStates, FailSaved(m)
    PROVE  EndType
  BY FailedType, EndSessionType DEF FailSaved, Exits

LEMMA GateGivesUpType ==
    ASSUME SessionType, NEW m \in TaskStates, GateGivesUp(m)
    PROVE  EndType
  BY FailSavedType, EndSessionType DEF GateGivesUp, Exits

LEMMA AgentFailsType ==
    ASSUME SessionType, NEW m \in TaskStates, NEW o \in Origins, AgentFails(m, o)
    PROVE  SessionType'
  BY FailSavedType, LostType DEF AgentFails, SessionType, EndType, MoveType

LEMMA ReadOnlyAgentFailsType ==
    ASSUME SessionType, ReadOnlyAgentFails
    PROVE  SessionType'
  BY FailSavedType DEF ReadOnlyAgentFails, SessionType, EndType, MoveType
-----------------------------------------------------------------------------
(* The actions, group by group.                                            *)
LEMMA InvokeType ==
    ASSUME SessionType, StartRun \/ RunTerminal
    PROVE  SessionType'
  BY DEF SessionType, StartRun, RunTerminal, Locations, Exits

LEMMA PrepareType ==
    ASSUME SessionType, Prepare
    PROVE  SessionType'
  <1> USE DEF SessionType, EndType, MoveType
  <1>1. CASE CheckCoverage
    <2>1. CASE FailSaved(mem)
      BY <1>1, <2>1, FailSavedType DEF CheckCoverage
    <2>2. CASE Goto("presync") /\ UNCHANGED loc
      BY <1>1, <2>2, GotoType DEF CheckCoverage, Locations
    <2> QED
      BY <1>1, <2>1, <2>2 DEF CheckCoverage
  <1>2. CASE RunPresync
    BY <1>2, SavedType, GotoType, PutProgress DEF RunPresync, Locations
  <1>3. CASE Analyze
    <2>1. CASE Goto("plan") /\ UNCHANGED loc
      BY <1>3, <2>1, GotoType DEF Analyze, Locations
    <2>2. CASE Saved("plan", [mem EXCEPT !.implementation_prompt = TRUE]) /\ UNCHANGED loc
      BY <1>3, <2>2, SavedType, PutProgress DEF Analyze, Locations
    <2>3. CASE FailSaved(mem)
      BY <1>3, <2>3, FailSavedType DEF Analyze
    <2> QED
      BY <1>3, <2>1, <2>2, <2>3 DEF Analyze
  <1>4. CASE Plan
    <2>1. CASE Goto("dispatch") /\ UNCHANGED loc
      BY <1>4, <2>1, GotoType DEF Plan, Locations
    <2>2. ASSUME NEW n \in 0..MaxSteps, UNCHANGED loc,
                 Saved("dispatch", [mem EXCEPT !.plan = n, !.plan_decided = TRUE,
                                               !.step_files_changed = FALSE])
          PROVE  SessionType'
      <3>1. n \in Nat
        BY MaxStepsAssumption
      <3>2. [mem EXCEPT !.plan = n, !.plan_decided = TRUE,
                        !.step_files_changed = FALSE] \in TaskStates
        BY <3>1, PutNumber, PutProgress
      <3> QED
        BY <1>4, <2>2, <3>2, SavedType DEF Plan, Locations
    <2>3. CASE FailSaved(mem)
      BY <1>4, <2>3, FailSavedType DEF Plan
    <2> QED
      BY <1>4, <2>1, <2>2, <2>3 DEF Plan
  <1>5. CASE Dispatch
    <2>1. CASE Goto("implement") /\ loc' = [loc EXCEPT !.ctx = "task"]
      BY <1>5, <2>1, GotoType, PutContext DEF Dispatch, Locations
    <2>2. CASE Goto("after_plan") /\ UNCHANGED loc
      BY <1>5, <2>2, GotoType DEF Dispatch, Locations
    <2>3. CASE /\ Unsaved("implement", [mem EXCEPT !.active_scope = NoScope])
               /\ loc' = [loc EXCEPT !.ctx = "step"]
      BY <1>5, <2>3, UnsavedType, PutScope, PutContext DEF Dispatch, Locations
    <2> QED
      BY <1>5, <2>1, <2>2, <2>3 DEF Dispatch
  <1> QED
    BY <1>1, <1>2, <1>3, <1>4, <1>5 DEF Prepare

LEMMA ImplementStepType ==
    ASSUME SessionType, ImplementStep
    PROVE  SessionType'
  <1> USE DEF SessionType, EndType, MoveType
  <1>1. CASE SkipImplement
    BY <1>1, GotoType, GetFlag, PutLocal DEF SkipImplement, Locations
  <1>2. CASE Implement
    <2>1. ASSUME NEW wrote \in ImplementerWrites,
                 Saved("implemented", RecordFiles(mem, wrote)),
                 loc' = [loc EXCEPT !.wrote = wrote, !.preexisting = mem.files_changed],
                 work' = IF wrote = {} THEN work
                         ELSE NeedsSync(Touch(work, "implementer", Gates),
                                        "implementer", wrote)
          PROVE  SessionType'
      <3>1. MoveType
        BY <2>1, SavedType, RecordFilesType DEF Locations
      <3>2. loc' \in Locals
        BY <2>1, GetFlag, PutLocal, PutFiles DEF ImplementerWrites, Writes
      <3>3. work' \in Worktrees
        BY <2>1, TouchType, NeedsSyncType, OriginsListed
      <3> QED
        BY <3>1, <3>2, <3>3
    <2>2. CASE AgentFails(mem, "lost_implementer")
      BY <2>2, AgentFailsType, OriginsListed
    <2> QED
      BY <1>2, <2>1, <2>2 DEF Implement
  <1>3. CASE TaskImplemented
    <2>1. CASE Goto("resume_check") /\ UNCHANGED <<loc, work>>
      BY <2>1, GotoType DEF Locations
    <2>2. CASE /\ Unsaved("resume_check", RecordFiles(mem, {"code"}))
               /\ work' = Adopted /\ UNCHANGED loc
      BY <2>2, UnsavedType, RecordFilesType, AdoptedType DEF Locations
    <2>3. CASE FailSaved(mem) /\ UNCHANGED work
      BY <2>3, FailSavedType
    <2> QED
      BY <1>3, <2>1, <2>2, <2>3 DEF TaskImplemented
  <1>4. CASE StepImplemented
    <2> DEFINE m == [mem EXCEPT !.step_implemented = TRUE]
    <2>0. m \in TaskStates
      BY PutProgress
    <2>1. CASE Saved("resume_check", m) /\ UNCHANGED <<loc, work>>
      BY <2>0, <2>1, SavedType DEF Locations
    <2>2. CASE /\ Saved("resume_check", RecordFiles(m, {"code"}))
               /\ work' = Adopted /\ UNCHANGED loc
      BY <2>0, <2>2, SavedType, RecordFilesType, AdoptedType DEF Locations
    <2>3. CASE Saved("step_done", m) /\ UNCHANGED <<loc, work>>
      BY <2>0, <2>3, SavedType DEF Locations
    <2> QED
      BY <1>4, <2>1, <2>2, <2>3 DEF StepImplemented
  <1>5. CASE ResumeCheck
    BY <1>5, GotoType DEF ResumeCheck, Locations
  <1> QED
    BY <1>1, <1>2, <1>3, <1>4, <1>5 DEF ImplementStep

(* A gate's fix by the implementer, and its handling.                      *)
LEMMA FixGateType ==
    ASSUME SessionType, NEW fixing, NEW fixed \in Locations, FixGate(fixing, fixed)
    PROVE  SessionType'
  <1> USE DEF SessionType, MoveType
  <1>1. ASSUME NEW wrote \in ImplementerWrites,
               Saved(fixed, RecordFiles(mem, wrote)),
               loc' = [loc EXCEPT !.wrote = wrote],
               work' = IF wrote = {} THEN work
                       ELSE Touch(work, "implementer", Gates \ {"tests"})
        PROVE  SessionType'
    <2>1. MoveType
      BY <1>1, SavedType, RecordFilesType
    <2>2. loc' \in Locals
      BY <1>1, PutFiles DEF ImplementerWrites, Writes
    <2>3. work' \in Worktrees
      BY <1>1, TouchType, OriginsListed
    <2> QED
      BY <2>1, <2>2, <2>3
  <1>2. CASE AgentFails(mem, "lost_implementer")
    BY <1>2, AgentFailsType, OriginsListed
  <1> QED
    BY <1>1, <1>2 DEF FixGate

LEMMA GateFixHandledType ==
    ASSUME SessionType, NEW fixed, GateFixHandled(fixed)
    PROVE  SessionType'
  <1> USE DEF SessionType, MoveType
  <1> DEFINE m == MarkBuildSyncStale(mem, loc.wrote)
             r == [m EXCEPT !.tests_up_to_date = @ /\ ~(loc.wrote # {})]
  <1>1. r \in TaskStates
    <2>1. m \in TaskStates
      BY MarkBuildSyncStaleType
    <2> HIDE DEF m
    <2>2. (m.tests_up_to_date /\ ~(loc.wrote # {})) \in BOOLEAN
      OBVIOUS
    <2> QED
      BY <2>1, <2>2, PutGate
  <1>2. MoveType
    <2> HIDE DEF r
    <2>1. Saved("review", r)
      BY DEF GateFixHandled, r
    <2> QED
      BY <1>1, <2>1, SavedType DEF Locations
  <1>3. loc' \in Locals
    <2>1. loc' = [loc EXCEPT !.code_changed = @ \/ (loc.wrote # {}), !.wrote = {}]
      BY DEF GateFixHandled
    <2>2. (loc.code_changed \/ (loc.wrote # {})) \in BOOLEAN
      OBVIOUS
    <2> QED
      BY <2>1, <2>2, PutLocal, PutFiles
  <1>4. work' \in Worktrees
    BY TouchType, NeedsSyncType, OriginsListed DEF GateFixHandled
  <1> QED
    BY <1>2, <1>3, <1>4

LEMMA ReviewGatesType ==
    ASSUME SessionType, cfg \in Config, ReviewGates
    PROVE  SessionType'
  <1> USE DEF SessionType, EndType, MoveType
  <1>1. CASE SkipReview
    BY <1>1, GotoType DEF SkipReview, Locations
  <1>2. CASE Review
    <2>1. CASE /\ Saved("security", [mem EXCEPT !.review_approved = TRUE])
               /\ work' = Approves(work, mem)
               /\ loc' = [loc EXCEPT !.reviewer_ran = TRUE]
      BY <2>1, SavedType, PutGate, ApprovesType, PutLocal DEF Locations
    <2>2. CASE /\ pc' = "review_fix"
               /\ disk' = mem
               /\ mem' = [mem EXCEPT !.review_iterations = @ + 1]
               /\ loc' = [loc EXCEPT !.reviewer_ran = TRUE]
               /\ UNCHANGED <<work, exit>>
      <3> mem.review_iterations + 1 \in Nat
        BY GetNumber
      <3> QED
        BY <2>2, PutNumber, PutLocal DEF Locations
    <2>3. CASE GateGivesUp(mem) /\ UNCHANGED work
      BY <2>3, GateGivesUpType
    <2>4. CASE ReadOnlyAgentFails
      BY <2>4, ReadOnlyAgentFailsType
    <2> QED
      BY <1>2, <2>1, <2>2, <2>3, <2>4 DEF Review
  <1>3. CASE ReviewFix
    BY <1>3, FixGateType DEF ReviewFix, Locations
  <1>4. CASE ReviewFixHandled
    BY <1>4, GateFixHandledType DEF ReviewFixHandled
  <1>5. CASE SkipSecurity
    BY <1>5, GotoType DEF SkipSecurity, Locations
  <1>6. CASE SecurityReview
    <2> DEFINE next == IF loc.ctx = "task" THEN "fast_path" ELSE "tests"
    <2>1. CASE /\ Saved(next, [mem EXCEPT !.security_approved = TRUE])
               /\ work' = Looked(work, "security")
               /\ UNCHANGED loc
      BY <2>1, SavedType, PutGate, LookedType, OriginsListed DEF Locations
    <2>2. CASE /\ pc' = "security_fix"
               /\ disk' = SecurityRejects(mem)
               /\ mem' = CountSecurityFix(SecurityRejects(mem))
               /\ UNCHANGED <<loc, work, exit>>
      BY <2>2, SecurityRejectsType, CountSecurityFixType DEF Locations
    <2>3. CASE GateGivesUp(SecurityRejects(mem)) /\ UNCHANGED work
      BY <2>3, SecurityRejectsType, GateGivesUpType
    <2>4. CASE ReadOnlyAgentFails
      BY <2>4, ReadOnlyAgentFailsType
    <2> QED
      BY <1>6, <2>1, <2>2, <2>3, <2>4 DEF SecurityReview
  <1>7. CASE SecurityFix
    BY <1>7, FixGateType DEF SecurityFix, Locations
  <1>8. CASE SecurityFixHandled
    BY <1>8, GateFixHandledType DEF SecurityFixHandled
  <1>9. CASE FastPath
    <2>1. CASE EndSession("done", [mem EXCEPT !.done = TRUE])
      BY <1>9, <2>1, EndSessionType, PutGate DEF FastPath, Exits
    <2>2. CASE FailSaved(mem)
      BY <1>9, <2>2, FailSavedType DEF FastPath
    <2>3. CASE Saved("tests", mem) /\ UNCHANGED loc
      BY <1>9, <2>3, SavedType DEF FastPath, Locations
    <2>4. CASE Goto("tests") /\ UNCHANGED loc
      BY <1>9, <2>4, GotoType DEF FastPath, Locations
    <2> QED
      BY <1>9, <2>1, <2>2, <2>3, <2>4 DEF FastPath
  <1> QED
    BY <1>1, <1>2, <1>3, <1>4, <1>5, <1>6, <1>7, <1>8, <1>9 DEF ReviewGates

LEMMA RetestType ==
    ASSUME SessionType, NEW m \in TaskStates, NEW reviewed, Retest(m, reviewed)
    PROVE  MoveType
  <1>1. CASE Saved("retest_review", [m EXCEPT !.review_approved = FALSE,
                                              !.review_iterations = 0])
    BY <1>1, SavedType, PutGate, PutNumber DEF Locations
  <1>2. CASE Saved("retest_security", [m EXCEPT !.security_approved = FALSE,
                                                !.security_review_iterations = 0])
    BY <1>2, SavedType, PutGate, PutNumber DEF Locations
  <1>3. CASE Unsaved("gates_done", m)
    BY <1>3, UnsavedType DEF Locations
  <1> QED
    BY <1>1, <1>2, <1>3 DEF Retest

(* The execution gates the audit may find are a BOOLEAN.                   *)
LEMMA GatesAfterType ==
    ASSUME SessionType, NEW wrote PROVE GatesAfter(wrote) \subseteq BOOLEAN
  BY WorkType DEF SessionType, GatesAfter

LEMMA TestGateType ==
    ASSUME SessionType, TestGate
    PROVE  SessionType'
  <1> USE DEF SessionType, EndType, MoveType
  <1>1. CASE SkipTests
    <2>1. CASE FailSaved(mem)
      BY <1>1, <2>1, FailSavedType DEF SkipTests
    <2>2. CASE Goto("tests_done") /\ loc' = [loc EXCEPT !.tests_changed = FALSE]
      BY <1>1, <2>2, GotoType, PutLocal DEF SkipTests, Locations
    <2> QED
      BY <1>1, <2>1, <2>2 DEF SkipTests
  <1>2. CASE BeginTestWriting
    <2>1. CASE Saved("test_writer", BeginAudit(mem)) /\ UNCHANGED <<loc, work>>
      BY <2>1, SavedType, BeginAuditType DEF Locations
    <2>2. CASE /\ Saved("test_writer", BeginAudit(mem))
               /\ work' = [work EXCEPT !.interrupted_tests = FALSE]
               /\ UNCHANGED loc
      BY <2>2, SavedType, BeginAuditType, PutWork DEF Locations
    <2>3. CASE FailSaved(mem) /\ UNCHANGED work
      BY <2>3, FailSavedType
    <2>4. ASSUME Goto("test_audit"), UNCHANGED work,
                 NEW wrote \in SUBSET Writes, loc' = [loc EXCEPT !.wrote = wrote]
          PROVE  SessionType'
      BY <2>4, GotoType, PutFiles DEF Locations
    <2>5. /\ mem.test_writer_audit_files_written \in SUBSET Writes
          /\ {{}, {"tests"}} \subseteq SUBSET Writes
      BY GetOther DEF Writes
    <2> QED
      BY <1>2, <2>1, <2>2, <2>3, <2>4, <2>5 DEF BeginTestWriting
  <1>3. CASE TestWriter
    <2>1. ASSUME NEW wrote \in {{}, {"tests"}, {"config"}},
                 Saved("test_written", [RecordFiles(mem, wrote)
                                        EXCEPT !.tests_up_to_date = TRUE]),
                 loc' = [loc EXCEPT !.wrote = wrote],
                 work' = [Looked(work, "tests") EXCEPT
                           !.interrupted_tests = @ \/ wrote # {}]
          PROVE  SessionType'
      <3>1. MoveType
        BY <2>1, SavedType, RecordFilesType, PutGate DEF Locations
      <3>2. loc' \in Locals
        BY <2>1, PutFiles DEF Writes
      <3>3. work' \in Worktrees
        <4> DEFINE w == Looked(work, "tests")
        <4>1. w \in Worktrees
          BY LookedType, OriginsListed
        <4> HIDE DEF w
        <4>2. (w.interrupted_tests \/ wrote # {}) \in BOOLEAN
          OBVIOUS
        <4>3. [w EXCEPT !.interrupted_tests = @ \/ wrote # {}] \in Worktrees
          BY <4>1, <4>2, PutWork
        <4> QED
          BY <2>1, <4>3 DEF w
      <3> QED
        BY <3>1, <3>2, <3>3
    <2>2. ASSUME FailSaved(mem), NEW wrote \in BOOLEAN,
                 work' = [work EXCEPT !.interrupted_tests = @ \/ wrote]
          PROVE  SessionType'
      <3>1. (work.interrupted_tests \/ wrote) \in BOOLEAN
        OBVIOUS
      <3> QED
        BY <2>2, <3>1, FailSavedType, PutWork
    <2> QED
      BY <1>3, <2>1, <2>2 DEF TestWriter
  <1>4. CASE RecordAuditFiles
    <2> DEFINE m == [mem EXCEPT !.test_writer_audit = "completed",
                                !.test_writer_audit_files_written = loc.wrote]
    <2>1. m \in TaskStates
      BY LocalsType, PutAudit, PutAuditFiles
    <2> QED
      BY <1>4, <2>1, SavedType DEF RecordAuditFiles, Locations
  <1>5. CASE RetryTestWriter
    <2>1. PICK kept \in {{}, loc.wrote} : \E gated \in GatesAfter(kept) :
             /\ Saved("test_writer", BeginAudit(RecordGates(mem, gated)))
             /\ loc' = [loc EXCEPT !.kept = kept, !.wrote = {}, !.retry = TRUE]
             /\ work' = [TestsRemain(work, kept, gated) EXCEPT !.interrupted_tests = FALSE]
      BY <1>5 DEF RetryTestWriter
    <2>2. PICK gated \in BOOLEAN :
             /\ Saved("test_writer", BeginAudit(RecordGates(mem, gated)))
             /\ loc' = [loc EXCEPT !.kept = kept, !.wrote = {}, !.retry = TRUE]
             /\ work' = [TestsRemain(work, kept, gated) EXCEPT !.interrupted_tests = FALSE]
      BY <2>1, GatesAfterType
    <2>3. MoveType
      BY <2>2, SavedType, BeginAuditType, RecordGatesType DEF Locations
    <2>4. loc' \in Locals
      <3>1. kept \in SUBSET Writes
        BY LocalsType
      <3> QED
        BY <2>2, <3>1, PutFiles, PutLocal
    <2>5. work' \in Worktrees
      BY <2>2, TestsRemainType, PutWork
    <2> QED
      BY <2>3, <2>4, <2>5
  <1>6. CASE FinishAudit
    <2> DEFINE Finished(remaining, gated) ==
             LET all == remaining \cup loc.kept
                 m   == [RecordGates(mem, gated)
                         EXCEPT !.test_writer_audit = "none",
                                !.test_writer_audit_files_written = {}]
             IN  /\ work' = [TestsRemain(work, remaining, gated)
                             EXCEPT !.interrupted_tests = FALSE]
                 /\ IF ~cfg.run_build /\ gated
                    THEN FailSaved(m)
                    ELSE /\ pc' = "tests_done"
                         /\ disk' = m
                         /\ mem' = MarkBuildSyncStale(m, all)
                         /\ loc' = [loc EXCEPT !.wrote = {}, !.kept = {}, !.retry = FALSE,
                                               !.tests_changed = all # {}]
                         /\ UNCHANGED exit
    <2>0. PICK remaining \in {{}, loc.wrote} :
             \E gated \in GatesAfter(remaining) : Finished(remaining, gated)
      BY <1>6 DEF FinishAudit
    <2> HIDE DEF Finished
    <2>1. PICK gated \in BOOLEAN : Finished(remaining, gated)
      BY <2>0, GatesAfterType
    <2> DEFINE all == remaining \cup loc.kept
               m   == [RecordGates(mem, gated)
                       EXCEPT !.test_writer_audit = "none",
                              !.test_writer_audit_files_written = {}]
    <2>2. m \in TaskStates
      BY RecordGatesType, PutAudit, PutAuditFiles
    <2> HIDE DEF m
    <2>3. work' \in Worktrees
      BY <2>1, TestsRemainType, PutWork DEF Finished
    <2>4. CASE FailSaved(m)
      BY <2>2, <2>3, <2>4, FailSavedType
    <2>5. CASE /\ pc' = "tests_done"
               /\ disk' = m
               /\ mem' = MarkBuildSyncStale(m, all)
               /\ loc' = [loc EXCEPT !.wrote = {}, !.kept = {}, !.retry = FALSE,
                                     !.tests_changed = all # {}]
               /\ UNCHANGED exit
      <3>1. loc' \in Locals
        <4>1. (all # {}) \in BOOLEAN
          OBVIOUS
        <4> QED
          BY <2>5, <4>1, PutFiles, PutLocal
      <3> QED
        BY <2>2, <2>3, <2>5, <3>1, MarkBuildSyncStaleType DEF Locations
    <2> QED
      BY <2>1, <2>4, <2>5 DEF m, Finished
  <1>7. CASE TestsDone
    BY <1>7, RetestType, GotoType DEF TestsDone, Locations
  <1>8. CASE RetestReview
    <2>1. CASE /\ Saved("retest_reviewed", [mem EXCEPT !.review_approved = TRUE])
               /\ loc' = [loc EXCEPT !.reviewer_ran = TRUE]
               /\ work' = Approves(work, mem)
      BY <2>1, SavedType, PutGate, PutLocal, ApprovesType DEF Locations
    <2>2. CASE ReadOnlyAgentFails
      BY <2>2, ReadOnlyAgentFailsType
    <2> QED
      BY <1>8, <2>1, <2>2 DEF RetestReview
  <1>9. CASE RetestReviewed
    BY <1>9, RetestType DEF RetestReviewed
  <1>10. CASE RetestSecurity
    <2>1. CASE /\ Saved("gates_done", [mem EXCEPT !.security_approved = TRUE])
               /\ work' = Looked(work, "security")
               /\ UNCHANGED loc
      BY <2>1, SavedType, PutGate, LookedType, OriginsListed DEF Locations
    <2>2. CASE FailSaved(SecurityRejects(mem)) /\ UNCHANGED work
      BY <2>2, FailSavedType, SecurityRejectsType
    <2>3. CASE ReadOnlyAgentFails
      BY <2>3, ReadOnlyAgentFailsType
    <2> QED
      BY <1>10, <2>1, <2>2, <2>3 DEF RetestSecurity
  <1> QED
    BY <1>1, <1>2, <1>3, <1>4, <1>5, <1>6, <1>7, <1>8, <1>9, <1>10 DEF TestGate

LEMMA AttemptFailedType ==
    ASSUME SessionType, NEW m \in TaskStates, NEW last, AttemptFailed(m, last)
    PROVE  EndType
  <1> USE DEF SessionType, EndType, MoveType
  <1>1. CASE FailSaved(m)
    BY <1>1, FailSavedType
  <1>2. CASE Unsaved("fixer", m) /\ loc' = [loc EXCEPT !.validation_only = FALSE]
    BY <1>2, UnsavedType, PutLocal DEF Locations
  <1> QED
    BY <1>1, <1>2 DEF AttemptFailed

LEMMA GatesDoneType ==
    ASSUME SessionType, GatesDone
    PROVE  SessionType'
  <1> USE DEF SessionType, EndType, MoveType
  <1>0. UNCHANGED work
    BY DEF GatesDone
  <1>1. CASE FailSaved(mem)
    BY <1>0, <1>1, FailSavedType
  <1>2. CASE EndSession(IF mem.files_changed THEN "done" ELSE "incomplete",
                        [mem EXCEPT !.done = mem.files_changed])
    <2>1. [mem EXCEPT !.done = mem.files_changed] \in TaskStates
      BY GetFlag, PutGate
    <2> QED
      BY <1>0, <1>2, <2>1, EndSessionType DEF Exits
  <1>3. ASSUME NEW l \in {"build_loop", "step_done"}, Goto(l), UNCHANGED loc
        PROVE  SessionType'
    BY <1>0, <1>3, GotoType DEF Locations
  <1>4. ASSUME NEW l \in {"final_validate", "loop_head", "accept"},
               Saved(l, PassedFinalGate(mem)), UNCHANGED loc
        PROVE  SessionType'
    BY <1>0, <1>4, SavedType, PassedFinalGateType DEF Locations
  <1>5. CASE Goto("accept") /\ UNCHANGED loc
    BY <1>0, <1>5, GotoType DEF Locations
  <1> QED
    BY <1>1, <1>2, <1>3, <1>4, <1>5 DEF GatesDone

LEMMA LoopHeadType ==
    ASSUME SessionType, LoopHead
    PROVE  SessionType'
  <1> USE DEF SessionType, EndType, MoveType
  <1> DEFINE resolved == [AttemptStarted EXCEPT !.test_execution_gate_records = @ /\ work.gated]
  <1>0. UNCHANGED work
    BY DEF LoopHead
  <1>1. AttemptStarted \in TaskStates
    BY AttemptStartedType
  <1>2. resolved \in TaskStates
    <2> DEFINE a == AttemptStarted
    <2> HIDE DEF a
    <2>1. (a.test_execution_gate_records /\ work.gated) \in BOOLEAN
      OBVIOUS
    <2>2. [a EXCEPT !.test_execution_gate_records = @ /\ work.gated] \in TaskStates
      BY <1>1, <2>1, PutGate DEF a
    <2> QED
      BY <2>2 DEF a
  <1>3. CASE FailSaved(mem)
    BY <1>0, <1>3, FailSavedType
  <1>4. CASE AttemptFailed(AttemptStarted, ValidationOnly)
    BY <1>0, <1>1, <1>4, AttemptFailedType
  <1>5. CASE /\ pc' = IF mem.build_synced THEN "build" ELSE "sync"
             /\ mem' = resolved
             /\ disk' = IF ValidationOnly THEN AttemptStarted ELSE disk
             /\ loc' = [loc EXCEPT !.validation_only = ValidationOnly]
             /\ UNCHANGED exit
    <2>1. ValidationOnly \in BOOLEAN
      BY DEF ValidationOnly
    <2> HIDE DEF resolved
    <2> QED
      BY <1>0, <1>1, <1>2, <1>5, <2>1, PutLocal DEF Locations
  <1> QED
    BY <1>3, <1>4, <1>5 DEF LoopHead

LEMMA SyncType ==
    ASSUME SessionType, Sync
    PROVE  SessionType'
  <1> USE DEF SessionType, EndType, MoveType
  <1> DEFINE m(adopted) == IF adopted THEN StaleAllGates(RecordFiles(mem, {"code"})) ELSE mem
  <1>1. PICK ok \in BOOLEAN, adopted \in BOOLEAN :
           /\ \/ /\ ok
                 /\ Saved("build", [m(adopted) EXCEPT !.build_synced = TRUE])
                 /\ loc' = [loc EXCEPT !.code_changed = @ \/ adopted]
              \/ /\ ~ok /\ loc.validation_only
                 /\ FailSaved(m(adopted))
              \/ /\ ~ok /\ ~loc.validation_only
                 /\ Saved("fixer", m(adopted))
                 /\ loc' = [loc EXCEPT !.code_changed = @ \/ adopted]
           /\ work' = [(IF adopted THEN Touch(work, "sync", Gates) ELSE work)
                       EXCEPT !.unsynced = IF ok THEN {} ELSE @]
    BY DEF Sync
  <1>2. m(adopted) \in TaskStates
    BY RecordFilesType, StaleAllGatesType
  <1> HIDE DEF m
  <1>3. work' \in Worktrees
    <2> DEFINE w == IF adopted THEN Touch(work, "sync", Gates) ELSE work
    <2>1. w \in Worktrees
      BY TouchType, OriginsListed
    <2> HIDE DEF w
    <2>2. (IF ok THEN {} ELSE w.unsynced) \in SUBSET Origins
      BY <2>1, WorkType
    <2>3. [w EXCEPT !.unsynced = IF ok THEN {} ELSE @] \in Worktrees
      BY <2>1, <2>2, PutUnsynced
    <2> QED
      BY <1>1, <2>3 DEF w
  <1>4. [loc EXCEPT !.code_changed = @ \/ adopted] \in Locals
    <2> (loc.code_changed \/ adopted) \in BOOLEAN
      OBVIOUS
    <2> QED
      BY PutLocal
  <1>5. CASE Saved("build", [m(adopted) EXCEPT !.build_synced = TRUE])
             /\ loc' = [loc EXCEPT !.code_changed = @ \/ adopted]
    BY <1>2, <1>3, <1>4, <1>5, SavedType, PutGate DEF Locations
  <1>6. CASE FailSaved(m(adopted))
    BY <1>2, <1>3, <1>6, FailSavedType
  <1>7. CASE Saved("fixer", m(adopted))
             /\ loc' = [loc EXCEPT !.code_changed = @ \/ adopted]
    BY <1>2, <1>3, <1>4, <1>7, SavedType DEF Locations
  <1> QED
    BY <1>1, <1>5, <1>6, <1>7

LEMMA CheckType ==
    ASSUME SessionType, Check
    PROVE  SessionType'
  <1> USE DEF SessionType, EndType, MoveType
  <1>1. /\ Looked(work, "validation") \in Worktrees
        /\ Autofixed(Looked(work, "validation")) \subseteq Worktrees
        /\ Autofixed(work) \subseteq Worktrees
    BY LookedType, AutofixedType, OriginsListed
  <1>2. work' \in Worktrees
    BY <1>1 DEF Check
  <1>3. CASE Goto("post") /\ UNCHANGED loc
    BY <1>2, <1>3, GotoType DEF Locations
  <1>4. ASSUME NEW l \in {"post", "fixer"}, Saved(l, mem), UNCHANGED loc
        PROVE  SessionType'
    BY <1>2, <1>4, SavedType DEF Locations
  <1>5. CASE FailSaved(mem)
    BY <1>2, <1>5, FailSavedType
  <1> QED
    BY <1>3, <1>4, <1>5 DEF Check

LEMMA FixerType ==
    ASSUME SessionType, Fixer
    PROVE  SessionType'
  <1> USE DEF SessionType, EndType, MoveType
  <1>0. FixerRan \in Worktrees
    BY FixerRanType
  <1>1. ASSUME NEW wrote \in FixerWrites,
               Saved("fixer_returned", RecordFiles(mem, wrote)),
               loc' = [loc EXCEPT !.wrote = wrote],
               work' = FixerRan
        PROVE  SessionType'
    <2>1. wrote \in SUBSET Writes
      BY DEF FixerWrites, Writes
    <2> QED
      BY <1>0, <1>1, <2>1, SavedType, RecordFilesType, PutFiles DEF Locations
  <1>2. ASSUME NEW wrote, FailSaved(FixerEffects(RecordFiles(mem, wrote), wrote)),
               work' = KeptLost(FixerTouched(FixerRan, wrote))
        PROVE  SessionType'
    BY <1>0, <1>2, FailSavedType, FixerEffectsType, RecordFilesType,
       KeptLostType, FixerTouchedType
  <1>3. CASE /\ FailSaved(mem)
             /\ work' \in {KeptLost(FixerRan), Lost(KeptLost(FixerRan), "lost_fixer")}
    BY <1>0, <1>3, FailSavedType, KeptLostType, LostType, OriginsListed
  <1> QED
    BY <1>1, <1>2, <1>3 DEF Fixer

LEMMA RetryFixerType ==
    ASSUME SessionType, RetryFixer
    PROVE  SessionType'
  <1> USE DEF SessionType, EndType, MoveType
  <1>1. PICK kept \in {{}, loc.wrote} : \E gated \in GatesAfter(kept) :
           /\ Saved("fixer", RecordGates(mem, gated))
           /\ loc' = [loc EXCEPT !.kept = kept, !.wrote = {}, !.retry = TRUE]
           /\ work' = [work EXCEPT !.gated = gated]
    BY DEF RetryFixer
  <1>2. PICK gated \in BOOLEAN :
           /\ Saved("fixer", RecordGates(mem, gated))
           /\ loc' = [loc EXCEPT !.kept = kept, !.wrote = {}, !.retry = TRUE]
           /\ work' = [work EXCEPT !.gated = gated]
    BY <1>1, GatesAfterType
  <1>3. MoveType
    BY <1>2, SavedType, RecordGatesType DEF Locations
  <1>4. loc' \in Locals
    <2>1. kept \in SUBSET Writes
      BY LocalsType
    <2> QED
      BY <1>2, <2>1, PutFiles, PutLocal
  <1>5. work' \in Worktrees
    BY <1>2, PutWork
  <1> QED
    BY <1>3, <1>4, <1>5

LEMMA FixerHandledType ==
    ASSUME SessionType, FixerHandled
    PROVE  SessionType'
  <1> USE DEF SessionType, EndType, MoveType
  <1> DEFINE all == loc.wrote \cup loc.kept
  <1>1. PICK gated \in BOOLEAN :
           /\ Saved("loop_head", FixerEffects(RecordGates(mem, gated), all))
           /\ loc' = [loc EXCEPT !.wrote = {}, !.kept = {}, !.retry = FALSE,
                                 !.code_changed = @ \/ all # {}]
           /\ work' = [FixerTouched(work, all) EXCEPT !.gated = gated]
    BY GatesAfterType DEF FixerHandled
  <1>2. MoveType
    BY <1>1, SavedType, FixerEffectsType, RecordGatesType DEF Locations
  <1>3. loc' \in Locals
    <2> DEFINE l == [loc EXCEPT !.wrote = {}, !.kept = {}, !.retry = FALSE]
    <2>1. l \in Locals
      BY PutFiles, PutLocal
    <2>2. loc' = [l EXCEPT !.code_changed = @ \/ all # {}]
      BY <1>1
    <2> HIDE DEF l
    <2>3. (l.code_changed \/ all # {}) \in BOOLEAN
      OBVIOUS
    <2> QED
      BY <2>1, <2>2, <2>3, PutLocal
  <1>4. work' \in Worktrees
    BY <1>1, FixerTouchedType, PutWork
  <1> QED
    BY <1>2, <1>3, <1>4

LEMMA ValidateType ==
    ASSUME SessionType, Validate
    PROVE  SessionType'
  <1> USE DEF SessionType, EndType, MoveType
  <1>1. CASE BuildLoop
    <2>1. CASE Goto("loop_head") /\ UNCHANGED work
      BY <1>1, <2>1, GotoType DEF BuildLoop, Locations
    <2>2. CASE /\ Saved("loop_head",
                        [mem EXCEPT !.build_loop_key = BuildLoopKey(mem),
                                    !.build_loop_start_iteration = mem.build_iterations])
               /\ work' = [work EXCEPT !.fixes = 0]
      <3>1. mem.build_iterations \in Nat
        BY GetNumber
      <3>2. [mem EXCEPT !.build_loop_key = BuildLoopKey(mem),
                        !.build_loop_start_iteration = mem.build_iterations] \in TaskStates
        BY <3>1, LoopKeyType, PutLoopKey, PutNumber
      <3> QED
        BY <1>1, <2>2, <3>2, SavedType, PutFixes DEF BuildLoop, Locations
    <2> QED
      BY <1>1, <2>1, <2>2 DEF BuildLoop
  <1>2. CASE Build
    <2>1. CASE Unsaved("test", [mem EXCEPT !.fixer_changed_code = FALSE]) /\ UNCHANGED loc
      BY <1>2, <2>1, UnsavedType, PutGate, PutProgress DEF Build, Locations
    <2>2. CASE AttemptFailed(mem, loc.validation_only)
      BY <1>2, <2>2, AttemptFailedType DEF Build
    <2> QED
      BY <1>2, <2>1, <2>2 DEF Build
  <1>3. CASE Test
    BY <1>3, GotoType, AttemptFailedType DEF Test, Locations
  <1>4. CASE PostValidation
    <2>1. CASE /\ Goto("review")
               /\ loc' = [loc EXCEPT !.ctx = "post",
                                     !.review_before = mem.review_iterations,
                                     !.security_before = mem.security_review_iterations]
      <3>1. MoveType
        BY <2>1, GotoType DEF Locations
      <3>2. mem.review_iterations \in Nat /\ mem.security_review_iterations \in Nat
        BY GetNumber
      <3>3. loc' \in Locals
        BY <2>1, <3>2 DEF Locals
      <3> QED
        BY <1>4, <3>1, <3>3 DEF PostValidation
    <2>2. CASE Goto("accept") /\ UNCHANGED loc
      BY <1>4, <2>2, GotoType DEF PostValidation, Locations
    <2> QED
      BY <1>4, <2>1, <2>2 DEF PostValidation
  <1>5. CASE Accept
    <2> DEFINE m == [mem EXCEPT !.build_loop_key = NoKey, !.build_loop_start_iteration = 0]
    <2>1. m \in TaskStates /\ [m EXCEPT !.done = TRUE] \in TaskStates
      BY LoopKeyType, PutLoopKey, PutNumber, PutGate
    <2> HIDE DEF m
    <2>2. CASE EndSession("done", [m EXCEPT !.done = TRUE])
      BY <1>5, <2>1, <2>2, EndSessionType DEF Accept, Exits
    <2>3. CASE Saved("step_done", m) /\ UNCHANGED loc
      BY <1>5, <2>1, <2>3, SavedType DEF Accept, Locations
    <2> QED
      BY <1>5, <2>2, <2>3 DEF Accept, m
  <1> QED
    BY <1>1, <1>2, <1>3, <1>4, <1>5, GatesDoneType, LoopHeadType, SyncType,
       CheckType, FixerType, RetryFixerType, FixerHandledType DEF Validate

LEMMA PlanStepsType ==
    ASSUME SessionType, PlanSteps
    PROVE  SessionType'
  <1> USE DEF SessionType, EndType, MoveType
  <1>1. CASE StepDone
    <2>1. AdvanceStep(mem) \in TaskStates
      BY AdvanceStepType
    <2>2. [AdvanceStep(mem) EXCEPT !.active_scope = NoScope] \in TaskStates
      BY <2>1, PutScope
    <2>3. CASE /\ pc' = "implement"
               /\ disk' = AdvanceStep(mem)
               /\ mem' = [AdvanceStep(mem) EXCEPT !.active_scope = NoScope]
               /\ loc' = [loc EXCEPT !.ctx = "step"]
               /\ UNCHANGED exit
      BY <1>1, <2>1, <2>2, <2>3, PutContext DEF StepDone, Locations
    <2>4. CASE Saved("after_plan", CompletePlan(mem)) /\ UNCHANGED loc
      BY <1>1, <2>4, SavedType, CompletePlanType DEF StepDone, Locations
    <2> QED
      BY <1>1, <2>3, <2>4 DEF StepDone
  <1>2. CASE AfterPlan
    <2>0. UNCHANGED work
      BY <1>2 DEF AfterPlan
    <2>1. CASE FailSaved(mem)
      BY <2>0, <2>1, FailSavedType
    <2>2. CASE /\ Saved("build_loop", [mem EXCEPT !.active_scope = FinalScope])
               /\ UNCHANGED loc
      BY <2>0, <2>2, SavedType, PutScope DEF Locations
    <2>3. CASE /\ Saved("review", OpenFinalGate(cfg, mem))
               /\ loc' = [loc EXCEPT !.ctx = "final"]
      BY <2>0, <2>3, SavedType, OpenFinalGateType, PutContext DEF Locations
    <2>4. CASE Goto("final_validate") /\ UNCHANGED loc
      BY <2>0, <2>4, GotoType DEF Locations
    <2> QED
      BY <1>2, <2>1, <2>2, <2>3, <2>4 DEF AfterPlan
  <1>3. CASE FinalValidate
    <2>0. UNCHANGED work
      BY <1>3 DEF FinalValidate
    <2>1. CASE /\ Saved("build_loop", [mem EXCEPT !.active_scope = FinalScope])
               /\ UNCHANGED loc
      BY <2>0, <2>1, SavedType, PutScope DEF Locations
    <2>2. CASE FailSaved(mem)
      BY <2>0, <2>2, FailSavedType
    <2>3. CASE EndSession("done", [mem EXCEPT !.done = TRUE])
      BY <2>0, <2>3, EndSessionType, PutGate DEF Exits
    <2> QED
      BY <1>3, <2>1, <2>2, <2>3 DEF FinalValidate
  <1> QED
    BY <1>1, <1>2, <1>3 DEF PlanSteps

(* What a kill leaves behind is a worktree.                                *)
LEMMA LeftBehindType ==
    ASSUME SessionType PROVE LeftBehind \subseteq Worktrees
  <1>0. work \in Worktrees
    BY DEF SessionType
  <1>1. FixerRan \in Worktrees /\ KeptLost(FixerRan) \in Worktrees
    BY <1>0, FixerRanType, KeptLostType
  <1>2. CASE pc \in {"implement", "review_fix", "security_fix"}
    BY <1>0, <1>2, LostType, OriginsListed DEF LeftBehind
  <1>3. CASE pc = "fixer"
    BY <1>1, <1>3, LostType, OriginsListed DEF LeftBehind
  <1>4. CASE pc = "test_writer"
    BY <1>0, <1>4, PutWork DEF LeftBehind
  <1>5. CASE pc = "sync"
    BY <1>0, <1>5, TouchType, OriginsListed DEF LeftBehind
  <1>6. CASE pc = "check"
    BY <1>0, <1>6, AutofixedType DEF LeftBehind
  <1>7. CASE pc \notin {"implement", "review_fix", "security_fix", "fixer",
                        "test_writer", "sync", "check"}
    BY <1>0, <1>7 DEF LeftBehind
  <1> QED
    BY <1>2, <1>3, <1>4, <1>5, <1>6, <1>7

LEMMA UnhandledType ==
    ASSUME SessionType PROVE Unhandled \in Worktrees
  BY TouchType, NeedsSyncType, KeptLostType, OriginsListed DEF Unhandled, SessionType

LEMMA CrashType ==
    ASSUME SessionType, Crash
    PROVE  SessionType'
  <1>1. work' \in Worktrees
    BY LeftBehindType, UnhandledType DEF Crash
  <1> QED
    BY <1>1, NoLocalsType DEF Crash, SessionType, Locations, Exits

LEMMA ResetFailedType ==
    ASSUME SessionType, ResetFailed
    PROVE  SessionType'
  <1>1. disk' \in TaskStates
    BY ResetFailedStateType DEF ResetFailed, SessionType
  <1>2. work' \in Worktrees
    BY AdoptedType DEF ResetFailed, SessionType
  <1> QED
    BY <1>1, <1>2 DEF ResetFailed, SessionType, Exits
-----------------------------------------------------------------------------
(* Every reachable state of the orchestrator is well typed, whatever the   *)
(* configurations and the bounds: in particular counters never go below    *)
(* zero and kills and resets keep to their bounds.                         *)
THEOREM TypeCorrect == Spec => []TypeOK
  <1>1. Init => TypeOK
    <2> SUFFICES ASSUME Init PROVE TypeOK
      OBVIOUS
    <2>1. cfg \in Configs /\ NewTask(cfg) \in TaskStates
      BY ConfigsAssumption, NewTaskType DEF Init
    <2> QED
      BY <2>1, NoLocalsType, UntouchedType, BoundsAssumption
      DEF Init, TypeOK, Locations, Exits
  <1>2. TypeOK /\ [Next]_vars => TypeOK'
    <2> SUFFICES ASSUME TypeOK, [Next]_vars PROVE TypeOK'
      OBVIOUS
    <2>0. SessionType /\ cfg \in Config
      BY ConfigsAssumption DEF TypeOK, SessionType
    <2>1. CASE Session
      <3>1. SessionType'
        BY <2>0, <2>1, PrepareType, ImplementStepType, ReviewGatesType, TestGateType,
           ValidateType, PlanStepsType DEF Session
      <3> QED
        BY <2>1, <3>1 DEF TypeOK, SessionType, Session
    <2>2. CASE Invoke
      <3>1. SessionType'
        BY <2>0, <2>2, InvokeType DEF Invoke
      <3> QED
        BY <2>2, <3>1 DEF TypeOK, SessionType, Invoke
    <2>3. CASE Crash
      <3>1. SessionType'
        BY <2>0, <2>3, CrashType
      <3>2. crashes' \in 0..MaxCrashes
        BY <2>3, BoundsAssumption DEF TypeOK, Crash
      <3> QED
        BY <2>3, <3>1, <3>2 DEF TypeOK, SessionType, Crash
    <2>4. CASE ResetFailed
      <3>1. SessionType'
        BY <2>0, <2>4, ResetFailedType
      <3>2. resets' \in 0..MaxResets
        BY <2>4, BoundsAssumption DEF TypeOK, ResetFailed
      <3> QED
        BY <2>4, <3>1, <3>2 DEF TypeOK, SessionType, ResetFailed
    <2>5. CASE UNCHANGED vars
      BY <2>5 DEF vars, TypeOK
    <2> QED
      BY <2>1, <2>2, <2>3, <2>4, <2>5 DEF Next
  <1> QED
    BY <1>1, <1>2, PTL DEF Spec

(***************************************************************************)
(* Both properties of a session follow from one inductive invariant.       *)
(***************************************************************************)

(* No session runs on a terminal task, in memory or on disk, and between   *)
(* sessions nothing is left in memory only.                                *)
OpenSession ==
    /\ pc = "idle" => mem = disk
    /\ pc # "idle" => ~mem.done /\ ~mem.failed /\ ~disk.done /\ ~disk.failed
    /\ ~(disk.done /\ disk.failed)

(* While a test writer may be writing, and until its files are audited or  *)
(* restored, the marker is set in memory and on disk.                      *)
AuditMarked ==
    work.interrupted_tests \/ pc = "test_writer" =>
      mem.test_writer_audit # "none" /\ disk.test_writer_audit # "none"

IInv == TypeOK /\ OpenSession /\ AuditMarked

(* A step of a running session that is not about the test writer either    *)
(* continues the session or ends it.                                       *)
Quiet(w) == w.interrupted_tests = work.interrupted_tests

Continues ==
    /\ pc' \notin {"idle", "test_writer"}
    /\ Agree(mem', mem)
    /\ Agree(disk', disk) \/ Agree(disk', mem)
    /\ Quiet(work')

Ends ==
    /\ pc' = "idle"
    /\ mem' = disk'
    /\ disk'.test_writer_audit = mem.test_writer_audit
    /\ ~(disk'.done /\ disk'.failed)
    /\ Quiet(work')

LEMMA Preserved ==
    ASSUME OpenSession, AuditMarked, pc # "idle", Continues \/ Ends
    PROVE  OpenSession' /\ AuditMarked'
  <1>1. CASE Continues
    BY <1>1 DEF OpenSession, AuditMarked, Continues, Agree, Quiet
  <1>2. CASE Ends
    BY <1>2 DEF OpenSession, AuditMarked, Ends, Quiet
  <1> QED
    BY <1>1, <1>2
-----------------------------------------------------------------------------
LEMMA AgreeRefl == \A m : Agree(m, m)
  BY DEF Agree

LEMMA AgreeTrans ==
    ASSUME NEW a, NEW b, NEW c, Agree(a, b), Agree(b, c) PROVE Agree(a, c)
  BY DEF Agree

(* The ghost operators that do not concern the test writer.                *)
LEMMA TouchQuiet ==
    ASSUME NEW w \in Worktrees, NEW o, NEW gs
    PROVE  Touch(w, o, gs).interrupted_tests = w.interrupted_tests
  BY DEF Touch, Worktrees

LEMMA LostQuiet ==
    ASSUME NEW w \in Worktrees, NEW o \in Origins
    PROVE  Lost(w, o).interrupted_tests = w.interrupted_tests
  <1> DEFINE t == Touch(w, o, Gates)
  <1>1. t \in Worktrees /\ t.interrupted_tests = w.interrupted_tests
    BY TouchType, TouchQuiet
  <1> HIDE DEF t
  <1>2. [t EXCEPT !.unrecorded = TRUE].interrupted_tests = t.interrupted_tests
    BY <1>1 DEF Worktrees
  <1> QED
    BY <1>1, <1>2 DEF Lost, t

LEMMA NeedsSyncQuiet ==
    ASSUME NEW w \in Worktrees, NEW o, NEW wrote
    PROVE  NeedsSync(w, o, wrote).interrupted_tests = w.interrupted_tests
  BY DEF NeedsSync, Worktrees

LEMMA LookedQuiet ==
    ASSUME NEW w \in Worktrees, NEW g
    PROVE  Looked(w, g).interrupted_tests = w.interrupted_tests
  BY DEF Looked, Worktrees

LEMMA ApprovesQuiet ==
    ASSUME NEW w \in Worktrees, NEW m
    PROVE  Approves(w, m).interrupted_tests = w.interrupted_tests
  <1> DEFINE l == Looked(w, "review")
  <1>1. l \in Worktrees /\ l.interrupted_tests = w.interrupted_tests
    BY LookedType, LookedQuiet, OriginsListed
  <1> HIDE DEF l
  <1>2. [l EXCEPT !.full_review = @ \/ m.active_scope = FinalScope].interrupted_tests
          = l.interrupted_tests
    BY <1>1 DEF Worktrees
  <1> QED
    BY <1>1, <1>2 DEF Approves, l

LEMMA AdoptedQuiet == ASSUME work \in Worktrees PROVE Quiet(Adopted)
  BY DEF Adopted, Quiet, Worktrees

LEMMA FixerTouchedQuiet ==
    ASSUME NEW w \in Worktrees, NEW wrote
    PROVE  FixerTouched(w, wrote).interrupted_tests = w.interrupted_tests
  BY TouchType, TouchQuiet, NeedsSyncQuiet, OriginsListed DEF FixerTouched

LEMMA KeptLostQuiet ==
    ASSUME NEW w \in Worktrees
    PROVE  KeptLost(w).interrupted_tests = w.interrupted_tests
  BY TouchType, TouchQuiet, NeedsSyncQuiet, OriginsListed DEF KeptLost

LEMMA FixerRanQuiet == ASSUME work \in Worktrees PROVE Quiet(FixerRan)
  BY DEF FixerRan, Quiet, Worktrees

LEMMA AutofixedQuiet ==
    ASSUME NEW w \in Worktrees, NEW v \in Autofixed(w)
    PROVE  v.interrupted_tests = w.interrupted_tests
  BY TouchQuiet DEF Autofixed
-----------------------------------------------------------------------------
(* What the actions make of the task's state does not end it.              *)
LEMMA StateAgrees ==
    ASSUME NEW m \in TaskStates
    PROVE  /\ Agree(SecurityRejects(m), m)
           /\ Agree(CountSecurityFix(m), m)
           /\ Agree(PassedFinalGate(m), m)
           /\ \A gated : Agree(RecordGates(m, gated), m)
  <1>1. Agree(SecurityRejects(m), m)
    BY DEF SecurityRejects, Agree, TaskStates
  <1>2. Agree(CountSecurityFix(m), m)
    BY DEF CountSecurityFix, Agree, TaskStates
  <1>3. Agree(PassedFinalGate(m), m)
    BY DEF PassedFinalGate, Agree, TaskStates
  <1>4. ASSUME NEW gated PROVE Agree(RecordGates(m, gated), m)
    BY DEF RecordGates, Agree, TaskStates
  <1> QED
    BY <1>1, <1>2, <1>3, <1>4

LEMMA AttemptStartedAgrees ==
    ASSUME mem \in TaskStates PROVE Agree(AttemptStarted, mem)
  BY DEF AttemptStarted, Agree, TaskStates

LEMMA FixerEffectsAgrees ==
    ASSUME NEW m \in TaskStates, NEW wrote PROVE Agree(FixerEffects(m, wrote), m)
  BY MarkBuildSyncStaleType, MarkBuildSyncStaleAgrees, FixerChangeGateEffectsAgrees
  DEF FixerEffects, Agree

(* Replacing one field that is not about the outcome keeps the outcome.    *)
LEMMA PutAgrees ==
    ASSUME NEW m \in TaskStates, NEW v
    PROVE  /\ Agree([m EXCEPT !.presync_done = v], m)
           /\ Agree([m EXCEPT !.implementation_prompt = v], m)
           /\ Agree([m EXCEPT !.active_scope = v], m)
           /\ Agree([m EXCEPT !.step_implemented = v], m)
           /\ Agree([m EXCEPT !.review_approved = v], m)
           /\ Agree([m EXCEPT !.security_approved = v], m)
           /\ Agree([m EXCEPT !.review_iterations = v], m)
           /\ Agree([m EXCEPT !.tests_up_to_date = v], m)
           /\ Agree([m EXCEPT !.build_synced = v], m)
           /\ Agree([m EXCEPT !.fixer_changed_code = v], m)
           /\ Agree([m EXCEPT !.test_execution_gate_records = v], m)
  BY DEF Agree, TaskStates
-----------------------------------------------------------------------------
(* The ways a step moves on, once more.                                    *)
Elsewhere == Locations \ {"idle", "test_writer"}

LEMMA SavedContinues ==
    ASSUME NEW l \in Elsewhere, NEW m, Saved(l, m), Agree(m, mem), Quiet(work')
    PROVE  Continues
  BY DEF Saved, Continues, Elsewhere

LEMMA UnsavedContinues ==
    ASSUME NEW l \in Elsewhere, NEW m, Unsaved(l, m), Agree(m, mem), Quiet(work')
    PROVE  Continues
  BY AgreeRefl DEF Unsaved, Continues, Elsewhere

LEMMA GotoContinues ==
    ASSUME NEW l \in Elsewhere, Goto(l), Quiet(work')
    PROVE  Continues
  BY AgreeRefl, UnsavedContinues DEF Goto

LEMMA EndSessionEnds ==
    ASSUME NEW status, NEW d, EndSession(status, d), ~(d.done /\ d.failed),
           d.test_writer_audit = mem.test_writer_audit, Quiet(work')
    PROVE  Ends
  BY DEF EndSession, Ends

LEMMA FailSavedEnds ==
    ASSUME NEW m \in TaskStates, FailSaved(m), Agree(m, mem), ~mem.done, Quiet(work')
    PROVE  Ends
  <1>1. /\ Failed(m).done = m.done
        /\ Failed(m).test_writer_audit = m.test_writer_audit
    BY DEF Failed, TaskStates
  <1> QED
    BY <1>1, EndSessionEnds DEF FailSaved, Agree

LEMMA GateGivesUpEnds ==
    ASSUME NEW m \in TaskStates, GateGivesUp(m), Agree(m, mem), ~mem.done, Quiet(work')
    PROVE  Ends
  BY FailSavedEnds, EndSessionEnds DEF GateGivesUp, Agree

LEMMA AgentFailsEnds ==
    ASSUME SessionType, NEW o \in Origins, AgentFails(mem, o), ~mem.done
    PROVE  Ends
  <1>1. Quiet(work')
    BY LostQuiet DEF AgentFails, SessionType, Quiet
  <1> QED
    BY <1>1, AgreeRefl, FailSavedEnds DEF AgentFails, SessionType

LEMMA ReadOnlyAgentFailsEnds ==
    ASSUME SessionType, ReadOnlyAgentFails, ~mem.done
    PROVE  Ends
  BY AgreeRefl, FailSavedEnds DEF ReadOnlyAgentFails, SessionType, Quiet

LEMMA DoneEnds ==
    ASSUME NEW m \in TaskStates, EndSession("done", [m EXCEPT !.done = TRUE]),
           Agree(m, mem), ~mem.failed, Quiet(work')
    PROVE  Ends
  <1>1. /\ [m EXCEPT !.done = TRUE].failed = m.failed
        /\ [m EXCEPT !.done = TRUE].test_writer_audit = m.test_writer_audit
    BY DEF TaskStates
  <1> QED
    BY <1>1, EndSessionEnds DEF Agree
-----------------------------------------------------------------------------
(* The actions of a running session, group by group: none of them but the  *)
(* test writer's own does more than continue or end the session.           *)
LEMMA PrepareKeeps ==
    ASSUME SessionType, ~mem.done, ~mem.failed, Prepare
    PROVE  Continues \/ Ends
  <1>0. mem \in TaskStates /\ Agree(mem, mem) /\ Quiet(work')
    BY AgreeRefl
    DEF SessionType, Prepare, CheckCoverage, RunPresync, Analyze, Plan, Dispatch, Quiet
  <1>1. CASE CheckCoverage
    BY <1>0, <1>1, FailSavedEnds, GotoContinues DEF CheckCoverage, Elsewhere, Locations
  <1>2. CASE RunPresync
    BY <1>0, <1>2, SavedContinues, GotoContinues, PutAgrees
    DEF RunPresync, Elsewhere, Locations
  <1>3. CASE Analyze
    BY <1>0, <1>3, SavedContinues, GotoContinues, PutAgrees, FailSavedEnds
    DEF Analyze, Elsewhere, Locations
  <1>4. CASE Plan
    <2>1. CASE Goto("dispatch")
      BY <1>0, <2>1, GotoContinues DEF Elsewhere, Locations
    <2>2. ASSUME NEW n \in 0..MaxSteps,
                 Saved("dispatch", [mem EXCEPT !.plan = n, !.plan_decided = TRUE,
                                               !.step_files_changed = FALSE])
          PROVE  Continues
      <3>1. Agree([mem EXCEPT !.plan = n, !.plan_decided = TRUE,
                              !.step_files_changed = FALSE], mem)
        BY <1>0 DEF Agree, TaskStates
      <3> QED
        BY <1>0, <2>2, <3>1, SavedContinues DEF Elsewhere, Locations
    <2>3. CASE FailSaved(mem)
      BY <1>0, <2>3, FailSavedEnds
    <2> QED
      BY <1>4, <2>1, <2>2, <2>3 DEF Plan
  <1>5. CASE Dispatch
    BY <1>0, <1>5, UnsavedContinues, GotoContinues, PutAgrees
    DEF Dispatch, Elsewhere, Locations
  <1> QED
    BY <1>1, <1>2, <1>3, <1>4, <1>5 DEF Prepare

LEMMA ImplementStepKeeps ==
    ASSUME SessionType, ~mem.done, ~mem.failed, ImplementStep
    PROVE  Continues \/ Ends
  <1>0. mem \in TaskStates /\ work \in Worktrees /\ Agree(mem, mem)
    BY AgreeRefl DEF SessionType
  <1>1. CASE SkipImplement
    BY <1>0, <1>1, GotoContinues DEF SkipImplement, Elsewhere, Locations, Quiet
  <1>2. CASE Implement
    <2>1. ASSUME NEW wrote \in ImplementerWrites,
                 Saved("implemented", RecordFiles(mem, wrote)),
                 work' = IF wrote = {} THEN work
                         ELSE NeedsSync(Touch(work, "implementer", Gates),
                                        "implementer", wrote)
          PROVE  Continues
      <3>1. Quiet(work')
        BY <1>0, <2>1, TouchType, TouchQuiet, NeedsSyncQuiet, OriginsListed DEF Quiet
      <3> QED
        BY <1>0, <2>1, <3>1, RecordFilesAgrees, SavedContinues DEF Elsewhere, Locations
    <2>2. CASE AgentFails(mem, "lost_implementer")
      BY <2>2, AgentFailsEnds, OriginsListed
    <2> QED
      BY <1>2, <2>1, <2>2 DEF Implement
  <1>3. CASE TaskImplemented
    <2>1. Quiet(work')
      BY <1>0, <1>3, AdoptedQuiet DEF TaskImplemented, Quiet
    <2>2. CASE Goto("resume_check")
      BY <2>1, <2>2, GotoContinues DEF Elsewhere, Locations
    <2>3. CASE Unsaved("resume_check", RecordFiles(mem, {"code"}))
      BY <1>0, <2>1, <2>3, RecordFilesAgrees, UnsavedContinues DEF Elsewhere, Locations
    <2>4. CASE FailSaved(mem)
      BY <1>0, <2>1, <2>4, FailSavedEnds
    <2> QED
      BY <1>3, <2>2, <2>3, <2>4 DEF TaskImplemented
  <1>4. CASE StepImplemented
    <2> DEFINE m == [mem EXCEPT !.step_implemented = TRUE]
    <2>0. Quiet(work')
      BY <1>0, <1>4, AdoptedQuiet DEF StepImplemented, Quiet
    <2>1. m \in TaskStates /\ Agree(m, mem)
      BY <1>0, PutProgress, PutAgrees
    <2> HIDE DEF m
    <2>2. ASSUME NEW l \in Elsewhere, Saved(l, m) PROVE Continues
      BY <2>0, <2>1, <2>2, SavedContinues
    <2>3. CASE Saved("resume_check", RecordFiles(m, {"code"}))
      <3>1. Agree(RecordFiles(m, {"code"}), mem)
        BY <2>1, RecordFilesAgrees, AgreeTrans
      <3> QED
        BY <2>0, <2>3, <3>1, SavedContinues DEF Elsewhere, Locations
    <2>4. \/ Saved("resume_check", m)
          \/ Saved("resume_check", RecordFiles(m, {"code"}))
          \/ Saved("step_done", m)
      BY <1>4 DEF StepImplemented, m
    <2> QED
      BY <2>2, <2>3, <2>4 DEF Elsewhere, Locations
  <1>5. CASE ResumeCheck
    BY <1>0, <1>5, GotoContinues DEF ResumeCheck, Elsewhere, Locations, Quiet
  <1> QED
    BY <1>1, <1>2, <1>3, <1>4, <1>5 DEF ImplementStep

LEMMA FixGateKeeps ==
    ASSUME SessionType, ~mem.done, NEW fixing, NEW fixed \in Elsewhere,
           FixGate(fixing, fixed)
    PROVE  Continues \/ Ends
  <1>0. mem \in TaskStates /\ work \in Worktrees
    BY DEF SessionType
  <1>1. ASSUME NEW wrote \in ImplementerWrites,
               Saved(fixed, RecordFiles(mem, wrote)),
               work' = IF wrote = {} THEN work
                       ELSE Touch(work, "implementer", Gates \ {"tests"})
        PROVE  Continues
    <2>1. Quiet(work')
      BY <1>0, <1>1, TouchQuiet DEF Quiet
    <2> QED
      BY <1>0, <1>1, <2>1, RecordFilesAgrees, SavedContinues
  <1>2. CASE AgentFails(mem, "lost_implementer")
    BY <1>2, AgentFailsEnds, OriginsListed
  <1> QED
    BY <1>1, <1>2 DEF FixGate

LEMMA GateFixHandledKeeps ==
    ASSUME SessionType, NEW fixed, GateFixHandled(fixed)
    PROVE  Continues
  <1>0. mem \in TaskStates /\ work \in Worktrees
    BY DEF SessionType
  <1> DEFINE m == MarkBuildSyncStale(mem, loc.wrote)
             r == [m EXCEPT !.tests_up_to_date = @ /\ ~(loc.wrote # {})]
  <1>1. Agree(r, mem)
    <2>1. m \in TaskStates /\ Agree(m, mem)
      BY <1>0, MarkBuildSyncStaleType, MarkBuildSyncStaleAgrees
    <2> HIDE DEF m
    <2>2. Agree(r, m)
      BY <2>1, PutAgrees
    <2> QED
      BY <2>1, <2>2, AgreeTrans
  <1>2. Quiet(work')
    BY <1>0, TouchType, TouchQuiet, NeedsSyncQuiet, OriginsListed
    DEF GateFixHandled, Quiet
  <1> HIDE DEF r
  <1>3. Saved("review", r)
    BY DEF GateFixHandled, r
  <1> QED
    BY <1>1, <1>2, <1>3, SavedContinues DEF Elsewhere, Locations

LEMMA ReviewGatesKeep ==
    ASSUME SessionType, ~mem.done, ~mem.failed, ReviewGates
    PROVE  Continues \/ Ends
  <1>0. mem \in TaskStates /\ work \in Worktrees /\ Agree(mem, mem)
    BY AgreeRefl DEF SessionType
  <1>1. CASE SkipReview
    BY <1>1, GotoContinues DEF SkipReview, Elsewhere, Locations, Quiet
  <1>2. CASE Review
    <2>1. CASE /\ Saved("security", [mem EXCEPT !.review_approved = TRUE])
               /\ work' = Approves(work, mem)
      BY <1>0, <2>1, SavedContinues, PutAgrees, ApprovesQuiet
      DEF Elsewhere, Locations, Quiet
    <2>2. CASE /\ pc' = "review_fix"
               /\ disk' = mem
               /\ mem' = [mem EXCEPT !.review_iterations = @ + 1]
               /\ UNCHANGED work
      BY <1>0, <2>2, PutAgrees DEF Continues, Quiet
    <2>3. CASE GateGivesUp(mem) /\ UNCHANGED work
      BY <1>0, <2>3, GateGivesUpEnds DEF Quiet
    <2>4. CASE ReadOnlyAgentFails
      BY <2>4, ReadOnlyAgentFailsEnds
    <2> QED
      BY <1>2, <2>1, <2>2, <2>3, <2>4 DEF Review
  <1>3. CASE ReviewFix
    BY <1>3, FixGateKeeps DEF ReviewFix, Elsewhere, Locations
  <1>4. CASE ReviewFixHandled
    BY <1>4, GateFixHandledKeeps DEF ReviewFixHandled
  <1>5. CASE SkipSecurity
    BY <1>5, GotoContinues DEF SkipSecurity, Elsewhere, Locations, Quiet
  <1>6. CASE SecurityReview
    <2>0. SecurityRejects(mem) \in TaskStates /\ Agree(SecurityRejects(mem), mem)
      BY <1>0, SecurityRejectsType, StateAgrees
    <2>1. CASE /\ Saved(IF loc.ctx = "task" THEN "fast_path" ELSE "tests",
                        [mem EXCEPT !.security_approved = TRUE])
               /\ work' = Looked(work, "security")
      BY <1>0, <2>1, SavedContinues, PutAgrees, LookedQuiet
      DEF Elsewhere, Locations, Quiet
    <2>2. CASE /\ pc' = "security_fix"
               /\ disk' = SecurityRejects(mem)
               /\ mem' = CountSecurityFix(SecurityRejects(mem))
               /\ UNCHANGED work
      <3>1. Agree(CountSecurityFix(SecurityRejects(mem)), SecurityRejects(mem))
        BY <2>0, StateAgrees
      <3>2. Agree(CountSecurityFix(SecurityRejects(mem)), mem)
        BY <2>0, <3>1, AgreeTrans
      <3> QED
        BY <2>0, <2>2, <3>2 DEF Continues, Quiet
    <2>3. CASE GateGivesUp(SecurityRejects(mem)) /\ UNCHANGED work
      BY <2>0, <2>3, GateGivesUpEnds DEF Quiet
    <2>4. CASE ReadOnlyAgentFails
      BY <2>4, ReadOnlyAgentFailsEnds
    <2> QED
      BY <1>6, <2>1, <2>2, <2>3, <2>4 DEF SecurityReview
  <1>7. CASE SecurityFix
    BY <1>7, FixGateKeeps DEF SecurityFix, Elsewhere, Locations
  <1>8. CASE SecurityFixHandled
    BY <1>8, GateFixHandledKeeps DEF SecurityFixHandled
  <1>9. CASE FastPath
    <2>0. Quiet(work')
      BY <1>9 DEF FastPath, Quiet
    <2>1. CASE EndSession("done", [mem EXCEPT !.done = TRUE])
      BY <1>0, <2>0, <2>1, DoneEnds
    <2>2. CASE FailSaved(mem)
      BY <1>0, <2>0, <2>2, FailSavedEnds
    <2>3. CASE Saved("tests", mem)
      BY <1>0, <2>0, <2>3, SavedContinues DEF Elsewhere, Locations
    <2>4. CASE Goto("tests")
      BY <2>0, <2>4, GotoContinues DEF Elsewhere, Locations
    <2> QED
      BY <1>9, <2>1, <2>2, <2>3, <2>4 DEF FastPath
  <1> QED
    BY <1>1, <1>2, <1>3, <1>4, <1>5, <1>6, <1>7, <1>8, <1>9 DEF ReviewGates
-----------------------------------------------------------------------------
(* The test gate: its writer sets the marker before it writes, and the     *)
(* audit clears it only when nothing of an interrupted writer remains.     *)
LEMMA MarkedByAudit ==
    ASSUME NEW m \in TaskStates
    PROVE  /\ BeginAudit(m).test_writer_audit = "running"
           /\ BeginAudit(m).done = m.done
           /\ BeginAudit(m).failed = m.failed
  BY DEF BeginAudit, TaskStates

LEMMA FailedFields ==
    ASSUME NEW m \in TaskStates
    PROVE  /\ Failed(m).failed
           /\ Failed(m).done = m.done
           /\ Failed(m).test_writer_audit = m.test_writer_audit
  BY DEF Failed, TaskStates

(* Whoever fails the task with the audit marker still set may leave        *)
(* anything behind; without it, nothing an interrupted writer wrote.       *)
LEMMA FailSavedKeeps ==
    ASSUME NEW m \in TaskStates, FailSaved(m), ~m.done,
           work'.interrupted_tests => m.test_writer_audit # "none"
    PROVE  OpenSession' /\ AuditMarked'
  BY FailedFields DEF FailSaved, EndSession, OpenSession, AuditMarked

LEMMA MarkedSavedKeeps ==
    ASSUME NEW l, l # "idle", NEW m, Saved(l, m), ~m.done, ~m.failed,
           m.test_writer_audit # "none"
    PROVE  OpenSession' /\ AuditMarked'
  BY DEF Saved, OpenSession, AuditMarked

LEMMA RetestContinues ==
    ASSUME NEW m \in TaskStates, NEW reviewed, Retest(m, reviewed),
           Agree(m, mem), Quiet(work')
    PROVE  Continues
  <1>1. Agree([m EXCEPT !.review_approved = FALSE, !.review_iterations = 0], m)
    BY DEF Agree, TaskStates
  <1>2. Agree([m EXCEPT !.security_approved = FALSE,
                        !.security_review_iterations = 0], m)
    BY DEF Agree, TaskStates
  <1>3. CASE Saved("retest_review", [m EXCEPT !.review_approved = FALSE,
                                              !.review_iterations = 0])
    BY <1>1, <1>3, AgreeTrans, SavedContinues DEF Elsewhere, Locations
  <1>4. CASE Saved("retest_security", [m EXCEPT !.security_approved = FALSE,
                                                !.security_review_iterations = 0])
    BY <1>2, <1>4, AgreeTrans, SavedContinues DEF Elsewhere, Locations
  <1>5. CASE Unsaved("gates_done", m)
    BY <1>5, UnsavedContinues DEF Elsewhere, Locations
  <1> QED
    BY <1>3, <1>4, <1>5 DEF Retest

LEMMA TestsRemainField ==
    ASSUME NEW w \in Worktrees, NEW wrote, NEW gated \in BOOLEAN
    PROVE  ~[TestsRemain(w, wrote, gated) EXCEPT !.interrupted_tests = FALSE].interrupted_tests
  BY TestsRemainType DEF Worktrees

LEMMA TestGateKeeps ==
    ASSUME SessionType, OpenSession, AuditMarked, pc # "idle", TestGate
    PROVE  OpenSession' /\ AuditMarked'
  <1>0. /\ mem \in TaskStates /\ work \in Worktrees /\ Agree(mem, mem)
        /\ ~mem.done /\ ~mem.failed
    BY AgreeRefl DEF SessionType, OpenSession
  <1>1. CASE SkipTests
    <2>1. Quiet(work')
      BY <1>1 DEF SkipTests, Quiet
    <2>2. CASE FailSaved(mem)
      BY <1>0, <2>1, <2>2, FailSavedEnds, Preserved
    <2>3. CASE Goto("tests_done")
      BY <2>1, <2>3, GotoContinues, Preserved DEF Elsewhere, Locations
    <2> QED
      BY <1>1, <2>2, <2>3 DEF SkipTests
  <1>2. CASE BeginTestWriting
    <2>1. CASE Saved("test_writer", BeginAudit(mem))
      BY <1>0, <2>1, MarkedByAudit, MarkedSavedKeeps
    <2>2. CASE FailSaved(mem) /\ UNCHANGED work
      BY <1>0, <2>2, FailSavedEnds, Preserved DEF Quiet
    <2>3. CASE Goto("test_audit") /\ UNCHANGED work
      BY <2>3, GotoContinues, Preserved DEF Elsewhere, Locations, Quiet
    <2> QED
      BY <1>2, <2>1, <2>2, <2>3 DEF BeginTestWriting
  <1>3. CASE TestWriter
    <2>0. mem.test_writer_audit # "none"
      BY <1>3 DEF TestWriter, AuditMarked
    <2>1. ASSUME NEW wrote, Saved("test_written", [RecordFiles(mem, wrote)
                                                   EXCEPT !.tests_up_to_date = TRUE])
          PROVE  OpenSession' /\ AuditMarked'
      <3> DEFINE r == RecordFiles(mem, wrote)
      <3>1. r \in TaskStates /\ Agree(r, mem)
        BY <1>0, RecordFilesType, RecordFilesAgrees
      <3> HIDE DEF r
      <3>2. Agree([r EXCEPT !.tests_up_to_date = TRUE], mem)
        BY <3>1, PutAgrees, AgreeTrans
      <3>3. Saved("test_written", [r EXCEPT !.tests_up_to_date = TRUE])
        BY <2>1 DEF r
      <3> QED
        BY <1>0, <2>0, <3>2, <3>3, MarkedSavedKeeps DEF Agree
    <2>2. CASE FailSaved(mem)
      BY <1>0, <2>0, <2>2, FailSavedKeeps
    <2> QED
      BY <1>3, <2>1, <2>2 DEF TestWriter
  <1>4. CASE RecordAuditFiles
    <2> DEFINE m == [mem EXCEPT !.test_writer_audit = "completed",
                                !.test_writer_audit_files_written = loc.wrote]
    <2>1. m.done = mem.done /\ m.failed = mem.failed /\ m.test_writer_audit = "completed"
      BY <1>0 DEF TaskStates
    <2>2. Saved("test_audit", m)
      BY <1>4 DEF RecordAuditFiles
    <2> HIDE DEF m
    <2> QED
      BY <1>0, <2>1, <2>2, MarkedSavedKeeps
  <1>5. CASE RetryTestWriter
    <2>1. PICK gated : Saved("test_writer", BeginAudit(RecordGates(mem, gated)))
      BY <1>5 DEF RetryTestWriter
    <2>2. RecordGates(mem, gated) \in TaskStates /\ Agree(RecordGates(mem, gated), mem)
      BY <1>0, RecordGatesType, StateAgrees
    <2> QED
      BY <1>0, <2>1, <2>2, MarkedByAudit, MarkedSavedKeeps DEF Agree
  <1>6. CASE FinishAudit
    <2> DEFINE Finished(remaining, gated) ==
             LET all == remaining \cup loc.kept
                 m   == [RecordGates(mem, gated)
                         EXCEPT !.test_writer_audit = "none",
                                !.test_writer_audit_files_written = {}]
             IN  /\ work' = [TestsRemain(work, remaining, gated)
                             EXCEPT !.interrupted_tests = FALSE]
                 /\ IF ~cfg.run_build /\ gated
                    THEN FailSaved(m)
                    ELSE /\ pc' = "tests_done"
                         /\ disk' = m
                         /\ mem' = MarkBuildSyncStale(m, all)
    <2>0. PICK remaining \in {{}, loc.wrote} :
             \E gated \in GatesAfter(remaining) : Finished(remaining, gated)
      BY <1>6 DEF FinishAudit
    <2> HIDE DEF Finished
    <2>1. PICK gated \in BOOLEAN : Finished(remaining, gated)
      BY <2>0, GatesAfterType
    <2> DEFINE all == remaining \cup loc.kept
               g   == RecordGates(mem, gated)
               m   == [g EXCEPT !.test_writer_audit = "none",
                                !.test_writer_audit_files_written = {}]
    <2>2. g \in TaskStates /\ Agree(g, mem)
      BY <1>0, RecordGatesType, StateAgrees
    <2>3. ~work'.interrupted_tests
      BY <1>0, <2>1, TestsRemainField DEF Finished
    <2>4. \/ FailSaved(m)
          \/ pc' = "tests_done" /\ disk' = m /\ mem' = MarkBuildSyncStale(m, all)
      BY <2>1 DEF Finished
    <2> HIDE DEF g
    <2>5. m \in TaskStates /\ m.done = g.done /\ m.failed = g.failed
      <3>1. m \in TaskStates
        BY <2>2, PutAudit, PutAuditFiles
      <3> QED
        BY <2>2, <3>1 DEF TaskStates
    <2> HIDE DEF m
    <2>6. CASE FailSaved(m)
      BY <1>0, <2>2, <2>3, <2>5, <2>6, FailSavedKeeps DEF Agree
    <2>7. CASE pc' = "tests_done" /\ disk' = m /\ mem' = MarkBuildSyncStale(m, all)
      <3>1. Agree(MarkBuildSyncStale(m, all), m)
        BY <2>5, MarkBuildSyncStaleAgrees
      <3> QED
        BY <1>0, <2>2, <2>3, <2>5, <2>7, <3>1 DEF Agree, OpenSession, AuditMarked
    <2> QED
      BY <2>4, <2>6, <2>7
  <1>7. CASE TestsDone
    BY <1>0, <1>7, RetestContinues, GotoContinues, Preserved
    DEF TestsDone, Elsewhere, Locations, Quiet
  <1>8. CASE RetestReview
    <2>1. CASE /\ Saved("retest_reviewed", [mem EXCEPT !.review_approved = TRUE])
               /\ work' = Approves(work, mem)
      BY <1>0, <2>1, SavedContinues, PutAgrees, ApprovesQuiet, Preserved
      DEF Elsewhere, Locations, Quiet
    <2>2. CASE ReadOnlyAgentFails
      BY <1>0, <2>2, ReadOnlyAgentFailsEnds, Preserved
    <2> QED
      BY <1>8, <2>1, <2>2 DEF RetestReview
  <1>9. CASE RetestReviewed
    BY <1>0, <1>9, RetestContinues, Preserved DEF RetestReviewed, Quiet
  <1>10. CASE RetestSecurity
    <2>1. CASE /\ Saved("gates_done", [mem EXCEPT !.security_approved = TRUE])
               /\ work' = Looked(work, "security")
      BY <1>0, <2>1, SavedContinues, PutAgrees, LookedQuiet, Preserved
      DEF Elsewhere, Locations, Quiet
    <2>2. CASE FailSaved(SecurityRejects(mem)) /\ UNCHANGED work
      BY <1>0, <2>2, SecurityRejectsType, StateAgrees, FailSavedEnds, Preserved DEF Quiet
    <2>3. CASE ReadOnlyAgentFails
      BY <1>0, <2>3, ReadOnlyAgentFailsEnds, Preserved
    <2> QED
      BY <1>10, <2>1, <2>2, <2>3 DEF RetestSecurity
  <1> QED
    BY <1>1, <1>2, <1>3, <1>4, <1>5, <1>6, <1>7, <1>8, <1>9, <1>10 DEF TestGate
-----------------------------------------------------------------------------
LEMMA AttemptFailedKeeps ==
    ASSUME NEW m \in TaskStates, NEW last, AttemptFailed(m, last),
           Agree(m, mem), ~mem.done, Quiet(work')
    PROVE  Continues \/ Ends
  BY FailSavedEnds, UnsavedContinues DEF AttemptFailed, Elsewhere, Locations

LEMMA GatesDoneKeeps ==
    ASSUME SessionType, ~mem.done, ~mem.failed, GatesDone
    PROVE  Continues \/ Ends
  <1>0. /\ mem \in TaskStates /\ Agree(mem, mem) /\ Quiet(work')
        /\ Agree(PassedFinalGate(mem), mem)
    BY AgreeRefl, StateAgrees DEF SessionType, GatesDone, Quiet
  <1>1. CASE FailSaved(mem)
    BY <1>0, <1>1, FailSavedEnds
  <1>2. ASSUME NEW status,
               EndSession(status, [mem EXCEPT !.done = mem.files_changed])
        PROVE  Ends
    <2> DEFINE d == [mem EXCEPT !.done = mem.files_changed]
    <2>1. ~(d.done /\ d.failed) /\ d.test_writer_audit = mem.test_writer_audit
      BY <1>0 DEF TaskStates
    <2> HIDE DEF d
    <2>2. EndSession(status, d)
      BY <1>2 DEF d
    <2> QED
      BY <1>0, <2>1, <2>2, EndSessionEnds
  <1>3. ASSUME NEW l \in {"build_loop", "step_done", "accept"}, Goto(l)
        PROVE  Continues
    BY <1>0, <1>3, GotoContinues DEF Elsewhere, Locations
  <1>4. ASSUME NEW l \in {"final_validate", "loop_head", "accept"},
               Saved(l, PassedFinalGate(mem))
        PROVE  Continues
    BY <1>0, <1>4, SavedContinues DEF Elsewhere, Locations
  <1> QED
    BY <1>1, <1>2, <1>3, <1>4 DEF GatesDone

LEMMA LoopHeadKeeps ==
    ASSUME SessionType, ~mem.done, ~mem.failed, LoopHead
    PROVE  Continues \/ Ends
  <1> DEFINE a == AttemptStarted
             r == [a EXCEPT !.test_execution_gate_records = @ /\ work.gated]
  <1>0. mem \in TaskStates /\ Agree(mem, mem) /\ Quiet(work')
    BY AgreeRefl DEF SessionType, LoopHead, Quiet
  <1>1. a \in TaskStates /\ Agree(a, mem)
    BY <1>0, AttemptStartedType, AttemptStartedAgrees
  <1>2. \/ FailSaved(mem)
        \/ AttemptFailed(a, ValidationOnly)
        \/ /\ pc' = IF mem.build_synced THEN "build" ELSE "sync"
           /\ mem' = r
           /\ disk' = IF ValidationOnly THEN a ELSE disk
    BY DEF LoopHead
  <1> HIDE DEF a
  <1>3. Agree(r, mem)
    BY <1>1, PutAgrees, AgreeTrans
  <1> HIDE DEF r
  <1>4. CASE FailSaved(mem)
    BY <1>0, <1>4, FailSavedEnds
  <1>5. CASE AttemptFailed(a, ValidationOnly)
    BY <1>0, <1>1, <1>5, AttemptFailedKeeps
  <1>6. CASE /\ pc' = IF mem.build_synced THEN "build" ELSE "sync"
             /\ mem' = r
             /\ disk' = IF ValidationOnly THEN a ELSE disk
    BY <1>0, <1>1, <1>3, <1>6, AgreeRefl DEF Continues
  <1> QED
    BY <1>2, <1>4, <1>5, <1>6

LEMMA SyncKeeps ==
    ASSUME SessionType, ~mem.done, ~mem.failed, Sync
    PROVE  Continues \/ Ends
  <1> DEFINE m(adopted) == IF adopted THEN StaleAllGates(RecordFiles(mem, {"code"})) ELSE mem
  <1>1. PICK ok \in BOOLEAN, adopted \in BOOLEAN :
           /\ \/ Saved("build", [m(adopted) EXCEPT !.build_synced = TRUE])
              \/ FailSaved(m(adopted))
              \/ Saved("fixer", m(adopted))
           /\ work' = [(IF adopted THEN Touch(work, "sync", Gates) ELSE work)
                       EXCEPT !.unsynced = IF ok THEN {} ELSE @]
    BY DEF Sync
  <1>2. Quiet(work')
    <2> DEFINE w == IF adopted THEN Touch(work, "sync", Gates) ELSE work
    <2>1. w \in Worktrees /\ w.interrupted_tests = work.interrupted_tests
      BY TouchType, TouchQuiet, OriginsListed DEF SessionType
    <2> HIDE DEF w
    <2>2. [w EXCEPT !.unsynced = IF ok THEN {} ELSE @].interrupted_tests = w.interrupted_tests
      BY <2>1 DEF Worktrees
    <2> QED
      BY <1>1, <2>1, <2>2 DEF w, Quiet
  <1>3. m(adopted) \in TaskStates /\ Agree(m(adopted), mem)
    <2>1. mem \in TaskStates
      BY DEF SessionType
    <2>2. /\ RecordFiles(mem, {"code"}) \in TaskStates
          /\ Agree(RecordFiles(mem, {"code"}), mem)
      BY <2>1, RecordFilesType, RecordFilesAgrees
    <2>3. /\ StaleAllGates(RecordFiles(mem, {"code"})) \in TaskStates
          /\ Agree(StaleAllGates(RecordFiles(mem, {"code"})), RecordFiles(mem, {"code"}))
      BY <2>2, StaleAllGatesType, StaleAllGatesAgrees
    <2> QED
      BY <2>1, <2>2, <2>3, AgreeTrans, AgreeRefl
  <1> HIDE DEF m
  <1>4. CASE Saved("build", [m(adopted) EXCEPT !.build_synced = TRUE])
    <2>1. Agree([m(adopted) EXCEPT !.build_synced = TRUE], mem)
      BY <1>3, PutAgrees, AgreeTrans
    <2> QED
      BY <1>2, <1>4, <2>1, SavedContinues DEF Elsewhere, Locations
  <1>5. CASE FailSaved(m(adopted))
    BY <1>2, <1>3, <1>5, FailSavedEnds
  <1>6. CASE Saved("fixer", m(adopted))
    BY <1>2, <1>3, <1>6, SavedContinues DEF Elsewhere, Locations
  <1> QED
    BY <1>1, <1>4, <1>5, <1>6

LEMMA CheckKeeps ==
    ASSUME SessionType, ~mem.done, ~mem.failed, Check
    PROVE  Continues \/ Ends
  <1>0. mem \in TaskStates /\ work \in Worktrees /\ Agree(mem, mem)
    BY AgreeRefl DEF SessionType
  <1>1. /\ Looked(work, "validation") \in Worktrees
        /\ Looked(work, "validation").interrupted_tests = work.interrupted_tests
    BY <1>0, LookedType, LookedQuiet, OriginsListed
  <1>2. Quiet(work')
    BY <1>0, <1>1, AutofixedQuiet DEF Check, Quiet
  <1>3. CASE Goto("post")
    BY <1>2, <1>3, GotoContinues DEF Elsewhere, Locations
  <1>4. ASSUME NEW l \in {"post", "fixer"}, Saved(l, mem) PROVE Continues
    BY <1>0, <1>2, <1>4, SavedContinues DEF Elsewhere, Locations
  <1>5. CASE FailSaved(mem)
    BY <1>0, <1>2, <1>5, FailSavedEnds
  <1> QED
    BY <1>3, <1>4, <1>5 DEF Check

LEMMA FixerKeeps ==
    ASSUME SessionType, ~mem.done, ~mem.failed, Fixer
    PROVE  Continues \/ Ends
  <1>0. /\ mem \in TaskStates /\ work \in Worktrees /\ Agree(mem, mem)
        /\ FixerRan \in Worktrees /\ Quiet(FixerRan)
    BY AgreeRefl, FixerRanType, FixerRanQuiet DEF SessionType
  <1>1. ASSUME NEW wrote, Saved("fixer_returned", RecordFiles(mem, wrote)),
               work' = FixerRan
        PROVE  Continues
    BY <1>0, <1>1, RecordFilesAgrees, SavedContinues DEF Elsewhere, Locations
  <1>2. ASSUME NEW wrote, FailSaved(FixerEffects(RecordFiles(mem, wrote), wrote)),
               work' = KeptLost(FixerTouched(FixerRan, wrote))
        PROVE  Ends
    <2> DEFINE r == RecordFiles(mem, wrote)
    <2>1. r \in TaskStates /\ Agree(r, mem)
      BY <1>0, RecordFilesType, RecordFilesAgrees
    <2> HIDE DEF r
    <2>2. FixerEffects(r, wrote) \in TaskStates /\ Agree(FixerEffects(r, wrote), mem)
      BY <2>1, FixerEffectsType, FixerEffectsAgrees, AgreeTrans
    <2>3. Quiet(work')
      BY <1>0, <1>2, FixerTouchedType, FixerTouchedQuiet, KeptLostQuiet DEF Quiet
    <2> QED
      BY <1>2, <2>2, <2>3, FailSavedEnds DEF r
  <1>3. CASE /\ FailSaved(mem)
             /\ work' \in {KeptLost(FixerRan), Lost(KeptLost(FixerRan), "lost_fixer")}
    <2>1. Quiet(work')
      BY <1>0, <1>3, KeptLostType, KeptLostQuiet, LostQuiet, OriginsListed DEF Quiet
    <2> QED
      BY <1>0, <1>3, <2>1, FailSavedEnds
  <1> QED
    BY <1>1, <1>2, <1>3 DEF Fixer

LEMMA RetryFixerKeeps ==
    ASSUME SessionType, RetryFixer
    PROVE  Continues
  <1>1. PICK gated : /\ Saved("fixer", RecordGates(mem, gated))
                     /\ work' = [work EXCEPT !.gated = gated]
    BY DEF RetryFixer
  <1>2. Agree(RecordGates(mem, gated), mem)
    BY StateAgrees DEF SessionType
  <1>3. Quiet(work')
    BY <1>1 DEF SessionType, Worktrees, Quiet
  <1> QED
    BY <1>1, <1>2, <1>3, SavedContinues DEF Elsewhere, Locations

LEMMA FixerHandledKeeps ==
    ASSUME SessionType, FixerHandled
    PROVE  Continues
  <1> DEFINE all == loc.wrote \cup loc.kept
  <1>1. PICK gated : /\ Saved("loop_head", FixerEffects(RecordGates(mem, gated), all))
                     /\ work' = [FixerTouched(work, all) EXCEPT !.gated = gated]
    BY DEF FixerHandled
  <1> HIDE DEF all
  <1> DEFINE g == RecordGates(mem, gated)
             w == FixerTouched(work, all)
  <1>2. g \in TaskStates /\ Agree(g, mem)
    BY RecordGatesType, StateAgrees DEF SessionType
  <1>3. w \in Worktrees /\ w.interrupted_tests = work.interrupted_tests
    BY FixerTouchedType, FixerTouchedQuiet DEF SessionType
  <1>4. Saved("loop_head", FixerEffects(g, all)) /\ work' = [w EXCEPT !.gated = gated]
    BY <1>1
  <1> HIDE DEF g, w
  <1>5. Agree(FixerEffects(g, all), mem)
    BY <1>2, FixerEffectsAgrees, AgreeTrans
  <1>6. Quiet(work')
    BY <1>3, <1>4 DEF Worktrees, Quiet
  <1> QED
    BY <1>4, <1>5, <1>6, SavedContinues DEF Elsewhere, Locations

LEMMA AcceptKeeps ==
    ASSUME SessionType, ~mem.done, ~mem.failed, Accept
    PROVE  Continues \/ Ends
  <1> DEFINE m == [mem EXCEPT !.build_loop_key = NoKey, !.build_loop_start_iteration = 0]
  <1>0. mem \in TaskStates /\ Quiet(work')
    BY DEF SessionType, Accept, Quiet
  <1>1. m \in TaskStates
    BY <1>0, LoopKeyType, PutLoopKey, PutNumber
  <1>2. Agree(m, mem)
    BY <1>0 DEF Agree, TaskStates
  <1>3. EndSession("done", [m EXCEPT !.done = TRUE]) \/ Saved("step_done", m)
    BY DEF Accept
  <1> HIDE DEF m
  <1> QED
    BY <1>0, <1>1, <1>2, <1>3, DoneEnds, SavedContinues DEF Elsewhere, Locations

LEMMA ValidateKeeps ==
    ASSUME SessionType, ~mem.done, ~mem.failed, Validate
    PROVE  Continues \/ Ends
  <1>0. mem \in TaskStates /\ work \in Worktrees /\ Agree(mem, mem)
    BY AgreeRefl DEF SessionType
  <1>1. CASE BuildLoop
    <2> DEFINE m == [mem EXCEPT !.build_loop_key = BuildLoopKey(mem),
                                !.build_loop_start_iteration = mem.build_iterations]
    <2>1. Agree(m, mem)
      BY <1>0 DEF Agree, TaskStates
    <2>2. Quiet(work')
      BY <1>0, <1>1 DEF BuildLoop, Quiet, Worktrees
    <2>3. Goto("loop_head") \/ Saved("loop_head", m)
      BY <1>1 DEF BuildLoop
    <2> HIDE DEF m
    <2> QED
      BY <2>1, <2>2, <2>3, GotoContinues, SavedContinues DEF Elsewhere, Locations
  <1>2. CASE Build
    <2>1. Quiet(work')
      BY <1>2 DEF Build, Quiet
    <2>2. CASE Unsaved("test", [mem EXCEPT !.fixer_changed_code = FALSE])
      BY <1>0, <2>1, <2>2, UnsavedContinues, PutAgrees DEF Elsewhere, Locations
    <2>3. CASE AttemptFailed(mem, loc.validation_only)
      BY <1>0, <2>1, <2>3, AttemptFailedKeeps
    <2> QED
      BY <1>2, <2>2, <2>3 DEF Build
  <1>3. CASE Test
    BY <1>0, <1>3, GotoContinues, AttemptFailedKeeps DEF Test, Elsewhere, Locations, Quiet
  <1>4. CASE PostValidation
    BY <1>4, GotoContinues DEF PostValidation, Elsewhere, Locations, Quiet
  <1> QED
    BY <1>1, <1>2, <1>3, <1>4, GatesDoneKeeps, LoopHeadKeeps, SyncKeeps, CheckKeeps,
       AcceptKeeps, FixerKeeps, RetryFixerKeeps, FixerHandledKeeps DEF Validate

LEMMA PlanStepsKeep ==
    ASSUME SessionType, ~mem.done, ~mem.failed, PlanSteps
    PROVE  Continues \/ Ends
  <1>0. /\ mem \in TaskStates /\ Agree(mem, mem) /\ Quiet(work')
    BY AgreeRefl DEF SessionType, PlanSteps, StepDone, AfterPlan, FinalValidate, Quiet
  <1>1. CASE StepDone
    <2> DEFINE a == AdvanceStep(mem)
    <2>1. a \in TaskStates /\ Agree(a, mem) /\ Agree(CompletePlan(mem), mem)
      BY <1>0, AdvanceStepType, PlanStepsAgree
    <2>2. \/ /\ pc' = "implement"
             /\ disk' = a
             /\ mem' = [a EXCEPT !.active_scope = NoScope]
          \/ Saved("after_plan", CompletePlan(mem))
      BY <1>1 DEF StepDone
    <2> HIDE DEF a
    <2>3. Agree([a EXCEPT !.active_scope = NoScope], mem)
      BY <2>1, PutAgrees, AgreeTrans
    <2>4. CASE /\ pc' = "implement"
               /\ disk' = a
               /\ mem' = [a EXCEPT !.active_scope = NoScope]
      BY <1>0, <2>1, <2>3, <2>4 DEF Continues
    <2>5. CASE Saved("after_plan", CompletePlan(mem))
      BY <1>0, <2>1, <2>5, SavedContinues DEF Elsewhere, Locations
    <2> QED
      BY <2>2, <2>4, <2>5
  <1>2. CASE AfterPlan
    <2>1. Agree(OpenFinalGate(cfg, mem), mem)
      BY <1>0, PlanStepsAgree
    <2> QED
      BY <1>0, <1>2, <2>1, PutAgrees, FailSavedEnds, SavedContinues, GotoContinues
      DEF AfterPlan, Elsewhere, Locations
  <1>3. CASE FinalValidate
    BY <1>0, <1>3, PutAgrees, FailSavedEnds, SavedContinues, DoneEnds
    DEF FinalValidate, Elsewhere, Locations
  <1> QED
    BY <1>1, <1>2, <1>3 DEF PlanSteps
-----------------------------------------------------------------------------
(* A step of Session is one of a session that runs.                        *)
LEMMA SessionRuns == Session => pc # "idle"
  <1>1. Prepare => pc # "idle"
    BY DEF Prepare, CheckCoverage, RunPresync, Analyze, Plan, Dispatch
  <1>2. ImplementStep => pc # "idle"
    BY DEF ImplementStep, SkipImplement, Implement, TaskImplemented, StepImplemented,
           ResumeCheck
  <1>3. ReviewGates => pc # "idle"
    BY DEF ReviewGates, SkipReview, Review, ReviewFix, ReviewFixHandled, SkipSecurity,
           SecurityReview, SecurityFix, SecurityFixHandled, FastPath, FixGate,
           GateFixHandled
  <1>4. TestGate => pc # "idle"
    BY DEF TestGate, SkipTests, BeginTestWriting, TestWriter, RecordAuditFiles,
           RetryTestWriter, FinishAudit, TestsDone, RetestReview, RetestReviewed,
           RetestSecurity
  <1>5. Validate => pc # "idle"
    BY DEF Validate, GatesDone, BuildLoop, LoopHead, Sync, Build, Test, Check,
           PostValidation, Accept, Fixer, RetryFixer, FixerHandled
  <1>6. PlanSteps => pc # "idle"
    BY DEF PlanSteps, StepDone, AfterPlan, FinalValidate
  <1> QED
    BY <1>1, <1>2, <1>3, <1>4, <1>5, <1>6 DEF Session

LEMMA SessionKeeps ==
    ASSUME SessionType, OpenSession, AuditMarked, Session
    PROVE  OpenSession' /\ AuditMarked'
  <1>1. pc # "idle"
    BY SessionRuns
  <1>2. ~mem.done /\ ~mem.failed
    BY <1>1 DEF OpenSession
  <1> QED
    BY <1>1, <1>2, PrepareKeeps, ImplementStepKeeps, ReviewGatesKeep, TestGateKeeps,
       ValidateKeeps, PlanStepsKeep, Preserved DEF Session

(* A kill leaves an interrupted writer's files only where the marker is    *)
(* set in whatever copy of the state survives.                             *)
LEMMA CrashKeeps ==
    ASSUME SessionType, OpenSession, AuditMarked, Crash
    PROVE  OpenSession' /\ AuditMarked'
  <1>0. work \in Worktrees /\ FixerRan \in Worktrees /\ Quiet(FixerRan)
    BY FixerRanType, FixerRanQuiet DEF SessionType
  <1>1. KeptLost(FixerRan) \in Worktrees /\ Quiet(KeptLost(FixerRan))
    BY <1>0, KeptLostType, KeptLostQuiet DEF Quiet
  <1>2. Quiet(Unhandled)
    BY <1>0, TouchType, TouchQuiet, NeedsSyncQuiet, KeptLostQuiet, OriginsListed
    DEF Unhandled, Quiet
  <1>3. ASSUME NEW w \in LeftBehind, pc # "test_writer" PROVE Quiet(w)
    <2>1. CASE pc \in {"implement", "review_fix", "security_fix"}
      BY <1>0, <1>3, <2>1, LostQuiet, OriginsListed DEF LeftBehind, Quiet
    <2>2. CASE pc = "fixer"
      BY <1>1, <1>3, <2>2, LostQuiet, OriginsListed DEF LeftBehind, Quiet
    <2>3. CASE pc = "sync"
      BY <1>0, <1>3, <2>3, TouchQuiet, OriginsListed DEF LeftBehind, Quiet
    <2>4. CASE pc = "check"
      BY <1>0, <1>3, <2>4, AutofixedQuiet DEF LeftBehind, Quiet
    <2>5. CASE pc \notin {"implement", "review_fix", "security_fix", "fixer",
                          "sync", "check"}
      BY <1>3, <2>5 DEF LeftBehind, Quiet
    <2> QED
      BY <2>1, <2>2, <2>3, <2>4, <2>5
  <1>4. Quiet(work') \/ pc = "test_writer"
    BY <1>2, <1>3 DEF Crash
  <1>5. disk' \in {mem, disk} /\ mem' = disk' /\ pc' = "idle" /\ pc # "idle"
    BY DEF Crash
  <1> QED
    BY <1>4, <1>5 DEF OpenSession, AuditMarked, Quiet

LEMMA InvokeKeeps ==
    ASSUME OpenSession, AuditMarked, Invoke
    PROVE  OpenSession' /\ AuditMarked'
  BY DEF Invoke, StartRun, RunTerminal, OpenSession, AuditMarked

LEMMA ResetFailedKeeps ==
    ASSUME SessionType, OpenSession, AuditMarked, ResetFailed
    PROVE  OpenSession' /\ AuditMarked'
  <1>1. PICK detected \in BOOLEAN :
           /\ disk' = ResetFailedState(disk, detected)
           /\ work' = IF detected THEN Adopted ELSE work
    BY DEF ResetFailed
  <1>2. Quiet(work')
    BY <1>1, AdoptedQuiet DEF SessionType, Quiet
  <1>3. /\ ~disk'.failed
        /\ disk'.test_writer_audit = disk.test_writer_audit
    BY <1>1, ResetFailedStateAgrees DEF SessionType
  <1>4. pc = "idle" /\ pc' = "idle" /\ mem' = disk'
    BY DEF ResetFailed
  <1> QED
    BY <1>2, <1>3, <1>4 DEF OpenSession, AuditMarked, Quiet
-----------------------------------------------------------------------------
(* The invariant both properties follow from: no session runs on a         *)
(* terminal task, and test files of a writer whose audit is not over are   *)
(* covered by the marker in memory and on disk.                            *)
THEOREM SessionInvariant == Spec => []IInv
  <1>1. Init => OpenSession /\ AuditMarked
    BY DEF Init, NewTask, Untouched, OpenSession, AuditMarked
  <1>2. IInv /\ [Next]_vars => (OpenSession /\ AuditMarked)'
    <2> SUFFICES ASSUME IInv, [Next]_vars PROVE OpenSession' /\ AuditMarked'
      OBVIOUS
    <2>0. SessionType /\ OpenSession /\ AuditMarked
      BY DEF IInv, TypeOK, SessionType
    <2>1. CASE Session
      BY <2>0, <2>1, SessionKeeps
    <2>2. CASE Invoke
      BY <2>0, <2>2, InvokeKeeps
    <2>3. CASE Crash
      BY <2>0, <2>3, CrashKeeps
    <2>4. CASE ResetFailed
      BY <2>0, <2>4, ResetFailedKeeps
    <2>5. CASE UNCHANGED vars
      BY <2>0, <2>5 DEF vars, OpenSession, AuditMarked
    <2> QED
      BY <2>1, <2>2, <2>3, <2>4, <2>5 DEF Next
  <1> QED
    BY <1>1, <1>2, TypeCorrect, PTL DEF Spec, IInv

(* Whatever the configuration and however often the process is killed: a   *)
(* done task stays done and a failed one stays failed until it is reset.   *)
THEOREM TerminalStaysTerminal == Spec => TerminalStable
  <1> DEFINE Stable == /\ disk.done => disk'.done /\ ~disk'.failed
                       /\ disk.failed => disk'.failed \/ resets' # resets
  <1>1. IInv /\ [Next]_vars => Stable
    <2> SUFFICES ASSUME IInv, [Next]_vars PROVE Stable
      OBVIOUS
    <2>0. OpenSession /\ disk \in TaskStates /\ resets \in Nat
      BY BoundsAssumption DEF IInv, TypeOK
    <2>1. CASE Session
      BY <2>0, <2>1, SessionRuns DEF OpenSession
    <2>2. CASE Invoke
      BY <2>0, <2>2 DEF Invoke, StartRun, RunTerminal, OpenSession
    <2>3. CASE Crash
      BY <2>0, <2>3 DEF Crash, OpenSession
    <2>4. CASE ResetFailed
      <3>1. ~disk.done /\ resets' # resets
        BY <2>0, <2>4 DEF ResetFailed, OpenSession
      <3> QED
        BY <3>1
    <2>5. CASE UNCHANGED vars
      BY <2>0, <2>5 DEF vars, OpenSession
    <2> QED
      BY <2>1, <2>2, <2>3, <2>4, <2>5 DEF Next
  <1> HIDE DEF Stable
  <1>2. IInv /\ [Next]_vars => [Stable]_vars
    BY <1>1
  <1>3. Spec => [][Stable]_vars
    BY <1>2, SessionInvariant, PTL DEF Spec
  <1>4. TerminalStable <=> [][Stable]_vars
    BY PTL DEF TerminalStable, Stable
  <1> QED
    BY <1>3, <1>4, PTL

(* Files an interrupted test writer left are always covered by the pending *)
(* marker on disk, whatever killed or failed it and however often.         *)
THEOREM InterruptedTestsStayPending == Spec => []InterruptedTestsArePending
  <1>1. IInv => InterruptedTestsArePending
    BY DEF IInv, AuditMarked, InterruptedTestsArePending
  <1> QED
    BY <1>1, SessionInvariant, PTL

=============================================================================
