---------------------- MODULE Orchestrator_gates_proofs ----------------------
(***************************************************************************)
(* What a done task may be trusted with, for every configuration, every    *)
(* plan and any number of kills, failures and resets: every enabled gate   *)
(* has looked at the final code, a planned task was reviewed as a whole,   *)
(* no step of a plan is left without the approval of its gates, and no     *)
(* loop exceeds its budget of fixers.  Every step of the orchestrator is a *)
(* step of the task's lifecycle, or leaves the lifecycle alone.            *)
(*                                                                         *)
(* The module first says what each action does to the fields the           *)
(* invariants speak of (one lemma per action), then takes the inductive    *)
(* invariant part by part, each part with one lemma for the steps of a     *)
(* session and one for the steps of its environment, and ends with the     *)
(* theorems.                                                               *)
(***************************************************************************)
EXTENDS Orchestrator_proofs

(* The fields of the task's state, of a session's locals and of the ghost  *)
(* record that the invariants below speak of, and steps that change no     *)
(* others than the fields F.                                               *)
Control ==
    {"plan_decided", "plan", "plan_completed", "step_implemented", "active_scope",
     "final_full_task_review_done", "current_step", "files_changed",
     "step_files_changed", "build_iterations",
     "build_loop_key", "build_loop_start_iteration", "fixer_changed_code",
     "review_approved", "review_iterations", "security_approved",
     "security_review_iterations", "tests_up_to_date", "test_writer_audit",
     "test_execution_gate_records", "done"}

LocalFields ==
    {"ctx", "preexisting", "reviewer_ran", "code_changed", "validation_only",
     "review_before", "security_before", "wrote", "kept", "retry", "tests_changed"}

GhostFields == {"stale", "unrecorded", "gated", "full_review", "fixes"}

Same(m, n, F)  == \A f \in Control \ F : m[f] = n[f]
Locally(F)     == \A f \in LocalFields \ F : loc'[f] = loc[f]
Ghostly(v, w, F) == \A f \in GhostFields \ F : v[f] = w[f]

(* A step that saves, one that leaves memory and disk alone, and one that  *)
(* ends the session.                                                       *)
SavesAt(l, F) == pc' = l /\ disk' = mem' /\ Same(mem', mem, F)
GoesTo(l)     == pc' = l /\ mem' = mem /\ disk' = disk
EndsWith(F)   == pc' = "idle" /\ loc' = NoLocals /\ mem' = disk' /\ Same(mem', mem, F)
FailsWith(F)  == EndsWith(F) /\ disk'.failed

(* What happens to the gates' debts: o wrote and the gates gs did not look *)
(* at it, nothing, or gate g looked.                                       *)
Owes(v, w, o, gs) ==
    \A g \in Gates : v.stale[g] = w.stale[g] \cup (IF g \in gs THEN {o} ELSE {})
OwesSame(v, w)    == \A g \in Gates : v.stale[g] = w.stale[g]
Cleared(v, w, h)  == \A g \in Gates : v.stale[g] = IF g = h THEN {} ELSE w.stale[g]
OwesOnly(v, w, O) == \A g \in Gates : v.stale[g] \subseteq w.stale[g] \cup O

LEMMA SameWeaken ==
    ASSUME NEW m, NEW n, NEW F, NEW G, F \subseteq G, Same(m, n, F)
    PROVE  Same(m, n, G)
  BY DEF Same

LEMMA SameRefl == ASSUME NEW m, NEW F PROVE Same(m, m, F)
  BY DEF Same

LEMMA SameTrans ==
    ASSUME NEW m, NEW n, NEW p, NEW F, Same(m, n, F), Same(n, p, F) PROVE Same(m, p, F)
  BY DEF Same

LEMMA GhostlyRefl ==
    ASSUME NEW w, NEW F PROVE Ghostly(w, w, F) /\ OwesSame(w, w)
  BY DEF Ghostly, OwesSame

LEMMA LocallyRefl == ASSUME NEW F, UNCHANGED loc PROVE Locally(F)
  BY DEF Locally
-----------------------------------------------------------------------------
(* What the operators on the task's state do to those fields.              *)
LEMMA FailedSame ==
    ASSUME NEW m \in TaskStates
    PROVE  Same(Failed(m), m, {}) /\ Failed(m).failed
  BY DEF Failed, Same, Control, TaskStates

LEMMA RecordFilesSame ==
    ASSUME NEW m \in TaskStates, NEW wrote
    PROVE  /\ Same(RecordFiles(m, wrote), m, {"files_changed", "step_files_changed"})
           /\ m.files_changed \/ wrote # {} => RecordFiles(m, wrote).files_changed
           /\ m.step_files_changed => RecordFiles(m, wrote).step_files_changed
  BY DEF RecordFiles, Same, Control, TaskStates

LEMMA RejectsSame ==
    ASSUME NEW m \in TaskStates
    PROVE  LET r == SecurityRejects(m)
               c == CountSecurityFix(SecurityRejects(m))
           IN  /\ Same(r, m, {"security_approved", "review_approved"})
               /\ ~r.security_approved /\ ~r.review_approved
               /\ Same(c, m, {"security_approved", "review_approved",
                              "review_iterations", "security_review_iterations"})
               /\ ~c.security_approved /\ ~c.review_approved
               /\ c.review_iterations = 0
               /\ c.security_review_iterations = m.security_review_iterations + 1
  BY DEF SecurityRejects, CountSecurityFix, Same, Control, TaskStates

LEMMA BeginAuditSame ==
    ASSUME NEW m \in TaskStates
    PROVE  LET b == BeginAudit(m)
           IN  /\ Same(b, m, {"test_writer_audit", "tests_up_to_date"})
               /\ b.test_writer_audit = "running" /\ ~b.tests_up_to_date
  BY DEF BeginAudit, Same, Control, TaskStates

LEMMA RecordGatesSame ==
    ASSUME NEW m \in TaskStates, NEW gated
    PROVE  LET r == RecordGates(m, gated)
           IN  /\ Same(r, m, {"test_execution_gate_records"})
               /\ r.test_execution_gate_records <=> m.test_execution_gate_records \/ gated
  BY DEF RecordGates, Same, Control, TaskStates

LEMMA MarkBuildSyncStaleSame ==
    ASSUME NEW m \in TaskStates, NEW wrote
    PROVE  Same(MarkBuildSyncStale(m, wrote), m, {})
  BY DEF MarkBuildSyncStale, Same, Control, TaskStates

LEMMA PassedFinalGateSame ==
    ASSUME NEW m \in TaskStates
    PROVE  LET p == PassedFinalGate(m)
           IN  /\ Same(p, m, {"final_full_task_review_done"})
               /\ p.final_full_task_review_done <=>
                    m.final_full_task_review_done \/ m.active_scope = FinalScope
  BY DEF PassedFinalGate, Same, Control, TaskStates

LEMMA AttemptStartedSame ==
    ASSUME mem \in TaskStates
    PROVE  LET a == AttemptStarted
               r == [AttemptStarted EXCEPT !.test_execution_gate_records = @ /\ work.gated]
           IN  /\ Same(a, mem, {"build_iterations"})
               /\ a.build_iterations = mem.build_iterations + 1
               /\ Same(r, mem, {"build_iterations", "test_execution_gate_records"})
               /\ r.build_iterations = mem.build_iterations + 1
               /\ r.test_execution_gate_records <=> mem.test_execution_gate_records /\ work.gated
  BY DEF AttemptStarted, Same, Control, TaskStates

(* Every gate goes stale, as far as the fields of the gates are concerned. *)
GateFields == {"final_full_task_review_done", "review_approved", "review_iterations",
               "security_approved", "security_review_iterations", "tests_up_to_date"}

AllStale(n, m) ==
    /\ ~n.review_approved /\ ~n.security_approved /\ ~n.tests_up_to_date
    /\ n.final_full_task_review_done <=>
         m.final_full_task_review_done /\ m.active_scope # FinalScope

SecurityStale(n, m) ==
    /\ ~n.security_approved
    /\ n.final_full_task_review_done <=>
         m.final_full_task_review_done /\ m.active_scope # FinalScope

LEMMA StaleAllGatesSame ==
    ASSUME NEW m \in TaskStates
    PROVE  /\ Same(StaleAllGates(m), m, GateFields)
           /\ AllStale(StaleAllGates(m), m)
  BY DEF StaleAllGates, ReopenFinalGate, GateFields, AllStale, Same, Control, TaskStates

(* The three cases of a fixer's result.                                    *)
FixEffect(n, m, wrote) ==
    \/ wrote = {} /\ Same(n, m, {})
    \/ /\ wrote = {"tests"} /\ n.fixer_changed_code /\ SecurityStale(n, m)
       /\ Same(n, m, {"final_full_task_review_done", "fixer_changed_code",
                      "security_approved", "security_review_iterations"})
    \/ /\ wrote # {} /\ wrote # {"tests"} /\ n.fixer_changed_code /\ AllStale(n, m)
       /\ Same(n, m, GateFields \cup {"fixer_changed_code"})

LEMMA FixerEffectsSame ==
    ASSUME NEW m \in TaskStates, NEW wrote
    PROVE  FixEffect(FixerEffects(m, wrote), m, wrote)
  <1> DEFINE s == MarkBuildSyncStale(m, wrote)
  <1>1. s \in TaskStates /\ Same(s, m, {})
    BY MarkBuildSyncStaleType, MarkBuildSyncStaleSame
  <1> HIDE DEF s
  <1>2. s.final_full_task_review_done = m.final_full_task_review_done
        /\ s.active_scope = m.active_scope
    BY <1>1 DEF Same, Control
  <1>3. CASE wrote = {}
    BY <1>1, <1>3 DEF FixerEffects, FixerChangeGateEffects, FixEffect, s
  <1>4. CASE wrote = {"tests"}
    <2> DEFINE e == [ReopenFinalGate(s) EXCEPT !.fixer_changed_code = TRUE,
                                               !.security_approved = FALSE,
                                               !.security_review_iterations = 0]
    <2>1. e = FixerEffects(m, wrote)
      BY <1>4 DEF FixerEffects, FixerChangeGateEffects, s
    <2>2. /\ Same(e, s, {"final_full_task_review_done", "fixer_changed_code",
                         "security_approved", "security_review_iterations"})
          /\ e.fixer_changed_code /\ SecurityStale(e, s)
      BY <1>1 DEF ReopenFinalGate, SecurityStale, Same, Control, TaskStates
    <2> HIDE DEF e
    <2> QED
      BY <1>1, <1>2, <1>4, <2>1, <2>2, SameWeaken, SameTrans DEF FixEffect, SecurityStale
  <1>5. CASE wrote # {} /\ wrote # {"tests"}
    <2> DEFINE t == StaleAllGates(s)
               e == [t EXCEPT !.fixer_changed_code = TRUE]
    <2>1. e = FixerEffects(m, wrote)
      BY <1>5 DEF FixerEffects, FixerChangeGateEffects, s
    <2>2. Same(t, s, GateFields) /\ AllStale(t, s) /\ t \in TaskStates
      BY <1>1, StaleAllGatesSame, StaleAllGatesType
    <2> HIDE DEF t
    <2>3. Same(e, t, {"fixer_changed_code"}) /\ e.fixer_changed_code
      BY <2>2 DEF Same, Control, TaskStates
    <2>4. AllStale(e, s)
      <3>1. e.final_full_task_review_done = t.final_full_task_review_done
            /\ e.review_approved = t.review_approved
            /\ e.security_approved = t.security_approved
            /\ e.tests_up_to_date = t.tests_up_to_date
        BY <2>3 DEF Same, Control
      <3> QED
        BY <3>1, <2>2 DEF AllStale
    <2> DEFINE F == GateFields \cup {"fixer_changed_code"}
    <2>5. Same(e, t, F) /\ Same(t, s, F) /\ Same(s, m, F)
      BY <1>1, <2>2, <2>3, SameWeaken
    <2>6. Same(e, m, F)
      BY <2>5, SameTrans
    <2>7. AllStale(e, m)
      BY <1>2, <2>4 DEF AllStale
    <2> HIDE DEF e
    <2> QED
      BY <1>5, <2>1, <2>3, <2>6, <2>7 DEF FixEffect
  <1> QED
    BY <1>3, <1>4, <1>5
-----------------------------------------------------------------------------
(* What the ghost operators do.                                            *)
LEMMA TouchOwes ==
    ASSUME NEW w \in Worktrees, NEW o \in Origins, NEW gs
    PROVE  Ghostly(Touch(w, o, gs), w, {"stale"}) /\ Owes(Touch(w, o, gs), w, o, gs)
  BY DEF Touch, Worktrees, Ghostly, GhostFields, Owes

LEMMA LostOwes ==
    ASSUME NEW w \in Worktrees, NEW o \in Origins
    PROVE  Ghostly(Lost(w, o), w, {"stale", "unrecorded"}) /\ Owes(Lost(w, o), w, o, Gates)
  <1> DEFINE t == Touch(w, o, Gates)
  <1>1. t \in Worktrees /\ Ghostly(t, w, {"stale"}) /\ Owes(t, w, o, Gates)
    BY TouchType, TouchOwes
  <1> HIDE DEF t
  <1>2. /\ Ghostly([t EXCEPT !.unrecorded = TRUE], t, {"unrecorded"})
        /\ [t EXCEPT !.unrecorded = TRUE].stale = t.stale
    BY <1>1 DEF Worktrees, Ghostly, GhostFields
  <1>3. Lost(w, o) = [t EXCEPT !.unrecorded = TRUE]
    BY DEF Lost, t
  <1> QED
    BY <1>1, <1>2, <1>3 DEF Ghostly, Owes

LEMMA NeedsSyncOwes ==
    ASSUME NEW w \in Worktrees, NEW o, NEW wrote
    PROVE  LET n == NeedsSync(w, o, wrote)
           IN  Ghostly(n, w, {}) /\ n.stale = w.stale
  BY DEF NeedsSync, Worktrees, Ghostly, GhostFields

(* A write that is handled: its origin owes a look to the gates gs.        *)
LEMMA WrittenOwes ==
    ASSUME NEW w \in Worktrees, NEW o \in Origins, NEW gs, NEW wrote
    PROVE  LET n == NeedsSync(Touch(w, o, gs), o, wrote)
           IN  Ghostly(n, w, {"stale"}) /\ Owes(n, w, o, gs)
  <1> DEFINE t == Touch(w, o, gs)
             n == NeedsSync(t, o, wrote)
  <1>1. t \in Worktrees /\ Ghostly(t, w, {"stale"}) /\ Owes(t, w, o, gs)
    BY TouchType, TouchOwes
  <1> HIDE DEF t
  <1>2. Ghostly(n, t, {}) /\ n.stale = t.stale
    BY <1>1, NeedsSyncOwes
  <1> HIDE DEF n
  <1>3. Ghostly(n, w, {"stale"}) /\ Owes(n, w, o, gs)
    BY <1>1, <1>2 DEF Ghostly, Owes
  <1> QED
    BY <1>3 DEF n, t

LEMMA LookedClears ==
    ASSUME NEW w \in Worktrees, NEW g \in Gates
    PROVE  Ghostly(Looked(w, g), w, {"stale"}) /\ Cleared(Looked(w, g), w, g)
  BY DEF Looked, Worktrees, Ghostly, GhostFields, Cleared

LEMMA ApprovesClears ==
    ASSUME NEW w \in Worktrees, NEW m \in TaskStates
    PROVE  LET a == Approves(w, m)
           IN  /\ Ghostly(a, w, {"stale", "full_review"}) /\ Cleared(a, w, "review")
               /\ a.full_review <=> w.full_review \/ m.active_scope = FinalScope
  <1> DEFINE l == Looked(w, "review")
             a == [l EXCEPT !.full_review = @ \/ m.active_scope = FinalScope]
  <1>1. l \in Worktrees /\ Ghostly(l, w, {"stale"}) /\ Cleared(l, w, "review")
    BY LookedType, LookedClears DEF Gates
  <1> HIDE DEF l
  <1>2. /\ Ghostly(a, l, {"full_review"}) /\ a.stale = l.stale
        /\ a.full_review <=> l.full_review \/ m.active_scope = FinalScope
    BY <1>1 DEF Worktrees, Ghostly, GhostFields
  <1>3. l.full_review = w.full_review
    BY <1>1 DEF Ghostly, GhostFields
  <1> HIDE DEF a
  <1>4. Ghostly(a, w, {"stale", "full_review"}) /\ Cleared(a, w, "review")
    BY <1>1, <1>2 DEF Ghostly, Cleared
  <1> QED
    BY <1>2, <1>3, <1>4 DEF Approves, a, l

LEMMA PutGhost ==
    ASSUME NEW w \in Worktrees, NEW b
    PROVE  /\ Ghostly([w EXCEPT !.interrupted_tests = b], w, {})
           /\ [w EXCEPT !.interrupted_tests = b].stale = w.stale
           /\ Ghostly([w EXCEPT !.unrecorded = b], w, {"unrecorded"})
           /\ [w EXCEPT !.unrecorded = b].stale = w.stale
           /\ Ghostly([w EXCEPT !.gated = b], w, {"gated"})
           /\ [w EXCEPT !.gated = b].stale = w.stale
           /\ [w EXCEPT !.gated = b].gated = b
           /\ Ghostly([w EXCEPT !.fixes = b], w, {"fixes"})
           /\ [w EXCEPT !.fixes = b].fixes = b
           /\ [w EXCEPT !.unsynced = b].stale = w.stale
           /\ Ghostly([w EXCEPT !.unsynced = b], w, {})
  BY DEF Worktrees, Ghostly, GhostFields

LEMMA PutInterrupted ==
    ASSUME NEW w \in Worktrees, NEW v, NEW b, v = [w EXCEPT !.interrupted_tests = b]
    PROVE  Ghostly(v, w, {}) /\ OwesSame(v, w) /\ v.stale = w.stale
  BY DEF Worktrees, Ghostly, GhostFields, OwesSame

LEMMA TestsRemainOwes ==
    ASSUME NEW w \in Worktrees, NEW wrote, NEW gated \in BOOLEAN
    PROVE  LET t == [TestsRemain(w, wrote, gated) EXCEPT !.interrupted_tests = FALSE]
           IN  /\ Ghostly(t, w, {"stale", "gated"})
               /\ wrote = {} => OwesSame(t, w) /\ t.gated = w.gated
               /\ wrote # {} => /\ Owes(t, w, "tests", {"review", "security", "validation"})
                                /\ t.gated = gated
  <1> DEFINE n == NeedsSync(Touch(w, "tests", {"review", "security", "validation"}),
                            "tests", wrote)
             g == [n EXCEPT !.gated = gated]
             r == TestsRemain(w, wrote, gated)
             t == [r EXCEPT !.interrupted_tests = FALSE]
  <1>1. /\ n \in Worktrees /\ Ghostly(n, w, {"stale"})
        /\ Owes(n, w, "tests", {"review", "security", "validation"})
    BY WrittenOwes, TouchType, NeedsSyncType, OriginsListed
  <1> HIDE DEF n
  <1>2. Ghostly(g, n, {"gated"}) /\ g.stale = n.stale /\ g.gated = gated /\ g \in Worktrees
    BY <1>1, PutGhost, PutWork
  <1> HIDE DEF g
  <1>3. r = IF wrote = {} THEN w ELSE g
    BY DEF TestsRemain, r, g, n
  <1>4. r \in Worktrees
    BY <1>2, <1>3
  <1> HIDE DEF r
  <1>5. Ghostly(t, r, {}) /\ t.stale = r.stale
    BY <1>4, PutGhost
  <1> HIDE DEF t
  <1>6. t.gated = r.gated
    BY <1>5 DEF Ghostly, GhostFields
  <1>7. /\ Ghostly(t, w, {"stale", "gated"})
        /\ wrote = {} => OwesSame(t, w) /\ t.gated = w.gated
        /\ wrote # {} => /\ Owes(t, w, "tests", {"review", "security", "validation"})
                         /\ t.gated = gated
    BY <1>1, <1>2, <1>3, <1>5, <1>6 DEF Ghostly, OwesSame, Owes
  <1> QED
    BY <1>7 DEF t, r

(* A fixer's handled writes, by the gates they leave unlooked at.          *)
FixOwes(v, w, wrote) ==
    /\ Ghostly(v, w, {"stale"})
    /\ wrote = {} => OwesSame(v, w)
    /\ wrote = {"tests"} => Owes(v, w, "fixer", {"security", "validation"})
    /\ OwesOnly(v, w, {"fixer"})

LEMMA FixerTouchedOwes ==
    ASSUME NEW w \in Worktrees, NEW wrote
    PROVE  FixOwes(FixerTouched(w, wrote), w, wrote)
  <1> DEFINE gs == IF wrote = {"tests"} THEN {"security", "validation"} ELSE Gates
             n == NeedsSync(Touch(w, "fixer", gs), "fixer", wrote)
  <1>1. Ghostly(n, w, {"stale"}) /\ Owes(n, w, "fixer", gs)
    BY WrittenOwes, OriginsListed
  <1>2. FixerTouched(w, wrote) = IF wrote = {} THEN w ELSE n
    BY DEF FixerTouched
  <1> HIDE DEF n
  <1>3. CASE wrote = {}
    BY <1>2, <1>3, GhostlyRefl DEF FixOwes, OwesOnly, OwesSame
  <1>4. CASE wrote # {}
    BY <1>1, <1>2, <1>4 DEF FixOwes, OwesOnly, Owes, Gates
  <1> QED
    BY <1>3, <1>4

LEMMA KeptLostOwes ==
    ASSUME NEW w \in Worktrees
    PROVE  Ghostly(KeptLost(w), w, {"stale"}) /\ OwesOnly(KeptLost(w), w, {"lost_fixer"})
  <1> DEFINE n == NeedsSync(Touch(w, "lost_fixer", Gates), "lost_fixer", loc.kept)
  <1>1. Ghostly(n, w, {"stale"}) /\ Owes(n, w, "lost_fixer", Gates)
    BY WrittenOwes, OriginsListed
  <1>2. KeptLost(w) = IF loc.kept = {} THEN w ELSE n
    BY DEF KeptLost
  <1> HIDE DEF n
  <1> QED
    BY <1>1, <1>2, GhostlyRefl DEF OwesOnly, Owes, OwesSame

LEMMA FixerRanCounts ==
    ASSUME work \in Worktrees
    PROVE  /\ Ghostly(FixerRan, work, {"fixes"}) /\ FixerRan.stale = work.stale
           /\ FixerRan.fixes = work.fixes + (IF loc.retry THEN 0 ELSE 1)
  BY DEF FixerRan, Worktrees, Ghostly, GhostFields

LEMMA AutofixedOwes ==
    ASSUME NEW w \in Worktrees, NEW v \in Autofixed(w)
    PROVE  Ghostly(v, w, {"stale"}) /\ OwesOnly(v, w, {"autofix"})
  <1>1. CASE v = w
    BY <1>1, GhostlyRefl DEF OwesOnly, OwesSame
  <1>2. CASE v = Touch(w, "autofix", Gates)
    BY <1>2, TouchOwes, OriginsListed DEF OwesOnly, Owes
  <1> QED
    BY <1>1, <1>2 DEF Autofixed
-----------------------------------------------------------------------------
(* The ways a step saves and ends.                                         *)
LEMMA SavedEffect ==
    ASSUME NEW l, NEW m, NEW F, Saved(l, m), Same(m, mem, F)
    PROVE  SavesAt(l, F) /\ mem' = m
  BY DEF Saved, SavesAt

LEMMA GotoEffect == ASSUME NEW l, Goto(l) PROVE GoesTo(l)
  BY DEF Goto, Unsaved, GoesTo

LEMMA EndSessionEffect ==
    ASSUME NEW status, NEW d, NEW F, EndSession(status, d), Same(d, mem, F)
    PROVE  EndsWith(F) /\ disk' = d
  BY DEF EndSession, EndsWith

LEMMA FailSavedEffect ==
    ASSUME NEW m \in TaskStates, NEW F, FailSaved(m), Same(m, mem, F)
    PROVE  FailsWith(F) /\ Same(disk', m, {})
  <1>1. Same(Failed(m), m, {}) /\ Failed(m).failed
    BY FailedSame
  <1>2. Same(Failed(m), m, F)
    BY <1>1, SameWeaken
  <1>3. Same(Failed(m), mem, F)
    BY <1>2, SameTrans
  <1> QED
    BY <1>1, <1>3, EndSessionEffect DEF FailSaved, FailsWith

LEMMA FailsEffect == ASSUME SessionType, FailSaved(mem) PROVE FailsWith({})
  BY SameRefl, FailSavedEffect DEF SessionType

LEMMA AgentFailsEffect ==
    ASSUME SessionType, NEW o \in Origins, AgentFails(mem, o)
    PROVE  /\ FailsWith({}) /\ Ghostly(work', work, {"stale", "unrecorded"})
           /\ OwesSame(work', work) \/ Owes(work', work, o, Gates)
  BY FailsEffect, LostOwes, GhostlyRefl DEF AgentFails, SessionType

LEMMA GateGivesUpEffect ==
    ASSUME SessionType, NEW m \in TaskStates, NEW F, GateGivesUp(m), Same(m, mem, F)
    PROVE  /\ EndsWith(F) /\ Same(disk', m, {})
           /\ disk'.failed \/ loc.ctx = "post"
  BY FailSavedEffect, EndSessionEffect, SameRefl DEF GateGivesUp, FailsWith

(* One field is replaced.                                                  *)
LEMMA PutSame ==
    ASSUME NEW m \in TaskStates, NEW v
    PROVE  /\ Same([m EXCEPT !.presync_done = v], m, {})
           /\ Same([m EXCEPT !.implementation_prompt = v], m, {})
           /\ Same([m EXCEPT !.build_synced = v], m, {})
           /\ Same([m EXCEPT !.active_scope = v], m, {"active_scope"})
           /\ [m EXCEPT !.active_scope = v].active_scope = v
           /\ Same([m EXCEPT !.step_implemented = v], m, {"step_implemented"})
           /\ [m EXCEPT !.step_implemented = v].step_implemented = v
           /\ Same([m EXCEPT !.review_approved = v], m, {"review_approved"})
           /\ [m EXCEPT !.review_approved = v].review_approved = v
           /\ Same([m EXCEPT !.security_approved = v], m, {"security_approved"})
           /\ [m EXCEPT !.security_approved = v].security_approved = v
           /\ Same([m EXCEPT !.tests_up_to_date = v], m, {"tests_up_to_date"})
           /\ [m EXCEPT !.tests_up_to_date = v].tests_up_to_date = v
           /\ Same([m EXCEPT !.fixer_changed_code = v], m, {"fixer_changed_code"})
           /\ [m EXCEPT !.fixer_changed_code = v].fixer_changed_code = v
           /\ Same([m EXCEPT !.done = v], m, {"done"})
           /\ [m EXCEPT !.done = v].done = v
  BY DEF Same, Control, TaskStates
-----------------------------------------------------------------------------
(* What each action does, in these terms.                                  *)
LEMMA CheckCoverageEffect ==
    ASSUME SessionType, CheckCoverage
    PROVE  /\ pc = "start" /\ UNCHANGED work
           /\ \/ ~cfg.review_fix /\ FailsWith({})
              \/ GoesTo("presync") /\ UNCHANGED loc
  BY FailsEffect, GotoEffect DEF CheckCoverage

(* Nothing the invariants speak of changes, on disk or in memory.          *)
Keeps(l) == pc' = l /\ Same(mem', mem, {}) /\ (Same(disk', disk, {}) \/ Same(disk', mem, {}))

LEMMA GoesKeeps == ASSUME NEW l, GoesTo(l) PROVE Keeps(l)
  BY SameRefl DEF GoesTo, Keeps

LEMMA SavesKeeps == ASSUME NEW l, SavesAt(l, {}) PROVE Keeps(l)
  BY DEF SavesAt, Keeps

LEMMA RunPresyncEffect ==
    ASSUME SessionType, RunPresync
    PROVE  pc = "presync" /\ UNCHANGED <<loc, work>> /\ Keeps("analyze")
  BY SavedEffect, SavesKeeps, PutSame, GotoEffect, GoesKeeps DEF RunPresync, SessionType

LEMMA AnalyzeEffect ==
    ASSUME SessionType, Analyze
    PROVE  /\ pc = "analyze" /\ UNCHANGED work
           /\ (Keeps("plan") /\ UNCHANGED loc) \/ FailsWith({})
  BY SavedEffect, SavesKeeps, PutSame, GotoEffect, GoesKeeps, FailsEffect
  DEF Analyze, SessionType

LEMMA PlanEffect ==
    ASSUME SessionType, Plan
    PROVE  /\ pc = "plan" /\ UNCHANGED work
           /\ \/ /\ ~cfg.run_planner \/ mem.plan_decided
                 /\ GoesTo("dispatch") /\ UNCHANGED loc
              \/ /\ cfg.run_planner /\ ~mem.plan_decided
                 /\ SavesAt("dispatch", {"plan", "plan_decided", "step_files_changed"})
                 /\ UNCHANGED loc
                 /\ mem'.plan \in Nat /\ mem'.plan_decided
              \/ FailsWith({})
  <1>1. ASSUME NEW n \in 0..MaxSteps,
               Saved("dispatch", [mem EXCEPT !.plan = n, !.plan_decided = TRUE,
                                             !.step_files_changed = FALSE])
        PROVE  /\ SavesAt("dispatch", {"plan", "plan_decided", "step_files_changed"})
               /\ mem'.plan \in Nat /\ mem'.plan_decided
    <2> DEFINE m == [mem EXCEPT !.plan = n, !.plan_decided = TRUE,
                                !.step_files_changed = FALSE]
    <2>1. /\ Same(m, mem, {"plan", "plan_decided", "step_files_changed"})
          /\ m.plan = n /\ m.plan_decided
      BY DEF SessionType, Same, Control, TaskStates
    <2>2. n \in Nat
      BY MaxStepsAssumption
    <2> HIDE DEF m
    <2>3. Saved("dispatch", m)
      BY <1>1 DEF m
    <2> QED
      BY <2>1, <2>2, <2>3, SavedEffect
  <1>2. CASE ~cfg.run_planner \/ mem.plan_decided
    BY <1>2, GotoEffect DEF Plan
  <1>3. CASE ~(~cfg.run_planner \/ mem.plan_decided)
    <2>1. CASE FailSaved(mem)
      BY <2>1, FailsEffect DEF Plan
    <2>2. CASE ~FailSaved(mem)
      <3>1. PICK n \in 0..MaxSteps :
              /\ Saved("dispatch", [mem EXCEPT !.plan = n, !.plan_decided = TRUE,
                                               !.step_files_changed = FALSE])
              /\ UNCHANGED loc
        BY <1>3, <2>2 DEF Plan
      <3> QED
        BY <1>1, <1>3, <3>1 DEF Plan
    <2> QED
      BY <2>1, <2>2
  <1> QED
    BY <1>2, <1>3

LEMMA DispatchEffect ==
    ASSUME SessionType, Dispatch
    PROVE  /\ pc = "dispatch" /\ UNCHANGED <<work, disk>>
           /\ \/ /\ mem.plan = 0
                 /\ GoesTo("implement") /\ Locally({"ctx"}) /\ loc'.ctx = "task"
              \/ /\ mem.plan > 0 /\ mem.plan_completed
                 /\ GoesTo("after_plan") /\ UNCHANGED loc
              \/ /\ mem.plan > 0 /\ ~mem.plan_completed
                 /\ pc' = "implement" /\ Same(mem', mem, {"active_scope"})
                 /\ mem'.active_scope = NoScope
                 /\ Locally({"ctx"}) /\ loc'.ctx = "step"
  <1>1. ASSUME NEW c, loc' = [loc EXCEPT !.ctx = c]
        PROVE  Locally({"ctx"}) /\ loc'.ctx = c
    BY <1>1 DEF SessionType, Locals, Locally, LocalFields
  <1>2. ASSUME Unsaved("implement", [mem EXCEPT !.active_scope = NoScope])
        PROVE  /\ pc' = "implement" /\ Same(mem', mem, {"active_scope"})
               /\ mem'.active_scope = NoScope /\ UNCHANGED disk
    BY <1>2, PutSame DEF Unsaved, SessionType
  <1>3. UNCHANGED disk
    BY DEF Dispatch, Goto, Unsaved
  <1> QED
    BY <1>1, <1>2, <1>3, GotoEffect DEF Dispatch

LEMMA SkipImplementEffect ==
    ASSUME SessionType, SkipImplement
    PROVE  /\ pc = "implement" /\ AlreadyImplemented /\ GoesTo("resume_check")
           /\ Locally({"preexisting"}) /\ UNCHANGED work
  <1>1. Locally({"preexisting"})
    BY DEF SkipImplement, SessionType, Locals, Locally, LocalFields
  <1> QED
    BY <1>1, GotoEffect DEF SkipImplement

LEMMA ImplementEffect ==
    ASSUME SessionType, Implement
    PROVE  /\ pc = "implement" /\ ~AlreadyImplemented
           /\ \/ /\ SavesAt("implemented", {"files_changed", "step_files_changed"})
                 /\ mem.files_changed => mem'.files_changed
                 /\ Locally({"wrote", "preexisting"}) /\ Ghostly(work', work, {"stale"})
                 /\ OwesSame(work', work) \/ Owes(work', work, "implementer", Gates)
              \/ /\ FailsWith({}) /\ Ghostly(work', work, {"stale", "unrecorded"})
                 /\ OwesSame(work', work) \/ Owes(work', work, "lost_implementer", Gates)
  <1>1. CASE AgentFails(mem, "lost_implementer")
    BY <1>1, AgentFailsEffect, OriginsListed DEF Implement
  <1>2. ASSUME NEW wrote \in ImplementerWrites,
               Saved("implemented", RecordFiles(mem, wrote)),
               loc' = [loc EXCEPT !.wrote = wrote, !.preexisting = mem.files_changed],
               work' = IF wrote = {} THEN work
                       ELSE NeedsSync(Touch(work, "implementer", Gates), "implementer", wrote)
        PROVE  /\ SavesAt("implemented", {"files_changed", "step_files_changed"})
               /\ mem.files_changed => mem'.files_changed
               /\ Locally({"wrote", "preexisting"}) /\ Ghostly(work', work, {"stale"})
               /\ OwesSame(work', work) \/ Owes(work', work, "implementer", Gates)
    <2>1. Locally({"wrote", "preexisting"})
      BY <1>2 DEF SessionType, Locals, Locally, LocalFields
    <2>2. /\ Ghostly(work', work, {"stale"})
          /\ OwesSame(work', work) \/ Owes(work', work, "implementer", Gates)
      BY <1>2, WrittenOwes, OriginsListed, GhostlyRefl DEF SessionType
    <2>3. /\ SavesAt("implemented", {"files_changed", "step_files_changed"})
          /\ mem.files_changed => mem'.files_changed
      BY <1>2, SavedEffect, RecordFilesSame DEF SessionType
    <2> QED
      BY <2>1, <2>2, <2>3
  <1> QED
    BY <1>1, <1>2 DEF Implement

LEMMA TaskImplementedEffect ==
    ASSUME SessionType, TaskImplemented
    PROVE  /\ pc = "implemented" /\ loc.ctx = "task"
           /\ \/ mem.files_changed /\ GoesTo("resume_check") /\ UNCHANGED <<loc, work>>
              \/ /\ pc' = "resume_check" /\ UNCHANGED <<disk, loc>>
                 /\ Same(mem', mem, {"files_changed", "step_files_changed"})
                 /\ mem'.files_changed
                 /\ mem.step_files_changed => mem'.step_files_changed
                 /\ Ghostly(work', work, {"unrecorded"}) /\ OwesSame(work', work)
              \/ FailsWith({}) /\ UNCHANGED work
  <1>1. CASE Unsaved("resume_check", RecordFiles(mem, {"code"})) /\ work' = Adopted
             /\ UNCHANGED loc
    <2> DEFINE r == RecordFiles(mem, {"code"})
    <2>1. /\ Same(r, mem, {"files_changed", "step_files_changed"}) /\ r.files_changed
          /\ mem.step_files_changed => r.step_files_changed
      BY RecordFilesSame DEF SessionType
    <2>2. Ghostly(work', work, {"unrecorded"}) /\ OwesSame(work', work)
      BY <1>1, PutGhost DEF Adopted, OwesSame, SessionType
    <2>3. mem' = r /\ pc' = "resume_check" /\ UNCHANGED <<disk, loc>>
      BY <1>1 DEF Unsaved
    <2>4. pc = "implemented" /\ loc.ctx = "task"
      BY DEF TaskImplemented
    <2> HIDE DEF r
    <2> QED
      BY <2>1, <2>2, <2>3, <2>4
  <1> QED
    BY <1>1, FailsEffect, GotoEffect DEF TaskImplemented

LEMMA StepImplementedEffect ==
    ASSUME SessionType, StepImplemented
    PROVE  /\ pc = "implemented" /\ loc.ctx = "step" /\ UNCHANGED loc
           /\ \/ SavesAt("resume_check", {"step_implemented", "files_changed",
                                          "step_files_changed"})
              \/ /\ SavesAt("step_done", {"step_implemented", "files_changed",
                                          "step_files_changed"})
                 /\ ~mem'.step_files_changed
           /\ mem'.step_implemented /\ (mem.files_changed => mem'.files_changed)
           /\ Ghostly(work', work, {"unrecorded"}) /\ OwesSame(work', work)
  <1> DEFINE m == [mem EXCEPT !.step_implemented = TRUE]
             F == {"step_implemented", "files_changed", "step_files_changed"}
  <1>1. m \in TaskStates /\ Same(m, mem, {"step_implemented"}) /\ m.step_implemented
    BY PutSame, PutGate, PutProgress DEF SessionType
  <1>2. /\ Same(m, mem, F) /\ m.files_changed = mem.files_changed
        /\ m.step_files_changed = mem.step_files_changed
    BY <1>1 DEF Same, Control
  <1> HIDE DEF m
  <1> DEFINE r == RecordFiles(m, {"code"})
  <1>3. Same(r, m, {"files_changed", "step_files_changed"}) /\ r.files_changed
    <2>1. {"code"} # {}
      OBVIOUS
    <2> QED
      BY <1>1, <2>1, RecordFilesSame
  <1> HIDE DEF r
  <1>4. Same(r, mem, F) /\ r.step_implemented
    BY <1>1, <1>2, <1>3 DEF Same, Control
  <1>5. Ghostly(work', work, {"unrecorded"}) /\ OwesSame(work', work)
    <2>1. work' = work \/ work' = Adopted
      BY DEF StepImplemented
    <2>2. Ghostly(Adopted, work, {"unrecorded"}) /\ OwesSame(Adopted, work)
      BY PutGhost DEF Adopted, OwesSame, SessionType
    <2> QED
      BY <2>1, <2>2, GhostlyRefl
  <1>6. \/ Saved("resume_check", m) \/ Saved("resume_check", r)
        \/ Saved("step_done", m) /\ ~mem.step_files_changed
    BY DEF StepImplemented, m, r
  <1>7. /\ \/ SavesAt("resume_check", F)
           \/ SavesAt("step_done", F) /\ ~mem'.step_files_changed
        /\ mem' = m \/ mem' = r
    BY <1>2, <1>4, <1>6, SavedEffect
  <1> QED
    BY <1>1, <1>2, <1>3, <1>4, <1>5, <1>7 DEF StepImplemented

LEMMA ResumeCheckEffect ==
    ASSUME SessionType, ResumeCheck
    PROVE  LET validate == /\ cfg.run_build
                           /\ loc.ctx = "step" => cfg.run_build_per_step
                           /\ \/ mem.fixer_changed_code
                              \/ BuildLoopActiveForCurrentScope(mem)
           IN  /\ pc = "resume_check" /\ UNCHANGED <<loc, work>>
               /\ \/ validate /\ GoesTo("build_loop")
                  \/ ~validate /\ GoesTo("review")
  BY GotoEffect DEF ResumeCheck
-----------------------------------------------------------------------------
LEMMA PutLocally ==
    ASSUME NEW v, loc \in Locals
    PROVE  /\ loc' = [loc EXCEPT !.reviewer_ran = v] => Locally({"reviewer_ran"})
           /\ loc' = [loc EXCEPT !.wrote = v] => Locally({"wrote"}) /\ loc'.wrote = v
           /\ loc' = [loc EXCEPT !.tests_changed = v] =>
                Locally({"tests_changed"}) /\ loc'.tests_changed = v
           /\ loc' = [loc EXCEPT !.ctx = v] => Locally({"ctx"}) /\ loc'.ctx = v
           /\ loc' = [loc EXCEPT !.validation_only = v] =>
                Locally({"validation_only"}) /\ loc'.validation_only = v
           /\ loc' = [loc EXCEPT !.code_changed = v] =>
                Locally({"code_changed"}) /\ loc'.code_changed = v
  BY DEF Locals, Locally, LocalFields

LEMMA SkipReviewEffect ==
    ASSUME SessionType, SkipReview
    PROVE  pc = "review" /\ ~ReviewDue /\ GoesTo("security") /\ UNCHANGED <<loc, work>>
  BY GotoEffect DEF SkipReview

(* The reviewer, or the security reviewer, approves.                       *)
ReviewPassed(l) ==
    /\ SavesAt(l, {"review_approved"}) /\ mem'.review_approved
    /\ Locally({"reviewer_ran"})
    /\ Ghostly(work', work, {"stale", "full_review"})
    /\ Cleared(work', work, "review")
    /\ work'.full_review <=> work.full_review \/ mem.active_scope = FinalScope

SecurityPassed(l) ==
    /\ SavesAt(l, {"security_approved"}) /\ mem'.security_approved
    /\ UNCHANGED loc
    /\ Ghostly(work', work, {"stale"}) /\ Cleared(work', work, "security")

LEMMA PassesReview ==
    ASSUME mem \in TaskStates, work \in Worktrees, loc \in Locals, NEW l,
           Saved(l, [mem EXCEPT !.review_approved = TRUE]),
           work' = Approves(work, mem), loc' = [loc EXCEPT !.reviewer_ran = TRUE]
    PROVE  ReviewPassed(l)
  <1> DEFINE m == [mem EXCEPT !.review_approved = TRUE]
  <1>1. Same(m, mem, {"review_approved"}) /\ m.review_approved
    BY PutSame
  <1>2. Saved(l, m)
    OBVIOUS
  <1> HIDE DEF m
  <1>3. SavesAt(l, {"review_approved"}) /\ mem'.review_approved
    BY <1>1, <1>2, SavedEffect
  <1>4. Locally({"reviewer_ran"})
    BY PutLocally
  <1>5. /\ Ghostly(work', work, {"stale", "full_review"})
        /\ Cleared(work', work, "review")
        /\ work'.full_review <=> work.full_review \/ mem.active_scope = FinalScope
    BY ApprovesClears
  <1> QED
    BY <1>3, <1>4, <1>5 DEF ReviewPassed

LEMMA PassesSecurity ==
    ASSUME mem \in TaskStates, work \in Worktrees, NEW l,
           Saved(l, [mem EXCEPT !.security_approved = TRUE]),
           work' = Looked(work, "security"), UNCHANGED loc
    PROVE  SecurityPassed(l)
  <1> DEFINE m == [mem EXCEPT !.security_approved = TRUE]
  <1>1. Same(m, mem, {"security_approved"}) /\ m.security_approved
    BY PutSame
  <1>2. Saved(l, m)
    OBVIOUS
  <1> HIDE DEF m
  <1>3. SavesAt(l, {"security_approved"}) /\ mem'.security_approved
    BY <1>1, <1>2, SavedEffect
  <1> QED
    BY <1>3, LookedClears, OriginsListed DEF SecurityPassed

(* The task is recorded done.                                              *)
LEMMA DoneEffect ==
    ASSUME mem \in TaskStates, NEW status, NEW v,
           EndSession(status, [mem EXCEPT !.done = v])
    PROVE  EndsWith({"done"}) /\ mem'.done = v
  <1> DEFINE m == [mem EXCEPT !.done = v]
  <1>1. Same(m, mem, {"done"}) /\ m.done = v
    BY PutSame
  <1>2. EndSession(status, m)
    OBVIOUS
  <1> HIDE DEF m
  <1> QED
    BY <1>1, <1>2, EndSessionEffect DEF EndsWith

LEMMA ReviewEffect ==
    ASSUME SessionType, Review
    PROVE  /\ pc = "review" /\ ReviewDue
           /\ \/ ReviewPassed("security")
              \/ /\ pc' = "review_fix" /\ disk' = mem /\ UNCHANGED work
                 /\ Same(mem', mem, {"review_iterations"})
                 /\ mem'.review_iterations = mem.review_iterations + 1
                 /\ Locally({"reviewer_ran"})
              \/ /\ EndsWith({}) /\ UNCHANGED work
                 /\ disk'.failed \/ loc.ctx = "post"
  <1>0. mem \in TaskStates /\ loc \in Locals /\ work \in Worktrees
    BY DEF SessionType
  <1>1. CASE /\ Saved("security", [mem EXCEPT !.review_approved = TRUE])
             /\ work' = Approves(work, mem)
             /\ loc' = [loc EXCEPT !.reviewer_ran = TRUE]
    <2>1. ReviewPassed("security")
      BY <1>0, <1>1, PassesReview
    <2> QED
      BY <2>1 DEF Review
  <1>2. CASE /\ pc' = "review_fix"
             /\ disk' = mem
             /\ mem' = [mem EXCEPT !.review_iterations = @ + 1]
             /\ loc' = [loc EXCEPT !.reviewer_ran = TRUE]
             /\ UNCHANGED <<work, exit>>
    <2>1. /\ Same(mem', mem, {"review_iterations"})
          /\ mem'.review_iterations = mem.review_iterations + 1
      BY <1>0, <1>2 DEF Same, Control, TaskStates
    <2> QED
      BY <1>0, <1>2, <2>1, PutLocally DEF Review
  <1>3. CASE GateGivesUp(mem) /\ UNCHANGED work
    BY <1>0, <1>3, GateGivesUpEffect, SameRefl DEF Review
  <1>4. CASE ReadOnlyAgentFails
    BY <1>4, FailsEffect DEF Review, ReadOnlyAgentFails, FailsWith
  <1> QED
    BY <1>1, <1>2, <1>3, <1>4 DEF Review

LEMMA FixGateEffect ==
    ASSUME SessionType, NEW fixing, NEW fixed, FixGate(fixing, fixed)
    PROVE  /\ pc = fixing
           /\ \/ /\ SavesAt(fixed, {"files_changed", "step_files_changed"})
                 /\ mem.files_changed => mem'.files_changed
                 /\ Locally({"wrote"}) /\ Ghostly(work', work, {"stale"})
                 /\ loc'.wrote = {} => OwesSame(work', work)
                 /\ loc'.wrote # {} => Owes(work', work, "implementer", Gates \ {"tests"})
              \/ /\ FailsWith({}) /\ Ghostly(work', work, {"stale", "unrecorded"})
                 /\ OwesSame(work', work) \/ Owes(work', work, "lost_implementer", Gates)
  <1>1. CASE AgentFails(mem, "lost_implementer")
    BY <1>1, AgentFailsEffect, OriginsListed DEF FixGate
  <1>2. ASSUME NEW wrote \in ImplementerWrites,
               Saved(fixed, RecordFiles(mem, wrote)),
               loc' = [loc EXCEPT !.wrote = wrote],
               work' = IF wrote = {} THEN work
                       ELSE Touch(work, "implementer", Gates \ {"tests"})
        PROVE  /\ SavesAt(fixed, {"files_changed", "step_files_changed"})
               /\ mem.files_changed => mem'.files_changed
               /\ Locally({"wrote"}) /\ Ghostly(work', work, {"stale"})
               /\ loc'.wrote = {} => OwesSame(work', work)
               /\ loc'.wrote # {} => Owes(work', work, "implementer", Gates \ {"tests"})
    <2>0. mem \in TaskStates /\ loc \in Locals /\ work \in Worktrees
      BY DEF SessionType
    <2>1. Locally({"wrote"}) /\ loc'.wrote = wrote
      BY <1>2, <2>0, PutLocally
    <2>2. /\ Ghostly(work', work, {"stale"})
          /\ wrote = {} => OwesSame(work', work)
          /\ wrote # {} => Owes(work', work, "implementer", Gates \ {"tests"})
      BY <1>2, <2>0, TouchOwes, OriginsListed, GhostlyRefl
    <2>3. /\ SavesAt(fixed, {"files_changed", "step_files_changed"})
          /\ mem.files_changed => mem'.files_changed
      BY <1>2, <2>0, SavedEffect, RecordFilesSame
    <2> QED
      BY <2>1, <2>2, <2>3
  <1> QED
    BY <1>1, <1>2 DEF FixGate

LEMMA GateFixHandledEffect ==
    ASSUME SessionType, NEW fixed, GateFixHandled(fixed)
    PROVE  /\ pc = fixed
           /\ SavesAt("review", {"tests_up_to_date"})
           /\ mem'.tests_up_to_date <=> mem.tests_up_to_date /\ loc.wrote = {}
           /\ Locally({"code_changed", "wrote"}) /\ loc'.wrote = {}
           /\ loc'.code_changed <=> loc.code_changed \/ loc.wrote # {}
           /\ Ghostly(work', work, {"stale"})
           /\ loc.wrote = {} => OwesSame(work', work)
           /\ loc.wrote # {} => Owes(work', work, "implementer", {"tests"})
  <1>0. mem \in TaskStates /\ loc \in Locals /\ work \in Worktrees
    BY DEF SessionType
  <1> DEFINE s == MarkBuildSyncStale(mem, loc.wrote)
             m == [s EXCEPT !.tests_up_to_date = @ /\ ~(loc.wrote # {})]
  <1>1. s \in TaskStates /\ Same(s, mem, {})
    BY <1>0, MarkBuildSyncStaleType, MarkBuildSyncStaleSame
  <1> HIDE DEF s
  <1>2. /\ Same(m, s, {"tests_up_to_date"})
        /\ m.tests_up_to_date <=> s.tests_up_to_date /\ loc.wrote = {}
    BY <1>1 DEF Same, Control, TaskStates
  <1> HIDE DEF m
  <1>3. s.tests_up_to_date = mem.tests_up_to_date
    BY <1>1 DEF Same, Control
  <1>4. Same(m, mem, {"tests_up_to_date"})
    BY <1>1, <1>2 DEF Same
  <1>5. Saved("review", m)
    BY DEF GateFixHandled, m, s
  <1>6. /\ Locally({"code_changed", "wrote"}) /\ loc'.wrote = {}
        /\ loc'.code_changed <=> loc.code_changed \/ loc.wrote # {}
    BY <1>0 DEF GateFixHandled, Locals, Locally, LocalFields
  <1>7. /\ Ghostly(work', work, {"stale"})
        /\ loc.wrote = {} => OwesSame(work', work)
        /\ loc.wrote # {} => Owes(work', work, "implementer", {"tests"})
    <2>1. work' = IF loc.wrote # {}
                  THEN NeedsSync(Touch(work, "implementer", {"tests"}),
                                 "implementer", loc.wrote)
                  ELSE work
      BY DEF GateFixHandled
    <2> QED
      BY <1>0, <2>1, WrittenOwes, OriginsListed, GhostlyRefl
  <1> QED
    BY <1>2, <1>3, <1>4, <1>5, <1>6, <1>7, SavedEffect DEF GateFixHandled

LEMMA SkipSecurityEffect ==
    ASSUME SessionType, SkipSecurity
    PROVE  /\ pc = "security" /\ ~SecurityDue /\ UNCHANGED <<loc, work>>
           /\ GoesTo(IF loc.ctx = "task" THEN "fast_path" ELSE "tests")
  BY GotoEffect DEF SkipSecurity

LEMMA SecurityReviewEffect ==
    ASSUME SessionType, SecurityReview
    PROVE  /\ pc = "security" /\ SecurityDue
           /\ \/ SecurityPassed(IF loc.ctx = "task" THEN "fast_path" ELSE "tests")
              \/ /\ pc' = "security_fix" /\ UNCHANGED <<loc, work>>
                 /\ Same(disk', mem, {"security_approved", "review_approved"})
                 /\ ~disk'.security_approved /\ ~disk'.review_approved
                 /\ Same(mem', mem, {"security_approved", "review_approved",
                                     "review_iterations", "security_review_iterations"})
                 /\ ~mem'.security_approved /\ ~mem'.review_approved
                 /\ mem'.review_iterations = 0
                 /\ mem'.security_review_iterations = mem.security_review_iterations + 1
              \/ /\ EndsWith({"security_approved", "review_approved"}) /\ UNCHANGED work
                 /\ ~disk'.security_approved
                 /\ \/ ~disk'.review_approved /\ (disk'.failed \/ loc.ctx = "post")
                    \/ Same(disk', mem, {}) /\ disk'.failed
  <1>0. mem \in TaskStates /\ loc \in Locals /\ work \in Worktrees
    BY DEF SessionType
  <1> DEFINE r == SecurityRejects(mem)
             c == CountSecurityFix(r)
             F == {"security_approved", "review_approved"}
  <1>r. /\ Same(r, mem, F) /\ ~r.security_approved /\ ~r.review_approved
        /\ r \in TaskStates
        /\ Same(c, mem, {"security_approved", "review_approved",
                         "review_iterations", "security_review_iterations"})
        /\ ~c.security_approved /\ ~c.review_approved /\ c.review_iterations = 0
        /\ c.security_review_iterations = mem.security_review_iterations + 1
    BY <1>0, RejectsSame, SecurityRejectsType
  <1> HIDE DEF r, c
  <1>1. CASE /\ Saved(IF loc.ctx = "task" THEN "fast_path" ELSE "tests",
                      [mem EXCEPT !.security_approved = TRUE])
             /\ work' = Looked(work, "security")
             /\ UNCHANGED loc
    BY <1>0, <1>1, PassesSecurity DEF SecurityReview
  <1>2. CASE /\ pc' = "security_fix" /\ disk' = r /\ mem' = c
             /\ UNCHANGED <<loc, work, exit>>
    BY <1>2, <1>r DEF SecurityReview
  <1>3. CASE GateGivesUp(r) /\ UNCHANGED work
    <2>1. EndsWith(F) /\ Same(disk', r, {}) /\ (disk'.failed \/ loc.ctx = "post")
      BY <1>3, <1>r, GateGivesUpEffect
    <2>2. ~disk'.security_approved /\ ~disk'.review_approved
      BY <1>r, <2>1 DEF Same, Control
    <2> QED
      BY <1>3, <2>1, <2>2 DEF SecurityReview
  <1>4. CASE ReadOnlyAgentFails
    <2>1. FailsWith({}) /\ UNCHANGED work /\ Same(disk', mem, {})
      BY <1>0, <1>4, FailsEffect, FailSavedEffect, SameRefl DEF ReadOnlyAgentFails
    <2>2. EndsWith(F) /\ disk'.failed
      BY <2>1, SameWeaken DEF FailsWith, EndsWith
    <2>3. ~disk'.security_approved
      BY <2>1 DEF SecurityReview, SecurityDue, Same, Control
    <2> QED
      BY <2>1, <2>2, <2>3 DEF SecurityReview
  <1> QED
    BY <1>1, <1>2, <1>3, <1>4 DEF SecurityReview, r, c

LEMMA FastPathEffect ==
    ASSUME SessionType, FastPath
    PROVE  /\ pc = "fast_path" /\ UNCHANGED work
           /\ \/ /\ cfg.review_fix /\ ~loc.code_changed /\ ~GatesActive
                 /\ EndsWith({"done"}) /\ mem'.done
              \/ FailsWith({})
              \/ Keeps("tests") /\ UNCHANGED loc
  <1>0. mem \in TaskStates
    BY DEF SessionType
  <1>1. CASE FailSaved(mem)
    BY <1>1, FailsEffect DEF FastPath
  <1>2. CASE (Goto("tests") \/ Saved("tests", mem)) /\ UNCHANGED loc
    BY <1>2, GotoEffect, SavedEffect, SameRefl, GoesKeeps, SavesKeeps DEF FastPath
  <1>3. CASE EndSession("done", [mem EXCEPT !.done = TRUE])
             /\ cfg.review_fix /\ ~loc.code_changed /\ ~GatesActive
    BY <1>0, <1>3, DoneEffect DEF FastPath
  <1> QED
    BY <1>1, <1>2, <1>3 DEF FastPath
-----------------------------------------------------------------------------
LEMMA SkipTestsEffect ==
    ASSUME SessionType, SkipTests
    PROVE  /\ pc = "tests" /\ (~cfg.run_test_writing \/ TestsUpToDate) /\ UNCHANGED work
           /\ \/ FailsWith({})
              \/ /\ GoesTo("tests_done")
                 /\ Locally({"tests_changed"}) /\ loc'.tests_changed = FALSE
  <1>0. loc \in Locals
    BY DEF SessionType
  <1> QED
    BY <1>0, FailsEffect, GotoEffect, PutLocally DEF SkipTests

(* The marker is set and the test writer is about to run.                  *)
WriterBegins ==
    /\ SavesAt("test_writer", {"test_writer_audit", "tests_up_to_date"})
    /\ mem'.test_writer_audit = "running" /\ ~mem'.tests_up_to_date

LEMMA BeginTestWritingEffect ==
    ASSUME SessionType, BeginTestWriting
    PROVE  /\ pc = "tests" /\ cfg.run_test_writing /\ ~TestsUpToDate
           /\ \/ /\ WriterBegins /\ UNCHANGED loc
                 /\ Ghostly(work', work, {}) /\ OwesSame(work', work)
              \/ FailsWith({}) /\ UNCHANGED work
              \/ /\ mem.test_writer_audit = "completed"
                 /\ GoesTo("test_audit") /\ Locally({"wrote"}) /\ UNCHANGED work
  <1>0. mem \in TaskStates /\ loc \in Locals /\ work \in Worktrees
    BY DEF SessionType
  <1>1. CASE Saved("test_writer", BeginAudit(mem)) /\ UNCHANGED loc
             /\ (UNCHANGED work \/ work' = [work EXCEPT !.interrupted_tests = FALSE])
    <2>1. WriterBegins
      BY <1>0, <1>1, SavedEffect, BeginAuditSame DEF WriterBegins
    <2>2. Ghostly(work', work, {}) /\ OwesSame(work', work)
      BY <1>0, <1>1, PutInterrupted, GhostlyRefl
    <2> QED
      BY <1>1, <2>1, <2>2 DEF BeginTestWriting
  <1>2. CASE FailSaved(mem) /\ UNCHANGED work
    BY <1>2, FailsEffect DEF BeginTestWriting
  <1>3. CASE /\ mem.test_writer_audit = "completed" /\ Goto("test_audit")
             /\ \E wrote : loc' = [loc EXCEPT !.wrote = wrote]
             /\ UNCHANGED work
    BY <1>0, <1>3, GotoEffect, PutLocally DEF BeginTestWriting
  <1> QED
    BY <1>1, <1>2, <1>3 DEF BeginTestWriting

LEMMA TestWriterEffect ==
    ASSUME SessionType, TestWriter
    PROVE  /\ pc = "test_writer"
           /\ \/ /\ SavesAt("test_written", {"files_changed", "step_files_changed",
                                             "tests_up_to_date"})
                 /\ mem'.tests_up_to_date /\ (mem.files_changed => mem'.files_changed)
                 /\ Locally({"wrote"})
                 /\ Ghostly(work', work, {"stale"}) /\ Cleared(work', work, "tests")
              \/ /\ FailsWith({}) /\ Ghostly(work', work, {}) /\ OwesSame(work', work)
  <1>0. mem \in TaskStates /\ loc \in Locals /\ work \in Worktrees
    BY DEF SessionType
  <1>1. ASSUME NEW wrote,
               Saved("test_written", [RecordFiles(mem, wrote)
                                      EXCEPT !.tests_up_to_date = TRUE]),
               loc' = [loc EXCEPT !.wrote = wrote],
               work' = [Looked(work, "tests") EXCEPT
                         !.interrupted_tests = @ \/ wrote # {}]
        PROVE  /\ SavesAt("test_written", {"files_changed", "step_files_changed",
                                           "tests_up_to_date"})
               /\ mem'.tests_up_to_date /\ (mem.files_changed => mem'.files_changed)
               /\ Locally({"wrote"})
               /\ Ghostly(work', work, {"stale"}) /\ Cleared(work', work, "tests")
    <2> DEFINE r == RecordFiles(mem, wrote)
               m == [r EXCEPT !.tests_up_to_date = TRUE]
               l == Looked(work, "tests")
    <2>1. /\ r \in TaskStates /\ Same(r, mem, {"files_changed", "step_files_changed"})
          /\ mem.files_changed => r.files_changed
      BY <1>0, RecordFilesSame, RecordFilesType
    <2> HIDE DEF r
    <2>2. Same(m, r, {"tests_up_to_date"}) /\ m.tests_up_to_date
      BY <2>1, PutSame
    <2>3. Saved("test_written", m)
      BY <1>1 DEF m, r
    <2> HIDE DEF m
    <2>4. Same(m, mem, {"files_changed", "step_files_changed", "tests_up_to_date"})
          /\ (mem.files_changed => m.files_changed)
      BY <2>1, <2>2 DEF Same, Control
    <2>5. l \in Worktrees /\ Ghostly(l, work, {"stale"}) /\ Cleared(l, work, "tests")
      BY <1>0, LookedType, LookedClears, OriginsListed
    <2>6. \E b : work' = [l EXCEPT !.interrupted_tests = b]
      BY <1>1
    <2> HIDE DEF l
    <2>7. Ghostly(work', l, {}) /\ work'.stale = l.stale
      BY <2>5, <2>6, PutInterrupted
    <2>8. Ghostly(work', work, {"stale"}) /\ Cleared(work', work, "tests")
      BY <2>5, <2>7 DEF Ghostly, Cleared
    <2> QED
      BY <1>0, <1>1, <2>2, <2>3, <2>4, <2>8, SavedEffect, PutLocally
  <1>2. ASSUME FailSaved(mem),
               \E wrote \in BOOLEAN :
                  work' = [work EXCEPT !.interrupted_tests = @ \/ wrote]
        PROVE  FailsWith({}) /\ Ghostly(work', work, {}) /\ OwesSame(work', work)
    <2>1. \E b : work' = [work EXCEPT !.interrupted_tests = b]
      BY <1>2
    <2> QED
      BY <1>0, <1>2, <2>1, FailsEffect, PutInterrupted
  <1> QED
    BY <1>1, <1>2 DEF TestWriter

LEMMA RecordAuditFilesEffect ==
    ASSUME SessionType, RecordAuditFiles
    PROVE  /\ pc = "test_written" /\ UNCHANGED <<loc, work>>
           /\ SavesAt("test_audit", {"test_writer_audit"})
           /\ mem'.test_writer_audit = "completed"
  <1> DEFINE m == [mem EXCEPT !.test_writer_audit = "completed",
                              !.test_writer_audit_files_written = loc.wrote]
  <1>1. Same(m, mem, {"test_writer_audit"}) /\ m.test_writer_audit = "completed"
    BY DEF SessionType, TaskStates, Same, Control
  <1>2. Saved("test_audit", m)
    BY DEF RecordAuditFiles
  <1> HIDE DEF m
  <1> QED
    BY <1>1, <1>2, SavedEffect DEF RecordAuditFiles

(* Test files written and left in the tree, and what the audit found.      *)
TestsLeft(wrote) ==
    /\ Ghostly(work', work, {"stale", "gated"})
    /\ wrote = {} => OwesSame(work', work) /\ work'.gated = work.gated
    /\ wrote # {} => Owes(work', work, "tests", {"review", "security", "validation"})

Recorded(m) == m.test_execution_gate_records <=> mem.test_execution_gate_records \/ work'.gated

LEMMA TestsLeftEffect ==
    ASSUME SessionType, NEW wrote, NEW gated \in GatesAfter(wrote),
           work' = [TestsRemain(work, wrote, gated) EXCEPT !.interrupted_tests = FALSE]
    PROVE  TestsLeft(wrote) /\ (work'.gated <=> gated)
  <1>1. work \in Worktrees /\ gated \in BOOLEAN
    BY GatesAfterType DEF SessionType
  <1>2. wrote = {} => gated = work.gated
    BY DEF GatesAfter
  <1> QED
    BY <1>1, <1>2, TestsRemainOwes DEF TestsLeft

LEMMA RetryTestWriterEffect ==
    ASSUME SessionType, RetryTestWriter
    PROVE  /\ pc = "test_audit" /\ loc.wrote # {} /\ ~loc.retry
           /\ SavesAt("test_writer", {"test_writer_audit", "tests_up_to_date",
                                      "test_execution_gate_records"})
           /\ mem'.test_writer_audit = "running" /\ ~mem'.tests_up_to_date
           /\ Locally({"kept", "wrote", "retry"}) /\ loc'.retry = TRUE
           /\ TestsLeft(loc'.kept) /\ Recorded(mem')
  <1>0. mem \in TaskStates /\ loc \in Locals /\ work \in Worktrees
    BY DEF SessionType
  <1>1. PICK kept \in {{}, loc.wrote} : \E gated \in GatesAfter(kept) :
          /\ Saved("test_writer", BeginAudit(RecordGates(mem, gated)))
          /\ loc' = [loc EXCEPT !.kept = kept, !.wrote = {}, !.retry = TRUE]
          /\ work' = [TestsRemain(work, kept, gated) EXCEPT !.interrupted_tests = FALSE]
    BY DEF RetryTestWriter
  <1>2. PICK gated \in GatesAfter(kept) :
          /\ Saved("test_writer", BeginAudit(RecordGates(mem, gated)))
          /\ loc' = [loc EXCEPT !.kept = kept, !.wrote = {}, !.retry = TRUE]
          /\ work' = [TestsRemain(work, kept, gated) EXCEPT !.interrupted_tests = FALSE]
    BY <1>1
  <1>3. gated \in BOOLEAN
    BY GatesAfterType
  <1>4. TestsLeft(kept) /\ (work'.gated <=> gated)
    BY <1>2, TestsLeftEffect
  <1>5. Locally({"kept", "wrote", "retry"}) /\ loc'.retry = TRUE /\ loc'.kept = kept
    BY <1>0, <1>2 DEF Locals, Locally, LocalFields
  <1> DEFINE r == RecordGates(mem, gated)
             m == BeginAudit(r)
  <1>6. /\ r \in TaskStates /\ Same(r, mem, {"test_execution_gate_records"})
        /\ r.test_execution_gate_records <=> mem.test_execution_gate_records \/ gated
    BY <1>0, <1>3, RecordGatesSame, RecordGatesType
  <1> HIDE DEF r
  <1>7. /\ Same(m, r, {"test_writer_audit", "tests_up_to_date"})
        /\ m.test_writer_audit = "running" /\ ~m.tests_up_to_date
    BY <1>6, BeginAuditSame
  <1>8. Saved("test_writer", m)
    BY <1>2 DEF m, r
  <1> HIDE DEF m
  <1>9. /\ Same(m, mem, {"test_writer_audit", "tests_up_to_date",
                         "test_execution_gate_records"})
        /\ m.test_execution_gate_records = r.test_execution_gate_records
    BY <1>6, <1>7 DEF Same, Control
  <1>10. mem' = m /\ SavesAt("test_writer", {"test_writer_audit", "tests_up_to_date",
                                             "test_execution_gate_records"})
    BY <1>8, <1>9, SavedEffect
  <1>11. Recorded(mem')
    BY <1>4, <1>6, <1>9, <1>10 DEF Recorded
  <1> QED
    BY <1>4, <1>5, <1>7, <1>10, <1>11 DEF RetryTestWriter

AuditFields == {"test_writer_audit", "test_execution_gate_records"}

LEMMA FinishAuditEffect ==
    ASSUME SessionType, FinishAudit
    PROVE  /\ pc = "test_audit"
           /\ \E remaining \in SUBSET Writes :
                /\ TestsLeft(remaining)
                /\ \/ FailsWith(AuditFields)
                   \/ /\ pc' = "tests_done" /\ Same(mem', mem, AuditFields)
                      /\ Locally({"wrote", "kept", "retry", "tests_changed"})
                      /\ loc'.wrote = {} /\ loc'.kept = {} /\ loc'.retry = FALSE
                      /\ loc'.tests_changed <=> remaining # {} \/ loc.kept # {}
           /\ Same(disk', mem, AuditFields)
           /\ mem'.test_writer_audit = "none" /\ disk'.test_writer_audit = "none"
           /\ Recorded(mem') /\ Recorded(disk')
  <1>0. mem \in TaskStates /\ loc \in Locals /\ work \in Worktrees
    BY DEF SessionType
  <1> DEFINE Finished(remaining, gated) ==
               LET all == remaining \cup loc.kept
                   m   == [RecordGates(mem, gated) EXCEPT
                             !.test_writer_audit = "none",
                             !.test_writer_audit_files_written = {}]
               IN  /\ work' = [TestsRemain(work, remaining, gated)
                                 EXCEPT !.interrupted_tests = FALSE]
                   /\ IF ~cfg.run_build /\ gated
                      THEN FailSaved(m)
                      ELSE /\ pc' = "tests_done"
                           /\ disk' = m
                           /\ mem' = MarkBuildSyncStale(m, all)
                           /\ loc' = [loc EXCEPT !.wrote = {}, !.kept = {}, !.retry = FALSE,
                                                 !.tests_changed = all # {}]
                           /\ UNCHANGED exit
  <1>1. PICK remaining \in {{}, loc.wrote} :
           \E gated \in GatesAfter(remaining) : Finished(remaining, gated)
    BY DEF FinishAudit
  <1> HIDE DEF Finished
  <1>2. PICK gated \in GatesAfter(remaining) : Finished(remaining, gated)
    BY <1>1
  <1>3. gated \in BOOLEAN /\ remaining \in SUBSET Writes
    BY <1>0, GatesAfterType, LocalsType
  <1>4. TestsLeft(remaining) /\ (work'.gated <=> gated)
    <2>1. work' = [TestsRemain(work, remaining, gated) EXCEPT !.interrupted_tests = FALSE]
      BY <1>2 DEF Finished
    <2> QED
      BY <1>2, <2>1, TestsLeftEffect
  <1> DEFINE all == remaining \cup loc.kept
             r == RecordGates(mem, gated)
             m == [r EXCEPT !.test_writer_audit = "none",
                            !.test_writer_audit_files_written = {}]
  <1>5. \/ FailSaved(m)
        \/ /\ pc' = "tests_done" /\ disk' = m
           /\ mem' = MarkBuildSyncStale(m, all)
           /\ loc' = [loc EXCEPT !.wrote = {}, !.kept = {}, !.retry = FALSE,
                                 !.tests_changed = all # {}]
    BY <1>2 DEF Finished
  <1>6. /\ r \in TaskStates /\ Same(r, mem, {"test_execution_gate_records"})
        /\ r.test_execution_gate_records <=> mem.test_execution_gate_records \/ gated
    BY <1>0, <1>3, RecordGatesSame, RecordGatesType
  <1>7. m \in TaskStates
    BY <1>6, PutAudit, PutAuditFiles DEF m
  <1> HIDE DEF r
  <1>8. Same(m, r, {"test_writer_audit"}) /\ m.test_writer_audit = "none"
    BY <1>6 DEF TaskStates, Same, Control
  <1> HIDE DEF m
  <1>9. Same(m, mem, AuditFields) /\ m.test_execution_gate_records = r.test_execution_gate_records
    BY <1>6, <1>8 DEF Same, Control, AuditFields
  <1>10. Recorded(m)
    BY <1>4, <1>6, <1>9 DEF Recorded
  <1>11. CASE FailSaved(m)
    <2>1. FailsWith(AuditFields) /\ Same(disk', m, {}) /\ mem' = disk'
      BY <1>7, <1>9, <1>11, FailSavedEffect DEF FailsWith, EndsWith
    <2>2. disk'.test_writer_audit = "none" /\ Recorded(disk') /\ Same(disk', mem, AuditFields)
      BY <1>8, <1>9, <1>10, <2>1 DEF Same, Control, Recorded
    <2> QED
      BY <1>3, <1>4, <2>1, <2>2 DEF FinishAudit
  <1>12. CASE /\ pc' = "tests_done" /\ disk' = m
              /\ mem' = MarkBuildSyncStale(m, all)
              /\ loc' = [loc EXCEPT !.wrote = {}, !.kept = {}, !.retry = FALSE,
                                    !.tests_changed = all # {}]
    <2>1. /\ Locally({"wrote", "kept", "retry", "tests_changed"})
          /\ loc'.wrote = {} /\ loc'.kept = {} /\ loc'.retry = FALSE
          /\ loc'.tests_changed <=> remaining # {} \/ loc.kept # {}
      BY <1>0, <1>12 DEF Locals, Locally, LocalFields
    <2>2. Same(mem', m, {})
      BY <1>7, <1>12, MarkBuildSyncStaleSame
    <2>3. mem'.test_writer_audit = "none" /\ Recorded(mem') /\ Same(mem', mem, AuditFields)
      BY <1>8, <1>9, <1>10, <2>2 DEF Same, Control, Recorded
    <2> QED
      BY <1>3, <1>4, <1>8, <1>9, <1>10, <1>12, <2>1, <2>3 DEF FinishAudit
  <1> QED
    BY <1>5, <1>11, <1>12
-----------------------------------------------------------------------------
(* A fix task's changed tests go back to a reviewer.                       *)
RetestsReview ==
    /\ cfg.run_review
    /\ SavesAt("retest_review", {"review_approved", "review_iterations"})
    /\ ~mem'.review_approved

RetestsSecurity ==
    /\ cfg.run_security_review
    /\ SavesAt("retest_security", {"security_approved", "security_review_iterations"})
    /\ ~mem'.security_approved

LEMMA RetestEffect ==
    ASSUME mem \in TaskStates, NEW reviewed, Retest(mem, reviewed)
    PROVE  \/ ~reviewed /\ RetestsReview
           \/ (reviewed \/ ~cfg.run_review) /\ RetestsSecurity
           \/ (reviewed \/ ~cfg.run_review) /\ ~cfg.run_security_review /\ GoesTo("gates_done")
  <1> DEFINE r == [mem EXCEPT !.review_approved = FALSE, !.review_iterations = 0]
             s == [mem EXCEPT !.security_approved = FALSE, !.security_review_iterations = 0]
  <1>1. /\ Same(r, mem, {"review_approved", "review_iterations"}) /\ ~r.review_approved
        /\ Same(s, mem, {"security_approved", "security_review_iterations"})
        /\ ~s.security_approved
    BY DEF Same, Control, TaskStates
  <1>2. \/ cfg.run_review /\ ~reviewed /\ Saved("retest_review", r)
        \/ /\ ~(cfg.run_review /\ ~reviewed) /\ cfg.run_security_review
           /\ Saved("retest_security", s)
        \/ /\ ~(cfg.run_review /\ ~reviewed) /\ ~cfg.run_security_review
           /\ Unsaved("gates_done", mem)
    BY DEF Retest
  <1> HIDE DEF r, s
  <1> QED
    BY <1>1, <1>2, SavedEffect DEF RetestsReview, RetestsSecurity, Unsaved, GoesTo

LEMMA TestsDoneEffect ==
    ASSUME SessionType, TestsDone
    PROVE  /\ pc = "tests_done" /\ UNCHANGED <<loc, work>>
           /\ \/ /\ cfg.review_fix /\ loc.tests_changed
                 /\ RetestsReview \/ (~cfg.run_review /\ RetestsSecurity)
                    \/ (~cfg.run_review /\ GoesTo("gates_done"))
              \/ ~(cfg.review_fix /\ loc.tests_changed) /\ GoesTo("gates_done")
  BY RetestEffect, GotoEffect DEF TestsDone, SessionType

LEMMA RetestReviewEffect ==
    ASSUME SessionType, RetestReview
    PROVE  /\ pc = "retest_review"
           /\ ReviewPassed("retest_reviewed") \/ (FailsWith({}) /\ UNCHANGED work)
  BY PassesReview, FailsEffect DEF RetestReview, SessionType, ReadOnlyAgentFails

LEMMA RetestReviewedEffect ==
    ASSUME SessionType, RetestReviewed
    PROVE  /\ pc = "retest_reviewed" /\ UNCHANGED <<loc, work>>
           /\ RetestsSecurity \/ (~cfg.run_security_review /\ GoesTo("gates_done"))
  BY RetestEffect DEF RetestReviewed, SessionType

LEMMA RetestSecurityEffect ==
    ASSUME SessionType, RetestSecurity
    PROVE  /\ pc = "retest_security"
           /\ \/ SecurityPassed("gates_done")
              \/ /\ FailsWith({"security_approved", "review_approved"}) /\ UNCHANGED work
                 /\ ~disk'.security_approved /\ ~disk'.review_approved
              \/ FailsWith({}) /\ UNCHANGED work
  <1>0. mem \in TaskStates /\ work \in Worktrees
    BY DEF SessionType
  <1>1. CASE FailSaved(SecurityRejects(mem)) /\ UNCHANGED work
    <2> DEFINE r == SecurityRejects(mem)
    <2>1. /\ Same(r, mem, {"security_approved", "review_approved"})
          /\ ~r.security_approved /\ ~r.review_approved /\ r \in TaskStates
      BY <1>0, RejectsSame, SecurityRejectsType
    <2> HIDE DEF r
    <2>2. /\ FailsWith({"security_approved", "review_approved"})
          /\ Same(disk', r, {})
      BY <1>1, <2>1, FailSavedEffect DEF r
    <2>3. ~disk'.security_approved /\ ~disk'.review_approved
      BY <2>1, <2>2 DEF Same, Control
    <2> QED
      BY <1>1, <2>2, <2>3 DEF RetestSecurity
  <1> QED
    BY <1>0, <1>1, PassesSecurity, FailsEffect DEF RetestSecurity, ReadOnlyAgentFails

(* The gates are through, in the scope they ran in.                        *)
GatePassed(l) ==
    /\ SavesAt(l, {"final_full_task_review_done"})
    /\ mem'.final_full_task_review_done <=>
         mem.final_full_task_review_done \/ mem.active_scope = FinalScope

LEMMA GatePassedEffect ==
    ASSUME mem \in TaskStates, NEW l, Saved(l, PassedFinalGate(mem))
    PROVE  GatePassed(l)
  <1> DEFINE p == PassedFinalGate(mem)
  <1>1. /\ Same(p, mem, {"final_full_task_review_done"})
        /\ p.final_full_task_review_done <=>
             mem.final_full_task_review_done \/ mem.active_scope = FinalScope
    BY PassedFinalGateSame
  <1> HIDE DEF p
  <1> QED
    BY <1>1, SavedEffect DEF p, GatePassed

LEMMA GatesDoneEffect ==
    ASSUME SessionType, GatesDone
    PROVE  /\ pc = "gates_done" /\ UNCHANGED work
           /\ \/ loc.ctx = "task" /\ ~cfg.run_build /\ FailsWith({})
              \/ /\ loc.ctx = "task" /\ ~cfg.run_build /\ ~GatesActive
                 /\ EndsWith({"done"}) /\ mem'.done = mem.files_changed
              \/ /\ loc.ctx = "task" /\ cfg.run_build
                 /\ GoesTo("build_loop") /\ UNCHANGED loc
              \/ /\ loc.ctx = "step" /\ UNCHANGED loc
                 /\ GoesTo(IF cfg.run_build /\ cfg.run_build_per_step
                           THEN "build_loop" ELSE "step_done")
              \/ loc.ctx = "final" /\ GatePassed("final_validate") /\ UNCHANGED loc
              \/ loc.ctx = "post" /\ GateFixed /\ GatePassed("loop_head") /\ UNCHANGED loc
              \/ /\ loc.ctx = "post" /\ ~GateFixed /\ UNCHANGED loc
                 /\ GatePassed("accept") \/ (mem.active_scope # FinalScope /\ GoesTo("accept"))
  <1>0. mem \in TaskStates
    BY DEF SessionType
  <1>1. CASE loc.ctx = "task" /\ ~cfg.run_build
    BY <1>0, <1>1, FailsEffect, DoneEffect DEF GatesDone
  <1>2. CASE ~(loc.ctx = "task" /\ ~cfg.run_build)
    BY <1>0, <1>2, GotoEffect, GatePassedEffect DEF GatesDone
  <1> QED
    BY <1>1, <1>2
-----------------------------------------------------------------------------
LEMMA BuildLoopEffect ==
    ASSUME SessionType, BuildLoop
    PROVE  /\ pc = "build_loop" /\ UNCHANGED loc
           /\ \/ /\ mem.build_loop_key = BuildLoopKey(mem)
                 /\ GoesTo("loop_head") /\ UNCHANGED work
              \/ /\ SavesAt("loop_head", {"build_loop_key", "build_loop_start_iteration"})
                 /\ mem'.build_loop_key = BuildLoopKey(mem)
                 /\ mem'.build_loop_start_iteration = mem.build_iterations
                 /\ Ghostly(work', work, {"fixes"}) /\ OwesSame(work', work)
                 /\ work'.fixes = 0
  <1>0. mem \in TaskStates /\ work \in Worktrees
    BY DEF SessionType
  <1>1. CASE mem.build_loop_key = BuildLoopKey(mem)
    BY <1>1, GotoEffect DEF BuildLoop
  <1>2. CASE mem.build_loop_key # BuildLoopKey(mem)
    <2> DEFINE k == BuildLoopKey(mem)
               m == [mem EXCEPT !.build_loop_key = k,
                                !.build_loop_start_iteration = mem.build_iterations]
    <2>1. Saved("loop_head", m) /\ work' = [work EXCEPT !.fixes = 0] /\ pc = "build_loop"
          /\ UNCHANGED loc
      BY <1>2 DEF BuildLoop
    <2> HIDE DEF k
    <2>2. /\ Same(m, mem, {"build_loop_key", "build_loop_start_iteration"})
          /\ m.build_loop_key = k /\ m.build_loop_start_iteration = mem.build_iterations
      BY <1>0 DEF Same, Control, TaskStates
    <2> HIDE DEF m
    <2>3. Ghostly(work', work, {"fixes"}) /\ OwesSame(work', work) /\ work'.fixes = 0
      BY <1>0, <2>1 DEF Worktrees, Ghostly, GhostFields, OwesSame
    <2> QED
      BY <2>1, <2>2, <2>3, SavedEffect DEF k
  <1> QED
    BY <1>1, <1>2

LEMMA LoopHeadEffect ==
    ASSUME SessionType, LoopHead
    PROVE  /\ pc = "loop_head" /\ UNCHANGED work
           /\ \/ FailsWith({})
              \/ FailsWith({"build_iterations"})
                 /\ mem'.build_iterations = mem.build_iterations + 1
              \/ /\ ~ValidationOnly /\ pc' = "fixer" /\ UNCHANGED disk
                 /\ Same(mem', mem, {"build_iterations"})
                 /\ mem'.build_iterations = mem.build_iterations + 1
                 /\ Locally({"validation_only"})
              \/ /\ ~GatesActive /\ pc' \in {"build", "sync"}
                 /\ Same(mem', mem, {"build_iterations", "test_execution_gate_records"})
                 /\ mem'.build_iterations = mem.build_iterations + 1
                 /\ mem'.test_execution_gate_records <=>
                      mem.test_execution_gate_records /\ work.gated
                 /\ \/ UNCHANGED disk
                    \/ /\ Same(disk', mem, {"build_iterations"})
                       /\ disk'.build_iterations = mem.build_iterations + 1
                 /\ Locally({"validation_only"}) /\ loc'.validation_only = ValidationOnly
  <1>0. mem \in TaskStates /\ loc \in Locals
    BY DEF SessionType
  <1> DEFINE a == AttemptStarted
             r == [AttemptStarted EXCEPT !.test_execution_gate_records = @ /\ work.gated]
  <1>1. /\ Same(a, mem, {"build_iterations"}) /\ a \in TaskStates
        /\ a.build_iterations = mem.build_iterations + 1
        /\ Same(r, mem, {"build_iterations", "test_execution_gate_records"})
        /\ r.build_iterations = mem.build_iterations + 1
        /\ r.test_execution_gate_records <=> mem.test_execution_gate_records /\ work.gated
    BY <1>0, AttemptStartedSame, AttemptStartedType DEF SessionType
  <1>2. /\ UNCHANGED work /\ pc = "loop_head"
        /\ \/ FailSaved(mem)
           \/ ValidationOnly /\ FailSaved(a)
           \/ ~ValidationOnly /\ Unsaved("fixer", a)
              /\ loc' = [loc EXCEPT !.validation_only = FALSE]
           \/ /\ ~GatesActive /\ pc' \in {"build", "sync"} /\ mem' = r
              /\ disk' = a \/ disk' = disk
              /\ loc' = [loc EXCEPT !.validation_only = ValidationOnly]
    BY DEF LoopHead, AttemptFailed
  <1> HIDE DEF a, r
  <1>3. CASE FailSaved(mem)
    BY <1>2, <1>3, FailsEffect
  <1>4. CASE FailSaved(a)
    <2>1. FailsWith({"build_iterations"}) /\ Same(disk', a, {}) /\ mem' = disk'
      BY <1>1, <1>4, FailSavedEffect DEF FailsWith, EndsWith
    <2>2. mem'.build_iterations = mem.build_iterations + 1
      BY <1>1, <2>1 DEF Same, Control
    <2> QED
      BY <1>2, <2>1, <2>2
  <1>5. CASE ~ValidationOnly /\ Unsaved("fixer", a)
             /\ loc' = [loc EXCEPT !.validation_only = FALSE]
    BY <1>0, <1>1, <1>2, <1>5, PutLocally DEF Unsaved
  <1>6. CASE /\ ~GatesActive /\ pc' \in {"build", "sync"} /\ mem' = r
             /\ disk' = a \/ disk' = disk
             /\ loc' = [loc EXCEPT !.validation_only = ValidationOnly]
    BY <1>0, <1>1, <1>2, <1>6, PutLocally
  <1> QED
    BY <1>2, <1>3, <1>4, <1>5, <1>6

(* An attempt failed: the fixer's turn, or the session's end.              *)
LEMMA AttemptFailedEffect ==
    ASSUME SessionType, AttemptFailed(mem, loc.validation_only)
    PROVE  \/ FailsWith({})
           \/ ~loc.validation_only /\ GoesTo("fixer") /\ Locally({"validation_only"})
  BY FailsEffect, PutLocally DEF AttemptFailed, Unsaved, GoesTo, SessionType

LEMMA SyncEffect ==
    ASSUME SessionType, Sync
    PROVE  /\ pc = "sync"
           /\ \E F \in {{}, {"files_changed", "step_files_changed"} \cup GateFields} :
                /\ \/ F = {} /\ OwesSame(work', work)
                   \/ /\ F # {} /\ Owes(work', work, "sync", Gates)
                      /\ mem'.files_changed /\ AllStale(mem', mem)
                /\ \/ SavesAt("build", F)
                   \/ ~loc.validation_only /\ SavesAt("fixer", F)
                   \/ FailsWith(F)
           /\ Ghostly(work', work, {"stale"})
           /\ pc' # "idle" => Locally({"code_changed"})
  <1>0. mem \in TaskStates /\ work \in Worktrees /\ loc \in Locals
    BY DEF SessionType
  <1>1. PICK ok \in BOOLEAN, adopted \in BOOLEAN :
         LET m == IF adopted THEN StaleAllGates(RecordFiles(mem, {"code"})) ELSE mem
         IN  /\ \/ /\ ok
                   /\ Saved("build", [m EXCEPT !.build_synced = TRUE])
                   /\ loc' = [loc EXCEPT !.code_changed = @ \/ adopted]
                \/ /\ ~ok /\ loc.validation_only
                   /\ FailSaved(m)
                \/ /\ ~ok /\ ~loc.validation_only
                   /\ Saved("fixer", m)
                   /\ loc' = [loc EXCEPT !.code_changed = @ \/ adopted]
             /\ work' = [(IF adopted THEN Touch(work, "sync", Gates) ELSE work)
                         EXCEPT !.unsynced = IF ok THEN {} ELSE @]
    BY DEF Sync
  <1> DEFINE r == RecordFiles(mem, {"code"})
             s == StaleAllGates(r)
             m == IF adopted THEN s ELSE mem
             b == [m EXCEPT !.build_synced = TRUE]
             t == IF adopted THEN Touch(work, "sync", Gates) ELSE work
             G == {"files_changed", "step_files_changed"} \cup GateFields
             F == IF adopted THEN G ELSE {}
  <1>2. /\ \/ Saved("build", b) /\ loc' = [loc EXCEPT !.code_changed = @ \/ adopted]
           \/ FailSaved(m)
           \/ /\ ~loc.validation_only /\ Saved("fixer", m)
              /\ loc' = [loc EXCEPT !.code_changed = @ \/ adopted]
        /\ \E u : work' = [t EXCEPT !.unsynced = u]
    BY <1>1
  <1>3. /\ Same(r, mem, {"files_changed", "step_files_changed"})
        /\ r \in TaskStates /\ r.files_changed
    <2>1. {"code"} # {}
      OBVIOUS
    <2> QED
      BY <1>0, <2>1, RecordFilesSame, RecordFilesType
  <1> HIDE DEF r
  <1>4. s \in TaskStates /\ Same(s, r, GateFields) /\ AllStale(s, r)
    BY <1>3, StaleAllGatesSame, StaleAllGatesType
  <1> HIDE DEF s
  <1>5. Same(s, mem, G) /\ s.files_changed /\ AllStale(s, mem)
    <2>1. Same(s, mem, G)
      BY <1>3, <1>4 DEF Same
    <2>2. s.files_changed = r.files_changed
      BY <1>4 DEF Same, Control, GateFields
    <2>3. /\ r.final_full_task_review_done = mem.final_full_task_review_done
          /\ r.active_scope = mem.active_scope
      BY <1>3 DEF Same, Control
    <2> QED
      BY <1>3, <1>4, <2>1, <2>2, <2>3 DEF AllStale
  <1>6. /\ m \in TaskStates /\ Same(m, mem, F)
        /\ adopted => m.files_changed /\ AllStale(m, mem)
    BY <1>0, <1>4, <1>5, SameRefl
  <1> HIDE DEF m
  <1>7. Same(b, m, {})
    BY <1>6, PutSame
  <1> HIDE DEF b
  <1>8. /\ Same(b, mem, F)
        /\ adopted => b.files_changed /\ AllStale(b, mem)
    <2>1. Same(b, m, F)
      BY <1>7, SameWeaken
    <2>2. Same(b, mem, F)
      BY <1>6, <2>1, SameTrans
    <2>3. /\ b.files_changed = m.files_changed
          /\ b.final_full_task_review_done = m.final_full_task_review_done
          /\ b.review_approved = m.review_approved
          /\ b.security_approved = m.security_approved
          /\ b.tests_up_to_date = m.tests_up_to_date
      BY <1>7 DEF Same, Control
    <2> QED
      BY <1>6, <2>2, <2>3 DEF AllStale
  <1>9. /\ Ghostly(work', work, {"stale"})
        /\ ~adopted => OwesSame(work', work)
        /\ adopted => Owes(work', work, "sync", Gates)
    <2>1. /\ t \in Worktrees /\ Ghostly(t, work, {"stale"})
          /\ ~adopted => OwesSame(t, work)
          /\ adopted => Owes(t, work, "sync", Gates)
      BY <1>0, TouchType, TouchOwes, GhostlyRefl, OriginsListed
    <2> HIDE DEF t
    <2>2. PICK u : work' = [t EXCEPT !.unsynced = u]
      BY <1>2
    <2>3. Ghostly(work', t, {}) /\ work'.stale = t.stale
      BY <2>1, <2>2 DEF Worktrees, Ghostly, GhostFields
    <2> QED
      BY <2>1, <2>3 DEF Ghostly, OwesSame, Owes
  <1> HIDE DEF t
  <1>10. \/ mem' = b /\ SavesAt("build", F) /\ Locally({"code_changed"})
         \/ mem' = m /\ ~loc.validation_only /\ SavesAt("fixer", F)
            /\ Locally({"code_changed"})
         \/ FailsWith(F) /\ Same(disk', m, {}) /\ mem' = disk' /\ pc' = "idle"
    <2> HIDE DEF F
    <2>1. CASE Saved("build", b) /\ loc' = [loc EXCEPT !.code_changed = @ \/ adopted]
      BY <1>0, <1>8, <2>1, SavedEffect, PutLocally
    <2>2. CASE FailSaved(m)
      BY <1>6, <2>2, FailSavedEffect DEF FailsWith, EndsWith
    <2>3. CASE /\ ~loc.validation_only /\ Saved("fixer", m)
               /\ loc' = [loc EXCEPT !.code_changed = @ \/ adopted]
      BY <1>0, <1>6, <2>3, SavedEffect, PutLocally
    <2> QED
      BY <1>2, <2>1, <2>2, <2>3
  <1>11. adopted => mem'.files_changed /\ AllStale(mem', mem)
    <2>1. CASE mem' = b \/ mem' = m
      BY <1>6, <1>8, <2>1
    <2>2. CASE Same(disk', m, {}) /\ mem' = disk'
      <3>1. /\ mem'.files_changed = m.files_changed
            /\ mem'.final_full_task_review_done = m.final_full_task_review_done
            /\ mem'.review_approved = m.review_approved
            /\ mem'.security_approved = m.security_approved
            /\ mem'.tests_up_to_date = m.tests_up_to_date
        BY <2>2 DEF Same, Control
      <3> QED
        BY <1>6, <3>1 DEF AllStale
    <2> QED
      BY <1>10, <2>1, <2>2
  <1>12. /\ F \in {{}, {"files_changed", "step_files_changed"} \cup GateFields}
         /\ F = {} <=> ~adopted
    OBVIOUS
  <1>13. pc' # "idle" => Locally({"code_changed"})
    BY <1>10
  <1> HIDE DEF F
  <1>14. \/ SavesAt("build", F)
         \/ ~loc.validation_only /\ SavesAt("fixer", F)
         \/ FailsWith(F)
    BY <1>10
  <1> QED
    BY <1>9, <1>11, <1>12, <1>13, <1>14 DEF Sync

LEMMA BuildEffect ==
    ASSUME SessionType, Build
    PROVE  /\ pc = "build" /\ UNCHANGED work
           /\ \/ /\ pc' = "test" /\ UNCHANGED <<disk, loc>>
                 /\ Same(mem', mem, {"fixer_changed_code"}) /\ ~mem'.fixer_changed_code
              \/ FailsWith({})
              \/ ~loc.validation_only /\ GoesTo("fixer") /\ Locally({"validation_only"})
  <1>1. CASE Unsaved("test", [mem EXCEPT !.fixer_changed_code = FALSE]) /\ UNCHANGED loc
    <2> DEFINE m == [mem EXCEPT !.fixer_changed_code = FALSE]
    <2>1. Same(m, mem, {"fixer_changed_code"}) /\ ~m.fixer_changed_code
      BY PutSame DEF SessionType
    <2>2. Unsaved("test", m)
      BY <1>1
    <2> HIDE DEF m
    <2> QED
      BY <1>1, <2>1, <2>2 DEF Build, Unsaved
  <1>2. CASE AttemptFailed(mem, loc.validation_only)
    BY <1>2, AttemptFailedEffect DEF Build
  <1> QED
    BY <1>1, <1>2 DEF Build

LEMMA TestEffect ==
    ASSUME SessionType, Test
    PROVE  /\ pc = "test" /\ UNCHANGED work
           /\ \/ GoesTo("check") /\ UNCHANGED loc
              \/ FailsWith({})
              \/ ~loc.validation_only /\ GoesTo("fixer") /\ Locally({"validation_only"})
  BY GotoEffect, AttemptFailedEffect DEF Test

LEMMA CheckEffect ==
    ASSUME SessionType, Check
    PROVE  /\ pc = "check" /\ Ghostly(work', work, {"stale"})
           /\ OwesOnly(work', work, {"autofix"})
           /\ \/ Keeps("post") /\ UNCHANGED loc
                 /\ work'.stale["validation"] \subseteq {"autofix"}
              \/ ~loc.validation_only /\ SavesAt("fixer", {}) /\ UNCHANGED loc
              \/ FailsWith({})
  <1>0. mem \in TaskStates /\ work \in Worktrees
    BY DEF SessionType
  <1> DEFINE l == Looked(work, "validation")
  <1>1. /\ l \in Worktrees /\ Ghostly(l, work, {"stale"})
        /\ OwesOnly(l, work, {}) /\ l.stale["validation"] = {}
    <2>1. Cleared(l, work, "validation")
      BY <1>0, LookedClears, OriginsListed
    <2> QED
      BY <1>0, <2>1, LookedType, LookedClears, OriginsListed DEF Cleared, OwesOnly, Gates
  <1> HIDE DEF l
  <1>2. /\ Goto("post") \/ Saved("post", mem) => Keeps("post")
        /\ Saved("fixer", mem) => SavesAt("fixer", {})
        /\ FailSaved(mem) => FailsWith({})
    BY <1>0, GotoEffect, SavedEffect, SameRefl, GoesKeeps, SavesKeeps, FailsEffect
  <1>3. CASE work' \in Autofixed(l) \cup {l}
    <2>1. Ghostly(work', l, {"stale"}) /\ OwesOnly(work', l, {"autofix"})
      BY <1>1, <1>3, AutofixedOwes, GhostlyRefl DEF OwesOnly, OwesSame
    <2>2. Ghostly(work', work, {"stale"})
      BY <1>1, <2>1 DEF Ghostly
    <2>3. OwesOnly(work', work, {"autofix"})
      BY <1>1, <2>1 DEF OwesOnly
    <2>4. work'.stale["validation"] \subseteq {"autofix"}
      BY <1>1, <2>1 DEF OwesOnly, Gates
    <2>5. ~(work' \in Autofixed(work)) => (Goto("post") \/ Saved("post", mem)) /\ UNCHANGED loc
      BY DEF Check
    <2>6. \/ (Goto("post") \/ Saved("post", mem)) /\ UNCHANGED loc
          \/ Saved("fixer", mem) /\ UNCHANGED loc /\ ~loc.validation_only
          \/ FailSaved(mem)
      BY DEF Check
    <2> QED
      BY <1>2, <2>2, <2>3, <2>4, <2>6 DEF Check
  <1>4. CASE work' \in Autofixed(work) /\ work' \notin Autofixed(l) \cup {l}
    <2>1. \/ Saved("fixer", mem) /\ UNCHANGED loc /\ ~loc.validation_only
          \/ FailSaved(mem)
      BY <1>4 DEF Check, l
    <2> QED
      BY <1>0, <1>2, <1>4, <2>1, AutofixedOwes DEF Check
  <1> QED
    BY <1>3, <1>4 DEF Check, l

LEMMA PostValidationEffect ==
    ASSUME SessionType, PostValidation
    PROVE  /\ pc = "post" /\ UNCHANGED work
           /\ \/ /\ SemanticGatesPending(cfg, mem) /\ GoesTo("review")
                 /\ Locally({"ctx", "review_before", "security_before"})
                 /\ loc'.ctx = "post"
                 /\ loc'.review_before = mem.review_iterations
                 /\ loc'.security_before = mem.security_review_iterations
              \/ /\ ~SemanticGatesPending(cfg, mem) /\ GoesTo("accept") /\ UNCHANGED loc
  <1>1. ASSUME NEW i, NEW j, loc' = [loc EXCEPT !.ctx = "post", !.review_before = i,
                                                !.security_before = j]
        PROVE  /\ Locally({"ctx", "review_before", "security_before"})
               /\ loc'.ctx = "post" /\ loc'.review_before = i /\ loc'.security_before = j
    BY <1>1 DEF SessionType, Locals, Locally, LocalFields
  <1> QED
    BY <1>1, GotoEffect DEF PostValidation

LoopFields == {"build_loop_key", "build_loop_start_iteration"}

LEMMA AcceptEffect ==
    ASSUME SessionType, Accept
    PROVE  /\ pc = "accept" /\ UNCHANGED work
           /\ mem'.build_loop_key = NoKey
           /\ \/ LoopSetsDone(mem) /\ EndsWith(LoopFields \cup {"done"}) /\ mem'.done
              \/ ~LoopSetsDone(mem) /\ SavesAt("step_done", LoopFields) /\ UNCHANGED loc
  <1> DEFINE m == [mem EXCEPT !.build_loop_key = NoKey, !.build_loop_start_iteration = 0]
             d == [m EXCEPT !.done = TRUE]
  <1>1. /\ Same(m, mem, LoopFields) /\ m.build_loop_key = NoKey
        /\ Same(d, mem, LoopFields \cup {"done"}) /\ d.done /\ d.build_loop_key = NoKey
    BY DEF SessionType, TaskStates, Same, Control, LoopFields
  <1>2. /\ pc = "accept" /\ UNCHANGED work
        /\ \/ LoopSetsDone(mem) /\ EndSession("done", d)
           \/ ~LoopSetsDone(mem) /\ Saved("step_done", m) /\ UNCHANGED loc
    BY DEF Accept
  <1> HIDE DEF m, d
  <1>3. EndSession("done", d) => EndsWith(LoopFields \cup {"done"}) /\ mem' = d
    BY <1>1, EndSessionEffect DEF EndsWith
  <1> QED
    BY <1>1, <1>2, <1>3, SavedEffect
-----------------------------------------------------------------------------
(* The gates that a fixer's result leaves without a look, and what it does *)
(* to the approvals; files of a first pass may be among those lost.        *)
LEMMA FixerEffect ==
    ASSUME SessionType, Fixer
    PROVE  /\ pc = "fixer"
           /\ Ghostly(work', work, {"stale", "fixes", "unrecorded"})
           /\ work'.fixes = work.fixes + (IF loc.retry THEN 0 ELSE 1)
           /\ \/ /\ SavesAt("fixer_returned", {"files_changed", "step_files_changed"})
                 /\ mem.files_changed => mem'.files_changed
                 /\ Locally({"wrote"}) /\ OwesSame(work', work)
              \/ /\ FailsWith(GateFields \cup {"files_changed", "step_files_changed",
                                               "fixer_changed_code"})
                 /\ mem'.files_changed /\ SecurityStale(mem', mem)
                 /\ \/ /\ AllStale(mem', mem)
                       /\ OwesOnly(work', work, {"fixer", "lost_fixer"})
                    \/ /\ mem'.review_approved = mem.review_approved
                       /\ mem'.tests_up_to_date = mem.tests_up_to_date
                       /\ \A g \in Gates : work'.stale[g] \subseteq work.stale[g] \cup
                            (IF g \in {"security", "validation"}
                             THEN {"fixer", "lost_fixer"} ELSE {"lost_fixer"})
              \/ FailsWith({}) /\ OwesOnly(work', work, {"lost_fixer"})
  <1>0. mem \in TaskStates /\ work \in Worktrees /\ loc \in Locals
    BY DEF SessionType
  <1> DEFINE R == FixerRan
  <1>r. /\ R \in Worktrees /\ Ghostly(R, work, {"fixes"}) /\ R.stale = work.stale
        /\ R.fixes = work.fixes + (IF loc.retry THEN 0 ELSE 1)
    BY <1>0, FixerRanType, FixerRanCounts
  <1> HIDE DEF R
  <1>1. ASSUME NEW wrote \in FixerWrites,
               Saved("fixer_returned", RecordFiles(mem, wrote)),
               loc' = [loc EXCEPT !.wrote = wrote], work' = R
        PROVE  /\ SavesAt("fixer_returned", {"files_changed", "step_files_changed"})
               /\ mem.files_changed => mem'.files_changed
               /\ Locally({"wrote"}) /\ OwesSame(work', work)
    <2>1. Locally({"wrote"}) /\ OwesSame(work', work)
      BY <1>0, <1>1, <1>r, PutLocally DEF OwesSame
    <2> QED
      BY <1>0, <1>1, <2>1, SavedEffect, RecordFilesSame
  <1>2. ASSUME NEW wrote \in FixerWrites \ {{}},
               FailSaved(FixerEffects(RecordFiles(mem, wrote), wrote)),
               work' = KeptLost(FixerTouched(R, wrote))
        PROVE  /\ FailsWith(GateFields \cup {"files_changed", "step_files_changed",
                                             "fixer_changed_code"})
               /\ mem'.files_changed /\ SecurityStale(mem', mem)
               /\ \/ /\ AllStale(mem', mem)
                     /\ OwesOnly(work', work, {"fixer", "lost_fixer"})
                  \/ /\ mem'.review_approved = mem.review_approved
                     /\ mem'.tests_up_to_date = mem.tests_up_to_date
                     /\ \A g \in Gates : work'.stale[g] \subseteq work.stale[g] \cup
                          (IF g \in {"security", "validation"}
                           THEN {"fixer", "lost_fixer"} ELSE {"lost_fixer"})
               /\ Ghostly(work', R, {"stale"})
    <2> DEFINE F == GateFields \cup {"files_changed", "step_files_changed",
                                     "fixer_changed_code"}
               r == RecordFiles(mem, wrote)
               e == FixerEffects(r, wrote)
               t == FixerTouched(R, wrote)
    <2>1. /\ Same(r, mem, {"files_changed", "step_files_changed"})
          /\ r \in TaskStates /\ r.files_changed
      <3>1. wrote # {}
        OBVIOUS
      <3> QED
        BY <1>0, <3>1, RecordFilesType, RecordFilesSame
    <2>2. FixEffect(e, r, wrote) /\ e \in TaskStates /\ wrote # {}
      BY <2>1, FixerEffectsSame, FixerEffectsType
    <2>3. /\ t \in Worktrees /\ Ghostly(t, R, {"stale"})
          /\ OwesOnly(t, R, {"fixer"})
          /\ wrote = {"tests"} => Owes(t, R, "fixer", {"security", "validation"})
      BY <1>r, FixerTouchedType, FixerTouchedOwes DEF FixOwes
    <2>4. FailSaved(e) /\ work' = KeptLost(t)
      BY <1>2
    <2> HIDE DEF r, e, t
    <2>5. /\ Same(e, mem, F) /\ e.files_changed /\ SecurityStale(e, mem)
          /\ \/ AllStale(e, mem)
             \/ /\ wrote = {"tests"} /\ e.review_approved = mem.review_approved
                /\ e.tests_up_to_date = mem.tests_up_to_date
      <3>1. /\ r.final_full_task_review_done = mem.final_full_task_review_done
            /\ r.active_scope = mem.active_scope
            /\ r.review_approved = mem.review_approved
            /\ r.tests_up_to_date = mem.tests_up_to_date
        BY <2>1 DEF Same, Control
      <3>2. Same(e, r, F) /\ Same(r, mem, F) /\ e.files_changed = r.files_changed
        <4>1. Same(r, mem, F)
          BY <2>1, SameWeaken
        <4>2. Same(e, r, GateFields \cup {"fixer_changed_code"})
          BY <2>2 DEF FixEffect, GateFields, Same
        <4> QED
          BY <4>1, <4>2 DEF Same, Control, GateFields
      <3>3. Same(e, mem, F)
        BY <3>2, SameTrans
      <3>4. CASE wrote = {"tests"}
        <4>1. /\ SecurityStale(e, r) /\ e.review_approved = r.review_approved
              /\ e.tests_up_to_date = r.tests_up_to_date
          BY <2>2, <3>4 DEF FixEffect, Same, Control
        <4> QED
          BY <2>1, <3>1, <3>2, <3>3, <3>4, <4>1 DEF SecurityStale
      <3>5. CASE wrote # {"tests"}
        <4>1. AllStale(e, r)
          BY <2>2, <3>5 DEF FixEffect
        <4> QED
          BY <2>1, <3>1, <3>2, <3>3, <4>1 DEF SecurityStale, AllStale
      <3> QED
        BY <3>4, <3>5
    <2>6. FailsWith(F) /\ Same(disk', e, {}) /\ mem' = disk'
      BY <2>2, <2>4, <2>5, FailSavedEffect DEF FailsWith, EndsWith
    <2>7. /\ mem'.files_changed = e.files_changed
          /\ mem'.final_full_task_review_done = e.final_full_task_review_done
          /\ mem'.review_approved = e.review_approved
          /\ mem'.security_approved = e.security_approved
          /\ mem'.tests_up_to_date = e.tests_up_to_date
      BY <2>6 DEF Same, Control
    <2>8. Ghostly(work', t, {"stale"}) /\ OwesOnly(work', t, {"lost_fixer"})
      BY <2>3, <2>4, KeptLostOwes
    <2>9. Ghostly(work', R, {"stale"}) /\ OwesOnly(work', work, {"fixer", "lost_fixer"})
      BY <1>r, <2>3, <2>8 DEF Ghostly, OwesOnly
    <2>10. wrote = {"tests"} =>
             \A g \in Gates : work'.stale[g] \subseteq work.stale[g] \cup
                            (IF g \in {"security", "validation"}
                             THEN {"fixer", "lost_fixer"} ELSE {"lost_fixer"})
      BY <1>r, <2>3, <2>8 DEF OwesOnly, Owes
    <2> HIDE DEF F
    <2>11. FailsWith(GateFields \cup {"files_changed", "step_files_changed",
                                      "fixer_changed_code"})
      BY <2>6 DEF F
    <2>12. mem'.files_changed /\ SecurityStale(mem', mem)
      BY <2>5, <2>7 DEF SecurityStale
    <2>13. CASE AllStale(e, mem)
      BY <2>7, <2>9, <2>11, <2>12, <2>13 DEF AllStale
    <2>14. CASE /\ wrote = {"tests"} /\ e.review_approved = mem.review_approved
                /\ e.tests_up_to_date = mem.tests_up_to_date
      BY <2>7, <2>9, <2>10, <2>11, <2>12, <2>14
    <2> QED
      BY <2>5, <2>13, <2>14
  <1>3. ASSUME FailSaved(mem),
               work' \in {KeptLost(R), Lost(KeptLost(R), "lost_fixer")}
        PROVE  /\ FailsWith({}) /\ OwesOnly(work', work, {"lost_fixer"})
               /\ Ghostly(work', R, {"stale", "unrecorded"})
    <2> DEFINE k == KeptLost(R)
    <2>1. /\ k \in Worktrees /\ Ghostly(k, R, {"stale"})
          /\ OwesOnly(k, R, {"lost_fixer"})
      BY <1>r, KeptLostType, KeptLostOwes
    <2> HIDE DEF k
    <2>2. /\ Ghostly(Lost(k, "lost_fixer"), k, {"stale", "unrecorded"})
          /\ Owes(Lost(k, "lost_fixer"), k, "lost_fixer", Gates)
      BY <2>1, LostOwes, OriginsListed
    <2>3. work' = k \/ work' = Lost(k, "lost_fixer")
      BY <1>3 DEF k
    <2>4. /\ OwesOnly(work', work, {"lost_fixer"})
          /\ Ghostly(work', R, {"stale", "unrecorded"})
      BY <1>r, <2>1, <2>2, <2>3 DEF OwesOnly, Owes, Ghostly
    <2> QED
      BY <1>3, <2>4, FailsEffect
  <1>4. Ghostly(work', R, {"stale", "unrecorded"})
    <2>1. work' = R => Ghostly(work', R, {"stale", "unrecorded"})
      BY GhostlyRefl
    <2>2. Ghostly(work', R, {"stale"}) => Ghostly(work', R, {"stale", "unrecorded"})
      BY DEF Ghostly
    <2> QED
      BY <1>1, <1>2, <1>3, <2>1, <2>2 DEF Fixer, R
  <1>5. /\ Ghostly(work', work, {"stale", "fixes", "unrecorded"})
        /\ work'.fixes = R.fixes
    BY <1>r, <1>4 DEF Ghostly, GhostFields
  <1>6. pc = "fixer"
    BY DEF Fixer
  <1>7. work'.fixes = work.fixes + (IF loc.retry THEN 0 ELSE 1)
    BY <1>r, <1>5
  <1> QED
    BY <1>1, <1>2, <1>3, <1>5, <1>6, <1>7 DEF Fixer, R

LEMMA RetryFixerEffect ==
    ASSUME SessionType, RetryFixer
    PROVE  /\ pc = "fixer_returned" /\ ~loc.retry
           /\ SavesAt("fixer", {"test_execution_gate_records"}) /\ Recorded(mem')
           /\ Locally({"kept", "wrote", "retry"}) /\ loc'.retry = TRUE
           /\ Ghostly(work', work, {"gated"}) /\ OwesSame(work', work)
  <1>0. mem \in TaskStates /\ work \in Worktrees /\ loc \in Locals
    BY DEF SessionType
  <1>1. PICK kept \in {{}, loc.wrote} : \E gated \in GatesAfter(kept) :
          /\ Saved("fixer", RecordGates(mem, gated))
          /\ loc' = [loc EXCEPT !.kept = kept, !.wrote = {}, !.retry = TRUE]
          /\ work' = [work EXCEPT !.gated = gated]
    BY DEF RetryFixer
  <1>2. PICK gated \in BOOLEAN :
          /\ Saved("fixer", RecordGates(mem, gated))
          /\ loc' = [loc EXCEPT !.kept = kept, !.wrote = {}, !.retry = TRUE]
          /\ work' = [work EXCEPT !.gated = gated]
    BY <1>1, GatesAfterType
  <1>3. Locally({"kept", "wrote", "retry"}) /\ loc'.retry = TRUE
    BY <1>0, <1>2 DEF Locals, Locally, LocalFields
  <1>4. Ghostly(work', work, {"gated"}) /\ OwesSame(work', work) /\ (work'.gated <=> gated)
    BY <1>0, <1>2 DEF Worktrees, Ghostly, GhostFields, OwesSame
  <1> DEFINE r == RecordGates(mem, gated)
  <1>5. /\ Same(r, mem, {"test_execution_gate_records"})
        /\ r.test_execution_gate_records <=> mem.test_execution_gate_records \/ gated
    BY <1>0, RecordGatesSame
  <1> HIDE DEF r
  <1>6. SavesAt("fixer", {"test_execution_gate_records"}) /\ mem' = r
    BY <1>2, <1>5, SavedEffect DEF r
  <1> QED
    BY <1>3, <1>4, <1>5, <1>6 DEF RetryFixer, Recorded

(* The fields a fixer's handled result may change.                         *)
FixFields == GateFields \cup {"fixer_changed_code", "test_execution_gate_records"}

LEMMA FixerHandledEffect ==
    ASSUME SessionType, FixerHandled
    PROVE  LET all == loc.wrote \cup loc.kept
           IN  /\ pc = "fixer_returned"
               /\ SavesAt("loop_head", FixFields) /\ Recorded(mem')
               /\ Locally({"wrote", "kept", "retry", "code_changed"}) /\ loc'.kept = {}
               /\ Ghostly(work', work, {"stale", "gated"})
               /\ \/ /\ Same(mem', mem, {"test_execution_gate_records"})
                     /\ OwesSame(work', work)
                  \/ /\ mem'.fixer_changed_code /\ SecurityStale(mem', mem)
                     /\ mem'.review_approved = mem.review_approved
                     /\ mem'.tests_up_to_date = mem.tests_up_to_date
                     /\ Owes(work', work, "fixer", {"security", "validation"})
                  \/ /\ mem'.fixer_changed_code /\ AllStale(mem', mem)
                     /\ OwesOnly(work', work, {"fixer"})
  <1>0. mem \in TaskStates /\ work \in Worktrees /\ loc \in Locals
    BY DEF SessionType
  <1> DEFINE all == loc.wrote \cup loc.kept
  <1>1. PICK gated \in BOOLEAN :
             /\ Saved("loop_head", FixerEffects(RecordGates(mem, gated), all))
             /\ loc' = [loc EXCEPT !.wrote = {}, !.kept = {}, !.retry = FALSE,
                                   !.code_changed = @ \/ all # {}]
             /\ work' = [FixerTouched(work, all) EXCEPT !.gated = gated]
    BY GatesAfterType DEF FixerHandled
  <1>2. /\ Locally({"wrote", "kept", "retry", "code_changed"}) /\ loc'.kept = {}
    BY <1>0, <1>1 DEF Locals, Locally, LocalFields
  <1> HIDE DEF all
  <1> DEFINE t == FixerTouched(work, all)
             r == RecordGates(mem, gated)
             e == FixerEffects(r, all)
  <1>3. t \in Worktrees /\ FixOwes(t, work, all)
    BY <1>0, FixerTouchedType, FixerTouchedOwes
  <1>4. /\ r \in TaskStates /\ Same(r, mem, {"test_execution_gate_records"})
        /\ r.test_execution_gate_records <=> mem.test_execution_gate_records \/ gated
    BY <1>0, RecordGatesSame, RecordGatesType
  <1> HIDE DEF r
  <1>5. FixEffect(e, r, all)
    BY <1>4, FixerEffectsSame
  <1>6. Saved("loop_head", e) /\ work' = [t EXCEPT !.gated = gated]
    BY <1>1 DEF r
  <1> HIDE DEF e, t
  <1>7. /\ Ghostly(work', work, {"stale", "gated"}) /\ work'.stale = t.stale
        /\ work'.gated <=> gated
    <2>1. Ghostly(work', t, {"gated"}) /\ work'.stale = t.stale /\ (work'.gated <=> gated)
      BY <1>3, <1>6 DEF Worktrees, Ghostly, GhostFields
    <2> QED
      BY <1>3, <2>1 DEF FixOwes, Ghostly
  <1>8. /\ Same(e, mem, FixFields)
        /\ e.test_execution_gate_records = r.test_execution_gate_records
    BY <1>4, <1>5 DEF FixEffect, FixFields, GateFields, Same, Control
  <1>9. SavesAt("loop_head", FixFields) /\ mem' = e
    BY <1>6, <1>8, SavedEffect
  <1>10. Recorded(mem')
    BY <1>4, <1>7, <1>8, <1>9 DEF Recorded
  <1>11. /\ r.final_full_task_review_done = mem.final_full_task_review_done
         /\ r.active_scope = mem.active_scope
         /\ r.review_approved = mem.review_approved
         /\ r.tests_up_to_date = mem.tests_up_to_date
    BY <1>4 DEF Same, Control
  <1>12. CASE all = {}
    <2>1. Same(e, mem, {"test_execution_gate_records"})
      BY <1>4, <1>5, <1>12 DEF FixEffect, Same
    <2>2. OwesSame(work', work)
      BY <1>3, <1>7, <1>12 DEF FixOwes, OwesSame
    <2> QED
      BY <1>2, <1>7, <1>9, <1>10, <2>1, <2>2 DEF FixerHandled, all
  <1>13. CASE all = {"tests"}
    <2>1. /\ e.fixer_changed_code /\ SecurityStale(e, r)
          /\ e.review_approved = r.review_approved
          /\ e.tests_up_to_date = r.tests_up_to_date
      BY <1>5, <1>13 DEF FixEffect, Same, Control
    <2>2. Owes(work', work, "fixer", {"security", "validation"})
      BY <1>3, <1>7, <1>13 DEF FixOwes, Owes
    <2>3. /\ mem'.fixer_changed_code /\ SecurityStale(mem', mem)
          /\ mem'.review_approved = mem.review_approved
          /\ mem'.tests_up_to_date = mem.tests_up_to_date
      BY <1>9, <1>11, <2>1 DEF SecurityStale
    <2> QED
      BY <1>2, <1>7, <1>9, <1>10, <2>2, <2>3 DEF FixerHandled, all
  <1>14. CASE all # {} /\ all # {"tests"}
    <2>1. e.fixer_changed_code /\ AllStale(e, r)
      BY <1>5, <1>14 DEF FixEffect
    <2>2. OwesOnly(work', work, {"fixer"})
      BY <1>3, <1>7 DEF FixOwes, OwesOnly
    <2>3. mem'.fixer_changed_code /\ AllStale(mem', mem)
      BY <1>9, <1>11, <2>1 DEF AllStale
    <2> QED
      BY <1>2, <1>7, <1>9, <1>10, <2>2, <2>3 DEF FixerHandled, all
  <1> QED
    BY <1>12, <1>13, <1>14
-----------------------------------------------------------------------------
(* The fields that start over with the next step.                          *)
StepFields == {"current_step", "step_implemented", "step_files_changed", "active_scope",
               "review_approved", "review_iterations", "security_approved",
               "security_review_iterations", "tests_up_to_date"}

LEMMA StepDoneEffect ==
    ASSUME SessionType, StepDone
    PROVE  /\ pc = "step_done" /\ UNCHANGED work
           /\ \/ /\ pc' = "implement" /\ Locally({"ctx"}) /\ loc'.ctx = "step"
                 /\ \A s \in {disk', mem'} :
                      /\ Same(s, mem, StepFields)
                      /\ ~s.step_implemented /\ ~s.review_approved
                      /\ ~s.security_approved /\ ~s.tests_up_to_date
                      /\ ~s.step_files_changed
                 /\ disk'.current_step = mem'.current_step
                 /\ disk'.active_scope = mem.active_scope /\ mem'.active_scope = NoScope
              \/ /\ SavesAt("after_plan", {"plan_completed", "final_full_task_review_done"})
                 /\ mem'.plan_completed /\ ~mem'.final_full_task_review_done
                 /\ UNCHANGED loc
  <1>0. mem \in TaskStates /\ loc \in Locals
    BY DEF SessionType
  <1>1. CASE mem.current_step < mem.plan - 1
    <2> DEFINE a == AdvanceStep(mem)
               b == [a EXCEPT !.active_scope = NoScope]
    <2>1. /\ a \in TaskStates /\ Same(a, mem, StepFields) /\ ~a.step_files_changed
          /\ ~a.step_implemented /\ ~a.review_approved
          /\ ~a.security_approved /\ ~a.tests_up_to_date
          /\ a.active_scope = mem.active_scope
      <3>1. a \in TaskStates
        BY <1>0, AdvanceStepType
      <3> QED
        BY <1>0, <3>1 DEF AdvanceStep, Same, Control, StepFields, TaskStates
    <2> HIDE DEF a
    <2>2. Same(b, a, {"active_scope"}) /\ b.active_scope = NoScope
      BY <2>1, PutSame
    <2> HIDE DEF b
    <2>3. /\ Same(b, mem, StepFields) /\ ~b.step_files_changed
          /\ b.current_step = a.current_step
          /\ ~b.step_implemented /\ ~b.review_approved
          /\ ~b.security_approved /\ ~b.tests_up_to_date
      BY <2>1, <2>2 DEF Same, Control, StepFields
    <2>4. pc' = "implement" /\ disk' = a /\ mem' = b /\ loc' = [loc EXCEPT !.ctx = "step"]
          /\ pc = "step_done" /\ UNCHANGED work
      BY <1>1 DEF StepDone, a, b
    <2>5. Locally({"ctx"}) /\ loc'.ctx = "step"
      BY <1>0, <2>4, PutLocally
    <2> QED
      BY <2>1, <2>2, <2>3, <2>4, <2>5
  <1>2. CASE ~(mem.current_step < mem.plan - 1)
    <2> DEFINE c == CompletePlan(mem)
    <2>1. /\ Same(c, mem, {"plan_completed", "final_full_task_review_done"})
          /\ c.plan_completed /\ ~c.final_full_task_review_done
      BY <1>0 DEF CompletePlan, Same, Control, TaskStates
    <2> HIDE DEF c
    <2>2. Saved("after_plan", c) /\ UNCHANGED <<loc, work>> /\ pc = "step_done"
      BY <1>2 DEF StepDone, c
    <2> QED
      BY <2>1, <2>2, SavedEffect
  <1> QED
    BY <1>1, <1>2

(* A build/fix loop of the whole task is entered.                          *)
EntersFinal(l) == SavesAt(l, {"active_scope"}) /\ mem'.active_scope = FinalScope

LEMMA EntersFinalEffect ==
    ASSUME mem \in TaskStates, NEW l, Saved(l, [mem EXCEPT !.active_scope = FinalScope])
    PROVE  EntersFinal(l)
  <1> DEFINE m == [mem EXCEPT !.active_scope = FinalScope]
  <1>1. Same(m, mem, {"active_scope"}) /\ m.active_scope = FinalScope
    BY PutSame
  <1>2. Saved(l, m)
    OBVIOUS
  <1> HIDE DEF m
  <1> QED
    BY <1>1, <1>2, SavedEffect DEF EntersFinal

OpenFields == {"active_scope", "review_approved", "review_iterations", "security_approved",
               "security_review_iterations", "tests_up_to_date"}

LEMMA AfterPlanEffect ==
    ASSUME SessionType, AfterPlan
    PROVE  /\ pc = "after_plan" /\ UNCHANGED work
           /\ \/ FailsWith({})
              \/ /\ mem.fixer_changed_code \/ BuildLoopActiveForCurrentScope(mem)
                 /\ cfg.run_build /\ EntersFinal("build_loop") /\ UNCHANGED loc
              \/ /\ ~mem.final_full_task_review_done
                 /\ ~(cfg.run_build /\ (mem.fixer_changed_code
                                        \/ BuildLoopActiveForCurrentScope(mem)))
                 /\ SavesAt("review", OpenFields) /\ mem'.active_scope = FinalScope
                 /\ mem'.review_approved <=> mem.review_approved /\ ~cfg.run_review
                 /\ mem'.security_approved <=>
                      mem.security_approved /\ ~cfg.run_security_review
                 /\ mem'.tests_up_to_date <=>
                      mem.tests_up_to_date /\ ~cfg.run_test_writing
                 /\ Locally({"ctx"}) /\ loc'.ctx = "final"
              \/ /\ mem.final_full_task_review_done
                 /\ GoesTo("final_validate") /\ UNCHANGED loc
  <1>0. mem \in TaskStates /\ loc \in Locals
    BY DEF SessionType
  <1>1. CASE /\ Saved("build_loop", [mem EXCEPT !.active_scope = FinalScope])
             /\ cfg.run_build /\ UNCHANGED loc
             /\ mem.fixer_changed_code \/ BuildLoopActiveForCurrentScope(mem)
    BY <1>0, <1>1, EntersFinalEffect DEF AfterPlan
  <1>2. CASE /\ Saved("review", OpenFinalGate(cfg, mem))
             /\ loc' = [loc EXCEPT !.ctx = "final"]
             /\ ~mem.final_full_task_review_done
             /\ ~(cfg.run_build /\ (mem.fixer_changed_code
                                    \/ BuildLoopActiveForCurrentScope(mem)))
    <2> DEFINE o == OpenFinalGate(cfg, mem)
    <2>1. /\ Same(o, mem, OpenFields) /\ o.active_scope = FinalScope
          /\ o.review_approved <=> mem.review_approved /\ ~cfg.run_review
          /\ o.security_approved <=> mem.security_approved /\ ~cfg.run_security_review
          /\ o.tests_up_to_date <=> mem.tests_up_to_date /\ ~cfg.run_test_writing
      BY <1>0 DEF OpenFinalGate, OpenFields, Same, Control, TaskStates
    <2> HIDE DEF o
    <2>2. SavesAt("review", OpenFields) /\ mem' = o
      BY <1>2, <2>1, SavedEffect DEF o
    <2>3. Locally({"ctx"}) /\ loc'.ctx = "final"
      BY <1>0, <1>2, PutLocally
    <2> QED
      BY <1>2, <2>1, <2>2, <2>3 DEF AfterPlan
  <1>3. CASE FailSaved(mem)
    BY <1>3, FailsEffect DEF AfterPlan
  <1> QED
    BY <1>1, <1>2, <1>3, GotoEffect DEF AfterPlan

LEMMA FinalValidateEffect ==
    ASSUME SessionType, FinalValidate
    PROVE  /\ pc = "final_validate" /\ UNCHANGED work
           /\ \/ cfg.run_build /\ EntersFinal("build_loop") /\ UNCHANGED loc
              \/ FailsWith({})
              \/ /\ ~cfg.run_build /\ ~GatesActive /\ EndsWith({"done"}) /\ mem'.done
  BY EntersFinalEffect, FailsEffect, DoneEffect DEF FinalValidate, SessionType
-----------------------------------------------------------------------------
(* A kill.  What the killed implementer may have written is owed to the    *)
(* gates, and a killed fixer counts.                                       *)
Writing == \/ pc \in {"review_fix", "review_fixed", "security_fix", "security_fixed"}
           \/ pc = "implement" /\ ~AlreadyImplemented

LostOrigins == {"lost_fixer", "lost_sync", "autofix"}

Left == IF Writing THEN {"lost_implementer"} ELSE LostOrigins

LEMMA StaysOwes ==
    ASSUME NEW w, NEW F, NEW O PROVE Ghostly(w, w, F) /\ OwesOnly(w, w, O)
  BY DEF Ghostly, OwesOnly

LEMMA OwesMore ==
    ASSUME NEW v, NEW w, NEW o, NEW O, NEW gs, o \in O, Owes(v, w, o, gs)
    PROVE  OwesOnly(v, w, O)
  BY DEF Owes, OwesOnly

LEMMA UnhandledOwes ==
    ASSUME SessionType
    PROVE  Ghostly(Unhandled, work, {"stale"}) /\ OwesOnly(Unhandled, work, Left)
  <1>0. work \in Worktrees
    BY DEF SessionType
  <1> DEFINE all == loc.wrote \cup loc.kept
             by(o) == IF all = {} THEN work ELSE NeedsSync(Touch(work, o, Gates), o, all)
  <1>1. ASSUME NEW o \in Origins, o \in Left
        PROVE  Ghostly(by(o), work, {"stale"}) /\ OwesOnly(by(o), work, Left)
    <2>1. CASE all = {}
      BY <2>1, StaysOwes
    <2>2. CASE all # {}
      <3> DEFINE n == NeedsSync(Touch(work, o, Gates), o, all)
      <3>1. Ghostly(n, work, {"stale"}) /\ Owes(n, work, o, Gates)
        BY <1>0, WrittenOwes
      <3> HIDE DEF n
      <3>2. OwesOnly(n, work, Left)
        BY <1>1, <3>1, OwesMore
      <3>3. by(o) = n
        BY <2>2 DEF n
      <3> QED
        BY <3>1, <3>2, <3>3
    <2> QED
      BY <2>1, <2>2
  <1>2. CASE pc = "fixer_returned"
    <2>1. "lost_fixer" \in Left /\ Unhandled = by("lost_fixer")
      BY <1>2 DEF Left, Writing, LostOrigins, Unhandled
    <2> HIDE DEF by
    <2> QED
      BY <1>1, <2>1, OriginsListed
  <1>3. CASE pc \in {"review_fixed", "security_fixed"}
    <2>1. "lost_implementer" \in Left /\ Unhandled = by("lost_implementer")
      BY <1>3 DEF Left, Writing, LostOrigins, Unhandled
    <2> HIDE DEF by
    <2> QED
      BY <1>1, <2>1, OriginsListed
  <1>4. CASE pc = "fixer"
    <2>1. Unhandled = KeptLost(work) /\ Left = LostOrigins
      BY <1>4 DEF Unhandled, Left, Writing
    <2>2. Ghostly(KeptLost(work), work, {"stale"})
          /\ OwesOnly(KeptLost(work), work, {"lost_fixer"})
      BY <1>0, KeptLostOwes
    <2> QED
      BY <2>1, <2>2 DEF OwesOnly, LostOrigins
  <1>5. CASE pc \notin {"fixer_returned", "review_fixed", "security_fixed", "fixer"}
    <2>1. Unhandled = work
      BY <1>5 DEF Unhandled
    <2> QED
      BY <2>1, StaysOwes
  <1> QED
    BY <1>2, <1>3, <1>4, <1>5

LEMMA LeftBehindOwes ==
    ASSUME SessionType, OperationRuns, NEW v \in LeftBehind
    PROVE  /\ Ghostly(v, work, {"stale", "fixes", "unrecorded"})
           /\ OwesOnly(v, work, Left)
           /\ pc # "fixer" => v.fixes = work.fixes
           /\ pc = "fixer" => v.fixes = work.fixes + (IF loc.retry THEN 0 ELSE 1)
  <1>0. work \in Worktrees
    BY DEF SessionType
  <1> DEFINE F == {"stale", "fixes", "unrecorded"}
  <1>1. ASSUME Ghostly(v, work, {"stale", "unrecorded"}), pc # "fixer"
        PROVE  Ghostly(v, work, F) /\ v.fixes = work.fixes
    BY <1>1 DEF Ghostly, GhostFields
  <1>2. ASSUME pc # "fixer", v = work
        PROVE  Ghostly(v, work, {"stale", "unrecorded"}) /\ OwesOnly(v, work, Left)
    BY <1>2, StaysOwes
  <1>3. CASE pc \in {"implement", "review_fix", "security_fix"}
    <2>1. Writing /\ Left = {"lost_implementer"} /\ pc # "fixer"
      BY <1>3 DEF Writing, Left, OperationRuns
    <2>2. v = work \/ v = Lost(work, "lost_implementer")
      BY <1>3 DEF LeftBehind
    <2>3. CASE v = Lost(work, "lost_implementer")
      <3>1. Ghostly(v, work, {"stale", "unrecorded"})
            /\ Owes(v, work, "lost_implementer", Gates)
        BY <1>0, <2>3, LostOwes, OriginsListed
      <3> QED
        BY <1>1, <2>1, <3>1, OwesMore
    <2> QED
      BY <1>1, <1>2, <2>1, <2>2, <2>3
  <1>4. CASE pc = "fixer"
    <2> DEFINE R == FixerRan
               K == KeptLost(R)
    <2>1. Left = LostOrigins
      BY <1>4 DEF Left, Writing
    <2>2. /\ R \in Worktrees /\ Ghostly(R, work, {"fixes"}) /\ R.stale = work.stale
          /\ R.fixes = work.fixes + (IF loc.retry THEN 0 ELSE 1)
      BY <1>0, FixerRanType, FixerRanCounts
    <2> HIDE DEF R
    <2>3. /\ Ghostly(K, R, {"stale"}) /\ OwesOnly(K, R, {"lost_fixer"})
          /\ K \in Worktrees
      BY <2>2, KeptLostOwes, KeptLostType
    <2> HIDE DEF K
    <2>4. v = K \/ v = Lost(K, "lost_fixer")
      BY <1>4 DEF LeftBehind, K, R
    <2>5. Ghostly(v, K, {"stale", "unrecorded"}) /\ OwesOnly(v, K, {"lost_fixer"})
      <3>1. CASE v = K
        BY <3>1, StaysOwes
      <3>2. CASE v = Lost(K, "lost_fixer")
        <4>1. Ghostly(v, K, {"stale", "unrecorded"}) /\ Owes(v, K, "lost_fixer", Gates)
          BY <2>3, <3>2, LostOwes, OriginsListed
        <4> QED
          BY <4>1, OwesMore
      <3> QED
        BY <2>4, <3>1, <3>2
    <2>6. Ghostly(v, work, F) /\ v.fixes = R.fixes
      BY <2>2, <2>3, <2>5 DEF Ghostly, GhostFields
    <2>7. OwesOnly(v, work, Left)
      BY <2>1, <2>2, <2>3, <2>5 DEF OwesOnly, LostOrigins
    <2> QED
      BY <1>4, <2>2, <2>6, <2>7
  <1>5. CASE pc = "test_writer"
    <2>1. v = work \/ v = [work EXCEPT !.interrupted_tests = TRUE]
      BY <1>5 DEF LeftBehind
    <2>2. CASE v = [work EXCEPT !.interrupted_tests = TRUE]
      BY <1>0, <1>1, <1>5, <2>2, PutInterrupted DEF Ghostly, OwesSame, OwesOnly
    <2> QED
      BY <1>1, <1>2, <1>5, <2>1, <2>2
  <1>6. CASE pc = "sync"
    <2>1. v = work \/ v = Touch(work, "lost_sync", Gates)
      BY <1>6 DEF LeftBehind
    <2>2. CASE v = Touch(work, "lost_sync", Gates)
      <3>1. Ghostly(v, work, {"stale"}) /\ Owes(v, work, "lost_sync", Gates)
        BY <1>0, <2>2, TouchOwes, OriginsListed
      <3>2. "lost_sync" \in Left
        BY <1>6 DEF Left, Writing, LostOrigins
      <3>3. Ghostly(v, work, {"stale", "unrecorded"})
        BY <3>1 DEF Ghostly
      <3> QED
        BY <1>1, <1>6, <3>1, <3>2, <3>3, OwesMore
    <2> QED
      BY <1>1, <1>2, <1>6, <2>1, <2>2
  <1>7. CASE pc = "check"
    <2>1. v \in Autofixed(work)
      BY <1>7 DEF LeftBehind
    <2>2. Ghostly(v, work, {"stale"}) /\ OwesOnly(v, work, {"autofix"})
      BY <1>0, <2>1, AutofixedOwes
    <2>3. Left = LostOrigins
      BY <1>7 DEF Left, Writing
    <2>4. Ghostly(v, work, {"stale", "unrecorded"}) /\ OwesOnly(v, work, Left)
      BY <2>2, <2>3 DEF Ghostly, OwesOnly, LostOrigins
    <2> QED
      BY <1>1, <1>7, <2>4
  <1>8. CASE pc \notin {"implement", "review_fix", "security_fix", "fixer",
                        "test_writer", "sync", "check"}
    <2>1. v = work
      BY <1>8 DEF LeftBehind
    <2> QED
      BY <1>1, <1>2, <1>8, <2>1
  <1> QED
    BY <1>3, <1>4, <1>5, <1>6, <1>7, <1>8

LEMMA CrashEffect ==
    ASSUME SessionType, Crash
    PROVE  /\ pc # "idle" /\ pc' = "idle" /\ loc' = NoLocals /\ mem' = disk'
           /\ UNCHANGED <<cfg, resets>> /\ crashes' = crashes + 1
           /\ Ghostly(work', work, {"stale", "fixes", "unrecorded"})
           /\ OwesOnly(work', work, Left)
           /\ \/ disk' = disk /\ work'.fixes = work.fixes
              \/ /\ OperationRuns /\ disk' = IF cfg.heartbeat THEN mem ELSE disk
                 /\ pc # "fixer" => work'.fixes = work.fixes
                 /\ pc = "fixer" =>
                      work'.fixes = work.fixes + (IF loc.retry THEN 0 ELSE 1)
  <1>1. /\ pc # "idle" /\ pc' = "idle" /\ loc' = NoLocals /\ mem' = disk'
        /\ UNCHANGED <<cfg, resets>> /\ crashes' = crashes + 1
    BY DEF Crash
  <1>2. CASE UNCHANGED disk /\ work' = Unhandled
    <2>1. Ghostly(work', work, {"stale"}) /\ OwesOnly(work', work, Left)
      BY <1>2, UnhandledOwes
    <2>2. Ghostly(work', work, {"stale", "fixes", "unrecorded"})
          /\ work'.fixes = work.fixes
      BY <2>1 DEF Ghostly, GhostFields
    <2> QED
      BY <1>1, <1>2, <2>1, <2>2
  <1>3. CASE /\ OperationRuns /\ disk' = IF cfg.heartbeat THEN mem ELSE disk
             /\ work' \in LeftBehind
    <2>1. /\ Ghostly(work', work, {"stale", "fixes", "unrecorded"})
          /\ OwesOnly(work', work, Left)
          /\ pc # "fixer" => work'.fixes = work.fixes
          /\ pc = "fixer" =>
               work'.fixes = work.fixes + (IF loc.retry THEN 0 ELSE 1)
      BY <1>3, LeftBehindOwes
    <2> QED
      BY <1>1, <1>3, <2>1
  <1> QED
    BY <1>1, <1>2, <1>3 DEF Crash

(* What --reset-failed keeps, and that it clears the loop and its counters. *)
ResetFields == {"review_iterations", "security_review_iterations", "build_iterations",
                "build_loop_key", "build_loop_start_iteration", "files_changed"}

LEMMA ResetFailedEffect ==
    ASSUME SessionType, ResetFailed
    PROVE  /\ pc = "idle" /\ disk.failed /\ UNCHANGED <<cfg, pc, loc, crashes>>
           /\ resets' = resets + 1
           /\ mem' = disk' /\ Same(disk', disk, ResetFields)
           /\ disk'.build_loop_key = NoKey /\ ~disk'.failed
           /\ disk.files_changed => disk'.files_changed
           /\ Ghostly(work', work, {"unrecorded"}) /\ OwesSame(work', work)
  <1>0. disk \in TaskStates /\ work \in Worktrees
    BY DEF SessionType
  <1>1. PICK detected \in BOOLEAN :
             /\ disk' = ResetFailedState(disk, detected)
             /\ work' = IF detected THEN Adopted ELSE work
    BY DEF ResetFailed
  <1>2. /\ Same(disk', disk, ResetFields)
        /\ disk'.build_loop_key = NoKey /\ ~disk'.failed
        /\ disk.files_changed => disk'.files_changed
    BY <1>0, <1>1 DEF ResetFailedState, ResetFields, Same, Control, TaskStates
  <1>3. Ghostly(work', work, {"unrecorded"}) /\ OwesSame(work', work)
    BY <1>0, <1>1, PutGhost, GhostlyRefl DEF Adopted, OwesSame
  <1> QED
    BY <1>2, <1>3 DEF ResetFailed

LEMMA InvokeEffect ==
    ASSUME SessionType, Invoke
    PROVE  /\ pc = "idle" /\ UNCHANGED <<cfg, mem, disk, loc, work, crashes, resets>>
           /\ \/ pc' = "start" /\ ~disk.done /\ ~disk.failed
              \/ pc' = "idle"
  BY DEF Invoke, StartRun, RunTerminal

(* The part of FinishAudit that most invariants need.                      *)
LEMMA FinishAuditControl ==
    ASSUME SessionType, FinishAudit
    PROVE  /\ pc = "test_audit"
           /\ Same(mem', mem, AuditFields) /\ Same(disk', mem, AuditFields)
           /\ mem'.test_writer_audit = "none" /\ disk'.test_writer_audit = "none"
           /\ Ghostly(work', work, {"stale", "gated"}) /\ OwesOnly(work', work, {"tests"})
           /\ \/ FailsWith(AuditFields)
              \/ /\ pc' = "tests_done"
                 /\ Locally({"wrote", "kept", "retry", "tests_changed"})
  <1>1. PICK remaining \in SUBSET Writes :
           /\ TestsLeft(remaining)
           /\ \/ FailsWith(AuditFields)
              \/ /\ pc' = "tests_done" /\ Same(mem', mem, AuditFields)
                 /\ Locally({"wrote", "kept", "retry", "tests_changed"})
    BY FinishAuditEffect
  <1>2. Ghostly(work', work, {"stale", "gated"}) /\ OwesOnly(work', work, {"tests"})
    BY <1>1 DEF TestsLeft, OwesSame, Owes, OwesOnly
  <1>3. Same(mem', mem, AuditFields) /\ Same(disk', mem, AuditFields)
    BY <1>1, FinishAuditEffect DEF FailsWith, EndsWith
  <1> QED
    BY <1>1, <1>2, <1>3, FinishAuditEffect
-----------------------------------------------------------------------------
(* Where a session is: in a build/fix loop, in the semantic gates, in the  *)
(* gates a validated loop reopened, or before the work on the task began.  *)
LoopPlaces == {"loop_head", "sync", "build", "test", "check", "post", "accept",
               "fixer", "fixer_returned"}
GatePlaces == {"review", "review_fix", "review_fixed", "security", "security_fix",
     "security_fixed", "fast_path", "tests", "test_writer", "test_written",
     "test_audit", "tests_done", "retest_review", "retest_reviewed",
     "retest_security", "gates_done"}
PostGates == pc \in GatePlaces /\ loc.ctx = "post"
EarlyPlaces == {"start", "presync", "analyze", "plan"}

(* The flags that say how far the task is are never changed in memory      *)
(* only: whatever is killed, a resumed session finds the same flags.       *)
FlagsSaved ==
    /\ mem.plan_decided <=> disk.plan_decided
    /\ mem.plan = disk.plan
    /\ mem.plan_completed <=> disk.plan_completed
    /\ mem.step_implemented <=> disk.step_implemented
    /\ mem.final_full_task_review_done <=> disk.final_full_task_review_done
    /\ mem.review_approved <=> disk.review_approved
    /\ mem.security_approved <=> disk.security_approved
    /\ mem.tests_up_to_date <=> disk.tests_up_to_date
    /\ mem.test_writer_audit = disk.test_writer_audit

(* The plan is still to be made; a step of it is being worked on; steps    *)
(* have build/fix loops of their own; a build/fix loop of some scope is    *)
(* entered or running.                                                     *)
Planning == cfg.run_planner /\ ~mem.plan_decided

InStep == mem.plan > 0 /\ ~mem.plan_completed
LoopOrEntry == pc \in LoopPlaces \/ pc = "build_loop" \/ PostGates

(* Which scope and which progress flags go with each place.                *)
Placed ==
    /\ mem.plan > 0 => cfg.run_planner /\ mem.plan_decided
    /\ mem.plan_completed => mem.plan > 0
    /\ mem.final_full_task_review_done => mem.plan_completed
    /\ mem.active_scope = FinalScope => mem.plan_completed
    /\ disk.active_scope = FinalScope => mem.plan_completed
    /\ Planning => pc \in EarlyPlaces \cup {"idle"}
    /\ pc \in {"implement", "implemented", "resume_check"} => loc.ctx \in {"task", "step"}
    /\ pc \in {"implement", "implemented", "resume_check"} \cup GatePlaces =>
         /\ loc.ctx = "task" => mem.plan = 0
         /\ loc.ctx = "step" => InStep
         /\ loc.ctx = "final" => mem.active_scope = FinalScope
    /\ pc = "fast_path" => loc.ctx = "task"
    /\ pc = "step_done" => InStep
    /\ pc \in {"after_plan", "final_validate"} => mem.plan_completed
    /\ pc = "final_validate" => mem.final_full_task_review_done
    /\ LoopOrEntry => cfg.run_build
    /\ LoopOrEntry /\ mem.plan_completed => mem.active_scope = FinalScope
    /\ LoopOrEntry /\ InStep => StepBuilds
    /\ pc = "implemented" /\ loc.ctx = "step" => ~mem.step_implemented
    /\ pc \in GatePlaces \cup LoopPlaces \cup {"build_loop", "resume_check", "step_done"}
         /\ InStep
         => mem.step_implemented
    /\ pc \in GatePlaces \cup LoopPlaces \cup {"build_loop", "resume_check"} /\ mem.plan = 0
         => mem.files_changed

(* The record that a fixer changed code belongs to the step (or the whole  *)
(* task) whose loop runs; a passed build withdraws it.                     *)
FixerIdleIn(s) ==
    /\ Planning => ~s.fixer_changed_code
    /\ InStep /\ s.fixer_changed_code => mem.step_implemented /\ StepBuilds
    /\ s.build_loop_key = <<"final", 0>> => mem.plan_completed

FixerIdle ==
    /\ FixerIdleIn(mem) /\ FixerIdleIn(disk)
    /\ pc \in {"test", "check", "post", "accept", "step_done"} \/ PostGates
         => ~mem.fixer_changed_code

(* The numbers among the fields.                                           *)
LEMMA Numbers ==
    ASSUME TypeOK
    PROVE  /\ mem.build_iterations \in Nat /\ mem.build_loop_start_iteration \in Nat
           /\ disk.build_iterations \in Nat /\ disk.build_loop_start_iteration \in Nat
           /\ mem.review_iterations \in Nat /\ mem.security_review_iterations \in Nat
           /\ work.fixes \in Nat /\ cfg.max_iterations \in Nat
           /\ loc.review_before \in Nat /\ loc.security_before \in Nat
           /\ crashes \in Nat /\ resets \in Nat
           /\ mem.plan \in Nat /\ disk.plan \in Nat
           /\ SessionType
  BY ConfigsAssumption, BoundsAssumption
  DEF TypeOK, SessionType, TaskStates, Worktrees, Config, Locals

(* The keys of the build/fix loops tell the scopes apart.                  *)
LEMMA LoopKeyCases ==
    ASSUME NEW m \in TaskStates
    PROVE  /\ BuildLoopKey(m) # NoKey
           /\ BuildLoopKey(m) = <<"final", 0>> <=> m.active_scope = FinalScope \/ m.plan_completed
           /\ BuildLoopKey(m) = <<"task", 0>> => m.plan = 0
           /\ ~LoopSetsDone(m) <=> /\ m.active_scope # FinalScope /\ ~m.plan_completed
                                  /\ m.plan > 0
           /\ NoKey # <<"final", 0>>
  <1>1. m.plan \in Nat
    BY DEF TaskStates
  <1>2. CASE m.active_scope = FinalScope \/ m.plan_completed
    <2>1. BuildLoopKey(m) = <<"final", 0>>
      BY <1>2 DEF BuildLoopKey
    <2> QED
      BY <1>2, <2>1 DEF NoKey, LoopSetsDone
  <1>3. CASE ~(m.active_scope = FinalScope \/ m.plan_completed) /\ m.plan > 0
    <2>1. BuildLoopKey(m) = <<"step", m.current_step>>
      BY <1>3 DEF BuildLoopKey
    <2> QED
      BY <1>3, <2>1 DEF NoKey, LoopSetsDone
  <1>4. CASE ~(m.active_scope = FinalScope \/ m.plan_completed) /\ m.plan = 0
    <2>1. BuildLoopKey(m) = <<"task", 0>>
      BY <1>4 DEF BuildLoopKey
    <2> QED
      BY <1>4, <2>1 DEF NoKey, LoopSetsDone
  <1> QED
    BY <1>1, <1>2, <1>3, <1>4

LEMMA SessionPlaced ==
    ASSUME TypeOK, OpenSession, FlagsSaved, Placed, Session
    PROVE  Placed'
  <1>0. UNCHANGED <<cfg, crashes, resets>>
    BY DEF Session
  <1>n. /\ mem.plan \in Nat /\ SessionType /\ mem \in TaskStates
    BY Numbers, LoopKeyCases DEF TypeOK
  <1> USE DEF Same, Control, Locally, LocalFields, SavesAt, GoesTo, EndsWith,
      FailsWith, Keeps, NoLocals, Placed, FlagsSaved, InStep, StepBuilds,
      Planning, LoopOrEntry, EarlyPlaces, PostGates, LoopPlaces, GatePlaces,
      AllStale, SecurityStale, AlreadyImplemented, NoScope, FinalScope,
      GateFields, FixFields, ReviewPassed, SecurityPassed, WriterBegins,
      RetestsReview, RetestsSecurity, GatePassed, EntersFinal, OpenFields,
      StepFields, AuditFields, LoopFields
  <1>1. CASE Prepare
    <2>1. CASE CheckCoverage
      BY <1>0, <1>n, <2>1, CheckCoverageEffect
    <2>2. CASE RunPresync
      BY <1>0, <1>n, <2>2, RunPresyncEffect
    <2>3. CASE Analyze
      BY <1>0, <1>n, <2>3, AnalyzeEffect
    <2>4. CASE Plan
      BY <1>0, <1>n, <2>4, PlanEffect
    <2>5. CASE Dispatch
      BY <1>0, <1>n, <2>5, DispatchEffect
    <2> QED
      BY <1>1, <2>1, <2>2, <2>3, <2>4, <2>5 DEF Prepare
  <1>2. CASE ImplementStep
    <2>1. CASE SkipImplement
      BY <1>0, <1>n, <2>1, SkipImplementEffect
    <2>2. CASE Implement
      BY <1>0, <1>n, <2>2, ImplementEffect
    <2>3. CASE TaskImplemented
      BY <1>0, <1>n, <2>3, TaskImplementedEffect
    <2>4. CASE StepImplemented
      BY <1>0, <1>n, <2>4, StepImplementedEffect
    <2>5. CASE ResumeCheck
      BY <1>0, <1>n, <2>5, ResumeCheckEffect
    <2> QED
      BY <1>2, <2>1, <2>2, <2>3, <2>4, <2>5 DEF ImplementStep
  <1>3. CASE ReviewGates
    <2>1. CASE SkipReview
      BY <1>0, <1>n, <2>1, SkipReviewEffect
    <2>2. CASE Review
      BY <1>0, <1>n, <2>2, ReviewEffect
    <2>3. CASE ReviewFix
      BY <1>0, <1>n, <2>3, FixGateEffect DEF ReviewFix
    <2>4. CASE ReviewFixHandled
      BY <1>0, <1>n, <2>4, GateFixHandledEffect DEF ReviewFixHandled
    <2>5. CASE SkipSecurity
      BY <1>0, <1>n, <2>5, SkipSecurityEffect
    <2>6. CASE SecurityReview
      BY <1>0, <1>n, <2>6, SecurityReviewEffect
    <2>7. CASE SecurityFix
      BY <1>0, <1>n, <2>7, FixGateEffect DEF SecurityFix
    <2>8. CASE SecurityFixHandled
      BY <1>0, <1>n, <2>8, GateFixHandledEffect DEF SecurityFixHandled
    <2>9. CASE FastPath
      BY <1>0, <1>n, <2>9, FastPathEffect
    <2> QED
      BY <1>3, <2>1, <2>2, <2>3, <2>4, <2>5, <2>6, <2>7, <2>8, <2>9 DEF
         ReviewGates
  <1>4. CASE TestGate
    <2>1. CASE SkipTests
      BY <1>0, <1>n, <2>1, SkipTestsEffect
    <2>2. CASE BeginTestWriting
      BY <1>0, <1>n, <2>2, BeginTestWritingEffect
    <2>3. CASE TestWriter
      BY <1>0, <1>n, <2>3, TestWriterEffect
    <2>4. CASE RecordAuditFiles
      BY <1>0, <1>n, <2>4, RecordAuditFilesEffect
    <2>5. CASE RetryTestWriter
      BY <1>0, <1>n, <2>5, RetryTestWriterEffect
    <2>6. CASE FinishAudit
      BY <1>0, <1>n, <2>6, FinishAuditControl
    <2>7. CASE TestsDone
      BY <1>0, <1>n, <2>7, TestsDoneEffect
    <2>8. CASE RetestReview
      BY <1>0, <1>n, <2>8, RetestReviewEffect
    <2>9. CASE RetestReviewed
      BY <1>0, <1>n, <2>9, RetestReviewedEffect
    <2>10. CASE RetestSecurity
      BY <1>0, <1>n, <2>10, RetestSecurityEffect
    <2> QED
      BY <1>4, <2>1, <2>2, <2>3, <2>4, <2>5, <2>6, <2>7, <2>8, <2>9, <2>10 DEF
         TestGate
  <1>5. CASE Validate
    <2>1. CASE GatesDone
      BY <1>0, <1>n, <2>1, GatesDoneEffect
    <2>2. CASE BuildLoop
      BY <1>0, <1>n, <2>2, BuildLoopEffect, LoopKeyCases
    <2>3. CASE LoopHead
      BY <1>0, <1>n, <2>3, LoopHeadEffect
    <2>4. CASE Sync
      BY <1>0, <1>n, <2>4, SyncEffect
    <2>5. CASE Build
      BY <1>0, <1>n, <2>5, BuildEffect
    <2>6. CASE Test
      BY <1>0, <1>n, <2>6, TestEffect
    <2>7. CASE Check
      BY <1>0, <1>n, <2>7, CheckEffect
    <2>8. CASE PostValidation
      BY <1>0, <1>n, <2>8, PostValidationEffect
    <2>9. CASE Accept
      BY <1>0, <1>n, <2>9, AcceptEffect, LoopKeyCases
    <2>10. CASE Fixer
      BY <1>0, <1>n, <2>10, FixerEffect
    <2>11. CASE RetryFixer
      BY <1>0, <1>n, <2>11, RetryFixerEffect
    <2>12. CASE FixerHandled
      BY <1>0, <1>n, <2>12, FixerHandledEffect
    <2> QED
      BY <1>5, <2>1, <2>2, <2>3, <2>4, <2>5, <2>6, <2>7, <2>8, <2>9, <2>10,
         <2>11, <2>12 DEF Validate
  <1>6. CASE PlanSteps
    <2>1. CASE StepDone
      BY <1>0, <1>n, <2>1, StepDoneEffect
    <2>2. CASE AfterPlan
      BY <1>0, <1>n, <2>2, AfterPlanEffect
    <2>3. CASE FinalValidate
      BY <1>0, <1>n, <2>3, FinalValidateEffect
    <2> QED
      BY <1>6, <2>1, <2>2, <2>3 DEF PlanSteps
  <1> QED
    BY <1>1, <1>2, <1>3, <1>4, <1>5, <1>6 DEF Session

LEMMA SessionSavesFlags ==
    ASSUME TypeOK, OpenSession, FlagsSaved, Session
    PROVE  FlagsSaved'
  <1>0. UNCHANGED <<cfg, crashes, resets>>
    BY DEF Session
  <1>n. /\ mem.plan \in Nat /\ SessionType /\ mem \in TaskStates
    BY Numbers, LoopKeyCases DEF TypeOK
  <1> USE DEF Same, Control, Locally, LocalFields, SavesAt, GoesTo, EndsWith,
      FailsWith, Keeps, NoLocals, FlagsSaved, GateFields, FixFields,
      ReviewPassed, SecurityPassed, WriterBegins, RetestsReview,
      RetestsSecurity, GatePassed, EntersFinal, OpenFields, StepFields,
      AuditFields, LoopFields
  <1>1. CASE Prepare
    <2>1. CASE CheckCoverage
      BY <1>0, <1>n, <2>1, CheckCoverageEffect
    <2>2. CASE RunPresync
      BY <1>0, <1>n, <2>2, RunPresyncEffect
    <2>3. CASE Analyze
      BY <1>0, <1>n, <2>3, AnalyzeEffect
    <2>4. CASE Plan
      BY <1>0, <1>n, <2>4, PlanEffect
    <2>5. CASE Dispatch
      BY <1>0, <1>n, <2>5, DispatchEffect
    <2> QED
      BY <1>1, <2>1, <2>2, <2>3, <2>4, <2>5 DEF Prepare
  <1>2. CASE ImplementStep
    <2>1. CASE SkipImplement
      BY <1>0, <1>n, <2>1, SkipImplementEffect
    <2>2. CASE Implement
      BY <1>0, <1>n, <2>2, ImplementEffect
    <2>3. CASE TaskImplemented
      BY <1>0, <1>n, <2>3, TaskImplementedEffect
    <2>4. CASE StepImplemented
      BY <1>0, <1>n, <2>4, StepImplementedEffect
    <2>5. CASE ResumeCheck
      BY <1>0, <1>n, <2>5, ResumeCheckEffect
    <2> QED
      BY <1>2, <2>1, <2>2, <2>3, <2>4, <2>5 DEF ImplementStep
  <1>3. CASE ReviewGates
    <2>1. CASE SkipReview
      BY <1>0, <1>n, <2>1, SkipReviewEffect
    <2>2. CASE Review
      BY <1>0, <1>n, <2>2, ReviewEffect
    <2>3. CASE ReviewFix
      BY <1>0, <1>n, <2>3, FixGateEffect DEF ReviewFix
    <2>4. CASE ReviewFixHandled
      BY <1>0, <1>n, <2>4, GateFixHandledEffect DEF ReviewFixHandled
    <2>5. CASE SkipSecurity
      BY <1>0, <1>n, <2>5, SkipSecurityEffect
    <2>6. CASE SecurityReview
      BY <1>0, <1>n, <2>6, SecurityReviewEffect
    <2>7. CASE SecurityFix
      BY <1>0, <1>n, <2>7, FixGateEffect DEF SecurityFix
    <2>8. CASE SecurityFixHandled
      BY <1>0, <1>n, <2>8, GateFixHandledEffect DEF SecurityFixHandled
    <2>9. CASE FastPath
      BY <1>0, <1>n, <2>9, FastPathEffect
    <2> QED
      BY <1>3, <2>1, <2>2, <2>3, <2>4, <2>5, <2>6, <2>7, <2>8, <2>9 DEF
         ReviewGates
  <1>4. CASE TestGate
    <2>1. CASE SkipTests
      BY <1>0, <1>n, <2>1, SkipTestsEffect
    <2>2. CASE BeginTestWriting
      BY <1>0, <1>n, <2>2, BeginTestWritingEffect
    <2>3. CASE TestWriter
      BY <1>0, <1>n, <2>3, TestWriterEffect
    <2>4. CASE RecordAuditFiles
      BY <1>0, <1>n, <2>4, RecordAuditFilesEffect
    <2>5. CASE RetryTestWriter
      BY <1>0, <1>n, <2>5, RetryTestWriterEffect
    <2>6. CASE FinishAudit
      <3>1. /\ Same(mem', mem, AuditFields) /\ Same(disk', mem, AuditFields)
            /\ mem'.test_writer_audit = disk'.test_writer_audit
        BY <1>0, <1>n, <2>6, FinishAuditEffect
      <3> QED
        BY <3>1 DEF Same
    <2>7. CASE TestsDone
      BY <1>0, <1>n, <2>7, TestsDoneEffect
    <2>8. CASE RetestReview
      BY <1>0, <1>n, <2>8, RetestReviewEffect
    <2>9. CASE RetestReviewed
      BY <1>0, <1>n, <2>9, RetestReviewedEffect
    <2>10. CASE RetestSecurity
      BY <1>0, <1>n, <2>10, RetestSecurityEffect
    <2> QED
      BY <1>4, <2>1, <2>2, <2>3, <2>4, <2>5, <2>6, <2>7, <2>8, <2>9, <2>10 DEF
         TestGate
  <1>5. CASE Validate
    <2>1. CASE GatesDone
      BY <1>0, <1>n, <2>1, GatesDoneEffect
    <2>2. CASE BuildLoop
      BY <1>0, <1>n, <2>2, BuildLoopEffect
    <2>3. CASE LoopHead
      BY <1>0, <1>n, <2>3, LoopHeadEffect
    <2>4. CASE Sync
      BY <1>0, <1>n, <2>4, SyncEffect
    <2>5. CASE Build
      BY <1>0, <1>n, <2>5, BuildEffect
    <2>6. CASE Test
      BY <1>0, <1>n, <2>6, TestEffect
    <2>7. CASE Check
      BY <1>0, <1>n, <2>7, CheckEffect
    <2>8. CASE PostValidation
      BY <1>0, <1>n, <2>8, PostValidationEffect
    <2>9. CASE Accept
      BY <1>0, <1>n, <2>9, AcceptEffect
    <2>10. CASE Fixer
      BY <1>0, <1>n, <2>10, FixerEffect
    <2>11. CASE RetryFixer
      BY <1>0, <1>n, <2>11, RetryFixerEffect
    <2>12. CASE FixerHandled
      BY <1>0, <1>n, <2>12, FixerHandledEffect
    <2> QED
      BY <1>5, <2>1, <2>2, <2>3, <2>4, <2>5, <2>6, <2>7, <2>8, <2>9, <2>10,
         <2>11, <2>12 DEF Validate
  <1>6. CASE PlanSteps
    <2>1. CASE StepDone
      BY <1>0, <1>n, <2>1, StepDoneEffect
    <2>2. CASE AfterPlan
      BY <1>0, <1>n, <2>2, AfterPlanEffect
    <2>3. CASE FinalValidate
      BY <1>0, <1>n, <2>3, FinalValidateEffect
    <2> QED
      BY <1>6, <2>1, <2>2, <2>3 DEF PlanSteps
  <1> QED
    BY <1>1, <1>2, <1>3, <1>4, <1>5, <1>6 DEF Session

LEMMA SessionFixerIdle ==
    ASSUME TypeOK, OpenSession, FlagsSaved, Placed, FixerIdle, Session
    PROVE  FixerIdle'
  <1>0. UNCHANGED <<cfg, crashes, resets>>
    BY DEF Session
  <1>n. /\ mem.plan \in Nat /\ SessionType /\ mem \in TaskStates
    BY Numbers, LoopKeyCases DEF TypeOK
  <1> USE DEF Same, Control, Locally, LocalFields, SavesAt, GoesTo, EndsWith,
      FailsWith, Keeps, NoLocals, FixerIdle, FixerIdleIn, Placed, FlagsSaved,
      InStep, StepBuilds, Planning, LoopOrEntry, EarlyPlaces, PostGates,
      LoopPlaces, GatePlaces, GateFields, FixFields, ReviewPassed,
      SecurityPassed, WriterBegins, RetestsReview, RetestsSecurity, GatePassed,
      EntersFinal, OpenFields, StepFields, AuditFields, LoopFields
  <1>1. CASE Prepare
    <2>1. CASE CheckCoverage
      BY <1>0, <1>n, <2>1, CheckCoverageEffect
    <2>2. CASE RunPresync
      BY <1>0, <1>n, <2>2, RunPresyncEffect
    <2>3. CASE Analyze
      BY <1>0, <1>n, <2>3, AnalyzeEffect
    <2>4. CASE Plan
      BY <1>0, <1>n, <2>4, PlanEffect
    <2>5. CASE Dispatch
      BY <1>0, <1>n, <2>5, DispatchEffect
    <2> QED
      BY <1>1, <2>1, <2>2, <2>3, <2>4, <2>5 DEF Prepare
  <1>2. CASE ImplementStep
    <2>1. CASE SkipImplement
      BY <1>0, <1>n, <2>1, SkipImplementEffect
    <2>2. CASE Implement
      BY <1>0, <1>n, <2>2, ImplementEffect
    <2>3. CASE TaskImplemented
      BY <1>0, <1>n, <2>3, TaskImplementedEffect
    <2>4. CASE StepImplemented
      BY <1>0, <1>n, <2>4, StepImplementedEffect
    <2>5. CASE ResumeCheck
      BY <1>0, <1>n, <2>5, ResumeCheckEffect
    <2> QED
      BY <1>2, <2>1, <2>2, <2>3, <2>4, <2>5 DEF ImplementStep
  <1>3. CASE ReviewGates
    <2>1. CASE SkipReview
      BY <1>0, <1>n, <2>1, SkipReviewEffect
    <2>2. CASE Review
      BY <1>0, <1>n, <2>2, ReviewEffect
    <2>3. CASE ReviewFix
      BY <1>0, <1>n, <2>3, FixGateEffect DEF ReviewFix
    <2>4. CASE ReviewFixHandled
      BY <1>0, <1>n, <2>4, GateFixHandledEffect DEF ReviewFixHandled
    <2>5. CASE SkipSecurity
      BY <1>0, <1>n, <2>5, SkipSecurityEffect
    <2>6. CASE SecurityReview
      BY <1>0, <1>n, <2>6, SecurityReviewEffect
    <2>7. CASE SecurityFix
      BY <1>0, <1>n, <2>7, FixGateEffect DEF SecurityFix
    <2>8. CASE SecurityFixHandled
      BY <1>0, <1>n, <2>8, GateFixHandledEffect DEF SecurityFixHandled
    <2>9. CASE FastPath
      BY <1>0, <1>n, <2>9, FastPathEffect
    <2> QED
      BY <1>3, <2>1, <2>2, <2>3, <2>4, <2>5, <2>6, <2>7, <2>8, <2>9 DEF
         ReviewGates
  <1>4. CASE TestGate
    <2>1. CASE SkipTests
      BY <1>0, <1>n, <2>1, SkipTestsEffect
    <2>2. CASE BeginTestWriting
      BY <1>0, <1>n, <2>2, BeginTestWritingEffect
    <2>3. CASE TestWriter
      BY <1>0, <1>n, <2>3, TestWriterEffect
    <2>4. CASE RecordAuditFiles
      BY <1>0, <1>n, <2>4, RecordAuditFilesEffect
    <2>5. CASE RetryTestWriter
      BY <1>0, <1>n, <2>5, RetryTestWriterEffect
    <2>6. CASE FinishAudit
      BY <1>0, <1>n, <2>6, FinishAuditControl
    <2>7. CASE TestsDone
      BY <1>0, <1>n, <2>7, TestsDoneEffect
    <2>8. CASE RetestReview
      BY <1>0, <1>n, <2>8, RetestReviewEffect
    <2>9. CASE RetestReviewed
      BY <1>0, <1>n, <2>9, RetestReviewedEffect
    <2>10. CASE RetestSecurity
      BY <1>0, <1>n, <2>10, RetestSecurityEffect
    <2> QED
      BY <1>4, <2>1, <2>2, <2>3, <2>4, <2>5, <2>6, <2>7, <2>8, <2>9, <2>10 DEF
         TestGate
  <1>5. CASE Validate
    <2>1. CASE GatesDone
      BY <1>0, <1>n, <2>1, GatesDoneEffect
    <2>2. CASE BuildLoop
      <3>1. \/ UNCHANGED <<mem, disk>>
            \/ /\ disk' = mem' /\ mem'.build_loop_key = BuildLoopKey(mem)
               /\ Same(mem', mem, {"build_loop_key", "build_loop_start_iteration"})
        BY <1>0, <1>n, <2>2, BuildLoopEffect
      <3>2. BuildLoopKey(mem) = <<"final", 0>> => mem.plan_completed
        BY <1>n, LoopKeyCases
      <3>3. pc' = "loop_head"
        BY <1>n, <2>2, BuildLoopEffect
      <3> QED
        BY <1>0, <3>1, <3>2, <3>3
    <2>3. CASE LoopHead
      BY <1>0, <1>n, <2>3, LoopHeadEffect
    <2>4. CASE Sync
      BY <1>0, <1>n, <2>4, SyncEffect
    <2>5. CASE Build
      BY <1>0, <1>n, <2>5, BuildEffect
    <2>6. CASE Test
      BY <1>0, <1>n, <2>6, TestEffect
    <2>7. CASE Check
      BY <1>0, <1>n, <2>7, CheckEffect
    <2>8. CASE PostValidation
      BY <1>0, <1>n, <2>8, PostValidationEffect
    <2>9. CASE Accept
      BY <1>0, <1>n, <2>9, AcceptEffect, LoopKeyCases
    <2>10. CASE Fixer
      BY <1>0, <1>n, <2>10, FixerEffect
    <2>11. CASE RetryFixer
      BY <1>0, <1>n, <2>11, RetryFixerEffect
    <2>12. CASE FixerHandled
      BY <1>0, <1>n, <2>12, FixerHandledEffect
    <2> QED
      BY <1>5, <2>1, <2>2, <2>3, <2>4, <2>5, <2>6, <2>7, <2>8, <2>9, <2>10,
         <2>11, <2>12 DEF Validate
  <1>6. CASE PlanSteps
    <2>1. CASE StepDone
      BY <1>0, <1>n, <2>1, StepDoneEffect
    <2>2. CASE AfterPlan
      BY <1>0, <1>n, <2>2, AfterPlanEffect
    <2>3. CASE FinalValidate
      BY <1>0, <1>n, <2>3, FinalValidateEffect
    <2> QED
      BY <1>6, <2>1, <2>2, <2>3 DEF PlanSteps
  <1> QED
    BY <1>1, <1>2, <1>3, <1>4, <1>5, <1>6 DEF Session

LEMMA OthersPlace ==
    ASSUME TypeOK, OpenSession, FlagsSaved, Placed, Invoke \/ Crash \/
           ResetFailed
    PROVE  Placed'
  <1>n. mem \in TaskStates /\ SessionType /\ NoKey # <<"final", 0>>
    BY LoopKeyCases DEF TypeOK, SessionType
  <1> USE DEF Same, Control, Locally, LocalFields, SavesAt, GoesTo, EndsWith,
      FailsWith, Keeps, NoLocals, FixerIdle, FixerIdleIn, Placed, FlagsSaved,
      InStep, StepBuilds, Planning, LoopOrEntry, EarlyPlaces, PostGates,
      LoopPlaces, GatePlaces, ResetFields, OpenSession, GateFields, FixFields,
      ReviewPassed, SecurityPassed, WriterBegins, RetestsReview,
      RetestsSecurity, GatePassed, EntersFinal, OpenFields, StepFields,
      AuditFields, LoopFields
  <1>1. CASE Invoke
    BY <1>n, <1>1, InvokeEffect
  <1>2. CASE Crash
    BY <1>n, <1>2, CrashEffect
  <1>3. CASE ResetFailed
    BY <1>n, <1>3, ResetFailedEffect
  <1> QED
    BY <1>1, <1>2, <1>3

LEMMA OthersSaveFlags ==
    ASSUME TypeOK, OpenSession, FlagsSaved, Placed, Invoke \/ Crash \/
           ResetFailed
    PROVE  FlagsSaved'
  <1>n. mem \in TaskStates /\ SessionType /\ NoKey # <<"final", 0>>
    BY LoopKeyCases DEF TypeOK, SessionType
  <1> USE DEF Same, Control, Locally, LocalFields, SavesAt, GoesTo, EndsWith,
      FailsWith, Keeps, NoLocals, FixerIdle, FixerIdleIn, Placed, FlagsSaved,
      InStep, StepBuilds, Planning, LoopOrEntry, EarlyPlaces, PostGates,
      LoopPlaces, GatePlaces, ResetFields, OpenSession, GateFields, FixFields,
      ReviewPassed, SecurityPassed, WriterBegins, RetestsReview,
      RetestsSecurity, GatePassed, EntersFinal, OpenFields, StepFields,
      AuditFields, LoopFields
  <1>1. CASE Invoke
    BY <1>n, <1>1, InvokeEffect
  <1>2. CASE Crash
    BY <1>n, <1>2, CrashEffect
  <1>3. CASE ResetFailed
    BY <1>n, <1>3, ResetFailedEffect
  <1> QED
    BY <1>1, <1>2, <1>3

LEMMA OthersFixerIdle ==
    ASSUME TypeOK, OpenSession, FlagsSaved, Placed, FixerIdle, Invoke \/ Crash
           \/ ResetFailed
    PROVE  FixerIdle'
  <1>n. mem \in TaskStates /\ SessionType /\ NoKey # <<"final", 0>>
    BY LoopKeyCases DEF TypeOK, SessionType
  <1> USE DEF Same, Control, Locally, LocalFields, SavesAt, GoesTo, EndsWith,
      FailsWith, Keeps, NoLocals, FixerIdle, FixerIdleIn, Placed, FlagsSaved,
      InStep, StepBuilds, Planning, LoopOrEntry, EarlyPlaces, PostGates,
      LoopPlaces, GatePlaces, ResetFields, OpenSession, GateFields, FixFields,
      ReviewPassed, SecurityPassed, WriterBegins, RetestsReview,
      RetestsSecurity, GatePassed, EntersFinal, OpenFields, StepFields,
      AuditFields, LoopFields
  <1>1. CASE Invoke
    BY <1>n, <1>1, InvokeEffect
  <1>2. CASE Crash
    BY <1>n, <1>2, CrashEffect
  <1>3. CASE ResetFailed
    BY <1>n, <1>3, ResetFailedEffect
  <1> QED
    BY <1>1, <1>2, <1>3
-----------------------------------------------------------------------------
(* The budget of fixers: every fixer of the current loop is covered by a   *)
(* counted attempt, in memory and (up to one per kill without a heartbeat) *)
(* on disk, and a fixer starts only below the budget.                      *)
Slack == IF cfg.heartbeat THEN 0 ELSE crashes
Counted(s) == s.build_loop_key # NoKey =>
    /\ s.build_loop_start_iteration <= s.build_iterations
    /\ work.fixes <= s.build_iterations - s.build_loop_start_iteration + Slack
UsedNow == mem.build_iterations - mem.build_loop_start_iteration
MayFix(n) == UsedNow <= cfg.max_iterations /\ work.fixes + n <= UsedNow + Slack

FixesCounted ==
    /\ FixerBudget
    /\ Counted(mem) /\ Counted(disk)
    /\ pc \in LoopPlaces \/ PostGates => mem.build_loop_key # NoKey
    /\ pc \in {"sync", "build", "test", "check"} /\ ~loc.validation_only => MayFix(1)
    /\ pc = "fixer" => MayFix(IF loc.retry THEN 0 ELSE 1)
    /\ pc = "fixer_returned" => UsedNow <= cfg.max_iterations

LEMMA SessionCounts ==
    ASSUME TypeOK, OpenSession, Placed, FixesCounted, Session
    PROVE  FixesCounted'
  <1>0. UNCHANGED <<cfg, crashes, resets>>
    BY DEF Session
  <1>n. /\ mem.build_iterations \in Nat /\ mem.build_loop_start_iteration \in Nat
        /\ disk.build_iterations \in Nat /\ disk.build_loop_start_iteration \in Nat
        /\ work.fixes \in Nat /\ cfg.max_iterations \in Nat /\ crashes \in Nat
        /\ SessionType
    BY Numbers
  <1> USE DEF Same, Control, Locally, LocalFields, Ghostly, GhostFields,
      SavesAt, GoesTo, EndsWith, FailsWith, Keeps, NoLocals, FixesCounted,
      Counted, UsedNow, MayFix, Slack, PostGates, LoopPlaces, GatePlaces,
      FixerBudget, GateFields, FixFields, ReviewPassed, SecurityPassed,
      WriterBegins, TestsLeft, RetestsReview, RetestsSecurity, GatePassed,
      EntersFinal, OpenFields, StepFields, AuditFields, LoopFields
  <1>1. CASE Prepare
    <2>1. CASE CheckCoverage
      BY <1>0, <1>n, <2>1, CheckCoverageEffect
    <2>2. CASE RunPresync
      BY <1>0, <1>n, <2>2, RunPresyncEffect
    <2>3. CASE Analyze
      BY <1>0, <1>n, <2>3, AnalyzeEffect
    <2>4. CASE Plan
      BY <1>0, <1>n, <2>4, PlanEffect
    <2>5. CASE Dispatch
      BY <1>0, <1>n, <2>5, DispatchEffect
    <2> QED
      BY <1>1, <2>1, <2>2, <2>3, <2>4, <2>5 DEF Prepare
  <1>2. CASE ImplementStep
    <2>1. CASE SkipImplement
      BY <1>0, <1>n, <2>1, SkipImplementEffect
    <2>2. CASE Implement
      BY <1>0, <1>n, <2>2, ImplementEffect
    <2>3. CASE TaskImplemented
      BY <1>0, <1>n, <2>3, TaskImplementedEffect
    <2>4. CASE StepImplemented
      BY <1>0, <1>n, <2>4, StepImplementedEffect
    <2>5. CASE ResumeCheck
      <3>1. loc.ctx # "post" /\ UNCHANGED <<mem, disk, loc, work>>
            /\ pc' \in {"build_loop", "review"}
        BY <1>n, <2>5, ResumeCheckEffect DEF Placed
      <3> QED
        BY <1>0, <1>n, <3>1
    <2> QED
      BY <1>2, <2>1, <2>2, <2>3, <2>4, <2>5 DEF ImplementStep
  <1>3. CASE ReviewGates
    <2>1. CASE SkipReview
      BY <1>0, <1>n, <2>1, SkipReviewEffect
    <2>2. CASE Review
      BY <1>0, <1>n, <2>2, ReviewEffect
    <2>3. CASE ReviewFix
      BY <1>0, <1>n, <2>3, FixGateEffect DEF ReviewFix
    <2>4. CASE ReviewFixHandled
      BY <1>0, <1>n, <2>4, GateFixHandledEffect DEF ReviewFixHandled
    <2>5. CASE SkipSecurity
      BY <1>0, <1>n, <2>5, SkipSecurityEffect
    <2>6. CASE SecurityReview
      BY <1>0, <1>n, <2>6, SecurityReviewEffect
    <2>7. CASE SecurityFix
      BY <1>0, <1>n, <2>7, FixGateEffect DEF SecurityFix
    <2>8. CASE SecurityFixHandled
      BY <1>0, <1>n, <2>8, GateFixHandledEffect DEF SecurityFixHandled
    <2>9. CASE FastPath
      BY <1>0, <1>n, <2>9, FastPathEffect
    <2> QED
      BY <1>3, <2>1, <2>2, <2>3, <2>4, <2>5, <2>6, <2>7, <2>8, <2>9 DEF
         ReviewGates
  <1>4. CASE TestGate
    <2>1. CASE SkipTests
      BY <1>0, <1>n, <2>1, SkipTestsEffect
    <2>2. CASE BeginTestWriting
      BY <1>0, <1>n, <2>2, BeginTestWritingEffect
    <2>3. CASE TestWriter
      BY <1>0, <1>n, <2>3, TestWriterEffect
    <2>4. CASE RecordAuditFiles
      BY <1>0, <1>n, <2>4, RecordAuditFilesEffect
    <2>5. CASE RetryTestWriter
      BY <1>0, <1>n, <2>5, RetryTestWriterEffect
    <2>6. CASE FinishAudit
      BY <1>0, <1>n, <2>6, FinishAuditControl
    <2>7. CASE TestsDone
      BY <1>0, <1>n, <2>7, TestsDoneEffect
    <2>8. CASE RetestReview
      BY <1>0, <1>n, <2>8, RetestReviewEffect
    <2>9. CASE RetestReviewed
      BY <1>0, <1>n, <2>9, RetestReviewedEffect
    <2>10. CASE RetestSecurity
      BY <1>0, <1>n, <2>10, RetestSecurityEffect
    <2> QED
      BY <1>4, <2>1, <2>2, <2>3, <2>4, <2>5, <2>6, <2>7, <2>8, <2>9, <2>10 DEF
         TestGate
  <1>5. CASE Validate
    <2>1. CASE GatesDone
      BY <1>0, <1>n, <2>1, GatesDoneEffect
    <2>2. CASE BuildLoop
      <3>1. mem \in TaskStates /\ BuildLoopKey(mem) # NoKey
        BY LoopKeyCases DEF TypeOK
      <3> QED
        BY <1>0, <1>n, <2>2, <3>1, BuildLoopEffect
    <2>3. CASE LoopHead
      <3>1. mem.build_loop_key # NoKey /\ Counted(mem)
        BY <2>3, LoopHeadEffect, <1>n
      <3>2. ~ValidationOnly => UsedNow < cfg.max_iterations
        BY <1>n, <3>1 DEF ValidationOnly, BuildLoopAttemptsUsed
      <3> QED
        BY <1>0, <1>n, <2>3, <3>1, <3>2, LoopHeadEffect
    <2>4. CASE Sync
      BY <1>0, <1>n, <2>4, SyncEffect
    <2>5. CASE Build
      BY <1>0, <1>n, <2>5, BuildEffect
    <2>6. CASE Test
      BY <1>0, <1>n, <2>6, TestEffect
    <2>7. CASE Check
      BY <1>0, <1>n, <2>7, CheckEffect
    <2>8. CASE PostValidation
      BY <1>0, <1>n, <2>8, PostValidationEffect
    <2>9. CASE Accept
      BY <1>0, <1>n, <2>9, AcceptEffect
    <2>10. CASE Fixer
      BY <1>0, <1>n, <2>10, FixerEffect
    <2>11. CASE RetryFixer
      <3>1. /\ pc = "fixer_returned" /\ pc' = "fixer" /\ loc'.retry = TRUE
            /\ disk' = mem' /\ Same(mem', mem, {"test_execution_gate_records"})
            /\ work'.fixes = work.fixes
        BY <1>n, <2>11, RetryFixerEffect
      <3>2. MayFix(0)
        BY <1>n, <3>1
      <3> QED
        BY <1>0, <1>n, <3>1, <3>2
    <2>12. CASE FixerHandled
      BY <1>0, <1>n, <2>12, FixerHandledEffect
    <2> QED
      BY <1>5, <2>1, <2>2, <2>3, <2>4, <2>5, <2>6, <2>7, <2>8, <2>9, <2>10,
         <2>11, <2>12 DEF Validate
  <1>6. CASE PlanSteps
    <2>1. CASE StepDone
      BY <1>0, <1>n, <2>1, StepDoneEffect
    <2>2. CASE AfterPlan
      BY <1>0, <1>n, <2>2, AfterPlanEffect
    <2>3. CASE FinalValidate
      BY <1>0, <1>n, <2>3, FinalValidateEffect
    <2> QED
      BY <1>6, <2>1, <2>2, <2>3 DEF PlanSteps
  <1> QED
    BY <1>1, <1>2, <1>3, <1>4, <1>5, <1>6 DEF Session

LEMMA OthersCount ==
    ASSUME TypeOK, OpenSession, Placed, FixesCounted, Invoke \/ Crash \/
           ResetFailed
    PROVE  FixesCounted'
  <1>n. /\ mem.build_iterations \in Nat /\ mem.build_loop_start_iteration \in Nat
        /\ disk.build_iterations \in Nat /\ disk.build_loop_start_iteration \in Nat
        /\ work.fixes \in Nat /\ cfg.max_iterations \in Nat /\ crashes \in Nat
        /\ SessionType
    BY Numbers
  <1> USE DEF Same, Control, Locally, LocalFields, Ghostly, GhostFields,
      SavesAt, GoesTo, EndsWith, FailsWith, Keeps, NoLocals, FixesCounted,
      Counted, UsedNow, MayFix, Slack, PostGates, LoopPlaces, GatePlaces,
      FixerBudget, OpenSession, ResetFields
  <1>1. CASE Invoke
    BY <1>n, <1>1, InvokeEffect
  <1>2. CASE Crash
    BY <1>n, <1>2, CrashEffect
  <1>3. CASE ResetFailed
    BY <1>n, <1>3, ResetFailedEffect
  <1> QED
    BY <1>1, <1>2, <1>3
-----------------------------------------------------------------------------
(* The review: as long as the reviewer's approval is recorded, nobody it   *)
(* answers for has written since.  Work that has not begun, or a fix under *)
(* way, is not approved; behind the review gate the approval stands.       *)
FixPlaces == {"review_fix", "review_fixed", "security_fix", "security_fixed"}
AfterReview == {"security", "fast_path", "tests", "test_writer", "test_written",
    "test_audit", "tests_done", "retest_reviewed", "retest_security", "gates_done",
    "accept"}

Produced == {"implementer", "lost_implementer", "fixer", "sync"}
Begun(s) == IF s.plan = 0 THEN s.files_changed ELSE s.step_implemented \/ s.plan_completed

ReviewCurrent ==
    /\ mem.review_approved => work.stale["review"] \cap Produced = {}
    /\ Planning \/ ~Begun(mem) \/ ~Begun(disk) => ~mem.review_approved
    /\ pc \in FixPlaces => ~mem.review_approved
    /\ cfg.run_review /\ pc \in AfterReview => mem.review_approved
    /\ cfg.run_review /\ ~cfg.run_build /\ mem.final_full_task_review_done => mem.review_approved
    /\ ~cfg.run_build /\ pc \in GatePlaces => ~mem.final_full_task_review_done
    /\ cfg.run_review /\ disk.done => mem.review_approved

LEMMA SessionReviews ==
    ASSUME TypeOK, OpenSession, FlagsSaved, Placed, ReviewCurrent, Session
    PROVE  ReviewCurrent'
  <1>0. UNCHANGED <<cfg, crashes, resets>>
    BY DEF Session
  <1>n. mem.plan \in Nat /\ disk.plan \in Nat /\ SessionType
    BY Numbers
  <1> USE DEF Same, Control, Locally, LocalFields, Ghostly, GhostFields,
      SavesAt, GoesTo, EndsWith, FailsWith, Keeps, NoLocals, ReviewCurrent,
      AfterReview, Produced, Begun, FixPlaces, InStep, LoopOrEntry, PostGates,
      LoopPlaces, GatePlaces, Planning, EarlyPlaces, Placed, FlagsSaved,
      OpenSession, GateFields, FixFields, ReviewPassed, SecurityPassed,
      WriterBegins, TestsLeft, RetestsReview, RetestsSecurity, GatePassed,
      EntersFinal, OpenFields, StepFields, AuditFields, LoopFields, AllStale,
      SecurityStale, ReviewDue, SemanticGatesPending, AlreadyImplemented, Owes,
      OwesSame, Cleared, OwesOnly, Gates
  <1>1. CASE Prepare
    <2>1. CASE CheckCoverage
      BY <1>0, <1>n, <2>1, CheckCoverageEffect
    <2>2. CASE RunPresync
      BY <1>0, <1>n, <2>2, RunPresyncEffect
    <2>3. CASE Analyze
      BY <1>0, <1>n, <2>3, AnalyzeEffect
    <2>4. CASE Plan
      BY <1>0, <1>n, <2>4, PlanEffect
    <2>5. CASE Dispatch
      BY <1>0, <1>n, <2>5, DispatchEffect
    <2> QED
      BY <1>1, <2>1, <2>2, <2>3, <2>4, <2>5 DEF Prepare
  <1>2. CASE ImplementStep
    <2>1. CASE SkipImplement
      BY <1>0, <1>n, <2>1, SkipImplementEffect
    <2>2. CASE Implement
      BY <1>0, <1>n, <2>2, ImplementEffect
    <2>3. CASE TaskImplemented
      BY <1>0, <1>n, <2>3, TaskImplementedEffect
    <2>4. CASE StepImplemented
      BY <1>0, <1>n, <2>4, StepImplementedEffect
    <2>5. CASE ResumeCheck
      BY <1>0, <1>n, <2>5, ResumeCheckEffect
    <2> QED
      BY <1>2, <2>1, <2>2, <2>3, <2>4, <2>5 DEF ImplementStep
  <1>3. CASE ReviewGates
    <2>1. CASE SkipReview
      BY <1>0, <1>n, <2>1, SkipReviewEffect
    <2>2. CASE Review
      BY <1>0, <1>n, <2>2, ReviewEffect
    <2>3. CASE ReviewFix
      BY <1>0, <1>n, <2>3, FixGateEffect DEF ReviewFix
    <2>4. CASE ReviewFixHandled
      BY <1>0, <1>n, <2>4, GateFixHandledEffect DEF ReviewFixHandled
    <2>5. CASE SkipSecurity
      BY <1>0, <1>n, <2>5, SkipSecurityEffect
    <2>6. CASE SecurityReview
      BY <1>0, <1>n, <2>6, SecurityReviewEffect
    <2>7. CASE SecurityFix
      BY <1>0, <1>n, <2>7, FixGateEffect DEF SecurityFix
    <2>8. CASE SecurityFixHandled
      BY <1>0, <1>n, <2>8, GateFixHandledEffect DEF SecurityFixHandled
    <2>9. CASE FastPath
      BY <1>0, <1>n, <2>9, FastPathEffect
    <2> QED
      BY <1>3, <2>1, <2>2, <2>3, <2>4, <2>5, <2>6, <2>7, <2>8, <2>9 DEF
         ReviewGates
  <1>4. CASE TestGate
    <2>1. CASE SkipTests
      BY <1>0, <1>n, <2>1, SkipTestsEffect
    <2>2. CASE BeginTestWriting
      BY <1>0, <1>n, <2>2, BeginTestWritingEffect
    <2>3. CASE TestWriter
      BY <1>0, <1>n, <2>3, TestWriterEffect
    <2>4. CASE RecordAuditFiles
      BY <1>0, <1>n, <2>4, RecordAuditFilesEffect
    <2>5. CASE RetryTestWriter
      BY <1>0, <1>n, <2>5, RetryTestWriterEffect
    <2>6. CASE FinishAudit
      BY <1>0, <1>n, <2>6, FinishAuditControl
    <2>7. CASE TestsDone
      BY <1>0, <1>n, <2>7, TestsDoneEffect
    <2>8. CASE RetestReview
      BY <1>0, <1>n, <2>8, RetestReviewEffect
    <2>9. CASE RetestReviewed
      BY <1>0, <1>n, <2>9, RetestReviewedEffect
    <2>10. CASE RetestSecurity
      BY <1>0, <1>n, <2>10, RetestSecurityEffect
    <2> QED
      BY <1>4, <2>1, <2>2, <2>3, <2>4, <2>5, <2>6, <2>7, <2>8, <2>9, <2>10 DEF
         TestGate
  <1>5. CASE Validate
    <2>1. CASE GatesDone
      BY <1>0, <1>n, <2>1, GatesDoneEffect
    <2>2. CASE BuildLoop
      BY <1>0, <1>n, <2>2, BuildLoopEffect
    <2>3. CASE LoopHead
      BY <1>0, <1>n, <2>3, LoopHeadEffect
    <2>4. CASE Sync
      BY <1>0, <1>n, <2>4, SyncEffect
    <2>5. CASE Build
      BY <1>0, <1>n, <2>5, BuildEffect
    <2>6. CASE Test
      BY <1>0, <1>n, <2>6, TestEffect
    <2>7. CASE Check
      BY <1>0, <1>n, <2>7, CheckEffect
    <2>8. CASE PostValidation
      BY <1>0, <1>n, <2>8, PostValidationEffect
    <2>9. CASE Accept
      BY <1>0, <1>n, <2>9, AcceptEffect
    <2>10. CASE Fixer
      BY <1>0, <1>n, <2>10, FixerEffect
    <2>11. CASE RetryFixer
      BY <1>0, <1>n, <2>11, RetryFixerEffect
    <2>12. CASE FixerHandled
      BY <1>0, <1>n, <2>12, FixerHandledEffect
    <2> QED
      BY <1>5, <2>1, <2>2, <2>3, <2>4, <2>5, <2>6, <2>7, <2>8, <2>9, <2>10,
         <2>11, <2>12 DEF Validate
  <1>6. CASE PlanSteps
    <2>1. CASE StepDone
      BY <1>0, <1>n, <2>1, StepDoneEffect
    <2>2. CASE AfterPlan
      BY <1>0, <1>n, <2>2, AfterPlanEffect
    <2>3. CASE FinalValidate
      BY <1>0, <1>n, <2>3, FinalValidateEffect
    <2> QED
      BY <1>6, <2>1, <2>2, <2>3 DEF PlanSteps
  <1> QED
    BY <1>1, <1>2, <1>3, <1>4, <1>5, <1>6 DEF Session

LEMMA OthersReview ==
    ASSUME TypeOK, OpenSession, FlagsSaved, Placed, ReviewCurrent, Invoke \/
           Crash \/ ResetFailed
    PROVE  ReviewCurrent'
  <1>n. mem.plan \in Nat /\ disk.plan \in Nat /\ SessionType
    BY Numbers
  <1> USE DEF Same, Control, Locally, LocalFields, Ghostly, GhostFields,
      SavesAt, GoesTo, EndsWith, FailsWith, Keeps, NoLocals, ReviewCurrent,
      AfterReview, Produced, Begun, FixPlaces, InStep, LoopOrEntry, PostGates,
      LoopPlaces, GatePlaces, Planning, EarlyPlaces, Placed, FlagsSaved,
      OpenSession, ResetFields, Left, Writing, LostOrigins, AlreadyImplemented,
      Owes, OwesSame, Cleared, OwesOnly, Gates
  <1>1. CASE Invoke
    BY <1>n, <1>1, InvokeEffect
  <1>2. CASE Crash
    BY <1>n, <1>2, CrashEffect
  <1>3. CASE ResetFailed
    BY <1>n, <1>3, ResetFailedEffect
  <1> QED
    BY <1>1, <1>2, <1>3
-----------------------------------------------------------------------------
(* The review of the planned task as a whole: recorded as passed, or       *)
(* implied by a fixer or a loop that belongs to the whole task.            *)
SeenWhole(s) ==
    /\ mem.plan_completed /\ (s.fixer_changed_code \/ s.build_loop_key = <<"final", 0>>)
         => work.full_review

WholeReview ==
    cfg.run_review =>
      /\ mem.final_full_task_review_done => work.full_review
      /\ SeenWhole(mem) /\ SeenWhole(disk)
      /\ pc \in GatePlaces /\ loc.ctx = "final" /\ mem.review_approved => work.full_review
      /\ LoopOrEntry /\ mem.plan_completed => work.full_review
      /\ disk.done /\ disk.plan > 0 => work.full_review

LEMMA SessionReviewsWhole ==
    ASSUME TypeOK, OpenSession, FlagsSaved, Placed, FixerIdle, ReviewCurrent,
           WholeReview, Session
    PROVE  WholeReview'
  <1>0. UNCHANGED <<cfg, crashes, resets>>
    BY DEF Session
  <1>n. mem.plan \in Nat /\ disk.plan \in Nat /\ SessionType
    BY Numbers
  <1> USE DEF Same, Control, Locally, LocalFields, Ghostly, GhostFields,
      SavesAt, GoesTo, EndsWith, FailsWith, Keeps, NoLocals, ReviewCurrent,
      FixerIdle, FixerIdleIn, WholeReview, SeenWhole, AfterReview, InStep,
      LoopOrEntry, PostGates, LoopPlaces, GatePlaces, Placed, FlagsSaved,
      OpenSession, GateFields, FixFields, ReviewPassed, SecurityPassed,
      WriterBegins, TestsLeft, RetestsReview, RetestsSecurity, GatePassed,
      EntersFinal, OpenFields, StepFields, AuditFields, LoopFields, AllStale,
      SecurityStale, ReviewDue
  <1>1. CASE Prepare
    <2>1. CASE CheckCoverage
      BY <1>0, <1>n, <2>1, CheckCoverageEffect
    <2>2. CASE RunPresync
      BY <1>0, <1>n, <2>2, RunPresyncEffect
    <2>3. CASE Analyze
      BY <1>0, <1>n, <2>3, AnalyzeEffect
    <2>4. CASE Plan
      BY <1>0, <1>n, <2>4, PlanEffect
    <2>5. CASE Dispatch
      BY <1>0, <1>n, <2>5, DispatchEffect
    <2> QED
      BY <1>1, <2>1, <2>2, <2>3, <2>4, <2>5 DEF Prepare
  <1>2. CASE ImplementStep
    <2>1. CASE SkipImplement
      BY <1>0, <1>n, <2>1, SkipImplementEffect
    <2>2. CASE Implement
      BY <1>0, <1>n, <2>2, ImplementEffect
    <2>3. CASE TaskImplemented
      BY <1>0, <1>n, <2>3, TaskImplementedEffect
    <2>4. CASE StepImplemented
      BY <1>0, <1>n, <2>4, StepImplementedEffect
    <2>5. CASE ResumeCheck
      BY <1>0, <1>n, <2>5, ResumeCheckEffect
    <2> QED
      BY <1>2, <2>1, <2>2, <2>3, <2>4, <2>5 DEF ImplementStep
  <1>3. CASE ReviewGates
    <2>1. CASE SkipReview
      BY <1>0, <1>n, <2>1, SkipReviewEffect
    <2>2. CASE Review
      BY <1>0, <1>n, <2>2, ReviewEffect
    <2>3. CASE ReviewFix
      BY <1>0, <1>n, <2>3, FixGateEffect DEF ReviewFix
    <2>4. CASE ReviewFixHandled
      BY <1>0, <1>n, <2>4, GateFixHandledEffect DEF ReviewFixHandled
    <2>5. CASE SkipSecurity
      BY <1>0, <1>n, <2>5, SkipSecurityEffect
    <2>6. CASE SecurityReview
      BY <1>0, <1>n, <2>6, SecurityReviewEffect
    <2>7. CASE SecurityFix
      BY <1>0, <1>n, <2>7, FixGateEffect DEF SecurityFix
    <2>8. CASE SecurityFixHandled
      BY <1>0, <1>n, <2>8, GateFixHandledEffect DEF SecurityFixHandled
    <2>9. CASE FastPath
      BY <1>0, <1>n, <2>9, FastPathEffect
    <2> QED
      BY <1>3, <2>1, <2>2, <2>3, <2>4, <2>5, <2>6, <2>7, <2>8, <2>9 DEF
         ReviewGates
  <1>4. CASE TestGate
    <2>1. CASE SkipTests
      BY <1>0, <1>n, <2>1, SkipTestsEffect
    <2>2. CASE BeginTestWriting
      BY <1>0, <1>n, <2>2, BeginTestWritingEffect
    <2>3. CASE TestWriter
      BY <1>0, <1>n, <2>3, TestWriterEffect
    <2>4. CASE RecordAuditFiles
      BY <1>0, <1>n, <2>4, RecordAuditFilesEffect
    <2>5. CASE RetryTestWriter
      BY <1>0, <1>n, <2>5, RetryTestWriterEffect
    <2>6. CASE FinishAudit
      BY <1>0, <1>n, <2>6, FinishAuditControl
    <2>7. CASE TestsDone
      BY <1>0, <1>n, <2>7, TestsDoneEffect
    <2>8. CASE RetestReview
      BY <1>0, <1>n, <2>8, RetestReviewEffect
    <2>9. CASE RetestReviewed
      BY <1>0, <1>n, <2>9, RetestReviewedEffect
    <2>10. CASE RetestSecurity
      BY <1>0, <1>n, <2>10, RetestSecurityEffect
    <2> QED
      BY <1>4, <2>1, <2>2, <2>3, <2>4, <2>5, <2>6, <2>7, <2>8, <2>9, <2>10 DEF
         TestGate
  <1>5. CASE Validate
    <2>1. CASE GatesDone
      BY <1>0, <1>n, <2>1, GatesDoneEffect
    <2>2. CASE BuildLoop
      BY <1>0, <1>n, <2>2, BuildLoopEffect
    <2>3. CASE LoopHead
      BY <1>0, <1>n, <2>3, LoopHeadEffect
    <2>4. CASE Sync
      BY <1>0, <1>n, <2>4, SyncEffect
    <2>5. CASE Build
      BY <1>0, <1>n, <2>5, BuildEffect
    <2>6. CASE Test
      BY <1>0, <1>n, <2>6, TestEffect
    <2>7. CASE Check
      BY <1>0, <1>n, <2>7, CheckEffect
    <2>8. CASE PostValidation
      BY <1>0, <1>n, <2>8, PostValidationEffect
    <2>9. CASE Accept
      <3>1. ~LoopSetsDone(mem) \/ mem.plan_completed \/ mem.plan = 0
        BY <1>n, LoopKeyCases DEF TypeOK
      <3> QED
        BY <1>0, <1>n, <2>9, <3>1, AcceptEffect
    <2>10. CASE Fixer
      BY <1>0, <1>n, <2>10, FixerEffect
    <2>11. CASE RetryFixer
      BY <1>0, <1>n, <2>11, RetryFixerEffect
    <2>12. CASE FixerHandled
      BY <1>0, <1>n, <2>12, FixerHandledEffect
    <2> QED
      BY <1>5, <2>1, <2>2, <2>3, <2>4, <2>5, <2>6, <2>7, <2>8, <2>9, <2>10,
         <2>11, <2>12 DEF Validate
  <1>6. CASE PlanSteps
    <2>1. CASE StepDone
      BY <1>0, <1>n, <2>1, StepDoneEffect
    <2>2. CASE AfterPlan
      <3>1. mem.plan_completed /\ BuildLoopActiveForCurrentScope(mem)
               => mem.build_loop_key = <<"final", 0>>
        BY <1>n, LoopKeyCases DEF TypeOK, BuildLoopActiveForCurrentScope
      <3> QED
        BY <1>0, <1>n, <2>2, <3>1, AfterPlanEffect
    <2>3. CASE FinalValidate
      BY <1>0, <1>n, <2>3, FinalValidateEffect
    <2> QED
      BY <1>6, <2>1, <2>2, <2>3 DEF PlanSteps
  <1> QED
    BY <1>1, <1>2, <1>3, <1>4, <1>5, <1>6 DEF Session

LEMMA OthersReviewWhole ==
    ASSUME TypeOK, OpenSession, FlagsSaved, Placed, WholeReview, Invoke \/
           Crash \/ ResetFailed
    PROVE  WholeReview'
  <1>n. mem.plan \in Nat /\ disk.plan \in Nat /\ SessionType
    BY Numbers
  <1> USE DEF Same, Control, Locally, LocalFields, Ghostly, GhostFields,
      SavesAt, GoesTo, EndsWith, FailsWith, Keeps, NoLocals, ReviewCurrent,
      FixerIdle, FixerIdleIn, WholeReview, SeenWhole, AfterReview, InStep,
      LoopOrEntry, PostGates, LoopPlaces, GatePlaces, Placed, FlagsSaved,
      OpenSession, ResetFields
  <1>1. CASE Invoke
    BY <1>n, <1>1, InvokeEffect
  <1>2. CASE Crash
    BY <1>n, <1>2, CrashEffect
  <1>3. CASE ResetFailed
    <2>1. NoKey # <<"final", 0>>
      BY LoopKeyCases DEF TypeOK
    <2> QED
      BY <1>n, <1>3, <2>1, ResetFailedEffect
  <1> QED
    BY <1>1, <1>2, <1>3
-----------------------------------------------------------------------------
(* The security review, for a review-fix task as long as nothing           *)
(* interrupts it: a failed repeated review leaves the security approval of *)
(* code that the reviewer rejected.                                        *)
Answerable == cfg.review_fix => Uninterrupted

RetestPlaces == {"retest_review", "retest_reviewed", "retest_security"}

(* Fixes and repeated reviews run only where their gates are enabled.      *)
FixesAreDue ==
    /\ pc \in {"review_fix", "review_fixed"} => cfg.run_review
    /\ pc \in {"security_fix", "security_fixed"} => cfg.run_security_review
    /\ pc \in RetestPlaces => cfg.review_fix

AfterSecurity == {"fast_path", "tests", "test_writer", "test_written",
    "test_audit", "tests_done", "gates_done", "accept"}

SecurityCurrent ==
    Answerable /\ cfg.run_security_review =>
      /\ mem.security_approved => work.stale["security"] \cap Produced = {}
      /\ Planning \/ ~Begun(mem) \/ ~Begun(disk) => ~mem.security_approved
      /\ pc \in FixPlaces => ~mem.security_approved
      /\ pc \in AfterSecurity => mem.security_approved
      /\ cfg.run_review /\ mem.security_approved =>
            \/ mem.review_approved \/ pc = "retest_review"
            \/ pc = "idle" /\ disk.failed /\ cfg.review_fix
      /\ ~cfg.run_build /\ mem.final_full_task_review_done => mem.security_approved
      /\ disk.done => mem.security_approved

LEMMA SessionFixesDue ==
    ASSUME TypeOK, OpenSession, FixesAreDue, Session
    PROVE  FixesAreDue'
  <1>0. UNCHANGED <<cfg, crashes, resets>>
    BY DEF Session
  <1>n. mem.plan \in Nat /\ disk.plan \in Nat /\ SessionType /\ crashes \in Nat /\ resets \in Nat
    BY Numbers
  <1> USE DEF Same, Control, Locally, LocalFields, Ghostly, GhostFields,
      SavesAt, GoesTo, EndsWith, FailsWith, Keeps, NoLocals, FixesAreDue,
      RetestPlaces, GateFields, FixFields, ReviewPassed, SecurityPassed,
      WriterBegins, TestsLeft, RetestsReview, RetestsSecurity, GatePassed,
      EntersFinal, OpenFields, StepFields, AuditFields, LoopFields, AllStale,
      SecurityStale, ReviewDue, SecurityDue, SemanticGatesPending,
      AlreadyImplemented, Owes, OwesSame, Cleared, OwesOnly, Gates
  <1>1. CASE Prepare
    <2>1. CASE CheckCoverage
      BY <1>0, <1>n, <2>1, CheckCoverageEffect
    <2>2. CASE RunPresync
      BY <1>0, <1>n, <2>2, RunPresyncEffect
    <2>3. CASE Analyze
      BY <1>0, <1>n, <2>3, AnalyzeEffect
    <2>4. CASE Plan
      BY <1>0, <1>n, <2>4, PlanEffect
    <2>5. CASE Dispatch
      BY <1>0, <1>n, <2>5, DispatchEffect
    <2> QED
      BY <1>1, <2>1, <2>2, <2>3, <2>4, <2>5 DEF Prepare
  <1>2. CASE ImplementStep
    <2>1. CASE SkipImplement
      BY <1>0, <1>n, <2>1, SkipImplementEffect
    <2>2. CASE Implement
      BY <1>0, <1>n, <2>2, ImplementEffect
    <2>3. CASE TaskImplemented
      BY <1>0, <1>n, <2>3, TaskImplementedEffect
    <2>4. CASE StepImplemented
      BY <1>0, <1>n, <2>4, StepImplementedEffect
    <2>5. CASE ResumeCheck
      BY <1>0, <1>n, <2>5, ResumeCheckEffect
    <2> QED
      BY <1>2, <2>1, <2>2, <2>3, <2>4, <2>5 DEF ImplementStep
  <1>3. CASE ReviewGates
    <2>1. CASE SkipReview
      BY <1>0, <1>n, <2>1, SkipReviewEffect
    <2>2. CASE Review
      BY <1>0, <1>n, <2>2, ReviewEffect
    <2>3. CASE ReviewFix
      BY <1>0, <1>n, <2>3, FixGateEffect DEF ReviewFix
    <2>4. CASE ReviewFixHandled
      BY <1>0, <1>n, <2>4, GateFixHandledEffect DEF ReviewFixHandled
    <2>5. CASE SkipSecurity
      BY <1>0, <1>n, <2>5, SkipSecurityEffect
    <2>6. CASE SecurityReview
      BY <1>0, <1>n, <2>6, SecurityReviewEffect
    <2>7. CASE SecurityFix
      BY <1>0, <1>n, <2>7, FixGateEffect DEF SecurityFix
    <2>8. CASE SecurityFixHandled
      BY <1>0, <1>n, <2>8, GateFixHandledEffect DEF SecurityFixHandled
    <2>9. CASE FastPath
      BY <1>0, <1>n, <2>9, FastPathEffect
    <2> QED
      BY <1>3, <2>1, <2>2, <2>3, <2>4, <2>5, <2>6, <2>7, <2>8, <2>9 DEF
         ReviewGates
  <1>4. CASE TestGate
    <2>1. CASE SkipTests
      BY <1>0, <1>n, <2>1, SkipTestsEffect
    <2>2. CASE BeginTestWriting
      BY <1>0, <1>n, <2>2, BeginTestWritingEffect
    <2>3. CASE TestWriter
      BY <1>0, <1>n, <2>3, TestWriterEffect
    <2>4. CASE RecordAuditFiles
      BY <1>0, <1>n, <2>4, RecordAuditFilesEffect
    <2>5. CASE RetryTestWriter
      BY <1>0, <1>n, <2>5, RetryTestWriterEffect
    <2>6. CASE FinishAudit
      BY <1>0, <1>n, <2>6, FinishAuditControl
    <2>7. CASE TestsDone
      BY <1>0, <1>n, <2>7, TestsDoneEffect
    <2>8. CASE RetestReview
      BY <1>0, <1>n, <2>8, RetestReviewEffect
    <2>9. CASE RetestReviewed
      BY <1>0, <1>n, <2>9, RetestReviewedEffect
    <2>10. CASE RetestSecurity
      BY <1>0, <1>n, <2>10, RetestSecurityEffect
    <2> QED
      BY <1>4, <2>1, <2>2, <2>3, <2>4, <2>5, <2>6, <2>7, <2>8, <2>9, <2>10 DEF
         TestGate
  <1>5. CASE Validate
    <2>1. CASE GatesDone
      BY <1>0, <1>n, <2>1, GatesDoneEffect
    <2>2. CASE BuildLoop
      BY <1>0, <1>n, <2>2, BuildLoopEffect
    <2>3. CASE LoopHead
      BY <1>0, <1>n, <2>3, LoopHeadEffect
    <2>4. CASE Sync
      BY <1>0, <1>n, <2>4, SyncEffect
    <2>5. CASE Build
      BY <1>0, <1>n, <2>5, BuildEffect
    <2>6. CASE Test
      BY <1>0, <1>n, <2>6, TestEffect
    <2>7. CASE Check
      BY <1>0, <1>n, <2>7, CheckEffect
    <2>8. CASE PostValidation
      BY <1>0, <1>n, <2>8, PostValidationEffect
    <2>9. CASE Accept
      BY <1>0, <1>n, <2>9, AcceptEffect
    <2>10. CASE Fixer
      BY <1>0, <1>n, <2>10, FixerEffect
    <2>11. CASE RetryFixer
      BY <1>0, <1>n, <2>11, RetryFixerEffect
    <2>12. CASE FixerHandled
      BY <1>0, <1>n, <2>12, FixerHandledEffect
    <2> QED
      BY <1>5, <2>1, <2>2, <2>3, <2>4, <2>5, <2>6, <2>7, <2>8, <2>9, <2>10,
         <2>11, <2>12 DEF Validate
  <1>6. CASE PlanSteps
    <2>1. CASE StepDone
      BY <1>0, <1>n, <2>1, StepDoneEffect
    <2>2. CASE AfterPlan
      BY <1>0, <1>n, <2>2, AfterPlanEffect
    <2>3. CASE FinalValidate
      BY <1>0, <1>n, <2>3, FinalValidateEffect
    <2> QED
      BY <1>6, <2>1, <2>2, <2>3 DEF PlanSteps
  <1> QED
    BY <1>1, <1>2, <1>3, <1>4, <1>5, <1>6 DEF Session

LEMMA OthersFixesDue ==
    ASSUME TypeOK, OpenSession, FixesAreDue, Invoke \/ Crash \/ ResetFailed
    PROVE  FixesAreDue'
  <1>n. mem.plan \in Nat /\ disk.plan \in Nat /\ SessionType /\ crashes \in Nat /\ resets \in Nat
    BY Numbers
  <1> USE DEF FixesAreDue, RetestPlaces
  <1>1. CASE Invoke
    BY <1>n, <1>1, InvokeEffect
  <1>2. CASE Crash
    BY <1>n, <1>2, CrashEffect
  <1>3. CASE ResetFailed
    BY <1>n, <1>3, ResetFailedEffect
  <1> QED
    BY <1>1, <1>2, <1>3

LEMMA SessionSecures ==
    ASSUME TypeOK, OpenSession, FlagsSaved, Placed, ReviewCurrent, FixesAreDue,
           SecurityCurrent, Session
    PROVE  SecurityCurrent'
  <1>0. UNCHANGED <<cfg, crashes, resets>>
    BY DEF Session
  <1>n. mem.plan \in Nat /\ disk.plan \in Nat /\ SessionType /\ crashes \in Nat /\ resets \in Nat
    BY Numbers
  <1> USE DEF Same, Control, Locally, LocalFields, Ghostly, GhostFields,
      SavesAt, GoesTo, EndsWith, FailsWith, Keeps, NoLocals, SecurityCurrent,
      FixesAreDue, Answerable, Uninterrupted, RetestPlaces, AfterSecurity,
      ReviewCurrent, AfterReview, Produced, Begun, FixPlaces, InStep,
      LoopOrEntry, PostGates, LoopPlaces, GatePlaces, Planning, EarlyPlaces,
      Placed, FlagsSaved, OpenSession, GateFields, FixFields, ReviewPassed,
      SecurityPassed, WriterBegins, TestsLeft, RetestsReview, RetestsSecurity,
      GatePassed, EntersFinal, OpenFields, StepFields, AuditFields, LoopFields,
      AllStale, SecurityStale, ReviewDue, SecurityDue, SemanticGatesPending,
      AlreadyImplemented, Owes, OwesSame, Cleared, OwesOnly, Gates
  <1>1. CASE Prepare
    <2>1. CASE CheckCoverage
      BY <1>0, <1>n, <2>1, CheckCoverageEffect
    <2>2. CASE RunPresync
      BY <1>0, <1>n, <2>2, RunPresyncEffect
    <2>3. CASE Analyze
      BY <1>0, <1>n, <2>3, AnalyzeEffect
    <2>4. CASE Plan
      BY <1>0, <1>n, <2>4, PlanEffect
    <2>5. CASE Dispatch
      BY <1>0, <1>n, <2>5, DispatchEffect
    <2> QED
      BY <1>1, <2>1, <2>2, <2>3, <2>4, <2>5 DEF Prepare
  <1>2. CASE ImplementStep
    <2>1. CASE SkipImplement
      BY <1>0, <1>n, <2>1, SkipImplementEffect
    <2>2. CASE Implement
      BY <1>0, <1>n, <2>2, ImplementEffect
    <2>3. CASE TaskImplemented
      BY <1>0, <1>n, <2>3, TaskImplementedEffect
    <2>4. CASE StepImplemented
      BY <1>0, <1>n, <2>4, StepImplementedEffect
    <2>5. CASE ResumeCheck
      BY <1>0, <1>n, <2>5, ResumeCheckEffect
    <2> QED
      BY <1>2, <2>1, <2>2, <2>3, <2>4, <2>5 DEF ImplementStep
  <1>3. CASE ReviewGates
    <2>1. CASE SkipReview
      BY <1>0, <1>n, <2>1, SkipReviewEffect
    <2>2. CASE Review
      BY <1>0, <1>n, <2>2, ReviewEffect
    <2>3. CASE ReviewFix
      BY <1>0, <1>n, <2>3, FixGateEffect DEF ReviewFix
    <2>4. CASE ReviewFixHandled
      BY <1>0, <1>n, <2>4, GateFixHandledEffect DEF ReviewFixHandled
    <2>5. CASE SkipSecurity
      BY <1>0, <1>n, <2>5, SkipSecurityEffect
    <2>6. CASE SecurityReview
      BY <1>0, <1>n, <2>6, SecurityReviewEffect
    <2>7. CASE SecurityFix
      BY <1>0, <1>n, <2>7, FixGateEffect DEF SecurityFix
    <2>8. CASE SecurityFixHandled
      BY <1>0, <1>n, <2>8, GateFixHandledEffect DEF SecurityFixHandled
    <2>9. CASE FastPath
      BY <1>0, <1>n, <2>9, FastPathEffect
    <2> QED
      BY <1>3, <2>1, <2>2, <2>3, <2>4, <2>5, <2>6, <2>7, <2>8, <2>9 DEF
         ReviewGates
  <1>4. CASE TestGate
    <2>1. CASE SkipTests
      BY <1>0, <1>n, <2>1, SkipTestsEffect
    <2>2. CASE BeginTestWriting
      BY <1>0, <1>n, <2>2, BeginTestWritingEffect
    <2>3. CASE TestWriter
      BY <1>0, <1>n, <2>3, TestWriterEffect
    <2>4. CASE RecordAuditFiles
      BY <1>0, <1>n, <2>4, RecordAuditFilesEffect
    <2>5. CASE RetryTestWriter
      BY <1>0, <1>n, <2>5, RetryTestWriterEffect
    <2>6. CASE FinishAudit
      BY <1>0, <1>n, <2>6, FinishAuditControl
    <2>7. CASE TestsDone
      BY <1>0, <1>n, <2>7, TestsDoneEffect
    <2>8. CASE RetestReview
      BY <1>0, <1>n, <2>8, RetestReviewEffect
    <2>9. CASE RetestReviewed
      BY <1>0, <1>n, <2>9, RetestReviewedEffect
    <2>10. CASE RetestSecurity
      BY <1>0, <1>n, <2>10, RetestSecurityEffect
    <2> QED
      BY <1>4, <2>1, <2>2, <2>3, <2>4, <2>5, <2>6, <2>7, <2>8, <2>9, <2>10 DEF
         TestGate
  <1>5. CASE Validate
    <2>1. CASE GatesDone
      BY <1>0, <1>n, <2>1, GatesDoneEffect
    <2>2. CASE BuildLoop
      BY <1>0, <1>n, <2>2, BuildLoopEffect
    <2>3. CASE LoopHead
      BY <1>0, <1>n, <2>3, LoopHeadEffect
    <2>4. CASE Sync
      BY <1>0, <1>n, <2>4, SyncEffect
    <2>5. CASE Build
      BY <1>0, <1>n, <2>5, BuildEffect
    <2>6. CASE Test
      BY <1>0, <1>n, <2>6, TestEffect
    <2>7. CASE Check
      BY <1>0, <1>n, <2>7, CheckEffect
    <2>8. CASE PostValidation
      BY <1>0, <1>n, <2>8, PostValidationEffect
    <2>9. CASE Accept
      BY <1>0, <1>n, <2>9, AcceptEffect
    <2>10. CASE Fixer
      BY <1>0, <1>n, <2>10, FixerEffect
    <2>11. CASE RetryFixer
      BY <1>0, <1>n, <2>11, RetryFixerEffect
    <2>12. CASE FixerHandled
      BY <1>0, <1>n, <2>12, FixerHandledEffect
    <2> QED
      BY <1>5, <2>1, <2>2, <2>3, <2>4, <2>5, <2>6, <2>7, <2>8, <2>9, <2>10,
         <2>11, <2>12 DEF Validate
  <1>6. CASE PlanSteps
    <2>1. CASE StepDone
      BY <1>0, <1>n, <2>1, StepDoneEffect
    <2>2. CASE AfterPlan
      BY <1>0, <1>n, <2>2, AfterPlanEffect
    <2>3. CASE FinalValidate
      BY <1>0, <1>n, <2>3, FinalValidateEffect
    <2> QED
      BY <1>6, <2>1, <2>2, <2>3 DEF PlanSteps
  <1> QED
    BY <1>1, <1>2, <1>3, <1>4, <1>5, <1>6 DEF Session

LEMMA OthersSecure ==
    ASSUME TypeOK, OpenSession, FlagsSaved, Placed, ReviewCurrent, FixesAreDue,
           SecurityCurrent, Invoke \/ Crash \/ ResetFailed
    PROVE  SecurityCurrent'
  <1>n. mem.plan \in Nat /\ disk.plan \in Nat /\ SessionType /\ crashes \in Nat /\ resets \in Nat
    BY Numbers
  <1> USE DEF Same, Control, Locally, LocalFields, Ghostly, GhostFields,
      SavesAt, GoesTo, EndsWith, FailsWith, Keeps, NoLocals, SecurityCurrent,
      FixesAreDue, Answerable, Uninterrupted, RetestPlaces, AfterSecurity,
      ReviewCurrent, AfterReview, Produced, Begun, FixPlaces, InStep,
      LoopOrEntry, PostGates, LoopPlaces, GatePlaces, Planning, EarlyPlaces,
      Placed, FlagsSaved, OpenSession, ResetFields, Left, Writing, LostOrigins,
      AlreadyImplemented, Owes, OwesSame, Cleared, OwesOnly, Gates
  <1>1. CASE Invoke
    BY <1>n, <1>1, InvokeEffect
  <1>2. CASE Crash
    BY <1>n, <1>2, CrashEffect
  <1>3. CASE ResetFailed
    BY <1>n, <1>3, ResetFailedEffect
  <1> QED
    BY <1>1, <1>2, <1>3
-----------------------------------------------------------------------------
(* The loop's validation: from a passed attempt on, the tree is validated  *)
(* and free of execution gates unless the gates reopened after it changed  *)
(* something, which sends the loop back.                                   *)
TestPlaces == {"test_writer", "test_written", "test_audit"}
AuditOver == {"tests_done", "gates_done"} \cup RetestPlaces
Iterated == \/ mem.review_iterations > loc.review_before
            \/ mem.security_review_iterations > loc.security_before
Changing ==
    \/ Iterated
    \/ pc \in TestPlaces /\ loc.kept # {}
    \/ pc \in AuditOver /\ loc.tests_changed

(* An execution gate in the tree is recorded, in memory and on disk.       *)
GatesRecorded ==
    /\ work.gated => mem.test_execution_gate_records /\ disk.test_execution_gate_records
    /\ disk.done => ~work.gated

PostValidated ==
    /\ pc \in {"sync", "build", "test", "check", "post", "accept"} => ~work.gated
    /\ pc \in {"post", "accept"} => Validated
    /\ PostGates => Changing \/ (Validated /\ ~work.gated)
    /\ PostGates /\ pc \in FixPlaces => Iterated
    /\ PostGates /\ pc \notin {"gates_done"} \cup RetestPlaces =>
         /\ loc.security_before <= mem.security_review_iterations
         /\ \/ loc.security_before < mem.security_review_iterations
            \/ loc.review_before <= mem.review_iterations
    /\ pc \in RetestPlaces => loc.tests_changed
    /\ loc.kept # {} => loc.retry

LEMMA SessionRecordsGates ==
    ASSUME TypeOK, OpenSession, PostValidated, GatesRecorded, Session
    PROVE  GatesRecorded'
  <1>0. UNCHANGED <<cfg, crashes, resets>>
    BY DEF Session
  <1>n. /\ SessionType
        /\ mem.review_iterations \in Nat /\ mem.security_review_iterations \in Nat
        /\ loc.review_before \in Nat /\ loc.security_before \in Nat
    BY Numbers
  <1> USE DEF Same, Control, Locally, LocalFields, Ghostly, GhostFields,
      SavesAt, GoesTo, EndsWith, FailsWith, Keeps, NoLocals, GatesRecorded,
      PostValidated, Validated, OpenSession, GateFields, FixFields,
      ReviewPassed, SecurityPassed, WriterBegins, TestsLeft, RetestsReview,
      RetestsSecurity, GatePassed, EntersFinal, OpenFields, StepFields,
      AuditFields, LoopFields, AllStale, SecurityStale, Recorded, GatesActive,
      GateFixed, Owes, OwesSame, Cleared, OwesOnly, Gates
  <1>1. CASE Prepare
    <2>1. CASE CheckCoverage
      BY <1>0, <1>n, <2>1, CheckCoverageEffect
    <2>2. CASE RunPresync
      BY <1>0, <1>n, <2>2, RunPresyncEffect
    <2>3. CASE Analyze
      BY <1>0, <1>n, <2>3, AnalyzeEffect
    <2>4. CASE Plan
      BY <1>0, <1>n, <2>4, PlanEffect
    <2>5. CASE Dispatch
      BY <1>0, <1>n, <2>5, DispatchEffect
    <2> QED
      BY <1>1, <2>1, <2>2, <2>3, <2>4, <2>5 DEF Prepare
  <1>2. CASE ImplementStep
    <2>1. CASE SkipImplement
      BY <1>0, <1>n, <2>1, SkipImplementEffect
    <2>2. CASE Implement
      BY <1>0, <1>n, <2>2, ImplementEffect
    <2>3. CASE TaskImplemented
      BY <1>0, <1>n, <2>3, TaskImplementedEffect
    <2>4. CASE StepImplemented
      BY <1>0, <1>n, <2>4, StepImplementedEffect
    <2>5. CASE ResumeCheck
      BY <1>0, <1>n, <2>5, ResumeCheckEffect
    <2> QED
      BY <1>2, <2>1, <2>2, <2>3, <2>4, <2>5 DEF ImplementStep
  <1>3. CASE ReviewGates
    <2>1. CASE SkipReview
      BY <1>0, <1>n, <2>1, SkipReviewEffect
    <2>2. CASE Review
      BY <1>0, <1>n, <2>2, ReviewEffect
    <2>3. CASE ReviewFix
      BY <1>0, <1>n, <2>3, FixGateEffect DEF ReviewFix
    <2>4. CASE ReviewFixHandled
      BY <1>0, <1>n, <2>4, GateFixHandledEffect DEF ReviewFixHandled
    <2>5. CASE SkipSecurity
      BY <1>0, <1>n, <2>5, SkipSecurityEffect
    <2>6. CASE SecurityReview
      BY <1>0, <1>n, <2>6, SecurityReviewEffect
    <2>7. CASE SecurityFix
      BY <1>0, <1>n, <2>7, FixGateEffect DEF SecurityFix
    <2>8. CASE SecurityFixHandled
      BY <1>0, <1>n, <2>8, GateFixHandledEffect DEF SecurityFixHandled
    <2>9. CASE FastPath
      BY <1>0, <1>n, <2>9, FastPathEffect
    <2> QED
      BY <1>3, <2>1, <2>2, <2>3, <2>4, <2>5, <2>6, <2>7, <2>8, <2>9 DEF
         ReviewGates
  <1>4. CASE TestGate
    <2>1. CASE SkipTests
      BY <1>0, <1>n, <2>1, SkipTestsEffect
    <2>2. CASE BeginTestWriting
      BY <1>0, <1>n, <2>2, BeginTestWritingEffect
    <2>3. CASE TestWriter
      BY <1>0, <1>n, <2>3, TestWriterEffect
    <2>4. CASE RecordAuditFiles
      BY <1>0, <1>n, <2>4, RecordAuditFilesEffect
    <2>5. CASE RetryTestWriter
      BY <1>0, <1>n, <2>5, RetryTestWriterEffect
    <2>6. CASE FinishAudit
      BY <1>0, <1>n, <2>6, FinishAuditEffect
    <2>7. CASE TestsDone
      BY <1>0, <1>n, <2>7, TestsDoneEffect
    <2>8. CASE RetestReview
      BY <1>0, <1>n, <2>8, RetestReviewEffect
    <2>9. CASE RetestReviewed
      BY <1>0, <1>n, <2>9, RetestReviewedEffect
    <2>10. CASE RetestSecurity
      BY <1>0, <1>n, <2>10, RetestSecurityEffect
    <2> QED
      BY <1>4, <2>1, <2>2, <2>3, <2>4, <2>5, <2>6, <2>7, <2>8, <2>9, <2>10 DEF
         TestGate
  <1>5. CASE Validate
    <2>1. CASE GatesDone
      BY <1>0, <1>n, <2>1, GatesDoneEffect
    <2>2. CASE BuildLoop
      BY <1>0, <1>n, <2>2, BuildLoopEffect
    <2>3. CASE LoopHead
      BY <1>0, <1>n, <2>3, LoopHeadEffect
    <2>4. CASE Sync
      BY <1>0, <1>n, <2>4, SyncEffect
    <2>5. CASE Build
      BY <1>0, <1>n, <2>5, BuildEffect
    <2>6. CASE Test
      BY <1>0, <1>n, <2>6, TestEffect
    <2>7. CASE Check
      BY <1>0, <1>n, <2>7, CheckEffect
    <2>8. CASE PostValidation
      BY <1>0, <1>n, <2>8, PostValidationEffect
    <2>9. CASE Accept
      BY <1>0, <1>n, <2>9, AcceptEffect
    <2>10. CASE Fixer
      BY <1>0, <1>n, <2>10, FixerEffect
    <2>11. CASE RetryFixer
      BY <1>0, <1>n, <2>11, RetryFixerEffect
    <2>12. CASE FixerHandled
      BY <1>0, <1>n, <2>12, FixerHandledEffect
    <2> QED
      BY <1>5, <2>1, <2>2, <2>3, <2>4, <2>5, <2>6, <2>7, <2>8, <2>9, <2>10,
         <2>11, <2>12 DEF Validate
  <1>6. CASE PlanSteps
    <2>1. CASE StepDone
      BY <1>0, <1>n, <2>1, StepDoneEffect
    <2>2. CASE AfterPlan
      BY <1>0, <1>n, <2>2, AfterPlanEffect
    <2>3. CASE FinalValidate
      BY <1>0, <1>n, <2>3, FinalValidateEffect
    <2> QED
      BY <1>6, <2>1, <2>2, <2>3 DEF PlanSteps
  <1> QED
    BY <1>1, <1>2, <1>3, <1>4, <1>5, <1>6 DEF Session

LEMMA OthersRecordGates ==
    ASSUME TypeOK, OpenSession, GatesRecorded, Invoke \/ Crash \/ ResetFailed
    PROVE  GatesRecorded'
  <1>n. /\ SessionType
        /\ mem.review_iterations \in Nat /\ mem.security_review_iterations \in Nat
        /\ loc.review_before \in Nat /\ loc.security_before \in Nat
    BY Numbers
  <1> USE DEF GatesRecorded, OpenSession, ResetFields, Same, Control, Locally,
      LocalFields, Ghostly, GhostFields, SavesAt, GoesTo, EndsWith, FailsWith,
      Keeps, NoLocals
  <1>1. CASE Invoke
    BY <1>n, <1>1, InvokeEffect
  <1>2. CASE Crash
    BY <1>n, <1>2, CrashEffect
  <1>3. CASE ResetFailed
    BY <1>n, <1>3, ResetFailedEffect
  <1> QED
    BY <1>1, <1>2, <1>3

LEMMA SessionPostValidates ==
    ASSUME TypeOK, OpenSession, Placed, FixesAreDue, GatesRecorded,
           PostValidated, Session
    PROVE  PostValidated'
  <1>0. UNCHANGED <<cfg, crashes, resets>>
    BY DEF Session
  <1>n. /\ SessionType
        /\ mem.review_iterations \in Nat /\ mem.security_review_iterations \in Nat
        /\ loc.review_before \in Nat /\ loc.security_before \in Nat
    BY Numbers
  <1> USE DEF Same, Control, Locally, LocalFields, Ghostly, GhostFields,
      SavesAt, GoesTo, EndsWith, FailsWith, Keeps, NoLocals, PostValidated,
      GatesRecorded, Validated, Changing, Iterated, AuditOver, TestPlaces,
      RetestPlaces, FixPlaces, FixesAreDue, PostGates, LoopPlaces, GatePlaces,
      OpenSession, GateFields, FixFields, ReviewPassed, SecurityPassed,
      WriterBegins, TestsLeft, RetestsReview, RetestsSecurity, GatePassed,
      EntersFinal, OpenFields, StepFields, AuditFields, LoopFields, AllStale,
      SecurityStale, Recorded, GatesActive, GateFixed, Owes, OwesSame, Cleared,
      OwesOnly, Gates
  <1>1. CASE Prepare
    <2>1. CASE CheckCoverage
      BY <1>0, <1>n, <2>1, CheckCoverageEffect
    <2>2. CASE RunPresync
      BY <1>0, <1>n, <2>2, RunPresyncEffect
    <2>3. CASE Analyze
      BY <1>0, <1>n, <2>3, AnalyzeEffect
    <2>4. CASE Plan
      BY <1>0, <1>n, <2>4, PlanEffect
    <2>5. CASE Dispatch
      BY <1>0, <1>n, <2>5, DispatchEffect
    <2> QED
      BY <1>1, <2>1, <2>2, <2>3, <2>4, <2>5 DEF Prepare
  <1>2. CASE ImplementStep
    <2>1. CASE SkipImplement
      BY <1>0, <1>n, <2>1, SkipImplementEffect
    <2>2. CASE Implement
      BY <1>0, <1>n, <2>2, ImplementEffect
    <2>3. CASE TaskImplemented
      BY <1>0, <1>n, <2>3, TaskImplementedEffect
    <2>4. CASE StepImplemented
      BY <1>0, <1>n, <2>4, StepImplementedEffect
    <2>5. CASE ResumeCheck
      <3>1. loc.ctx # "post" /\ UNCHANGED <<mem, disk, loc, work>>
            /\ pc' \in {"build_loop", "review"}
        BY <1>n, <2>5, ResumeCheckEffect DEF Placed
      <3> QED
        BY <1>0, <1>n, <3>1
    <2> QED
      BY <1>2, <2>1, <2>2, <2>3, <2>4, <2>5 DEF ImplementStep
  <1>3. CASE ReviewGates
    <2>1. CASE SkipReview
      BY <1>0, <1>n, <2>1, SkipReviewEffect
    <2>2. CASE Review
      BY <1>0, <1>n, <2>2, ReviewEffect
    <2>3. CASE ReviewFix
      BY <1>0, <1>n, <2>3, FixGateEffect DEF ReviewFix
    <2>4. CASE ReviewFixHandled
      BY <1>0, <1>n, <2>4, GateFixHandledEffect DEF ReviewFixHandled
    <2>5. CASE SkipSecurity
      BY <1>0, <1>n, <2>5, SkipSecurityEffect
    <2>6. CASE SecurityReview
      BY <1>0, <1>n, <2>6, SecurityReviewEffect
    <2>7. CASE SecurityFix
      BY <1>0, <1>n, <2>7, FixGateEffect DEF SecurityFix
    <2>8. CASE SecurityFixHandled
      BY <1>0, <1>n, <2>8, GateFixHandledEffect DEF SecurityFixHandled
    <2>9. CASE FastPath
      BY <1>0, <1>n, <2>9, FastPathEffect
    <2> QED
      BY <1>3, <2>1, <2>2, <2>3, <2>4, <2>5, <2>6, <2>7, <2>8, <2>9 DEF
         ReviewGates
  <1>4. CASE TestGate
    <2>1. CASE SkipTests
      <3>1. CASE FailsWith({})
        BY <1>0, <1>n, <2>1, <3>1, SkipTestsEffect
      <3>2. CASE /\ pc = "tests" /\ pc' = "tests_done" /\ UNCHANGED <<mem, disk, work>>
                 /\ Locally({"tests_changed"}) /\ loc'.tests_changed = FALSE
        <4>1. Iterated' <=> Iterated
          BY <3>2
        <4> HIDE DEF Iterated
        <4> QED
          BY <1>0, <1>n, <3>2, <4>1
      <3> QED
        BY <1>n, <2>1, <3>1, <3>2, SkipTestsEffect
    <2>2. CASE BeginTestWriting
      BY <1>0, <1>n, <2>2, BeginTestWritingEffect
    <2>3. CASE TestWriter
      BY <1>0, <1>n, <2>3, TestWriterEffect
    <2>4. CASE RecordAuditFiles
      BY <1>0, <1>n, <2>4, RecordAuditFilesEffect
    <2>5. CASE RetryTestWriter
      BY <1>0, <1>n, <2>5, RetryTestWriterEffect
    <2>6. CASE FinishAudit
      <3>1. PICK remaining \in SUBSET Writes :
               /\ TestsLeft(remaining)
               /\ \/ FailsWith(AuditFields)
                  \/ /\ pc' = "tests_done" /\ Same(mem', mem, AuditFields)
                     /\ Locally({"wrote", "kept", "retry", "tests_changed"})
                     /\ loc'.wrote = {} /\ loc'.kept = {} /\ loc'.retry = FALSE
                     /\ loc'.tests_changed <=> remaining # {} \/ loc.kept # {}
        BY <1>n, <2>6, FinishAuditEffect
      <3>2. CASE FailsWith(AuditFields)
        BY <1>n, <3>2
      <3>3. CASE /\ pc' = "tests_done" /\ Same(mem', mem, AuditFields)
                 /\ Locally({"wrote", "kept", "retry", "tests_changed"})
                 /\ loc'.kept = {}
                 /\ loc'.tests_changed <=> remaining # {} \/ loc.kept # {}
        <4>1. Iterated' <=> Iterated
          BY <3>3
        <4>2. remaining = {} => (Validated' <=> Validated) /\ work'.gated = work.gated
          BY <3>1
        <4>3. pc = "test_audit" /\ loc'.ctx = loc.ctx
              /\ mem'.review_iterations = mem.review_iterations
              /\ mem'.security_review_iterations = mem.security_review_iterations
              /\ loc'.review_before = loc.review_before
              /\ loc'.security_before = loc.security_before
          BY <1>n, <2>6, <3>3, FinishAuditEffect
        <4> HIDE DEF Iterated, Validated, Same, Locally, TestsLeft
        <4> QED
          BY <1>0, <1>n, <3>3, <4>1, <4>2, <4>3
      <3> QED
        BY <3>1, <3>2, <3>3
    <2>7. CASE TestsDone
      BY <1>0, <1>n, <2>7, TestsDoneEffect
    <2>8. CASE RetestReview
      BY <1>0, <1>n, <2>8, RetestReviewEffect
    <2>9. CASE RetestReviewed
      BY <1>0, <1>n, <2>9, RetestReviewedEffect
    <2>10. CASE RetestSecurity
      BY <1>0, <1>n, <2>10, RetestSecurityEffect
    <2> QED
      BY <1>4, <2>1, <2>2, <2>3, <2>4, <2>5, <2>6, <2>7, <2>8, <2>9, <2>10 DEF
         TestGate
  <1>5. CASE Validate
    <2>1. CASE GatesDone
      BY <1>0, <1>n, <2>1, GatesDoneEffect
    <2>2. CASE BuildLoop
      BY <1>0, <1>n, <2>2, BuildLoopEffect
    <2>3. CASE LoopHead
      BY <1>0, <1>n, <2>3, LoopHeadEffect
    <2>4. CASE Sync
      BY <1>0, <1>n, <2>4, SyncEffect
    <2>5. CASE Build
      BY <1>0, <1>n, <2>5, BuildEffect
    <2>6. CASE Test
      BY <1>0, <1>n, <2>6, TestEffect
    <2>7. CASE Check
      BY <1>0, <1>n, <2>7, CheckEffect
    <2>8. CASE PostValidation
      BY <1>0, <1>n, <2>8, PostValidationEffect
    <2>9. CASE Accept
      BY <1>0, <1>n, <2>9, AcceptEffect
    <2>10. CASE Fixer
      BY <1>0, <1>n, <2>10, FixerEffect
    <2>11. CASE RetryFixer
      BY <1>0, <1>n, <2>11, RetryFixerEffect
    <2>12. CASE FixerHandled
      BY <1>0, <1>n, <2>12, FixerHandledEffect
    <2> QED
      BY <1>5, <2>1, <2>2, <2>3, <2>4, <2>5, <2>6, <2>7, <2>8, <2>9, <2>10,
         <2>11, <2>12 DEF Validate
  <1>6. CASE PlanSteps
    <2>1. CASE StepDone
      BY <1>0, <1>n, <2>1, StepDoneEffect
    <2>2. CASE AfterPlan
      BY <1>0, <1>n, <2>2, AfterPlanEffect
    <2>3. CASE FinalValidate
      BY <1>0, <1>n, <2>3, FinalValidateEffect
    <2> QED
      BY <1>6, <2>1, <2>2, <2>3 DEF PlanSteps
  <1> QED
    BY <1>1, <1>2, <1>3, <1>4, <1>5, <1>6 DEF Session

LEMMA OthersPostValidate ==
    ASSUME TypeOK, OpenSession, PostValidated, Invoke \/ Crash \/ ResetFailed
    PROVE  PostValidated'
  <1>n. /\ SessionType
        /\ mem.review_iterations \in Nat /\ mem.security_review_iterations \in Nat
        /\ loc.review_before \in Nat /\ loc.security_before \in Nat
    BY Numbers
  <1> USE DEF Same, Control, Locally, LocalFields, Ghostly, GhostFields,
      SavesAt, GoesTo, EndsWith, FailsWith, Keeps, NoLocals, PostValidated,
      GatesRecorded, Validated, Changing, Iterated, AuditOver, TestPlaces,
      RetestPlaces, FixPlaces, FixesAreDue, PostGates, LoopPlaces, GatePlaces,
      OpenSession, ResetFields, Owes, OwesSame, Cleared, OwesOnly, Gates
  <1>1. CASE Invoke
    BY <1>n, <1>1, InvokeEffect
  <1>2. CASE Crash
    BY <1>n, <1>2, CrashEffect
  <1>3. CASE ResetFailed
    BY <1>n, <1>3, ResetFailedEffect
  <1> QED
    BY <1>1, <1>2, <1>3
-----------------------------------------------------------------------------
(* A review-fix task that nobody wrote for yet: the branch is as validated *)
(* and as tested as it was, so that it may be done without a build.        *)
FirstPlaces == {"idle", "start", "presync", "analyze", "plan", "dispatch", "implement",
    "resume_check", "review", "review_fix", "review_fixed", "security", "security_fix",
    "security_fixed", "fast_path"}

Scoped ==
    /\ mem.plan = 0 => /\ mem.build_loop_key \in {NoKey, <<"task", 0>>}
                       /\ disk.build_loop_key \in {NoKey, <<"task", 0>>}
    /\ cfg.review_fix => mem.files_changed /\ disk.files_changed /\ pc # "implemented"
    /\ cfg.review_fix /\ cfg.run_build /\ pc \in GatePlaces /\ loc.ctx = "task"
         => mem.build_loop_key = NoKey

Fresh ==
    /\ cfg.review_fix /\ Uninterrupted /\ ~disk.failed /\ ~disk.done
    /\ ~loc.code_changed /\ pc \in FirstPlaces

FirstLook ==
    Fresh /\ (cfg.run_build => mem.build_loop_key = NoKey) =>
      /\ work.stale["tests"] = {}
      /\ cfg.run_build =>
           \/ work.stale["validation"] = {}
           \/ pc \in {"review_fixed", "security_fixed"} /\ loc.wrote # {}

LEMMA SessionScoped ==
    ASSUME TypeOK, OpenSession, Placed, Scoped, Session
    PROVE  Scoped'
  <1>0. UNCHANGED <<cfg, crashes, resets>>
    BY DEF Session
  <1>n. /\ SessionType /\ mem.plan \in Nat /\ crashes \in Nat /\ resets \in Nat
        /\ cfg.review_fix => ~cfg.run_planner
    BY Numbers, ConfigsAssumption DEF TypeOK
  <1> USE DEF Same, Control, Locally, LocalFields, Ghostly, GhostFields,
      SavesAt, GoesTo, EndsWith, FailsWith, Keeps, NoLocals, Scoped,
      OpenSession, Placed, InStep, GatePlaces, GateFields, FixFields,
      ReviewPassed, SecurityPassed, WriterBegins, TestsLeft, RetestsReview,
      RetestsSecurity, GatePassed, EntersFinal, OpenFields, StepFields,
      AuditFields, LoopFields, AllStale, SecurityStale, AlreadyImplemented
  <1>1. CASE Prepare
    <2>1. CASE CheckCoverage
      BY <1>0, <1>n, <2>1, CheckCoverageEffect
    <2>2. CASE RunPresync
      BY <1>0, <1>n, <2>2, RunPresyncEffect
    <2>3. CASE Analyze
      BY <1>0, <1>n, <2>3, AnalyzeEffect
    <2>4. CASE Plan
      BY <1>0, <1>n, <2>4, PlanEffect
    <2>5. CASE Dispatch
      BY <1>0, <1>n, <2>5, DispatchEffect
    <2> QED
      BY <1>1, <2>1, <2>2, <2>3, <2>4, <2>5 DEF Prepare
  <1>2. CASE ImplementStep
    <2>1. CASE SkipImplement
      BY <1>0, <1>n, <2>1, SkipImplementEffect
    <2>2. CASE Implement
      BY <1>0, <1>n, <2>2, ImplementEffect
    <2>3. CASE TaskImplemented
      BY <1>0, <1>n, <2>3, TaskImplementedEffect
    <2>4. CASE StepImplemented
      BY <1>0, <1>n, <2>4, StepImplementedEffect
    <2>5. CASE ResumeCheck
      <3>1. mem.plan = 0 => BuildLoopKey(mem) = <<"task", 0>>
        BY <1>n DEF Placed, BuildLoopKey
      <3> QED
        BY <1>0, <1>n, <2>5, <3>1, ResumeCheckEffect DEF Placed, BuildLoopActiveForCurrentScope
    <2> QED
      BY <1>2, <2>1, <2>2, <2>3, <2>4, <2>5 DEF ImplementStep
  <1>3. CASE ReviewGates
    <2>1. CASE SkipReview
      BY <1>0, <1>n, <2>1, SkipReviewEffect
    <2>2. CASE Review
      BY <1>0, <1>n, <2>2, ReviewEffect
    <2>3. CASE ReviewFix
      BY <1>0, <1>n, <2>3, FixGateEffect DEF ReviewFix
    <2>4. CASE ReviewFixHandled
      BY <1>0, <1>n, <2>4, GateFixHandledEffect DEF ReviewFixHandled
    <2>5. CASE SkipSecurity
      BY <1>0, <1>n, <2>5, SkipSecurityEffect
    <2>6. CASE SecurityReview
      BY <1>0, <1>n, <2>6, SecurityReviewEffect
    <2>7. CASE SecurityFix
      BY <1>0, <1>n, <2>7, FixGateEffect DEF SecurityFix
    <2>8. CASE SecurityFixHandled
      BY <1>0, <1>n, <2>8, GateFixHandledEffect DEF SecurityFixHandled
    <2>9. CASE FastPath
      BY <1>0, <1>n, <2>9, FastPathEffect
    <2> QED
      BY <1>3, <2>1, <2>2, <2>3, <2>4, <2>5, <2>6, <2>7, <2>8, <2>9 DEF
         ReviewGates
  <1>4. CASE TestGate
    <2>1. CASE SkipTests
      BY <1>0, <1>n, <2>1, SkipTestsEffect
    <2>2. CASE BeginTestWriting
      BY <1>0, <1>n, <2>2, BeginTestWritingEffect
    <2>3. CASE TestWriter
      BY <1>0, <1>n, <2>3, TestWriterEffect
    <2>4. CASE RecordAuditFiles
      BY <1>0, <1>n, <2>4, RecordAuditFilesEffect
    <2>5. CASE RetryTestWriter
      BY <1>0, <1>n, <2>5, RetryTestWriterEffect
    <2>6. CASE FinishAudit
      BY <1>0, <1>n, <2>6, FinishAuditControl
    <2>7. CASE TestsDone
      BY <1>0, <1>n, <2>7, TestsDoneEffect
    <2>8. CASE RetestReview
      BY <1>0, <1>n, <2>8, RetestReviewEffect
    <2>9. CASE RetestReviewed
      BY <1>0, <1>n, <2>9, RetestReviewedEffect
    <2>10. CASE RetestSecurity
      BY <1>0, <1>n, <2>10, RetestSecurityEffect
    <2> QED
      BY <1>4, <2>1, <2>2, <2>3, <2>4, <2>5, <2>6, <2>7, <2>8, <2>9, <2>10 DEF
         TestGate
  <1>5. CASE Validate
    <2>1. CASE GatesDone
      BY <1>0, <1>n, <2>1, GatesDoneEffect
    <2>2. CASE BuildLoop
      <3>1. mem.plan = 0 => BuildLoopKey(mem) = <<"task", 0>>
        BY <1>n DEF Placed, BuildLoopKey
      <3> QED
        BY <1>0, <1>n, <2>2, <3>1, BuildLoopEffect
    <2>3. CASE LoopHead
      BY <1>0, <1>n, <2>3, LoopHeadEffect
    <2>4. CASE Sync
      BY <1>0, <1>n, <2>4, SyncEffect
    <2>5. CASE Build
      BY <1>0, <1>n, <2>5, BuildEffect
    <2>6. CASE Test
      BY <1>0, <1>n, <2>6, TestEffect
    <2>7. CASE Check
      BY <1>0, <1>n, <2>7, CheckEffect
    <2>8. CASE PostValidation
      BY <1>0, <1>n, <2>8, PostValidationEffect
    <2>9. CASE Accept
      BY <1>0, <1>n, <2>9, AcceptEffect
    <2>10. CASE Fixer
      BY <1>0, <1>n, <2>10, FixerEffect
    <2>11. CASE RetryFixer
      BY <1>0, <1>n, <2>11, RetryFixerEffect
    <2>12. CASE FixerHandled
      BY <1>0, <1>n, <2>12, FixerHandledEffect
    <2> QED
      BY <1>5, <2>1, <2>2, <2>3, <2>4, <2>5, <2>6, <2>7, <2>8, <2>9, <2>10,
         <2>11, <2>12 DEF Validate
  <1>6. CASE PlanSteps
    <2>1. CASE StepDone
      BY <1>0, <1>n, <2>1, StepDoneEffect
    <2>2. CASE AfterPlan
      BY <1>0, <1>n, <2>2, AfterPlanEffect
    <2>3. CASE FinalValidate
      BY <1>0, <1>n, <2>3, FinalValidateEffect
    <2> QED
      BY <1>6, <2>1, <2>2, <2>3 DEF PlanSteps
  <1> QED
    BY <1>1, <1>2, <1>3, <1>4, <1>5, <1>6 DEF Session

LEMMA OthersScoped ==
    ASSUME TypeOK, OpenSession, FlagsSaved, Placed, FixesCounted, Scoped,
           Invoke \/ Crash \/ ResetFailed
    PROVE  Scoped'
  <1>n. /\ SessionType /\ mem.plan \in Nat /\ crashes \in Nat /\ resets \in Nat
        /\ cfg.review_fix => ~cfg.run_planner
    BY Numbers, ConfigsAssumption DEF TypeOK
  <1> USE DEF Scoped, FlagsSaved, OpenSession, GatePlaces, ResetFields, Same,
      Control, Locally, LocalFields, Ghostly, GhostFields, SavesAt, GoesTo,
      EndsWith, FailsWith, Keeps, NoLocals
  <1>1. CASE Invoke
    BY <1>n, <1>1, InvokeEffect
  <1>2. CASE Crash
    BY <1>n, <1>2, CrashEffect
  <1>3. CASE ResetFailed
    BY <1>n, <1>3, ResetFailedEffect
  <1> QED
    BY <1>1, <1>2, <1>3

LEMMA SessionLooksFirst ==
    ASSUME TypeOK, OpenSession, Placed, FixesCounted, Scoped, FirstLook,
           Session
    PROVE  FirstLook'
  <1>0. UNCHANGED <<cfg, crashes, resets>>
    BY DEF Session
  <1>n. /\ SessionType /\ mem.plan \in Nat /\ crashes \in Nat /\ resets \in Nat
        /\ cfg.review_fix => ~cfg.run_planner
    BY Numbers, ConfigsAssumption DEF TypeOK
  <1> USE DEF Same, Control, Locally, LocalFields, Ghostly, GhostFields,
      SavesAt, GoesTo, EndsWith, FailsWith, Keeps, NoLocals, Scoped,
      FixesCounted, FirstLook, Fresh, FirstPlaces, Uninterrupted, FixPlaces,
      Placed, InStep, LoopOrEntry, PostGates, LoopPlaces, GatePlaces,
      OpenSession, GateFields, FixFields, ReviewPassed, SecurityPassed,
      WriterBegins, TestsLeft, RetestsReview, RetestsSecurity, GatePassed,
      EntersFinal, OpenFields, StepFields, AuditFields, LoopFields, AllStale,
      SecurityStale, AlreadyImplemented, Owes, OwesSame, Cleared, OwesOnly,
      Gates
  <1>1. CASE Prepare
    <2>1. CASE CheckCoverage
      BY <1>0, <1>n, <2>1, CheckCoverageEffect
    <2>2. CASE RunPresync
      BY <1>0, <1>n, <2>2, RunPresyncEffect
    <2>3. CASE Analyze
      BY <1>0, <1>n, <2>3, AnalyzeEffect
    <2>4. CASE Plan
      BY <1>0, <1>n, <2>4, PlanEffect
    <2>5. CASE Dispatch
      BY <1>0, <1>n, <2>5, DispatchEffect
    <2> QED
      BY <1>1, <2>1, <2>2, <2>3, <2>4, <2>5 DEF Prepare
  <1>2. CASE ImplementStep
    <2>1. CASE SkipImplement
      BY <1>0, <1>n, <2>1, SkipImplementEffect
    <2>2. CASE Implement
      BY <1>0, <1>n, <2>2, ImplementEffect
    <2>3. CASE TaskImplemented
      BY <1>0, <1>n, <2>3, TaskImplementedEffect
    <2>4. CASE StepImplemented
      BY <1>0, <1>n, <2>4, StepImplementedEffect
    <2>5. CASE ResumeCheck
      BY <1>0, <1>n, <2>5, ResumeCheckEffect
    <2> QED
      BY <1>2, <2>1, <2>2, <2>3, <2>4, <2>5 DEF ImplementStep
  <1>3. CASE ReviewGates
    <2>1. CASE SkipReview
      BY <1>0, <1>n, <2>1, SkipReviewEffect
    <2>2. CASE Review
      BY <1>0, <1>n, <2>2, ReviewEffect
    <2>3. CASE ReviewFix
      BY <1>0, <1>n, <2>3, FixGateEffect DEF ReviewFix
    <2>4. CASE ReviewFixHandled
      BY <1>0, <1>n, <2>4, GateFixHandledEffect DEF ReviewFixHandled
    <2>5. CASE SkipSecurity
      BY <1>0, <1>n, <2>5, SkipSecurityEffect
    <2>6. CASE SecurityReview
      BY <1>0, <1>n, <2>6, SecurityReviewEffect
    <2>7. CASE SecurityFix
      BY <1>0, <1>n, <2>7, FixGateEffect DEF SecurityFix
    <2>8. CASE SecurityFixHandled
      BY <1>0, <1>n, <2>8, GateFixHandledEffect DEF SecurityFixHandled
    <2>9. CASE FastPath
      BY <1>0, <1>n, <2>9, FastPathEffect
    <2> QED
      BY <1>3, <2>1, <2>2, <2>3, <2>4, <2>5, <2>6, <2>7, <2>8, <2>9 DEF
         ReviewGates
  <1>4. CASE TestGate
    <2>1. CASE SkipTests
      BY <1>0, <1>n, <2>1, SkipTestsEffect
    <2>2. CASE BeginTestWriting
      BY <1>0, <1>n, <2>2, BeginTestWritingEffect
    <2>3. CASE TestWriter
      BY <1>0, <1>n, <2>3, TestWriterEffect
    <2>4. CASE RecordAuditFiles
      BY <1>0, <1>n, <2>4, RecordAuditFilesEffect
    <2>5. CASE RetryTestWriter
      BY <1>0, <1>n, <2>5, RetryTestWriterEffect
    <2>6. CASE FinishAudit
      BY <1>0, <1>n, <2>6, FinishAuditControl
    <2>7. CASE TestsDone
      BY <1>0, <1>n, <2>7, TestsDoneEffect
    <2>8. CASE RetestReview
      BY <1>0, <1>n, <2>8, RetestReviewEffect
    <2>9. CASE RetestReviewed
      BY <1>0, <1>n, <2>9, RetestReviewedEffect
    <2>10. CASE RetestSecurity
      BY <1>0, <1>n, <2>10, RetestSecurityEffect
    <2> QED
      BY <1>4, <2>1, <2>2, <2>3, <2>4, <2>5, <2>6, <2>7, <2>8, <2>9, <2>10 DEF
         TestGate
  <1>5. CASE Validate
    <2>1. CASE GatesDone
      BY <1>0, <1>n, <2>1, GatesDoneEffect
    <2>2. CASE BuildLoop
      BY <1>0, <1>n, <2>2, BuildLoopEffect
    <2>3. CASE LoopHead
      BY <1>0, <1>n, <2>3, LoopHeadEffect
    <2>4. CASE Sync
      BY <1>0, <1>n, <2>4, SyncEffect
    <2>5. CASE Build
      BY <1>0, <1>n, <2>5, BuildEffect
    <2>6. CASE Test
      BY <1>0, <1>n, <2>6, TestEffect
    <2>7. CASE Check
      BY <1>0, <1>n, <2>7, CheckEffect
    <2>8. CASE PostValidation
      BY <1>0, <1>n, <2>8, PostValidationEffect
    <2>9. CASE Accept
      BY <1>0, <1>n, <2>9, AcceptEffect
    <2>10. CASE Fixer
      BY <1>0, <1>n, <2>10, FixerEffect
    <2>11. CASE RetryFixer
      BY <1>0, <1>n, <2>11, RetryFixerEffect
    <2>12. CASE FixerHandled
      BY <1>0, <1>n, <2>12, FixerHandledEffect
    <2> QED
      BY <1>5, <2>1, <2>2, <2>3, <2>4, <2>5, <2>6, <2>7, <2>8, <2>9, <2>10,
         <2>11, <2>12 DEF Validate
  <1>6. CASE PlanSteps
    <2>1. CASE StepDone
      BY <1>0, <1>n, <2>1, StepDoneEffect
    <2>2. CASE AfterPlan
      BY <1>0, <1>n, <2>2, AfterPlanEffect
    <2>3. CASE FinalValidate
      BY <1>0, <1>n, <2>3, FinalValidateEffect
    <2> QED
      BY <1>6, <2>1, <2>2, <2>3 DEF PlanSteps
  <1> QED
    BY <1>1, <1>2, <1>3, <1>4, <1>5, <1>6 DEF Session

LEMMA OthersLookFirst ==
    ASSUME TypeOK, OpenSession, FirstLook, Invoke \/ Crash \/ ResetFailed
    PROVE  FirstLook'
  <1>n. /\ SessionType /\ mem.plan \in Nat /\ crashes \in Nat /\ resets \in Nat
        /\ cfg.review_fix => ~cfg.run_planner
    BY Numbers, ConfigsAssumption DEF TypeOK
  <1> USE DEF Same, Control, Locally, LocalFields, Ghostly, GhostFields,
      SavesAt, GoesTo, EndsWith, FailsWith, Keeps, NoLocals, FirstLook, Fresh,
      FirstPlaces, Uninterrupted, FixPlaces, Placed, InStep, LoopOrEntry,
      PostGates, LoopPlaces, GatePlaces, OpenSession, ResetFields, Owes,
      OwesSame, Cleared, OwesOnly, Gates
  <1>1. CASE Invoke
    BY <1>n, <1>1, InvokeEffect
  <1>2. CASE Crash
    BY <1>n, <1>2, CrashEffect
  <1>3. CASE ResetFailed
    BY <1>n, <1>3, ResetFailedEffect
  <1> QED
    BY <1>1, <1>2, <1>3

LEMMA SessionValidates ==
    ASSUME TypeOK, OpenSession, Placed, PostValidated, Scoped, FirstLook,
           DoneMeansValidated, Session
    PROVE  DoneMeansValidated'
  <1>0. UNCHANGED <<cfg, crashes, resets>>
    BY DEF Session
  <1>n. /\ SessionType /\ mem.plan \in Nat /\ crashes \in Nat /\ resets \in Nat
        /\ cfg.review_fix => ~cfg.run_planner
    BY Numbers, ConfigsAssumption DEF TypeOK
  <1> USE DEF Same, Control, Locally, LocalFields, Ghostly, GhostFields,
      SavesAt, GoesTo, EndsWith, FailsWith, Keeps, NoLocals,
      DoneMeansValidated, Uninterrupted, Placed, OpenSession, GateFields,
      FixFields, ReviewPassed, SecurityPassed, WriterBegins, TestsLeft,
      RetestsReview, RetestsSecurity, GatePassed, EntersFinal, OpenFields,
      StepFields, AuditFields, LoopFields, AllStale, SecurityStale,
      AlreadyImplemented
  <1>1. CASE Prepare
    <2>1. CASE CheckCoverage
      BY <1>0, <1>n, <2>1, CheckCoverageEffect
    <2>2. CASE RunPresync
      BY <1>0, <1>n, <2>2, RunPresyncEffect
    <2>3. CASE Analyze
      BY <1>0, <1>n, <2>3, AnalyzeEffect
    <2>4. CASE Plan
      BY <1>0, <1>n, <2>4, PlanEffect
    <2>5. CASE Dispatch
      BY <1>0, <1>n, <2>5, DispatchEffect
    <2> QED
      BY <1>1, <2>1, <2>2, <2>3, <2>4, <2>5 DEF Prepare
  <1>2. CASE ImplementStep
    <2>1. CASE SkipImplement
      BY <1>0, <1>n, <2>1, SkipImplementEffect
    <2>2. CASE Implement
      BY <1>0, <1>n, <2>2, ImplementEffect
    <2>3. CASE TaskImplemented
      BY <1>0, <1>n, <2>3, TaskImplementedEffect
    <2>4. CASE StepImplemented
      BY <1>0, <1>n, <2>4, StepImplementedEffect
    <2>5. CASE ResumeCheck
      BY <1>0, <1>n, <2>5, ResumeCheckEffect
    <2> QED
      BY <1>2, <2>1, <2>2, <2>3, <2>4, <2>5 DEF ImplementStep
  <1>3. CASE ReviewGates
    <2>1. CASE SkipReview
      BY <1>0, <1>n, <2>1, SkipReviewEffect
    <2>2. CASE Review
      BY <1>0, <1>n, <2>2, ReviewEffect
    <2>3. CASE ReviewFix
      BY <1>0, <1>n, <2>3, FixGateEffect DEF ReviewFix
    <2>4. CASE ReviewFixHandled
      BY <1>0, <1>n, <2>4, GateFixHandledEffect DEF ReviewFixHandled
    <2>5. CASE SkipSecurity
      BY <1>0, <1>n, <2>5, SkipSecurityEffect
    <2>6. CASE SecurityReview
      BY <1>0, <1>n, <2>6, SecurityReviewEffect
    <2>7. CASE SecurityFix
      BY <1>0, <1>n, <2>7, FixGateEffect DEF SecurityFix
    <2>8. CASE SecurityFixHandled
      BY <1>0, <1>n, <2>8, GateFixHandledEffect DEF SecurityFixHandled
    <2>9. CASE FastPath
      <3>1. pc = "fast_path" /\ UNCHANGED work /\ ~disk.done /\ ~disk.failed
            /\ (disk'.done => cfg.review_fix /\ ~loc.code_changed)
        BY <1>n, <2>9, FastPathEffect
      <3>2. ASSUME disk'.done, cfg.run_build, (cfg.review_fix => Uninterrupted)' PROVE Validated'
        <4>1. loc.ctx = "task" /\ Uninterrupted /\ cfg.review_fix
          BY <1>0, <3>1, <3>2 DEF Placed, Uninterrupted
        <4>2. mem.build_loop_key = NoKey
          BY <3>1, <3>2, <4>1 DEF Scoped, GatePlaces
        <4>3. work.stale["validation"] = {}
          BY <3>1, <3>2, <4>1, <4>2 DEF FirstLook, Fresh, FirstPlaces, FixPlaces
        <4> QED
          BY <3>1, <4>3 DEF Validated
      <3> QED
        BY <1>0, <3>2 DEF DoneMeansValidated
    <2> QED
      BY <1>3, <2>1, <2>2, <2>3, <2>4, <2>5, <2>6, <2>7, <2>8, <2>9 DEF
         ReviewGates
  <1>4. CASE TestGate
    <2>1. CASE SkipTests
      BY <1>0, <1>n, <2>1, SkipTestsEffect
    <2>2. CASE BeginTestWriting
      BY <1>0, <1>n, <2>2, BeginTestWritingEffect
    <2>3. CASE TestWriter
      BY <1>0, <1>n, <2>3, TestWriterEffect
    <2>4. CASE RecordAuditFiles
      BY <1>0, <1>n, <2>4, RecordAuditFilesEffect
    <2>5. CASE RetryTestWriter
      BY <1>0, <1>n, <2>5, RetryTestWriterEffect
    <2>6. CASE FinishAudit
      BY <1>0, <1>n, <2>6, FinishAuditControl
    <2>7. CASE TestsDone
      BY <1>0, <1>n, <2>7, TestsDoneEffect
    <2>8. CASE RetestReview
      BY <1>0, <1>n, <2>8, RetestReviewEffect
    <2>9. CASE RetestReviewed
      BY <1>0, <1>n, <2>9, RetestReviewedEffect
    <2>10. CASE RetestSecurity
      BY <1>0, <1>n, <2>10, RetestSecurityEffect
    <2> QED
      BY <1>4, <2>1, <2>2, <2>3, <2>4, <2>5, <2>6, <2>7, <2>8, <2>9, <2>10 DEF
         TestGate
  <1>5. CASE Validate
    <2>1. CASE GatesDone
      BY <1>0, <1>n, <2>1, GatesDoneEffect
    <2>2. CASE BuildLoop
      BY <1>0, <1>n, <2>2, BuildLoopEffect
    <2>3. CASE LoopHead
      BY <1>0, <1>n, <2>3, LoopHeadEffect
    <2>4. CASE Sync
      BY <1>0, <1>n, <2>4, SyncEffect
    <2>5. CASE Build
      BY <1>0, <1>n, <2>5, BuildEffect
    <2>6. CASE Test
      BY <1>0, <1>n, <2>6, TestEffect
    <2>7. CASE Check
      BY <1>0, <1>n, <2>7, CheckEffect
    <2>8. CASE PostValidation
      BY <1>0, <1>n, <2>8, PostValidationEffect
    <2>9. CASE Accept
      <3>1. Validated /\ UNCHANGED work
        BY <1>n, <2>9, AcceptEffect DEF PostValidated
      <3> QED
        BY <1>0, <3>1 DEF DoneMeansValidated, Validated, Uninterrupted
    <2>10. CASE Fixer
      BY <1>0, <1>n, <2>10, FixerEffect
    <2>11. CASE RetryFixer
      BY <1>0, <1>n, <2>11, RetryFixerEffect
    <2>12. CASE FixerHandled
      BY <1>0, <1>n, <2>12, FixerHandledEffect
    <2> QED
      BY <1>5, <2>1, <2>2, <2>3, <2>4, <2>5, <2>6, <2>7, <2>8, <2>9, <2>10,
         <2>11, <2>12 DEF Validate
  <1>6. CASE PlanSteps
    <2>1. CASE StepDone
      BY <1>0, <1>n, <2>1, StepDoneEffect
    <2>2. CASE AfterPlan
      BY <1>0, <1>n, <2>2, AfterPlanEffect
    <2>3. CASE FinalValidate
      BY <1>0, <1>n, <2>3, FinalValidateEffect
    <2> QED
      BY <1>6, <2>1, <2>2, <2>3 DEF PlanSteps
  <1> QED
    BY <1>1, <1>2, <1>3, <1>4, <1>5, <1>6 DEF Session

LEMMA OthersValidate ==
    ASSUME TypeOK, OpenSession, DoneMeansValidated, Invoke \/ Crash \/
           ResetFailed
    PROVE  DoneMeansValidated'
  <1>n. /\ SessionType /\ mem.plan \in Nat /\ crashes \in Nat /\ resets \in Nat
        /\ cfg.review_fix => ~cfg.run_planner
    BY Numbers, ConfigsAssumption DEF TypeOK
  <1> USE DEF Same, Control, Locally, LocalFields, Ghostly, GhostFields,
      SavesAt, GoesTo, EndsWith, FailsWith, Keeps, NoLocals,
      DoneMeansValidated, Validated, Uninterrupted, OpenSession, ResetFields,
      Owes, OwesSame, Cleared, OwesOnly, Gates
  <1>1. CASE Invoke
    BY <1>n, <1>1, InvokeEffect
  <1>2. CASE Crash
    BY <1>n, <1>2, CrashEffect
  <1>3. CASE ResetFailed
    BY <1>n, <1>3, ResetFailedEffect
  <1> QED
    BY <1>1, <1>2, <1>3
-----------------------------------------------------------------------------
(* The test writer: the flag stands only when it ran after the last change *)
(* it was told of; and where a pending audit can be, which a resumed       *)
(* session repeats without asking the writer again.                        *)
TestsAnswerable == Answerable /\ (cfg.run_build \/ cfg.run_planner => crashes = 0)

AfterTests == {"tests_done", "gates_done", "accept"} \cup RetestPlaces

Told == {"implementer", "fixer", "sync"}

AuditKept ==
    /\ pc \in {"test_writer", "test_written"} => mem.test_writer_audit = "running"
    /\ pc = "test_audit" => mem.test_writer_audit = "completed"
    /\ crashes = 0 /\ mem.test_writer_audit = "completed" => pc = "test_audit"
    /\ ~cfg.run_build /\ ~cfg.run_planner /\ ~cfg.review_fix /\ mem.test_writer_audit # "none" =>
         /\ cfg.run_review => mem.review_approved
         /\ cfg.run_security_review => mem.security_approved

TestsCurrent ==
    cfg.run_test_writing =>
      /\ mem.tests_up_to_date => work.stale["tests"] \cap Told = {}
      /\ Planning \/ ~Begun(mem) \/ ~Begun(disk) => ~mem.tests_up_to_date
      /\ pc = "test_written" => mem.tests_up_to_date
      /\ TestsAnswerable =>
          /\ mem.test_writer_audit = "completed" => mem.tests_up_to_date
          /\ pc \in AfterTests => mem.tests_up_to_date
          /\ ~cfg.run_build /\ mem.final_full_task_review_done => mem.tests_up_to_date

LEMMA SessionAudits ==
    ASSUME TypeOK, OpenSession, FlagsSaved, Placed, FixesAreDue, ReviewCurrent,
           SecurityCurrent, AuditKept, Session
    PROVE  AuditKept'
  <1>0. UNCHANGED <<cfg, crashes, resets>>
    BY DEF Session
  <1>n. /\ SessionType /\ mem.plan \in Nat /\ disk.plan \in Nat /\ crashes \in Nat /\ resets \in Nat
    BY Numbers
  <1> USE DEF Same, Control, Locally, LocalFields, Ghostly, GhostFields,
      SavesAt, GoesTo, EndsWith, FailsWith, Keeps, NoLocals, AuditKept,
      Answerable, Placed, FlagsSaved, FixesAreDue, ReviewCurrent,
      SecurityCurrent, OpenSession, RetestPlaces, AfterReview, AfterSecurity,
      Begun, FixPlaces, InStep, LoopOrEntry, PostGates, LoopPlaces, GatePlaces,
      Planning, EarlyPlaces, GateFields, FixFields, ReviewPassed,
      SecurityPassed, WriterBegins, TestsLeft, RetestsReview, RetestsSecurity,
      GatePassed, EntersFinal, OpenFields, StepFields, AuditFields, LoopFields,
      AllStale, SecurityStale, ReviewDue, SecurityDue, SemanticGatesPending,
      AlreadyImplemented
  <1>1. CASE Prepare
    <2>1. CASE CheckCoverage
      BY <1>0, <1>n, <2>1, CheckCoverageEffect
    <2>2. CASE RunPresync
      BY <1>0, <1>n, <2>2, RunPresyncEffect
    <2>3. CASE Analyze
      BY <1>0, <1>n, <2>3, AnalyzeEffect
    <2>4. CASE Plan
      BY <1>0, <1>n, <2>4, PlanEffect
    <2>5. CASE Dispatch
      BY <1>0, <1>n, <2>5, DispatchEffect
    <2> QED
      BY <1>1, <2>1, <2>2, <2>3, <2>4, <2>5 DEF Prepare
  <1>2. CASE ImplementStep
    <2>1. CASE SkipImplement
      BY <1>0, <1>n, <2>1, SkipImplementEffect
    <2>2. CASE Implement
      BY <1>0, <1>n, <2>2, ImplementEffect
    <2>3. CASE TaskImplemented
      BY <1>0, <1>n, <2>3, TaskImplementedEffect
    <2>4. CASE StepImplemented
      BY <1>0, <1>n, <2>4, StepImplementedEffect
    <2>5. CASE ResumeCheck
      BY <1>0, <1>n, <2>5, ResumeCheckEffect
    <2> QED
      BY <1>2, <2>1, <2>2, <2>3, <2>4, <2>5 DEF ImplementStep
  <1>3. CASE ReviewGates
    <2>1. CASE SkipReview
      BY <1>0, <1>n, <2>1, SkipReviewEffect
    <2>2. CASE Review
      BY <1>0, <1>n, <2>2, ReviewEffect
    <2>3. CASE ReviewFix
      BY <1>0, <1>n, <2>3, FixGateEffect DEF ReviewFix
    <2>4. CASE ReviewFixHandled
      BY <1>0, <1>n, <2>4, GateFixHandledEffect DEF ReviewFixHandled
    <2>5. CASE SkipSecurity
      BY <1>0, <1>n, <2>5, SkipSecurityEffect
    <2>6. CASE SecurityReview
      BY <1>0, <1>n, <2>6, SecurityReviewEffect
    <2>7. CASE SecurityFix
      BY <1>0, <1>n, <2>7, FixGateEffect DEF SecurityFix
    <2>8. CASE SecurityFixHandled
      BY <1>0, <1>n, <2>8, GateFixHandledEffect DEF SecurityFixHandled
    <2>9. CASE FastPath
      BY <1>0, <1>n, <2>9, FastPathEffect
    <2> QED
      BY <1>3, <2>1, <2>2, <2>3, <2>4, <2>5, <2>6, <2>7, <2>8, <2>9 DEF
         ReviewGates
  <1>4. CASE TestGate
    <2>1. CASE SkipTests
      BY <1>0, <1>n, <2>1, SkipTestsEffect
    <2>2. CASE BeginTestWriting
      BY <1>0, <1>n, <2>2, BeginTestWritingEffect
    <2>3. CASE TestWriter
      BY <1>0, <1>n, <2>3, TestWriterEffect
    <2>4. CASE RecordAuditFiles
      BY <1>0, <1>n, <2>4, RecordAuditFilesEffect
    <2>5. CASE RetryTestWriter
      BY <1>0, <1>n, <2>5, RetryTestWriterEffect
    <2>6. CASE FinishAudit
      BY <1>0, <1>n, <2>6, FinishAuditControl
    <2>7. CASE TestsDone
      BY <1>0, <1>n, <2>7, TestsDoneEffect
    <2>8. CASE RetestReview
      BY <1>0, <1>n, <2>8, RetestReviewEffect
    <2>9. CASE RetestReviewed
      BY <1>0, <1>n, <2>9, RetestReviewedEffect
    <2>10. CASE RetestSecurity
      BY <1>0, <1>n, <2>10, RetestSecurityEffect
    <2> QED
      BY <1>4, <2>1, <2>2, <2>3, <2>4, <2>5, <2>6, <2>7, <2>8, <2>9, <2>10 DEF
         TestGate
  <1>5. CASE Validate
    <2>1. CASE GatesDone
      BY <1>0, <1>n, <2>1, GatesDoneEffect
    <2>2. CASE BuildLoop
      BY <1>0, <1>n, <2>2, BuildLoopEffect
    <2>3. CASE LoopHead
      BY <1>0, <1>n, <2>3, LoopHeadEffect
    <2>4. CASE Sync
      BY <1>0, <1>n, <2>4, SyncEffect
    <2>5. CASE Build
      BY <1>0, <1>n, <2>5, BuildEffect
    <2>6. CASE Test
      BY <1>0, <1>n, <2>6, TestEffect
    <2>7. CASE Check
      BY <1>0, <1>n, <2>7, CheckEffect
    <2>8. CASE PostValidation
      BY <1>0, <1>n, <2>8, PostValidationEffect
    <2>9. CASE Accept
      BY <1>0, <1>n, <2>9, AcceptEffect
    <2>10. CASE Fixer
      BY <1>0, <1>n, <2>10, FixerEffect
    <2>11. CASE RetryFixer
      BY <1>0, <1>n, <2>11, RetryFixerEffect
    <2>12. CASE FixerHandled
      BY <1>0, <1>n, <2>12, FixerHandledEffect
    <2> QED
      BY <1>5, <2>1, <2>2, <2>3, <2>4, <2>5, <2>6, <2>7, <2>8, <2>9, <2>10,
         <2>11, <2>12 DEF Validate
  <1>6. CASE PlanSteps
    <2>1. CASE StepDone
      BY <1>0, <1>n, <2>1, StepDoneEffect
    <2>2. CASE AfterPlan
      BY <1>0, <1>n, <2>2, AfterPlanEffect
    <2>3. CASE FinalValidate
      BY <1>0, <1>n, <2>3, FinalValidateEffect
    <2> QED
      BY <1>6, <2>1, <2>2, <2>3 DEF PlanSteps
  <1> QED
    BY <1>1, <1>2, <1>3, <1>4, <1>5, <1>6 DEF Session

LEMMA OthersAudit ==
    ASSUME TypeOK, OpenSession, FlagsSaved, AuditKept, Invoke \/ Crash \/
           ResetFailed
    PROVE  AuditKept'
  <1>n. /\ SessionType /\ mem.plan \in Nat /\ disk.plan \in Nat /\ crashes \in Nat /\ resets \in Nat
    BY Numbers
  <1> USE DEF Same, Control, Locally, LocalFields, Ghostly, GhostFields,
      SavesAt, GoesTo, EndsWith, FailsWith, Keeps, NoLocals, AuditKept,
      FlagsSaved, OpenSession, ResetFields
  <1>1. CASE Invoke
    BY <1>n, <1>1, InvokeEffect
  <1>2. CASE Crash
    BY <1>n, <1>2, CrashEffect
  <1>3. CASE ResetFailed
    BY <1>n, <1>3, ResetFailedEffect
  <1> QED
    BY <1>1, <1>2, <1>3

LEMMA SessionTests ==
    ASSUME TypeOK, OpenSession, FlagsSaved, Placed, FixesAreDue, ReviewCurrent,
           SecurityCurrent, AuditKept, TestsCurrent, Session
    PROVE  TestsCurrent'
  <1>0. UNCHANGED <<cfg, crashes, resets>>
    BY DEF Session
  <1>n. /\ SessionType /\ mem.plan \in Nat /\ disk.plan \in Nat /\ crashes \in Nat /\ resets \in Nat
    BY Numbers
  <1> USE DEF Same, Control, Locally, LocalFields, Ghostly, GhostFields,
      SavesAt, GoesTo, EndsWith, FailsWith, Keeps, NoLocals, AuditKept,
      TestsCurrent, TestsAnswerable, Answerable, Uninterrupted, AfterTests,
      Told, Placed, FlagsSaved, FixesAreDue, ReviewCurrent, SecurityCurrent,
      OpenSession, RetestPlaces, AfterReview, AfterSecurity, Begun, FixPlaces,
      InStep, LoopOrEntry, PostGates, LoopPlaces, GatePlaces, Planning,
      EarlyPlaces, GateFields, FixFields, ReviewPassed, SecurityPassed,
      WriterBegins, TestsLeft, RetestsReview, RetestsSecurity, GatePassed,
      EntersFinal, OpenFields, StepFields, AuditFields, LoopFields, AllStale,
      SecurityStale, ReviewDue, SecurityDue, SemanticGatesPending,
      AlreadyImplemented, TestsUpToDate, Owes, OwesSame, Cleared, OwesOnly,
      Gates
  <1>1. CASE Prepare
    <2>1. CASE CheckCoverage
      BY <1>0, <1>n, <2>1, CheckCoverageEffect
    <2>2. CASE RunPresync
      BY <1>0, <1>n, <2>2, RunPresyncEffect
    <2>3. CASE Analyze
      BY <1>0, <1>n, <2>3, AnalyzeEffect
    <2>4. CASE Plan
      BY <1>0, <1>n, <2>4, PlanEffect
    <2>5. CASE Dispatch
      BY <1>0, <1>n, <2>5, DispatchEffect
    <2> QED
      BY <1>1, <2>1, <2>2, <2>3, <2>4, <2>5 DEF Prepare
  <1>2. CASE ImplementStep
    <2>1. CASE SkipImplement
      BY <1>0, <1>n, <2>1, SkipImplementEffect
    <2>2. CASE Implement
      BY <1>0, <1>n, <2>2, ImplementEffect
    <2>3. CASE TaskImplemented
      BY <1>0, <1>n, <2>3, TaskImplementedEffect
    <2>4. CASE StepImplemented
      BY <1>0, <1>n, <2>4, StepImplementedEffect
    <2>5. CASE ResumeCheck
      BY <1>0, <1>n, <2>5, ResumeCheckEffect
    <2> QED
      BY <1>2, <2>1, <2>2, <2>3, <2>4, <2>5 DEF ImplementStep
  <1>3. CASE ReviewGates
    <2>1. CASE SkipReview
      BY <1>0, <1>n, <2>1, SkipReviewEffect
    <2>2. CASE Review
      BY <1>0, <1>n, <2>2, ReviewEffect
    <2>3. CASE ReviewFix
      BY <1>0, <1>n, <2>3, FixGateEffect DEF ReviewFix
    <2>4. CASE ReviewFixHandled
      BY <1>0, <1>n, <2>4, GateFixHandledEffect DEF ReviewFixHandled
    <2>5. CASE SkipSecurity
      BY <1>0, <1>n, <2>5, SkipSecurityEffect
    <2>6. CASE SecurityReview
      BY <1>0, <1>n, <2>6, SecurityReviewEffect
    <2>7. CASE SecurityFix
      BY <1>0, <1>n, <2>7, FixGateEffect DEF SecurityFix
    <2>8. CASE SecurityFixHandled
      BY <1>0, <1>n, <2>8, GateFixHandledEffect DEF SecurityFixHandled
    <2>9. CASE FastPath
      BY <1>0, <1>n, <2>9, FastPathEffect
    <2> QED
      BY <1>3, <2>1, <2>2, <2>3, <2>4, <2>5, <2>6, <2>7, <2>8, <2>9 DEF
         ReviewGates
  <1>4. CASE TestGate
    <2>1. CASE SkipTests
      BY <1>0, <1>n, <2>1, SkipTestsEffect
    <2>2. CASE BeginTestWriting
      BY <1>0, <1>n, <2>2, BeginTestWritingEffect
    <2>3. CASE TestWriter
      BY <1>0, <1>n, <2>3, TestWriterEffect
    <2>4. CASE RecordAuditFiles
      BY <1>0, <1>n, <2>4, RecordAuditFilesEffect
    <2>5. CASE RetryTestWriter
      BY <1>0, <1>n, <2>5, RetryTestWriterEffect
    <2>6. CASE FinishAudit
      BY <1>0, <1>n, <2>6, FinishAuditControl
    <2>7. CASE TestsDone
      BY <1>0, <1>n, <2>7, TestsDoneEffect
    <2>8. CASE RetestReview
      BY <1>0, <1>n, <2>8, RetestReviewEffect
    <2>9. CASE RetestReviewed
      BY <1>0, <1>n, <2>9, RetestReviewedEffect
    <2>10. CASE RetestSecurity
      BY <1>0, <1>n, <2>10, RetestSecurityEffect
    <2> QED
      BY <1>4, <2>1, <2>2, <2>3, <2>4, <2>5, <2>6, <2>7, <2>8, <2>9, <2>10 DEF
         TestGate
  <1>5. CASE Validate
    <2>1. CASE GatesDone
      BY <1>0, <1>n, <2>1, GatesDoneEffect
    <2>2. CASE BuildLoop
      BY <1>0, <1>n, <2>2, BuildLoopEffect
    <2>3. CASE LoopHead
      BY <1>0, <1>n, <2>3, LoopHeadEffect
    <2>4. CASE Sync
      BY <1>0, <1>n, <2>4, SyncEffect
    <2>5. CASE Build
      BY <1>0, <1>n, <2>5, BuildEffect
    <2>6. CASE Test
      BY <1>0, <1>n, <2>6, TestEffect
    <2>7. CASE Check
      BY <1>0, <1>n, <2>7, CheckEffect
    <2>8. CASE PostValidation
      BY <1>0, <1>n, <2>8, PostValidationEffect
    <2>9. CASE Accept
      BY <1>0, <1>n, <2>9, AcceptEffect
    <2>10. CASE Fixer
      BY <1>0, <1>n, <2>10, FixerEffect
    <2>11. CASE RetryFixer
      BY <1>0, <1>n, <2>11, RetryFixerEffect
    <2>12. CASE FixerHandled
      BY <1>0, <1>n, <2>12, FixerHandledEffect
    <2> QED
      BY <1>5, <2>1, <2>2, <2>3, <2>4, <2>5, <2>6, <2>7, <2>8, <2>9, <2>10,
         <2>11, <2>12 DEF Validate
  <1>6. CASE PlanSteps
    <2>1. CASE StepDone
      BY <1>0, <1>n, <2>1, StepDoneEffect
    <2>2. CASE AfterPlan
      BY <1>0, <1>n, <2>2, AfterPlanEffect
    <2>3. CASE FinalValidate
      BY <1>0, <1>n, <2>3, FinalValidateEffect
    <2> QED
      BY <1>6, <2>1, <2>2, <2>3 DEF PlanSteps
  <1> QED
    BY <1>1, <1>2, <1>3, <1>4, <1>5, <1>6 DEF Session

LEMMA OthersTest ==
    ASSUME TypeOK, OpenSession, FlagsSaved, Placed, ReviewCurrent, AuditKept,
           TestsCurrent, Invoke \/ Crash \/ ResetFailed
    PROVE  TestsCurrent'
  <1>n. /\ SessionType /\ mem.plan \in Nat /\ disk.plan \in Nat /\ crashes \in Nat /\ resets \in Nat
    BY Numbers
  <1> USE DEF Same, Control, Locally, LocalFields, Ghostly, GhostFields,
      SavesAt, GoesTo, EndsWith, FailsWith, Keeps, NoLocals, AuditKept,
      TestsCurrent, TestsAnswerable, Answerable, Uninterrupted, AfterTests,
      Told, Placed, FlagsSaved, OpenSession, RetestPlaces, AfterReview,
      AfterSecurity, Begun, FixPlaces, InStep, LoopOrEntry, PostGates,
      LoopPlaces, GatePlaces, Planning, EarlyPlaces, ResetFields, Left,
      Writing, LostOrigins, AlreadyImplemented, Owes, OwesSame, Cleared,
      OwesOnly, Gates
  <1>1. CASE Invoke
    BY <1>n, <1>1, InvokeEffect
  <1>2. CASE Crash
    BY <1>n, <1>2, CrashEffect
  <1>3. CASE ResetFailed
    BY <1>n, <1>3, ResetFailedEffect
  <1> QED
    BY <1>1, <1>2, <1>3

LEMMA SessionTestsDone ==
    ASSUME TypeOK, OpenSession, Placed, Scoped, FirstLook, TestsCurrent,
           DoneMeansTested, Session
    PROVE  DoneMeansTested'
  <1>0. UNCHANGED <<cfg, crashes, resets>>
    BY DEF Session
  <1>n. /\ SessionType /\ mem.plan \in Nat /\ disk.plan \in Nat /\ crashes \in Nat /\ resets \in Nat
    BY Numbers
  <1> USE DEF Same, Control, Locally, LocalFields, Ghostly, GhostFields,
      SavesAt, GoesTo, EndsWith, FailsWith, Keeps, NoLocals, DoneMeansTested,
      AuditKept, TestsCurrent, TestsAnswerable, Answerable, Uninterrupted,
      AfterTests, Told, Placed, OpenSession, RetestPlaces, AfterReview,
      AfterSecurity, Begun, FixPlaces, InStep, LoopOrEntry, PostGates,
      LoopPlaces, GatePlaces, Planning, EarlyPlaces, GateFields, FixFields,
      ReviewPassed, SecurityPassed, WriterBegins, TestsLeft, RetestsReview,
      RetestsSecurity, GatePassed, EntersFinal, OpenFields, StepFields,
      AuditFields, LoopFields, AllStale, SecurityStale, ReviewDue, SecurityDue,
      SemanticGatesPending, AlreadyImplemented
  <1>1. CASE Prepare
    <2>1. CASE CheckCoverage
      BY <1>0, <1>n, <2>1, CheckCoverageEffect
    <2>2. CASE RunPresync
      BY <1>0, <1>n, <2>2, RunPresyncEffect
    <2>3. CASE Analyze
      BY <1>0, <1>n, <2>3, AnalyzeEffect
    <2>4. CASE Plan
      BY <1>0, <1>n, <2>4, PlanEffect
    <2>5. CASE Dispatch
      BY <1>0, <1>n, <2>5, DispatchEffect
    <2> QED
      BY <1>1, <2>1, <2>2, <2>3, <2>4, <2>5 DEF Prepare
  <1>2. CASE ImplementStep
    <2>1. CASE SkipImplement
      BY <1>0, <1>n, <2>1, SkipImplementEffect
    <2>2. CASE Implement
      BY <1>0, <1>n, <2>2, ImplementEffect
    <2>3. CASE TaskImplemented
      BY <1>0, <1>n, <2>3, TaskImplementedEffect
    <2>4. CASE StepImplemented
      BY <1>0, <1>n, <2>4, StepImplementedEffect
    <2>5. CASE ResumeCheck
      BY <1>0, <1>n, <2>5, ResumeCheckEffect
    <2> QED
      BY <1>2, <2>1, <2>2, <2>3, <2>4, <2>5 DEF ImplementStep
  <1>3. CASE ReviewGates
    <2>1. CASE SkipReview
      BY <1>0, <1>n, <2>1, SkipReviewEffect
    <2>2. CASE Review
      BY <1>0, <1>n, <2>2, ReviewEffect
    <2>3. CASE ReviewFix
      BY <1>0, <1>n, <2>3, FixGateEffect DEF ReviewFix
    <2>4. CASE ReviewFixHandled
      BY <1>0, <1>n, <2>4, GateFixHandledEffect DEF ReviewFixHandled
    <2>5. CASE SkipSecurity
      BY <1>0, <1>n, <2>5, SkipSecurityEffect
    <2>6. CASE SecurityReview
      BY <1>0, <1>n, <2>6, SecurityReviewEffect
    <2>7. CASE SecurityFix
      BY <1>0, <1>n, <2>7, FixGateEffect DEF SecurityFix
    <2>8. CASE SecurityFixHandled
      BY <1>0, <1>n, <2>8, GateFixHandledEffect DEF SecurityFixHandled
    <2>9. CASE FastPath
      <3>1. pc = "fast_path" /\ UNCHANGED work /\ ~disk.done /\ ~disk.failed
            /\ (disk'.done => cfg.review_fix /\ ~loc.code_changed)
        BY <1>n, <2>9, FastPathEffect
      <3>2. ASSUME disk'.done, (cfg.review_fix => Uninterrupted)'
            PROVE  work'.stale["tests"] = {}
        <4>1. loc.ctx = "task" /\ Uninterrupted /\ cfg.review_fix
          BY <1>0, <3>1, <3>2 DEF Placed, Uninterrupted
        <4>2. cfg.run_build => mem.build_loop_key = NoKey
          BY <3>1, <3>2, <4>1 DEF Scoped, GatePlaces
        <4> QED
          BY <3>1, <3>2, <4>1, <4>2 DEF FirstLook, Fresh, FirstPlaces
      <3> QED
        BY <1>0, <3>2 DEF DoneMeansTested
    <2> QED
      BY <1>3, <2>1, <2>2, <2>3, <2>4, <2>5, <2>6, <2>7, <2>8, <2>9 DEF
         ReviewGates
  <1>4. CASE TestGate
    <2>1. CASE SkipTests
      BY <1>0, <1>n, <2>1, SkipTestsEffect
    <2>2. CASE BeginTestWriting
      BY <1>0, <1>n, <2>2, BeginTestWritingEffect
    <2>3. CASE TestWriter
      BY <1>0, <1>n, <2>3, TestWriterEffect
    <2>4. CASE RecordAuditFiles
      BY <1>0, <1>n, <2>4, RecordAuditFilesEffect
    <2>5. CASE RetryTestWriter
      BY <1>0, <1>n, <2>5, RetryTestWriterEffect
    <2>6. CASE FinishAudit
      BY <1>0, <1>n, <2>6, FinishAuditControl
    <2>7. CASE TestsDone
      BY <1>0, <1>n, <2>7, TestsDoneEffect
    <2>8. CASE RetestReview
      BY <1>0, <1>n, <2>8, RetestReviewEffect
    <2>9. CASE RetestReviewed
      BY <1>0, <1>n, <2>9, RetestReviewedEffect
    <2>10. CASE RetestSecurity
      BY <1>0, <1>n, <2>10, RetestSecurityEffect
    <2> QED
      BY <1>4, <2>1, <2>2, <2>3, <2>4, <2>5, <2>6, <2>7, <2>8, <2>9, <2>10 DEF
         TestGate
  <1>5. CASE Validate
    <2>1. CASE GatesDone
      BY <1>0, <1>n, <2>1, GatesDoneEffect
    <2>2. CASE BuildLoop
      BY <1>0, <1>n, <2>2, BuildLoopEffect
    <2>3. CASE LoopHead
      BY <1>0, <1>n, <2>3, LoopHeadEffect
    <2>4. CASE Sync
      BY <1>0, <1>n, <2>4, SyncEffect
    <2>5. CASE Build
      BY <1>0, <1>n, <2>5, BuildEffect
    <2>6. CASE Test
      BY <1>0, <1>n, <2>6, TestEffect
    <2>7. CASE Check
      BY <1>0, <1>n, <2>7, CheckEffect
    <2>8. CASE PostValidation
      BY <1>0, <1>n, <2>8, PostValidationEffect
    <2>9. CASE Accept
      BY <1>0, <1>n, <2>9, AcceptEffect
    <2>10. CASE Fixer
      BY <1>0, <1>n, <2>10, FixerEffect
    <2>11. CASE RetryFixer
      BY <1>0, <1>n, <2>11, RetryFixerEffect
    <2>12. CASE FixerHandled
      BY <1>0, <1>n, <2>12, FixerHandledEffect
    <2> QED
      BY <1>5, <2>1, <2>2, <2>3, <2>4, <2>5, <2>6, <2>7, <2>8, <2>9, <2>10,
         <2>11, <2>12 DEF Validate
  <1>6. CASE PlanSteps
    <2>1. CASE StepDone
      BY <1>0, <1>n, <2>1, StepDoneEffect
    <2>2. CASE AfterPlan
      BY <1>0, <1>n, <2>2, AfterPlanEffect
    <2>3. CASE FinalValidate
      BY <1>0, <1>n, <2>3, FinalValidateEffect
    <2> QED
      BY <1>6, <2>1, <2>2, <2>3 DEF PlanSteps
  <1> QED
    BY <1>1, <1>2, <1>3, <1>4, <1>5, <1>6 DEF Session

LEMMA OthersTestDone ==
    ASSUME TypeOK, OpenSession, DoneMeansTested, Invoke \/ Crash \/ ResetFailed
    PROVE  DoneMeansTested'
  <1>n. /\ SessionType /\ mem.plan \in Nat /\ disk.plan \in Nat /\ crashes \in Nat /\ resets \in Nat
    BY Numbers
  <1> USE DEF Same, Control, Locally, LocalFields, Ghostly, GhostFields,
      SavesAt, GoesTo, EndsWith, FailsWith, Keeps, NoLocals, DoneMeansTested,
      Uninterrupted, OpenSession, ResetFields, Owes, OwesSame, Cleared,
      OwesOnly, Gates
  <1>1. CASE Invoke
    BY <1>n, <1>1, InvokeEffect
  <1>2. CASE Crash
    BY <1>n, <1>2, CrashEffect
  <1>3. CASE ResetFailed
    BY <1>n, <1>3, ResetFailedEffect
  <1> QED
    BY <1>1, <1>2, <1>3
-----------------------------------------------------------------------------
(* The steps of a plan.  What is saved of the present step's position and  *)
(* writes is what the session knows of them.                               *)
StepsAgree ==
    /\ mem.current_step = disk.current_step
    /\ disk.step_files_changed => mem.step_files_changed

(* In a step without a build/fix loop nothing withdraws the test writer's  *)
(* flag while its audit is pending, so that repeating the audit is enough. *)
StepTested ==
    /\ Planning => mem.test_writer_audit = "none"
    /\ InStep /\ ~StepBuilds =>
         /\ mem.test_writer_audit # "none" =>
              /\ cfg.run_test_writing /\ mem.step_implemented
              /\ cfg.run_review => mem.review_approved
              /\ cfg.run_security_review => mem.security_approved
         /\ mem.test_writer_audit = "completed" => mem.tests_up_to_date
         /\ pc \in {"tests_done", "gates_done", "step_done"} => mem.test_writer_audit = "none"
         /\ pc \in {"tests_done", "gates_done"} /\ cfg.run_test_writing => mem.tests_up_to_date

(* A step that changed files is over only when its gates have passed.      *)
StepReady ==
    pc = "step_done" /\ mem.step_files_changed =>
      /\ cfg.run_review => mem.review_approved
      /\ cfg.run_security_review => mem.security_approved
      /\ cfg.run_test_writing /\ (StepBuilds => crashes = 0) => mem.tests_up_to_date
      /\ StepBuilds => Validated

LEMMA SessionStepsAgree ==
    ASSUME TypeOK, OpenSession, FlagsSaved, StepsAgree, Session
    PROVE  StepsAgree'
  <1>0. UNCHANGED <<cfg, crashes, resets>>
    BY DEF Session
  <1>n. /\ SessionType
    BY Numbers
  <1> USE DEF Same, Control, Locally, LocalFields, Ghostly, GhostFields,
      SavesAt, GoesTo, EndsWith, FailsWith, Keeps, NoLocals, StepsAgree,
      OpenSession, GateFields, FixFields, ReviewPassed, SecurityPassed,
      WriterBegins, TestsLeft, RetestsReview, RetestsSecurity, GatePassed,
      EntersFinal, OpenFields, StepFields, AuditFields, LoopFields, AllStale,
      SecurityStale, ReviewDue, SecurityDue, SemanticGatesPending,
      AlreadyImplemented
  <1>1. CASE Prepare
    <2>1. CASE CheckCoverage
      BY <1>0, <1>n, <2>1, CheckCoverageEffect
    <2>2. CASE RunPresync
      BY <1>0, <1>n, <2>2, RunPresyncEffect
    <2>3. CASE Analyze
      BY <1>0, <1>n, <2>3, AnalyzeEffect
    <2>4. CASE Plan
      BY <1>0, <1>n, <2>4, PlanEffect
    <2>5. CASE Dispatch
      BY <1>0, <1>n, <2>5, DispatchEffect
    <2> QED
      BY <1>1, <2>1, <2>2, <2>3, <2>4, <2>5 DEF Prepare
  <1>2. CASE ImplementStep
    <2>1. CASE SkipImplement
      BY <1>0, <1>n, <2>1, SkipImplementEffect
    <2>2. CASE Implement
      BY <1>0, <1>n, <2>2, ImplementEffect
    <2>3. CASE TaskImplemented
      BY <1>0, <1>n, <2>3, TaskImplementedEffect
    <2>4. CASE StepImplemented
      BY <1>0, <1>n, <2>4, StepImplementedEffect
    <2>5. CASE ResumeCheck
      BY <1>0, <1>n, <2>5, ResumeCheckEffect
    <2> QED
      BY <1>2, <2>1, <2>2, <2>3, <2>4, <2>5 DEF ImplementStep
  <1>3. CASE ReviewGates
    <2>1. CASE SkipReview
      BY <1>0, <1>n, <2>1, SkipReviewEffect
    <2>2. CASE Review
      BY <1>0, <1>n, <2>2, ReviewEffect
    <2>3. CASE ReviewFix
      BY <1>0, <1>n, <2>3, FixGateEffect DEF ReviewFix
    <2>4. CASE ReviewFixHandled
      BY <1>0, <1>n, <2>4, GateFixHandledEffect DEF ReviewFixHandled
    <2>5. CASE SkipSecurity
      BY <1>0, <1>n, <2>5, SkipSecurityEffect
    <2>6. CASE SecurityReview
      BY <1>0, <1>n, <2>6, SecurityReviewEffect
    <2>7. CASE SecurityFix
      BY <1>0, <1>n, <2>7, FixGateEffect DEF SecurityFix
    <2>8. CASE SecurityFixHandled
      BY <1>0, <1>n, <2>8, GateFixHandledEffect DEF SecurityFixHandled
    <2>9. CASE FastPath
      BY <1>0, <1>n, <2>9, FastPathEffect
    <2> QED
      BY <1>3, <2>1, <2>2, <2>3, <2>4, <2>5, <2>6, <2>7, <2>8, <2>9 DEF
         ReviewGates
  <1>4. CASE TestGate
    <2>1. CASE SkipTests
      BY <1>0, <1>n, <2>1, SkipTestsEffect
    <2>2. CASE BeginTestWriting
      BY <1>0, <1>n, <2>2, BeginTestWritingEffect
    <2>3. CASE TestWriter
      BY <1>0, <1>n, <2>3, TestWriterEffect
    <2>4. CASE RecordAuditFiles
      BY <1>0, <1>n, <2>4, RecordAuditFilesEffect
    <2>5. CASE RetryTestWriter
      BY <1>0, <1>n, <2>5, RetryTestWriterEffect
    <2>6. CASE FinishAudit
      BY <1>0, <1>n, <2>6, FinishAuditControl
    <2>7. CASE TestsDone
      BY <1>0, <1>n, <2>7, TestsDoneEffect
    <2>8. CASE RetestReview
      BY <1>0, <1>n, <2>8, RetestReviewEffect
    <2>9. CASE RetestReviewed
      BY <1>0, <1>n, <2>9, RetestReviewedEffect
    <2>10. CASE RetestSecurity
      BY <1>0, <1>n, <2>10, RetestSecurityEffect
    <2> QED
      BY <1>4, <2>1, <2>2, <2>3, <2>4, <2>5, <2>6, <2>7, <2>8, <2>9, <2>10 DEF
         TestGate
  <1>5. CASE Validate
    <2>1. CASE GatesDone
      BY <1>0, <1>n, <2>1, GatesDoneEffect
    <2>2. CASE BuildLoop
      BY <1>0, <1>n, <2>2, BuildLoopEffect
    <2>3. CASE LoopHead
      BY <1>0, <1>n, <2>3, LoopHeadEffect
    <2>4. CASE Sync
      BY <1>0, <1>n, <2>4, SyncEffect
    <2>5. CASE Build
      BY <1>0, <1>n, <2>5, BuildEffect
    <2>6. CASE Test
      BY <1>0, <1>n, <2>6, TestEffect
    <2>7. CASE Check
      BY <1>0, <1>n, <2>7, CheckEffect
    <2>8. CASE PostValidation
      BY <1>0, <1>n, <2>8, PostValidationEffect
    <2>9. CASE Accept
      BY <1>0, <1>n, <2>9, AcceptEffect
    <2>10. CASE Fixer
      BY <1>0, <1>n, <2>10, FixerEffect
    <2>11. CASE RetryFixer
      BY <1>0, <1>n, <2>11, RetryFixerEffect
    <2>12. CASE FixerHandled
      BY <1>0, <1>n, <2>12, FixerHandledEffect
    <2> QED
      BY <1>5, <2>1, <2>2, <2>3, <2>4, <2>5, <2>6, <2>7, <2>8, <2>9, <2>10,
         <2>11, <2>12 DEF Validate
  <1>6. CASE PlanSteps
    <2>1. CASE StepDone
      BY <1>0, <1>n, <2>1, StepDoneEffect
    <2>2. CASE AfterPlan
      BY <1>0, <1>n, <2>2, AfterPlanEffect
    <2>3. CASE FinalValidate
      BY <1>0, <1>n, <2>3, FinalValidateEffect
    <2> QED
      BY <1>6, <2>1, <2>2, <2>3 DEF PlanSteps
  <1> QED
    BY <1>1, <1>2, <1>3, <1>4, <1>5, <1>6 DEF Session

LEMMA OthersStepsAgree ==
    ASSUME TypeOK, OpenSession, StepsAgree, Invoke \/ Crash \/ ResetFailed
    PROVE  StepsAgree'
  <1>n. /\ SessionType
    BY Numbers
  <1> USE DEF Same, Control, Locally, LocalFields, Ghostly, GhostFields,
      SavesAt, GoesTo, EndsWith, FailsWith, Keeps, NoLocals, StepsAgree,
      OpenSession, ResetFields
  <1>1. CASE Invoke
    BY <1>n, <1>1, InvokeEffect
  <1>2. CASE Crash
    BY <1>n, <1>2, CrashEffect
  <1>3. CASE ResetFailed
    BY <1>n, <1>3, ResetFailedEffect
  <1> QED
    BY <1>1, <1>2, <1>3

LEMMA SessionLeaves ==
    ASSUME TypeOK, OpenSession, FlagsSaved, StepsAgree, Session
    PROVE  StepLeft => pc = "step_done"
  <1>0. UNCHANGED <<cfg, crashes, resets>>
    BY DEF Session
  <1>n. /\ SessionType /\ mem.plan_completed = disk.plan_completed
    BY Numbers DEF FlagsSaved, SessionType, TaskStates
  <1> USE DEF Same, Control, Locally, LocalFields, Ghostly, GhostFields,
      SavesAt, GoesTo, EndsWith, FailsWith, Keeps, NoLocals, StepLeft,
      FlagsSaved, StepsAgree, OpenSession, GateFields, FixFields, ReviewPassed,
      SecurityPassed, WriterBegins, TestsLeft, RetestsReview, RetestsSecurity,
      GatePassed, EntersFinal, OpenFields, StepFields, AuditFields, LoopFields,
      AllStale, SecurityStale, ReviewDue, SecurityDue, SemanticGatesPending,
      AlreadyImplemented
  <1>1. CASE Prepare
    <2>1. CASE CheckCoverage
      BY <1>0, <1>n, <2>1, CheckCoverageEffect
    <2>2. CASE RunPresync
      BY <1>0, <1>n, <2>2, RunPresyncEffect
    <2>3. CASE Analyze
      BY <1>0, <1>n, <2>3, AnalyzeEffect
    <2>4. CASE Plan
      BY <1>0, <1>n, <2>4, PlanEffect
    <2>5. CASE Dispatch
      BY <1>0, <1>n, <2>5, DispatchEffect
    <2> QED
      BY <1>1, <2>1, <2>2, <2>3, <2>4, <2>5 DEF Prepare
  <1>2. CASE ImplementStep
    <2>1. CASE SkipImplement
      BY <1>0, <1>n, <2>1, SkipImplementEffect
    <2>2. CASE Implement
      BY <1>0, <1>n, <2>2, ImplementEffect
    <2>3. CASE TaskImplemented
      BY <1>0, <1>n, <2>3, TaskImplementedEffect
    <2>4. CASE StepImplemented
      BY <1>0, <1>n, <2>4, StepImplementedEffect
    <2>5. CASE ResumeCheck
      BY <1>0, <1>n, <2>5, ResumeCheckEffect
    <2> QED
      BY <1>2, <2>1, <2>2, <2>3, <2>4, <2>5 DEF ImplementStep
  <1>3. CASE ReviewGates
    <2>1. CASE SkipReview
      BY <1>0, <1>n, <2>1, SkipReviewEffect
    <2>2. CASE Review
      BY <1>0, <1>n, <2>2, ReviewEffect
    <2>3. CASE ReviewFix
      BY <1>0, <1>n, <2>3, FixGateEffect DEF ReviewFix
    <2>4. CASE ReviewFixHandled
      BY <1>0, <1>n, <2>4, GateFixHandledEffect DEF ReviewFixHandled
    <2>5. CASE SkipSecurity
      BY <1>0, <1>n, <2>5, SkipSecurityEffect
    <2>6. CASE SecurityReview
      BY <1>0, <1>n, <2>6, SecurityReviewEffect
    <2>7. CASE SecurityFix
      BY <1>0, <1>n, <2>7, FixGateEffect DEF SecurityFix
    <2>8. CASE SecurityFixHandled
      BY <1>0, <1>n, <2>8, GateFixHandledEffect DEF SecurityFixHandled
    <2>9. CASE FastPath
      BY <1>0, <1>n, <2>9, FastPathEffect
    <2> QED
      BY <1>3, <2>1, <2>2, <2>3, <2>4, <2>5, <2>6, <2>7, <2>8, <2>9 DEF
         ReviewGates
  <1>4. CASE TestGate
    <2>1. CASE SkipTests
      BY <1>0, <1>n, <2>1, SkipTestsEffect
    <2>2. CASE BeginTestWriting
      BY <1>0, <1>n, <2>2, BeginTestWritingEffect
    <2>3. CASE TestWriter
      BY <1>0, <1>n, <2>3, TestWriterEffect
    <2>4. CASE RecordAuditFiles
      BY <1>0, <1>n, <2>4, RecordAuditFilesEffect
    <2>5. CASE RetryTestWriter
      BY <1>0, <1>n, <2>5, RetryTestWriterEffect
    <2>6. CASE FinishAudit
      BY <1>0, <1>n, <2>6, FinishAuditControl
    <2>7. CASE TestsDone
      BY <1>0, <1>n, <2>7, TestsDoneEffect
    <2>8. CASE RetestReview
      BY <1>0, <1>n, <2>8, RetestReviewEffect
    <2>9. CASE RetestReviewed
      BY <1>0, <1>n, <2>9, RetestReviewedEffect
    <2>10. CASE RetestSecurity
      BY <1>0, <1>n, <2>10, RetestSecurityEffect
    <2> QED
      BY <1>4, <2>1, <2>2, <2>3, <2>4, <2>5, <2>6, <2>7, <2>8, <2>9, <2>10 DEF
         TestGate
  <1>5. CASE Validate
    <2>1. CASE GatesDone
      BY <1>0, <1>n, <2>1, GatesDoneEffect
    <2>2. CASE BuildLoop
      BY <1>0, <1>n, <2>2, BuildLoopEffect
    <2>3. CASE LoopHead
      BY <1>0, <1>n, <2>3, LoopHeadEffect
    <2>4. CASE Sync
      BY <1>0, <1>n, <2>4, SyncEffect
    <2>5. CASE Build
      BY <1>0, <1>n, <2>5, BuildEffect
    <2>6. CASE Test
      BY <1>0, <1>n, <2>6, TestEffect
    <2>7. CASE Check
      BY <1>0, <1>n, <2>7, CheckEffect
    <2>8. CASE PostValidation
      BY <1>0, <1>n, <2>8, PostValidationEffect
    <2>9. CASE Accept
      BY <1>0, <1>n, <2>9, AcceptEffect
    <2>10. CASE Fixer
      BY <1>0, <1>n, <2>10, FixerEffect
    <2>11. CASE RetryFixer
      BY <1>0, <1>n, <2>11, RetryFixerEffect
    <2>12. CASE FixerHandled
      BY <1>0, <1>n, <2>12, FixerHandledEffect
    <2> QED
      BY <1>5, <2>1, <2>2, <2>3, <2>4, <2>5, <2>6, <2>7, <2>8, <2>9, <2>10,
         <2>11, <2>12 DEF Validate
  <1>6. CASE PlanSteps
    <2>1. CASE StepDone
      BY <1>0, <1>n, <2>1, StepDoneEffect
    <2>2. CASE AfterPlan
      BY <1>0, <1>n, <2>2, AfterPlanEffect
    <2>3. CASE FinalValidate
      BY <1>0, <1>n, <2>3, FinalValidateEffect
    <2> QED
      BY <1>6, <2>1, <2>2, <2>3 DEF PlanSteps
  <1> QED
    BY <1>1, <1>2, <1>3, <1>4, <1>5, <1>6 DEF Session

LEMMA OthersLeave ==
    ASSUME TypeOK, OpenSession, FlagsSaved, StepsAgree, Invoke \/ Crash \/
           ResetFailed
    PROVE  ~StepLeft
  <1>n. /\ SessionType /\ mem.plan_completed = disk.plan_completed
    BY Numbers DEF FlagsSaved, SessionType, TaskStates
  <1> USE DEF Same, Control, Locally, LocalFields, Ghostly, GhostFields,
      SavesAt, GoesTo, EndsWith, FailsWith, Keeps, NoLocals, StepLeft,
      FlagsSaved, StepsAgree, OpenSession, ResetFields
  <1>1. CASE Invoke
    BY <1>n, <1>1, InvokeEffect
  <1>2. CASE Crash
    BY <1>n, <1>2, CrashEffect
  <1>3. CASE ResetFailed
    BY <1>n, <1>3, ResetFailedEffect
  <1> QED
    BY <1>1, <1>2, <1>3

LEMMA SessionStepTested ==
    ASSUME TypeOK, OpenSession, FlagsSaved, Placed, FixesAreDue, ReviewCurrent,
           SecurityCurrent, AuditKept, TestsCurrent, StepTested, Session
    PROVE  StepTested'
  <1>0. UNCHANGED <<cfg, crashes, resets>>
    BY DEF Session
  <1>n. /\ SessionType /\ mem.plan \in Nat /\ disk.plan \in Nat /\ crashes \in Nat /\ resets \in Nat
        /\ cfg.review_fix => ~cfg.run_planner
    BY Numbers, ConfigsAssumption DEF TypeOK
  <1> USE DEF Same, Control, Locally, LocalFields, Ghostly, GhostFields,
      SavesAt, GoesTo, EndsWith, FailsWith, Keeps, NoLocals, StepBuilds,
      TestsUpToDate, FlagsSaved, Placed, FixesAreDue, ReviewCurrent,
      SecurityCurrent, AuditKept, TestsCurrent, StepTested, TestsAnswerable,
      Answerable, Uninterrupted, AfterTests, Told, OpenSession, RetestPlaces,
      AfterReview, AfterSecurity, Begun, FixPlaces, InStep, LoopOrEntry,
      PostGates, LoopPlaces, GatePlaces, Planning, EarlyPlaces, GateFields,
      FixFields, ReviewPassed, SecurityPassed, WriterBegins, TestsLeft,
      RetestsReview, RetestsSecurity, GatePassed, EntersFinal, OpenFields,
      StepFields, AuditFields, LoopFields, AllStale, SecurityStale, ReviewDue,
      SecurityDue, SemanticGatesPending, AlreadyImplemented
  <1>1. CASE Prepare
    <2>1. CASE CheckCoverage
      BY <1>0, <1>n, <2>1, CheckCoverageEffect
    <2>2. CASE RunPresync
      BY <1>0, <1>n, <2>2, RunPresyncEffect
    <2>3. CASE Analyze
      BY <1>0, <1>n, <2>3, AnalyzeEffect
    <2>4. CASE Plan
      BY <1>0, <1>n, <2>4, PlanEffect
    <2>5. CASE Dispatch
      BY <1>0, <1>n, <2>5, DispatchEffect
    <2> QED
      BY <1>1, <2>1, <2>2, <2>3, <2>4, <2>5 DEF Prepare
  <1>2. CASE ImplementStep
    <2>1. CASE SkipImplement
      BY <1>0, <1>n, <2>1, SkipImplementEffect
    <2>2. CASE Implement
      BY <1>0, <1>n, <2>2, ImplementEffect
    <2>3. CASE TaskImplemented
      BY <1>0, <1>n, <2>3, TaskImplementedEffect
    <2>4. CASE StepImplemented
      BY <1>0, <1>n, <2>4, StepImplementedEffect
    <2>5. CASE ResumeCheck
      BY <1>0, <1>n, <2>5, ResumeCheckEffect
    <2> QED
      BY <1>2, <2>1, <2>2, <2>3, <2>4, <2>5 DEF ImplementStep
  <1>3. CASE ReviewGates
    <2>1. CASE SkipReview
      BY <1>0, <1>n, <2>1, SkipReviewEffect
    <2>2. CASE Review
      BY <1>0, <1>n, <2>2, ReviewEffect
    <2>3. CASE ReviewFix
      BY <1>0, <1>n, <2>3, FixGateEffect DEF ReviewFix
    <2>4. CASE ReviewFixHandled
      BY <1>0, <1>n, <2>4, GateFixHandledEffect DEF ReviewFixHandled
    <2>5. CASE SkipSecurity
      BY <1>0, <1>n, <2>5, SkipSecurityEffect
    <2>6. CASE SecurityReview
      BY <1>0, <1>n, <2>6, SecurityReviewEffect
    <2>7. CASE SecurityFix
      BY <1>0, <1>n, <2>7, FixGateEffect DEF SecurityFix
    <2>8. CASE SecurityFixHandled
      BY <1>0, <1>n, <2>8, GateFixHandledEffect DEF SecurityFixHandled
    <2>9. CASE FastPath
      BY <1>0, <1>n, <2>9, FastPathEffect
    <2> QED
      BY <1>3, <2>1, <2>2, <2>3, <2>4, <2>5, <2>6, <2>7, <2>8, <2>9 DEF
         ReviewGates
  <1>4. CASE TestGate
    <2>1. CASE SkipTests
      BY <1>0, <1>n, <2>1, SkipTestsEffect
    <2>2. CASE BeginTestWriting
      BY <1>0, <1>n, <2>2, BeginTestWritingEffect
    <2>3. CASE TestWriter
      BY <1>0, <1>n, <2>3, TestWriterEffect
    <2>4. CASE RecordAuditFiles
      BY <1>0, <1>n, <2>4, RecordAuditFilesEffect
    <2>5. CASE RetryTestWriter
      BY <1>0, <1>n, <2>5, RetryTestWriterEffect
    <2>6. CASE FinishAudit
      BY <1>0, <1>n, <2>6, FinishAuditControl
    <2>7. CASE TestsDone
      BY <1>0, <1>n, <2>7, TestsDoneEffect
    <2>8. CASE RetestReview
      BY <1>0, <1>n, <2>8, RetestReviewEffect
    <2>9. CASE RetestReviewed
      BY <1>0, <1>n, <2>9, RetestReviewedEffect
    <2>10. CASE RetestSecurity
      BY <1>0, <1>n, <2>10, RetestSecurityEffect
    <2> QED
      BY <1>4, <2>1, <2>2, <2>3, <2>4, <2>5, <2>6, <2>7, <2>8, <2>9, <2>10 DEF
         TestGate
  <1>5. CASE Validate
    <2>1. CASE GatesDone
      BY <1>0, <1>n, <2>1, GatesDoneEffect
    <2>2. CASE BuildLoop
      BY <1>0, <1>n, <2>2, BuildLoopEffect
    <2>3. CASE LoopHead
      BY <1>0, <1>n, <2>3, LoopHeadEffect
    <2>4. CASE Sync
      BY <1>0, <1>n, <2>4, SyncEffect
    <2>5. CASE Build
      BY <1>0, <1>n, <2>5, BuildEffect
    <2>6. CASE Test
      BY <1>0, <1>n, <2>6, TestEffect
    <2>7. CASE Check
      BY <1>0, <1>n, <2>7, CheckEffect
    <2>8. CASE PostValidation
      BY <1>0, <1>n, <2>8, PostValidationEffect
    <2>9. CASE Accept
      BY <1>0, <1>n, <2>9, AcceptEffect
    <2>10. CASE Fixer
      BY <1>0, <1>n, <2>10, FixerEffect
    <2>11. CASE RetryFixer
      BY <1>0, <1>n, <2>11, RetryFixerEffect
    <2>12. CASE FixerHandled
      BY <1>0, <1>n, <2>12, FixerHandledEffect
    <2> QED
      BY <1>5, <2>1, <2>2, <2>3, <2>4, <2>5, <2>6, <2>7, <2>8, <2>9, <2>10,
         <2>11, <2>12 DEF Validate
  <1>6. CASE PlanSteps
    <2>1. CASE StepDone
      BY <1>0, <1>n, <2>1, StepDoneEffect
    <2>2. CASE AfterPlan
      BY <1>0, <1>n, <2>2, AfterPlanEffect
    <2>3. CASE FinalValidate
      BY <1>0, <1>n, <2>3, FinalValidateEffect
    <2> QED
      BY <1>6, <2>1, <2>2, <2>3 DEF PlanSteps
  <1> QED
    BY <1>1, <1>2, <1>3, <1>4, <1>5, <1>6 DEF Session

LEMMA OthersStepTested ==
    ASSUME TypeOK, OpenSession, FlagsSaved, StepTested, Invoke \/ Crash \/
           ResetFailed
    PROVE  StepTested'
  <1>n. /\ SessionType /\ mem.plan \in Nat /\ disk.plan \in Nat /\ crashes \in Nat /\ resets \in Nat
        /\ cfg.review_fix => ~cfg.run_planner
    BY Numbers, ConfigsAssumption DEF TypeOK
  <1> USE DEF Same, Control, Locally, LocalFields, Ghostly, GhostFields,
      SavesAt, GoesTo, EndsWith, FailsWith, Keeps, NoLocals, StepBuilds,
      StepTested, FlagsSaved, OpenSession, InStep, Planning, ResetFields
  <1>1. CASE Invoke
    BY <1>n, <1>1, InvokeEffect
  <1>2. CASE Crash
    BY <1>n, <1>2, CrashEffect
  <1>3. CASE ResetFailed
    BY <1>n, <1>3, ResetFailedEffect
  <1> QED
    BY <1>1, <1>2, <1>3

LEMMA SessionStepReady ==
    ASSUME TypeOK, OpenSession, Placed, ReviewCurrent, SecurityCurrent,
           PostValidated, TestsCurrent, StepTested, StepReady, Session
    PROVE  StepReady'
  <1>0. UNCHANGED <<cfg, crashes, resets>>
    BY DEF Session
  <1>n. /\ SessionType /\ mem.plan \in Nat /\ disk.plan \in Nat /\ crashes \in Nat /\ resets \in Nat
        /\ cfg.review_fix => ~cfg.run_planner
    BY Numbers, ConfigsAssumption DEF TypeOK
  <1> USE DEF Same, Control, Locally, LocalFields, Ghostly, GhostFields,
      SavesAt, GoesTo, EndsWith, FailsWith, Keeps, NoLocals, StepBuilds,
      Placed, ReviewCurrent, SecurityCurrent, PostValidated, TestsCurrent,
      StepTested, StepReady, AuditKept, TestsAnswerable, Answerable,
      Uninterrupted, AfterTests, Told, OpenSession, RetestPlaces, AfterReview,
      AfterSecurity, Begun, FixPlaces, InStep, LoopOrEntry, PostGates,
      LoopPlaces, GatePlaces, Planning, EarlyPlaces, GateFields, FixFields,
      ReviewPassed, SecurityPassed, WriterBegins, TestsLeft, RetestsReview,
      RetestsSecurity, GatePassed, EntersFinal, OpenFields, StepFields,
      AuditFields, LoopFields, AllStale, SecurityStale, ReviewDue, SecurityDue,
      SemanticGatesPending, AlreadyImplemented, Validated
  <1>1. CASE Prepare
    <2>1. CASE CheckCoverage
      BY <1>0, <1>n, <2>1, CheckCoverageEffect
    <2>2. CASE RunPresync
      BY <1>0, <1>n, <2>2, RunPresyncEffect
    <2>3. CASE Analyze
      BY <1>0, <1>n, <2>3, AnalyzeEffect
    <2>4. CASE Plan
      BY <1>0, <1>n, <2>4, PlanEffect
    <2>5. CASE Dispatch
      BY <1>0, <1>n, <2>5, DispatchEffect
    <2> QED
      BY <1>1, <2>1, <2>2, <2>3, <2>4, <2>5 DEF Prepare
  <1>2. CASE ImplementStep
    <2>1. CASE SkipImplement
      BY <1>0, <1>n, <2>1, SkipImplementEffect
    <2>2. CASE Implement
      BY <1>0, <1>n, <2>2, ImplementEffect
    <2>3. CASE TaskImplemented
      BY <1>0, <1>n, <2>3, TaskImplementedEffect
    <2>4. CASE StepImplemented
      BY <1>0, <1>n, <2>4, StepImplementedEffect
    <2>5. CASE ResumeCheck
      BY <1>0, <1>n, <2>5, ResumeCheckEffect
    <2> QED
      BY <1>2, <2>1, <2>2, <2>3, <2>4, <2>5 DEF ImplementStep
  <1>3. CASE ReviewGates
    <2>1. CASE SkipReview
      BY <1>0, <1>n, <2>1, SkipReviewEffect
    <2>2. CASE Review
      BY <1>0, <1>n, <2>2, ReviewEffect
    <2>3. CASE ReviewFix
      BY <1>0, <1>n, <2>3, FixGateEffect DEF ReviewFix
    <2>4. CASE ReviewFixHandled
      BY <1>0, <1>n, <2>4, GateFixHandledEffect DEF ReviewFixHandled
    <2>5. CASE SkipSecurity
      BY <1>0, <1>n, <2>5, SkipSecurityEffect
    <2>6. CASE SecurityReview
      BY <1>0, <1>n, <2>6, SecurityReviewEffect
    <2>7. CASE SecurityFix
      BY <1>0, <1>n, <2>7, FixGateEffect DEF SecurityFix
    <2>8. CASE SecurityFixHandled
      BY <1>0, <1>n, <2>8, GateFixHandledEffect DEF SecurityFixHandled
    <2>9. CASE FastPath
      BY <1>0, <1>n, <2>9, FastPathEffect
    <2> QED
      BY <1>3, <2>1, <2>2, <2>3, <2>4, <2>5, <2>6, <2>7, <2>8, <2>9 DEF
         ReviewGates
  <1>4. CASE TestGate
    <2>1. CASE SkipTests
      BY <1>0, <1>n, <2>1, SkipTestsEffect
    <2>2. CASE BeginTestWriting
      BY <1>0, <1>n, <2>2, BeginTestWritingEffect
    <2>3. CASE TestWriter
      BY <1>0, <1>n, <2>3, TestWriterEffect
    <2>4. CASE RecordAuditFiles
      BY <1>0, <1>n, <2>4, RecordAuditFilesEffect
    <2>5. CASE RetryTestWriter
      BY <1>0, <1>n, <2>5, RetryTestWriterEffect
    <2>6. CASE FinishAudit
      BY <1>0, <1>n, <2>6, FinishAuditControl
    <2>7. CASE TestsDone
      BY <1>0, <1>n, <2>7, TestsDoneEffect
    <2>8. CASE RetestReview
      BY <1>0, <1>n, <2>8, RetestReviewEffect
    <2>9. CASE RetestReviewed
      BY <1>0, <1>n, <2>9, RetestReviewedEffect
    <2>10. CASE RetestSecurity
      BY <1>0, <1>n, <2>10, RetestSecurityEffect
    <2> QED
      BY <1>4, <2>1, <2>2, <2>3, <2>4, <2>5, <2>6, <2>7, <2>8, <2>9, <2>10 DEF
         TestGate
  <1>5. CASE Validate
    <2>1. CASE GatesDone
      BY <1>0, <1>n, <2>1, GatesDoneEffect
    <2>2. CASE BuildLoop
      BY <1>0, <1>n, <2>2, BuildLoopEffect
    <2>3. CASE LoopHead
      BY <1>0, <1>n, <2>3, LoopHeadEffect
    <2>4. CASE Sync
      BY <1>0, <1>n, <2>4, SyncEffect
    <2>5. CASE Build
      BY <1>0, <1>n, <2>5, BuildEffect
    <2>6. CASE Test
      BY <1>0, <1>n, <2>6, TestEffect
    <2>7. CASE Check
      BY <1>0, <1>n, <2>7, CheckEffect
    <2>8. CASE PostValidation
      BY <1>0, <1>n, <2>8, PostValidationEffect
    <2>9. CASE Accept
      <3>1. ~LoopSetsDone(mem) => InStep
        BY <1>n, LoopKeyCases DEF SessionType, InStep
      <3> QED
        BY <1>0, <1>n, <2>9, <3>1, AcceptEffect
    <2>10. CASE Fixer
      BY <1>0, <1>n, <2>10, FixerEffect
    <2>11. CASE RetryFixer
      BY <1>0, <1>n, <2>11, RetryFixerEffect
    <2>12. CASE FixerHandled
      BY <1>0, <1>n, <2>12, FixerHandledEffect
    <2> QED
      BY <1>5, <2>1, <2>2, <2>3, <2>4, <2>5, <2>6, <2>7, <2>8, <2>9, <2>10,
         <2>11, <2>12 DEF Validate
  <1>6. CASE PlanSteps
    <2>1. CASE StepDone
      BY <1>0, <1>n, <2>1, StepDoneEffect
    <2>2. CASE AfterPlan
      BY <1>0, <1>n, <2>2, AfterPlanEffect
    <2>3. CASE FinalValidate
      BY <1>0, <1>n, <2>3, FinalValidateEffect
    <2> QED
      BY <1>6, <2>1, <2>2, <2>3 DEF PlanSteps
  <1> QED
    BY <1>1, <1>2, <1>3, <1>4, <1>5, <1>6 DEF Session

LEMMA OthersStepReady ==
    ASSUME TypeOK, OpenSession, StepReady, Invoke \/ Crash \/ ResetFailed
    PROVE  StepReady'
  <1>n. /\ SessionType
    BY Numbers
  <1> USE DEF Same, Control, Locally, LocalFields, Ghostly, GhostFields,
      SavesAt, GoesTo, EndsWith, FailsWith, Keeps, NoLocals, StepReady,
      OpenSession
  <1>1. CASE Invoke
    BY <1>n, <1>1, InvokeEffect
  <1>2. CASE Crash
    BY <1>n, <1>2, CrashEffect
  <1>3. CASE ResetFailed
    BY <1>n, <1>3, ResetFailedEffect
  <1> QED
    BY <1>1, <1>2, <1>3
-----------------------------------------------------------------------------
(* The inductive invariant: every part above, with the promises they are   *)
(* for.                                                                    *)
Promises == DoneMeansValidated /\ DoneMeansTested

GatesInv ==
    /\ FlagsSaved /\ Placed /\ FixerIdle /\ FixesCounted
    /\ ReviewCurrent /\ WholeReview /\ FixesAreDue /\ SecurityCurrent
    /\ GatesRecorded /\ PostValidated /\ Scoped /\ FirstLook
    /\ AuditKept /\ TestsCurrent
    /\ StepsAgree /\ StepTested /\ StepReady /\ Promises

(* A task as the store creates it.                                         *)
LEMMA NewTaskFields ==
    ASSUME Init
    PROVE  /\ cfg \in Config /\ (cfg.review_fix => ~cfg.run_planner)
           /\ pc = "idle" /\ loc = NoLocals /\ mem = disk /\ crashes = 0 /\ resets = 0
           /\ mem.plan = 0 /\ (mem.plan_decided <=> cfg.review_fix)
           /\ (mem.files_changed <=> cfg.review_fix)
           /\ ~mem.plan_completed /\ ~mem.step_implemented
           /\ mem.active_scope = NoScope /\ ~mem.final_full_task_review_done
           /\ mem.build_iterations = 0 /\ mem.build_loop_start_iteration = 0
           /\ mem.build_loop_key = NoKey /\ ~mem.fixer_changed_code
           /\ ~mem.review_approved /\ ~mem.security_approved /\ ~mem.tests_up_to_date
           /\ mem.test_writer_audit = "none" /\ ~mem.test_execution_gate_records
           /\ ~mem.done /\ ~mem.failed
           /\ work.stale = [g \in Gates |-> {}] /\ ~work.gated /\ ~work.full_review
           /\ work.fixes = 0
  BY ConfigsAssumption DEF Init, NewTask, Untouched

LEMMA GatesInvInit == Init => GatesInv
  <1> SUFFICES ASSUME Init PROVE GatesInv
    OBVIOUS
  <1>1. NoKey # <<"final", 0>>
    BY DEF NoKey
  <1>2. FlagsSaved /\ Placed /\ FixerIdle
    BY <1>1, NewTaskFields
    DEF FlagsSaved, Placed, FixerIdle, FixerIdleIn, Planning, InStep, LoopOrEntry,
        PostGates, GatePlaces, LoopPlaces, EarlyPlaces, NoScope, FinalScope
  <1>3. FixesCounted
    BY NewTaskFields
    DEF FixesCounted, FixerBudget, Counted, PostGates, GatePlaces, LoopPlaces, Config
  <1>4. ReviewCurrent /\ WholeReview
    BY <1>1, NewTaskFields
    DEF ReviewCurrent, WholeReview, SeenWhole, FixPlaces, AfterReview, GatePlaces,
        LoopOrEntry, PostGates, LoopPlaces
  <1>5. FixesAreDue /\ SecurityCurrent
    BY NewTaskFields
    DEF FixesAreDue, SecurityCurrent, FixPlaces, AfterSecurity, RetestPlaces
  <1>6. GatesRecorded /\ PostValidated
    BY NewTaskFields
    DEF GatesRecorded, PostValidated, PostGates, GatePlaces, RetestPlaces, NoLocals
  <1>7. Scoped /\ FirstLook
    BY NewTaskFields DEF Scoped, FirstLook, Fresh, GatePlaces, Gates
  <1>8. AuditKept /\ TestsCurrent
    BY NewTaskFields DEF AuditKept, TestsCurrent, AfterTests, RetestPlaces
  <1>9. Promises
    BY NewTaskFields DEF Promises, DoneMeansValidated, DoneMeansTested
  <1>10. StepsAgree /\ StepTested /\ StepReady
    BY NewTaskFields DEF StepsAgree, StepTested, StepReady, InStep
  <1> QED
    BY <1>2, <1>3, <1>4, <1>5, <1>6, <1>7, <1>8, <1>9, <1>10 DEF GatesInv

LEMMA GatesInvSession == IInv /\ GatesInv /\ Session => GatesInv'
  <1> SUFFICES ASSUME IInv, GatesInv, Session PROVE GatesInv'
    OBVIOUS
  <1>1. TypeOK /\ OpenSession
    BY DEF IInv
  <1> USE <1>1 DEF GatesInv, Promises
  <1>2. FlagsSaved' /\ Placed' /\ FixerIdle' /\ FixesCounted'
    BY SessionSavesFlags, SessionPlaced, SessionFixerIdle, SessionCounts
  <1>3. ReviewCurrent' /\ WholeReview'
    BY SessionReviews, SessionReviewsWhole
  <1>4. FixesAreDue' /\ SecurityCurrent'
    BY SessionFixesDue, SessionSecures
  <1>5. GatesRecorded' /\ PostValidated'
    BY SessionRecordsGates, SessionPostValidates
  <1>6. Scoped' /\ FirstLook'
    BY SessionScoped, SessionLooksFirst
  <1>7. AuditKept' /\ TestsCurrent'
    BY SessionAudits, SessionTests
  <1>8. Promises'
    BY SessionValidates, SessionTestsDone
  <1>9. StepsAgree' /\ StepTested' /\ StepReady'
    BY SessionStepsAgree, SessionStepTested, SessionStepReady
  <1> QED
    BY <1>2, <1>3, <1>4, <1>5, <1>6, <1>7, <1>8, <1>9

LEMMA GatesInvOthers ==
    IInv /\ GatesInv /\ (Invoke \/ Crash \/ ResetFailed) => GatesInv'
  <1> SUFFICES ASSUME IInv, GatesInv, Invoke \/ Crash \/ ResetFailed PROVE GatesInv'
    OBVIOUS
  <1>1. TypeOK /\ OpenSession
    BY DEF IInv
  <1> USE <1>1 DEF GatesInv, Promises
  <1>2. FlagsSaved' /\ Placed' /\ FixerIdle' /\ FixesCounted'
    BY OthersSaveFlags, OthersPlace, OthersFixerIdle, OthersCount
  <1>3. ReviewCurrent' /\ WholeReview'
    BY OthersReview, OthersReviewWhole
  <1>4. FixesAreDue' /\ SecurityCurrent'
    BY OthersFixesDue, OthersSecure
  <1>5. GatesRecorded' /\ PostValidated'
    BY OthersRecordGates, OthersPostValidate
  <1>6. Scoped' /\ FirstLook'
    BY OthersScoped, OthersLookFirst
  <1>7. AuditKept' /\ TestsCurrent'
    BY OthersAudit, OthersTest
  <1>8. Promises'
    BY OthersValidate, OthersTestDone
  <1>9. StepsAgree' /\ StepTested' /\ StepReady'
    BY OthersStepsAgree, OthersStepTested, OthersStepReady
  <1> QED
    BY <1>2, <1>3, <1>4, <1>5, <1>6, <1>7, <1>8, <1>9

LEMMA GatesInvStutters == GatesInv /\ UNCHANGED vars => GatesInv'
  <1> SUFFICES ASSUME GatesInv, UNCHANGED vars PROVE GatesInv'
    OBVIOUS
  <1> USE DEF GatesInv, vars
  <1>1. FlagsSaved' /\ Placed' /\ FixerIdle'
    BY DEF FlagsSaved, Placed, FixerIdle, FixerIdleIn, Planning, InStep, StepBuilds,
           LoopOrEntry, PostGates
  <1>2. FixesCounted'
    BY DEF FixesCounted, FixerBudget, Counted, UsedNow, MayFix, Slack, PostGates
  <1>3. ReviewCurrent' /\ WholeReview'
    BY DEF ReviewCurrent, WholeReview, SeenWhole, Begun, Planning, LoopOrEntry, PostGates
  <1>4. FixesAreDue' /\ SecurityCurrent'
    BY DEF FixesAreDue, SecurityCurrent, Answerable, Uninterrupted, Begun, Planning
  <1>5. GatesRecorded' /\ PostValidated'
    BY DEF GatesRecorded, PostValidated, Validated, Changing, Iterated, PostGates
  <1>6. Scoped' /\ FirstLook'
    BY DEF Scoped, FirstLook, Fresh, Uninterrupted
  <1>7. AuditKept' /\ TestsCurrent'
    BY DEF AuditKept, TestsCurrent, TestsAnswerable, Answerable, Uninterrupted, Begun,
           Planning
  <1>8. Promises'
    BY DEF Promises, DoneMeansValidated, DoneMeansTested, Validated, Uninterrupted
  <1>9. StepsAgree' /\ StepTested' /\ StepReady'
    BY DEF StepsAgree, StepTested, StepReady, StepBuilds, Validated, InStep, Planning
  <1> QED
    BY <1>1, <1>2, <1>3, <1>4, <1>5, <1>6, <1>7, <1>8, <1>9

(* The invariant all of the following theorems rest on: every approval and *)
(* every counter of the durable state means what the orchestrator takes it *)
(* to mean, at every place of a session and between sessions.              *)
THEOREM GatesInvariant == Spec => [](IInv /\ GatesInv)
  <1>1. IInv /\ GatesInv /\ [Next]_vars => GatesInv'
    BY GatesInvSession, GatesInvOthers, GatesInvStutters DEF Next
  <1> QED
    BY <1>1, GatesInvInit, SessionInvariant, PTL DEF Spec

(* Whatever the configuration, the plan and the number of kills, failures, *)
(* resets and resumed sessions: a done task has had its final code seen by *)
(* the reviewer, the security reviewer, the test writer and the            *)
(* validation, and holds no execution gate, as far as the configuration    *)
(* asks for them (each part states the exceptions the code makes).         *)
THEOREM DoneIsGated == Spec => []DoneMeansGated
  <1>1. GatesInv => DoneMeansGated
    BY DEF GatesInv, Promises, DoneMeansGated, DoneMeansReviewed, DoneMeansSecured,
           DoneMeansNoActiveGate, GatesRecorded, ReviewCurrent, SecurityCurrent,
           Answerable, Produced
  <1> QED
    BY <1>1, GatesInvariant, PTL

(* A planned task is done only when the reviewer approved it as a whole,   *)
(* however many steps the plan has and wherever it was interrupted.        *)
THEOREM ReviewedAsAWhole == Spec => []DoneMeansReviewedAsAWhole
  <1>1. GatesInv => DoneMeansReviewedAsAWhole
    BY DEF GatesInv, DoneMeansReviewedAsAWhole, WholeReview
  <1> QED
    BY <1>1, GatesInvariant, PTL

(* No build/fix loop runs its fixer more often than max_iterations allows, *)
(* for every limit and every number of kills; each kill may cost one       *)
(* attempt its count only when no heartbeat saves it.                      *)
THEOREM FixerWithinBudget == Spec => []FixerBudget
  <1>1. GatesInv => FixerBudget
    BY DEF GatesInv, FixesCounted
  <1> QED
    BY <1>1, GatesInvariant, PTL

(* A step is left only from its end, where its gates have passed.          *)
LEMMA StepLeavesApproved ==
    ASSUME IInv, GatesInv, [Next]_vars, StepLeft, disk.step_files_changed
    PROVE  StepApproved
  <1>1. TypeOK /\ OpenSession /\ FlagsSaved /\ StepsAgree
    BY DEF IInv, GatesInv
  <1>2. pc = "step_done"
    <2>1. CASE Session
      BY <1>1, <2>1, SessionLeaves
    <2>2. CASE Invoke \/ Crash \/ ResetFailed
      BY <1>1, <2>2, OthersLeave
    <2>3. CASE UNCHANGED vars
      BY <2>3 DEF StepLeft, vars
    <2> QED
      BY <2>1, <2>2, <2>3 DEF Next
  <1>3. mem.step_files_changed /\ cfg.run_planner
    BY <1>1, <1>2 DEF StepsAgree, GatesInv, Placed, InStep
  <1>4. /\ cfg.run_review => mem.review_approved
        /\ cfg.run_security_review => mem.security_approved
        /\ cfg.run_test_writing /\ (StepBuilds => crashes = 0) => mem.tests_up_to_date
        /\ StepBuilds => Validated
    BY <1>2, <1>3 DEF GatesInv, StepReady
  <1>5. "review" \in Owed \cap Required => FALSE
    BY <1>4 DEF GatesInv, ReviewCurrent, Owed, Required, AnswersFor, Produced
  <1>6. "security" \in Owed \cap Required => FALSE
    BY <1>4 DEF GatesInv, SecurityCurrent, Answerable, Owed, Required, AnswersFor, Produced
  <1>7. StepBuilds => ("validation" \in Owed \cap Required => FALSE)
    BY <1>4 DEF Validated, Owed, AnswersFor
  <1>8. Owed \cap Required \subseteq IF StepBuilds THEN {} ELSE {"validation"}
    BY <1>5, <1>6, <1>7 DEF Owed, AcceptanceGates
  <1> QED
    BY <1>1, <1>4, <1>8 DEF FlagsSaved, StepApproved

(* However long the plan and however often it is interrupted: a step that  *)
(* changed files is left, for the next step or for the final gate, only    *)
(* with the approval of every gate that runs per step, and that approval   *)
(* covers the step's last change.                                          *)
THEOREM StepsLeftApproved == Spec => StepsLeaveApproved
  <1>1. IInv /\ GatesInv /\ [Next]_vars =>
          [StepLeft /\ disk.step_files_changed => StepApproved]_vars
    BY StepLeavesApproved
  <1> QED
    BY <1>1, GatesInvariant, PTL DEF Spec, StepsLeaveApproved
-----------------------------------------------------------------------------
(* The refinement of the lifecycle.  What a step does to the gates' debts: *)
(* they grow, or one gate has looked.                                      *)
Grown(v, w) == \A g \in Gates : w.stale[g] \subseteq v.stale[g]

Looks(g) ==
    /\ work'.stale[g] \cap AnswersFor(g) = {}
    /\ \A h \in Gates \ {g} :
         work'.stale[h] \cap AnswersFor(h) = work.stale[h] \cap AnswersFor(h)

(* A session's step goes on, or ends the session without the task being    *)
(* done, or records it done.                                               *)
Moves ==
    /\ pc # "idle"
    /\ \/ pc' # "idle" /\ (Grown(work', work) \/ \E g \in Gates : Looks(g))
       \/ pc' = "idle" /\ ~disk'.done /\ Grown(work', work)
       \/ pc' = "idle" /\ disk'.done /\ OwesSame(work', work)

LEMMA OwesGrown ==
    ASSUME NEW v, NEW w
    PROVE  /\ Grown(w, w)
           /\ OwesSame(v, w) => Grown(v, w)
           /\ v.stale = w.stale => Grown(v, w)
           /\ \A o, gs : Owes(v, w, o, gs) => Grown(v, w)
  BY DEF Grown, Owes, OwesSame

LEMMA GrownTrans ==
    ASSUME NEW u, NEW v, NEW w, Grown(u, v), Grown(v, w) PROVE Grown(u, w)
  BY DEF Grown

LEMMA ClearedLooks ==
    ASSUME NEW g \in Gates, Cleared(work', work, g) PROVE Looks(g)
  BY DEF Looks, Cleared

LEMMA KeptLostGrows == ASSUME NEW w \in Worktrees PROVE Grown(KeptLost(w), w)
  <1> DEFINE n == NeedsSync(Touch(w, "lost_fixer", Gates), "lost_fixer", loc.kept)
  <1>1. Owes(n, w, "lost_fixer", Gates)
    BY WrittenOwes, OriginsListed
  <1>2. KeptLost(w) = IF loc.kept = {} THEN w ELSE n
    BY DEF KeptLost
  <1> HIDE DEF n
  <1> QED
    BY <1>1, <1>2, OwesGrown

LEMMA FixerTouchedGrows ==
    ASSUME NEW w \in Worktrees, NEW wrote PROVE Grown(FixerTouched(w, wrote), w)
  <1> DEFINE gs == IF wrote = {"tests"} THEN {"security", "validation"} ELSE Gates
             n == NeedsSync(Touch(w, "fixer", gs), "fixer", wrote)
  <1>1. Owes(n, w, "fixer", gs)
    BY WrittenOwes, OriginsListed
  <1>2. FixerTouched(w, wrote) = IF wrote = {} THEN w ELSE n
    BY DEF FixerTouched
  <1> HIDE DEF n, gs
  <1> QED
    BY <1>1, <1>2, OwesGrown

LEMMA AutofixedGrows ==
    ASSUME NEW w \in Worktrees, NEW v \in Autofixed(w) PROVE Grown(v, w)
  BY TouchOwes, OriginsListed, OwesGrown DEF Autofixed

LEMMA FixerGrows == ASSUME SessionType, Fixer PROVE Grown(work', work)
  <1>0. work \in Worktrees
    BY DEF SessionType
  <1> DEFINE R == FixerRan
  <1>1. R \in Worktrees /\ R.stale = work.stale
    BY <1>0, FixerRanType, FixerRanCounts
  <1>2. Grown(R, work)
    BY <1>1, OwesGrown
  <1> HIDE DEF R
  <1>3. CASE work' = R
    BY <1>2, <1>3
  <1>4. ASSUME NEW wrote \in FixerWrites, work' = KeptLost(FixerTouched(R, wrote))
        PROVE  Grown(work', work)
    <2> DEFINE t == FixerTouched(R, wrote)
    <2>1. t \in Worktrees /\ Grown(t, R)
      BY <1>1, FixerTouchedType, FixerTouchedGrows
    <2> HIDE DEF t
    <2>2. Grown(work', t)
      BY <1>4, <2>1, KeptLostGrows DEF t
    <2> QED
      BY <1>2, <2>1, <2>2, GrownTrans
  <1>5. CASE work' \in {KeptLost(R), Lost(KeptLost(R), "lost_fixer")}
    <2> DEFINE k == KeptLost(R)
    <2>1. k \in Worktrees /\ Grown(k, work)
      BY <1>1, <1>2, KeptLostType, KeptLostGrows, GrownTrans
    <2> HIDE DEF k
    <2>2. Owes(Lost(k, "lost_fixer"), k, "lost_fixer", Gates)
      BY <2>1, LostOwes, OriginsListed
    <2>3. Grown(Lost(k, "lost_fixer"), work)
      BY <2>1, <2>2, OwesGrown, GrownTrans
    <2> QED
      BY <1>5, <2>1, <2>3 DEF k
  <1> QED
    BY <1>3, <1>4, <1>5 DEF Fixer, R

LEMMA FixerHandledGrows == ASSUME SessionType, FixerHandled PROVE Grown(work', work)
  <1>0. work \in Worktrees
    BY DEF SessionType
  <1> DEFINE all == loc.wrote \cup loc.kept
  <1>1. PICK gated \in BOOLEAN : work' = [FixerTouched(work, all) EXCEPT !.gated = gated]
    BY GatesAfterType DEF FixerHandled
  <1> HIDE DEF all
  <1> DEFINE t == FixerTouched(work, all)
  <1>2. t \in Worktrees /\ Grown(t, work)
    BY <1>0, FixerTouchedType, FixerTouchedGrows
  <1> HIDE DEF t
  <1>3. work'.stale = t.stale
    BY <1>1, <1>2, PutGhost DEF t
  <1> QED
    BY <1>2, <1>3, OwesGrown, GrownTrans

LEMMA CheckLooks ==
    ASSUME SessionType, Check
    PROVE  \/ pc' = "post" /\ Looks("validation")
           \/ Grown(work', work)
  <1>0. work \in Worktrees
    BY DEF SessionType
  <1> DEFINE l == Looked(work, "validation")
  <1>1. Cleared(l, work, "validation") /\ l \in Worktrees
    BY <1>0, LookedClears, LookedType, OriginsListed
  <1> HIDE DEF l
  <1>2. ASSUME work' \in Autofixed(l) \cup {l} PROVE Looks("validation")
    <2>1. CASE work' = l
      BY <1>1, <2>1, ClearedLooks DEF Gates
    <2>2. CASE work' = Touch(l, "autofix", Gates)
      <3>1. Owes(work', l, "autofix", Gates)
        BY <1>1, <2>2, TouchOwes, OriginsListed
      <3>2. \A g \in Gates : "autofix" \notin AnswersFor(g)
        BY DEF AnswersFor
      <3> QED
        BY <1>1, <3>1, <3>2 DEF Owes, Cleared, Looks, Gates
    <2> QED
      BY <1>2, <2>1, <2>2 DEF Autofixed
  <1>3. CASE work' \in Autofixed(work)
    BY <1>0, <1>3, AutofixedGrows
  <1>4. \/ work' \in Autofixed(work)
        \/ pc' = "post" /\ work' \in Autofixed(l) \cup {l}
    BY DEF Check, Goto, Unsaved, Saved, l
  <1> QED
    BY <1>2, <1>3, <1>4

LEMMA CrashGrows == ASSUME SessionType, Crash PROVE Grown(work', work)
  <1>0. work \in Worktrees
    BY DEF SessionType
  <1>1. Grown(Unhandled, work)
    <2>1. ASSUME NEW o \in Origins, NEW all
          PROVE  Grown(NeedsSync(Touch(work, o, Gates), o, all), work)
      BY <1>0, <2>1, WrittenOwes, OwesGrown
    <2> QED
      BY <1>0, <2>1, KeptLostGrows, OwesGrown, OriginsListed DEF Unhandled
  <1>2. ASSUME NEW v \in LeftBehind PROVE Grown(v, work)
    <2>1. CASE pc = "fixer"
      <3> DEFINE R == FixerRan
                 k == KeptLost(R)
      <3>1. R \in Worktrees /\ R.stale = work.stale
        BY <1>0, FixerRanType, FixerRanCounts
      <3>2. Grown(R, work)
        BY <3>1, OwesGrown
      <3>3. k \in Worktrees /\ Grown(k, R)
        BY <3>1, KeptLostType, KeptLostGrows
      <3>4. v = k \/ v = Lost(k, "lost_fixer")
        BY <2>1 DEF LeftBehind
      <3> HIDE DEF R, k
      <3>5. Owes(Lost(k, "lost_fixer"), k, "lost_fixer", Gates)
        BY <3>3, LostOwes, OriginsListed
      <3> QED
        BY <3>2, <3>3, <3>4, <3>5, OwesGrown, GrownTrans
    <2>2. CASE pc # "fixer"
      <3>1. Owes(Lost(work, "lost_implementer"), work, "lost_implementer", Gates)
        BY <1>0, LostOwes, OriginsListed
      <3>2. Owes(Touch(work, "lost_sync", Gates), work, "lost_sync", Gates)
        BY <1>0, TouchOwes, OriginsListed
      <3>3. [work EXCEPT !.interrupted_tests = TRUE].stale = work.stale
        BY <1>0, PutGhost
      <3>4. \A u \in Autofixed(work) : Grown(u, work)
        BY <1>0, AutofixedGrows
      <3>5. \/ v \in Autofixed(work)
            \/ v = Lost(work, "lost_implementer") \/ v = Touch(work, "lost_sync", Gates)
            \/ v = [work EXCEPT !.interrupted_tests = TRUE]
        BY <2>2 DEF LeftBehind, Autofixed
      <3> QED
        BY <3>1, <3>2, <3>3, <3>4, <3>5, OwesGrown
    <2> QED
      BY <2>1, <2>2
  <1> QED
    BY <1>1, <1>2 DEF Crash

LEMMA SessionMoves ==
    ASSUME TypeOK, OpenSession, Session
    PROVE  Moves
  <1>n. /\ SessionType /\ Grown(work, work)
        /\ OwesSame(work', work) => Grown(work', work)
        /\ work' = work => OwesSame(work', work)
        /\ \A o, gs : Owes(work', work, o, gs) => Grown(work', work)
        /\ \A g \in {"review", "security", "tests"} :
             Cleared(work', work, g) => \E h \in Gates : Looks(h)
    BY OwesGrown, ClearedLooks DEF TypeOK, OwesSame, SessionType, Gates
  <1> USE DEF Same, Control, SavesAt, GoesTo, EndsWith, FailsWith, Keeps,
      ReviewPassed, SecurityPassed, WriterBegins, TestsLeft, RetestsReview,
      RetestsSecurity, GatePassed, EntersFinal, OpenFields, StepFields,
      AuditFields, LoopFields, GateFields, FixFields, Moves, OpenSession
  <1>1. CASE Prepare
    <2>1. CASE CheckCoverage
      BY <1>n, <2>1, CheckCoverageEffect
    <2>2. CASE RunPresync
      BY <1>n, <2>2, RunPresyncEffect
    <2>3. CASE Analyze
      BY <1>n, <2>3, AnalyzeEffect
    <2>4. CASE Plan
      BY <1>n, <2>4, PlanEffect
    <2>5. CASE Dispatch
      BY <1>n, <2>5, DispatchEffect
    <2> QED
      BY <1>1, <2>1, <2>2, <2>3, <2>4, <2>5 DEF Prepare
  <1>2. CASE ImplementStep
    <2>1. CASE SkipImplement
      BY <1>n, <2>1, SkipImplementEffect
    <2>2. CASE Implement
      BY <1>n, <2>2, ImplementEffect
    <2>3. CASE TaskImplemented
      BY <1>n, <2>3, TaskImplementedEffect
    <2>4. CASE StepImplemented
      BY <1>n, <2>4, StepImplementedEffect
    <2>5. CASE ResumeCheck
      BY <1>n, <2>5, ResumeCheckEffect
    <2> QED
      BY <1>2, <2>1, <2>2, <2>3, <2>4, <2>5 DEF ImplementStep
  <1>3. CASE ReviewGates
    <2>1. CASE SkipReview
      BY <1>n, <2>1, SkipReviewEffect
    <2>2. CASE Review
      BY <1>n, <2>2, ReviewEffect
    <2>3. CASE ReviewFix
      BY <1>n, <2>3, FixGateEffect DEF ReviewFix
    <2>4. CASE ReviewFixHandled
      BY <1>n, <2>4, GateFixHandledEffect DEF ReviewFixHandled
    <2>5. CASE SkipSecurity
      BY <1>n, <2>5, SkipSecurityEffect
    <2>6. CASE SecurityReview
      BY <1>n, <2>6, SecurityReviewEffect
    <2>7. CASE SecurityFix
      BY <1>n, <2>7, FixGateEffect DEF SecurityFix
    <2>8. CASE SecurityFixHandled
      BY <1>n, <2>8, GateFixHandledEffect DEF SecurityFixHandled
    <2>9. CASE FastPath
      BY <1>n, <2>9, FastPathEffect
    <2> QED
      BY <1>3, <2>1, <2>2, <2>3, <2>4, <2>5, <2>6, <2>7, <2>8, <2>9 DEF
         ReviewGates
  <1>4. CASE TestGate
    <2>1. CASE SkipTests
      BY <1>n, <2>1, SkipTestsEffect
    <2>2. CASE BeginTestWriting
      BY <1>n, <2>2, BeginTestWritingEffect
    <2>3. CASE TestWriter
      BY <1>n, <2>3, TestWriterEffect
    <2>4. CASE RecordAuditFiles
      BY <1>n, <2>4, RecordAuditFilesEffect
    <2>5. CASE RetryTestWriter
      BY <1>n, <2>5, RetryTestWriterEffect
    <2>6. CASE FinishAudit
      BY <1>n, <2>6, FinishAuditEffect, FinishAuditControl
    <2>7. CASE TestsDone
      BY <1>n, <2>7, TestsDoneEffect
    <2>8. CASE RetestReview
      BY <1>n, <2>8, RetestReviewEffect
    <2>9. CASE RetestReviewed
      BY <1>n, <2>9, RetestReviewedEffect
    <2>10. CASE RetestSecurity
      BY <1>n, <2>10, RetestSecurityEffect
    <2> QED
      BY <1>4, <2>1, <2>2, <2>3, <2>4, <2>5, <2>6, <2>7, <2>8, <2>9, <2>10 DEF
         TestGate
  <1>5. CASE Validate
    <2>1. CASE GatesDone
      BY <1>n, <2>1, GatesDoneEffect
    <2>2. CASE BuildLoop
      BY <1>n, <2>2, BuildLoopEffect
    <2>3. CASE LoopHead
      BY <1>n, <2>3, LoopHeadEffect
    <2>4. CASE Sync
      BY <1>n, <2>4, SyncEffect
    <2>5. CASE Build
      BY <1>n, <2>5, BuildEffect
    <2>6. CASE Test
      BY <1>n, <2>6, TestEffect
    <2>7. CASE Check
      BY <1>n, <2>7, CheckEffect, CheckLooks DEF Gates
    <2>8. CASE PostValidation
      BY <1>n, <2>8, PostValidationEffect
    <2>9. CASE Accept
      BY <1>n, <2>9, AcceptEffect
    <2>10. CASE Fixer
      BY <1>n, <2>10, FixerEffect, FixerGrows
    <2>11. CASE RetryFixer
      BY <1>n, <2>11, RetryFixerEffect
    <2>12. CASE FixerHandled
      BY <1>n, <2>12, FixerHandledEffect, FixerHandledGrows
    <2> QED
      BY <1>5, <2>1, <2>2, <2>3, <2>4, <2>5, <2>6, <2>7, <2>8, <2>9, <2>10,
         <2>11, <2>12 DEF Validate
  <1>6. CASE PlanSteps
    <2>1. CASE StepDone
      BY <1>n, <2>1, StepDoneEffect
    <2>2. CASE AfterPlan
      BY <1>n, <2>2, AfterPlanEffect
    <2>3. CASE FinalValidate
      BY <1>n, <2>3, FinalValidateEffect
    <2> QED
      BY <1>6, <2>1, <2>2, <2>3 DEF PlanSteps
  <1> QED
    BY <1>1, <1>2, <1>3, <1>4, <1>5, <1>6 DEF Session

(* What the lifecycle sees of the debts.                                   *)
LEMMA OwedMoves ==
    /\ Grown(work', work) => Owed \subseteq Owed'
    /\ OwesSame(work', work) => Owed' = Owed
    /\ \A g \in AcceptanceGates : Looks(g) => Owed' = Owed \ {g}
    /\ Looks("tests") => Owed' = Owed
    /\ Owed \subseteq AcceptanceGates /\ Owed' \subseteq AcceptanceGates
  <1>1. AcceptanceGates \subseteq Gates /\ "tests" \notin AcceptanceGates
        /\ Gates = AcceptanceGates \cup {"tests"}
    BY DEF AcceptanceGates, Gates
  <1> USE DEF Owed
  <1>2. Grown(work', work) => Owed \subseteq Owed'
    BY <1>1 DEF Grown, AnswersFor
  <1>3. OwesSame(work', work) => Owed' = Owed
    BY <1>1 DEF OwesSame, AnswersFor
  <1>4. ASSUME NEW g \in Gates, Looks(g) PROVE Owed' = Owed \ {g}
    <2>1. \A h \in AcceptanceGates \ {g} : h \in Owed' <=> h \in Owed
      BY <1>1, <1>4 DEF Looks, AnswersFor
    <2>2. g \notin Owed'
      BY <1>1, <1>4 DEF Looks, AnswersFor
    <2> QED
      BY <2>1, <2>2
  <1>5. Looks("tests") => Owed' = Owed
    BY <1>1, <1>4
  <1> QED
    BY <1>1, <1>2, <1>3, <1>4, <1>5

LEMMA LifecycleInit == Init => Lifecycle!Init
  <1> SUFFICES ASSUME Init PROVE Lifecycle!Init
    OBVIOUS
  <1>1. Status = "open" /\ pc = "idle"
    BY NewTaskFields DEF Status
  <1>2. Owed = {}
    BY NewTaskFields DEF Owed, AcceptanceGates, Gates
  <1>3. Required \in SUBSET AcceptanceGates
    BY DEF Required
  <1> QED
    BY <1>1, <1>2, <1>3 DEF Lifecycle!Init

(* A session's steps write, look, finish or stop.                          *)
LEMMA SessionLives ==
    ASSUME TypeOK, OpenSession, TypeOK', OpenSession', DoneMeansGated', Session
    PROVE  Lifecycle!Next \/ UNCHANGED Lifecycle!vars
  <1>1. Moves
    BY SessionMoves
  <1>2. Required' = Required
    BY DEF Session, Required
  <1>3. Status = "open" /\ pc # "idle"
    BY <1>1 DEF Moves, OpenSession, Status
  <1>4. CASE pc' # "idle"
    <2>1. Status' = "open"
      BY <1>4 DEF OpenSession, Status
    <2>2. CASE Grown(work', work)
      <3>1. Lifecycle!Write
        BY <1>2, <1>3, <1>4, <2>1, <2>2, OwedMoves DEF Lifecycle!Write
      <3> QED
        BY <3>1 DEF Lifecycle!Next
    <2>3. ASSUME NEW g \in AcceptanceGates, Looks(g) PROVE Lifecycle!Next
      <3>1. Lifecycle!Look(g)
        BY <1>2, <1>3, <1>4, <2>1, <2>3, OwedMoves DEF Lifecycle!Look
      <3> QED
        BY <3>1 DEF Lifecycle!Next
    <2>4. CASE Looks("tests")
      BY <1>2, <1>3, <1>4, <2>1, <2>4, OwedMoves DEF Lifecycle!vars
    <2> QED
      BY <1>1, <1>4, <2>2, <2>3, <2>4 DEF Moves, Gates, AcceptanceGates
  <1>5. CASE pc' = "idle" /\ ~disk'.done /\ Grown(work', work)
    <2>1. Status' \in {"open", "failed"}
      BY <1>5 DEF Status
    <2>2. Lifecycle!Stop
      BY <1>2, <1>3, <1>5, <2>1, OwedMoves DEF Lifecycle!Stop
    <2> QED
      BY <2>2 DEF Lifecycle!Next
  <1>6. CASE pc' = "idle" /\ disk'.done /\ OwesSame(work', work)
    <2>1. Status' = "done"
      BY <1>6 DEF Status
    <2>2. Owed' \cap Required' = {}
      <3>1. \A g \in Gates : work'.stale[g] \subseteq Origins
        BY DEF TypeOK, Worktrees
      <3> QED
        BY <1>6, <3>1
        DEF DoneMeansGated, DoneMeansReviewed, DoneMeansSecured, DoneMeansValidated,
            Validated, Owed, Required, AnswersFor, AcceptanceGates, Gates
    <2>3. Lifecycle!Finish
      BY <1>2, <1>3, <1>6, <2>1, <2>2, OwedMoves DEF Lifecycle!Finish
    <2> QED
      BY <2>3 DEF Lifecycle!Next
  <1> QED
    BY <1>1, <1>4, <1>5, <1>6 DEF Moves

(* Resumption begins a session; a kill stops it; a reset reopens the task. *)
LEMMA OthersLive ==
    ASSUME TypeOK, OpenSession, OpenSession', Invoke \/ Crash \/ ResetFailed
    PROVE  Lifecycle!Next \/ UNCHANGED Lifecycle!vars
  <1>0. SessionType
    BY DEF TypeOK, SessionType
  <1>1. CASE Invoke
    <2>1. /\ pc = "idle" /\ UNCHANGED <<Required, Owed, Status>>
          /\ \/ pc' = "start" /\ Status = "open"
             \/ pc' = "idle"
      BY <1>0, <1>1, InvokeEffect DEF Required, Owed, AnswersFor, Status
    <2> QED
      BY <2>1 DEF Lifecycle!Next, Lifecycle!Begin, Lifecycle!vars
  <1>2. CASE Crash
    <2>1. /\ pc # "idle" /\ pc' = "idle" /\ UNCHANGED cfg
          /\ disk' = disk \/ disk' = mem
      BY <1>0, <1>2, CrashEffect
    <2>2. Status' = "open" /\ Required' = Required
      BY <2>1 DEF Status, OpenSession, Required
    <2>3. Owed \subseteq Owed' /\ Owed' \subseteq AcceptanceGates
      BY <1>0, <1>2, CrashGrows, OwedMoves
    <2>4. Lifecycle!Stop
      BY <2>1, <2>2, <2>3 DEF Lifecycle!Stop
    <2> QED
      BY <2>4 DEF Lifecycle!Next
  <1>3. CASE ResetFailed
    <2>1. /\ pc = "idle" /\ UNCHANGED <<cfg, pc>> /\ disk.failed /\ ~disk'.failed
          /\ disk'.done = disk.done /\ OwesSame(work', work)
      BY <1>0, <1>3, ResetFailedEffect DEF Same, Control, ResetFields
    <2>2. Status = "failed" /\ Status' = "open" /\ Required' = Required
      BY <2>1 DEF Status, OpenSession, Required
    <2>3. Lifecycle!Reset
      BY <2>1, <2>2, OwedMoves DEF Lifecycle!Reset
    <2> QED
      BY <2>3 DEF Lifecycle!Next
  <1> QED
    BY <1>1, <1>2, <1>3

(* The orchestrator implements the task's lifecycle, for every             *)
(* configuration and any number of kills and resets: whatever a session,   *)
(* a kill or a reset does is, for the operator, a beginning, a write, a    *)
(* gate's look, a stop, a finish that owes nothing, or a reopening.        *)
THEOREM LifecycleImplemented == Spec => ImplementsLifecycle
  <1> DEFINE Inv == IInv /\ GatesInv /\ DoneMeansGated
  <1>1. Inv /\ Inv' /\ [Next]_vars => [Lifecycle!Next]_(Lifecycle!vars)
    <2> SUFFICES ASSUME Inv, Inv', [Next]_vars
                 PROVE  Lifecycle!Next \/ UNCHANGED Lifecycle!vars
      OBVIOUS
    <2>1. TypeOK /\ OpenSession /\ TypeOK' /\ OpenSession' /\ DoneMeansGated'
      BY DEF IInv
    <2>2. CASE Session
      BY <2>1, <2>2, SessionLives
    <2>3. CASE Invoke \/ Crash \/ ResetFailed
      BY <2>1, <2>3, OthersLive
    <2>4. CASE UNCHANGED vars
      BY <2>4 DEF vars, Lifecycle!vars, Status, Required, Owed, AnswersFor
    <2> QED
      BY <2>2, <2>3, <2>4 DEF Next
  <1> QED
    BY <1>1, LifecycleInit, GatesInvariant, DoneIsGated, PTL
    DEF Spec, ImplementsLifecycle, Lifecycle!Spec
=============================================================================
