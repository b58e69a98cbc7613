------------------------------ MODULE ChildScope ------------------------------
(***************************************************************************)
(* The write scope of a delivery child: the audits that bracket every      *)
(* provider attempt, agent and tool that may write (core/                  *)
(* delivery_scope_audit.py, Orchestrator._run_agent), the retries of a     *)
(* write call (run_agent in core/llm_client.py), the terminal stops, the   *)
(* recovery of an interrupted audit, and the reversible quarantine of a    *)
(* file that the fixer asks to remove.                                     *)
(*                                                                         *)
(* Three files stand for what the audit tells apart: an untracked file in  *)
(* the scope of the unit, a test, and a file outside; a content is who     *)
(* wrote it, the number of the write and the inode ("id").                 *)
(***************************************************************************)
EXTENDS Naturals, FiniteSets

CONSTANTS
    MaxEdits,       \* bound on the writes to the worktree
    MaxScopeFaults, \* bound on kills, failed snapshots and foreign writes
    MaxResumes,     \* bound on the sessions of the child
    MaxAttempts     \* len(_RETRY_DELAYS) + 1

VARIABLES
    worktree,   \* [file -> content]
    saved,      \* the child's state file
    snapshots,  \* the two text snapshots beside it
    retained,   \* contents in the private quarantine
    session,    \* the process that runs the child, and its memory
    count       \* writes, faults and sessions so far

scopeVars == <<worktree, saved, snapshots, retained, session, count>>

Files == {"test", "foreign", "new"}
Declared == {"new"}
Absent == [by |-> "nobody", n |-> 0, id |-> 0]
Original == [by |-> "base", n |-> 0, id |-> 0]
Base == [f \in Files |-> IF f = "new" THEN Absent ELSE Original]
None == [agent |-> "none"]

Stops == [none |-> 0, external_dependency_gap |-> 1, implementer_disposition_invalid |-> 2,
          scope_amendment_required |-> 3, unit_scope_violation |-> 4]
ScopeViolation == Stops.unit_scope_violation

NewChild == [failed |-> FALSE, done |-> FALSE, stop |-> 0, claim |-> 0, pending |-> None,
             candidate |-> None, records |-> {}, approved |-> FALSE, saw |-> FALSE]

NoSession == [pc |-> "idle"]

Init ==
    /\ worktree = Base
    /\ saved = NewChild
    /\ snapshots = [outer |-> None, attempt |-> None]
    /\ retained = {}
    /\ session = NoSession
    /\ count = [edits |-> 0, faults |-> 0, resumes |-> 0]

----------------------------------------------------------------------------
At(pc) == session.pc = pc
Mem == session.mem
Goto(pc) == session' = [session EXCEPT !.pc = pc]
Spend(what) == count' = [count EXCEPT ![what] = @ + 1]
MaySpend(what, max) == count[what] < max

\* Keep the state in memory, or save it too, and go on at pc.
Remember(mem, pc) == /\ session' = [session EXCEPT !.mem = mem, !.pc = pc] /\ UNCHANGED saved
Save(mem, pc) == /\ session' = [session EXCEPT !.mem = mem, !.pc = pc] /\ saved' = mem

\* TaskState.set_delivery_terminal_stop keeps the strongest code.
SetStop(mem, code) ==
    [mem EXCEPT !.failed = TRUE, !.done = FALSE, !.stop = IF @ >= code THEN @ ELSE code]

\* _abort_on_delivery_terminal_stop: a persisted code, then what the agents said.
RaiseStops(mem) ==
    LET held == IF mem.stop = 0 THEN mem ELSE SetStop(mem, mem.stop)
    IN  IF held.stop # ScopeViolation /\ held.claim # 0 THEN SetStop(held, held.claim) ELSE held

Changed(before, after) == {f \in Files : before[f] # after[f]}

\* The paths of a policy: production roots, and the fixer's active test roots.
Allows(policy, f) == f \in policy.roots \/ (policy.agent = "fixer" /\ f \in policy.tests)
Violates(policy, before, after) == \E f \in Changed(before, after) : ~Allows(policy, f)

\* _update_delivery_quarantine_candidates, for the one file that is untracked.
Candidate(mem, before, trusted) ==
    LET was == before["new"]
        now == worktree["new"]
        kept == mem.candidate # None /\ mem.candidate.session = session.id /\ was.id = now.id
        made == was = Absent
    IN  CASE was = now -> IF mem.candidate # None /\ mem.candidate.session = session.id
                          THEN mem.candidate ELSE None
          [] was # now /\ trusted /\ now # Absent /\ (kept \/ made) ->
                 [agent |-> session.agent, session |-> session.id, content |-> now]
          [] OTHER -> None

----------------------------------------------------------------------------
(* Sessions: sikula run --task-id, and --reset-failed before it. *)

Resume ==
    /\ At("idle") /\ ~saved.failed /\ ~saved.done
    /\ MaySpend("resumes", MaxResumes) /\ Spend("resumes")
    /\ session' = [pc |-> "recover", mem |-> saved, id |-> count.resumes, agent |-> "none"]
    /\ UNCHANGED <<worktree, saved, snapshots, retained>>

\* A reset that takes any failure.
ResetAnyFailed ==
    /\ At("idle") /\ saved.failed /\ MaySpend("resumes", MaxResumes)
    /\ saved' = [saved EXCEPT !.failed = FALSE]
    /\ UNCHANGED <<worktree, snapshots, retained, session, count>>

\* _reset_failed_state refuses every terminal stop.
ResetFailed ==
    /\ At("idle") /\ saved.failed /\ saved.stop = 0 /\ saved.claim # Stops.implementer_disposition_invalid
    /\ MaySpend("resumes", MaxResumes)
    /\ saved' = [saved EXCEPT !.failed = FALSE]
    /\ UNCHANGED <<worktree, snapshots, retained, session, count>>

\* A recovery that drops the record of an interrupted audit.
RecoverUnaudited ==
    /\ At("recover")
    /\ IF Mem.pending = None THEN Goto("recovered") /\ UNCHANGED saved ELSE Save(Mem, "clear")
    /\ UNCHANGED <<worktree, snapshots, retained, count>>

\* _audit_interrupted_delivery_scope: nothing to recover; or evidence that
\* cannot be trusted; or the audit the killed process still owed.
Recover ==
    /\ At("recover")
    /\ LET pending == Mem.pending
           before == IF pending # None /\ pending.boundary = "attempt" THEN snapshots.attempt ELSE snapshots.outer
       IN  IF pending = None /\ snapshots.outer = None /\ snapshots.attempt = None
           THEN Goto("recovered") /\ UNCHANGED saved
           ELSE \E trusted \in {TRUE} \cup IF MaySpend("faults", MaxScopeFaults) THEN {FALSE} ELSE {} :
                  IF pending = None \/ before = None \/ ~trusted
                        \/ Violates(pending, before.files, worktree)
                  THEN Save(SetStop(Mem, ScopeViolation), "clear")
                  ELSE Save(Mem, "clear")
    /\ UNCHANGED <<worktree, snapshots, retained, count>>

\* Orchestrator.run, and the caller of an agent: a stop, a failed agent, or a
\* quarantine whose outcome nobody knows, ends the session.
Recovered ==
    /\ At("recovered")
    /\ LET agentFailed == session.agent \notin {"none", "tool"} /\ session.outcome # "ok"
           mem == [RaiseStops(Mem) EXCEPT !.failed = @ \/ agentFailed]
           moving == \E r \in Mem.records : r.status = "moving"
           gone == [mem EXCEPT !.failed = @ \/ moving]
       IN  /\ saved' = gone
           /\ session' = [pc |-> IF gone.failed THEN "ended" ELSE "ready", mem |-> gone,
                          id |-> session.id, agent |-> "none"]
    /\ UNCHANGED <<worktree, snapshots, retained, count>>

End ==
    /\ At("ended") \/ (At("ready") /\ Mem.done)
    /\ session' = NoSession
    /\ UNCHANGED <<worktree, saved, snapshots, retained, count>>

\* A kill loses the memory; the state file, the snapshots, the worktree and
\* the quarantine stay.
Kill ==
    /\ ~At("idle")
    /\ MaySpend("faults", MaxScopeFaults) /\ Spend("faults")
    /\ session' = NoSession
    /\ UNCHANGED <<worktree, saved, snapshots, retained>>

----------------------------------------------------------------------------
(* An agent or a tool between its two snapshots. *)

Policy(agent, errors) ==
    [agent |-> agent, boundary |-> "outer",
     roots |-> Declared,
     tests |-> IF agent = "fixer" /\ errors # "build" THEN {"test"} ELSE {}]

\* start_quarantine_session, then _set_delivery_scope_audit_pending.
StartAgent(agent, errors) ==
    /\ At("ready") /\ ~Mem.done
    /\ LET policy == Policy(agent, errors)
           own == Mem.candidate # None /\ Mem.candidate.session = session.id
           mem == [Mem EXCEPT !.pending = policy, !.candidate = IF own THEN @ ELSE None]
       IN  /\ saved' = mem
           /\ session' = [pc |-> "outer", mem |-> mem, id |-> session.id, agent |-> agent,
                          errors |-> errors, policy |-> policy, before |-> worktree,
                          base |-> worktree, attempt |-> 0, outcome |-> "none",
                          confirmed |-> FALSE, stopped |-> FALSE, verified |-> FALSE]
    /\ UNCHANGED <<worktree, snapshots, retained, count>>

SnapshotFails == MaySpend("faults", MaxScopeFaults) /\ Spend("faults")
SnapshotWorks == UNCHANGED count

\* _delivery_scope_audit_snapshot; a tool writes between the same snapshots.
TakeOuterSnapshot ==
    /\ At("outer")
    /\ \/ /\ SnapshotWorks
          /\ snapshots' = [snapshots EXCEPT !.outer = [agent |-> session.agent, files |-> worktree]]
          /\ session' = [session EXCEPT !.pc = IF session.agent = "tool" THEN "writing" ELSE "call",
                                        !.before = worktree]
          /\ UNCHANGED saved
       \/ /\ SnapshotFails
          /\ Save(SetStop(Mem, ScopeViolation), "clear")
          /\ UNCHANGED snapshots
    /\ UNCHANGED <<worktree, retained>>

\* run_agent begins: its own git snapshot, against which a retry is decided.
BeginCall ==
    /\ At("call")
    /\ session' = [session EXCEPT !.pc = "attempt", !.base = worktree, !.attempt = 0]
    /\ UNCHANGED <<worktree, saved, snapshots, retained, count>>

\* The authority of this provider call: a test-only pass has no production root.
AttemptPolicy ==
    [session.policy EXCEPT !.boundary = "attempt",
        !.roots = IF session.agent = "fixer" /\ session.errors = "test" /\ ~session.confirmed
                  THEN {} ELSE @]

\* _delivery_scope_provider_attempt_boundary, up to the provider.
SnapshotAttempt ==
    /\ At("attempt") /\ Mem.stop # ScopeViolation
    /\ \/ /\ SnapshotWorks
          /\ snapshots' = [snapshots EXCEPT !.attempt = [agent |-> session.agent, files |-> worktree]]
          /\ session' = [session EXCEPT !.pc = "pend", !.before = worktree,
                                        !.attempt = @ + 1, !.verified = FALSE]
          /\ UNCHANGED saved
       \/ /\ SnapshotFails
          /\ LET mem == SetStop(Mem, ScopeViolation)
             IN  /\ saved' = mem
                 /\ session' = [session EXCEPT !.pc = "restored", !.mem = mem, !.stopped = TRUE,
                                               !.verified = FALSE]
          /\ UNCHANGED snapshots
    /\ UNCHANGED <<worktree, retained>>

PendAttempt ==
    /\ At("pend")
    /\ Save([Mem EXCEPT !.pending = AttemptPolicy], "writing")
    /\ UNCHANGED <<worktree, snapshots, retained, count>>

\* The provider writes any file, in place or anew; it may delete none here.
Write(f) ==
    /\ At("writing") /\ MaySpend("edits", MaxEdits) /\ Spend("edits")
    /\ worktree' = [worktree EXCEPT ![f] =
           [by |-> session.agent, n |-> count.edits + 1,
            id |-> IF @ = Absent THEN count.edits + 1 ELSE @.id]]
    /\ UNCHANGED <<saved, snapshots, retained, session>>

ProviderEnds(outcome) ==
    /\ At("writing")
    /\ session' = [session EXCEPT !.pc = "audit", !.outcome = outcome]
    /\ UNCHANGED <<worktree, saved, snapshots, retained, count>>

\* _audit_delivery_scope_after_mutation around one attempt or one tool, saved
\* before the pending record that announced it is replaced.
Audit ==
    /\ At("audit")
    /\ \E trusted \in BOOLEAN :
         /\ IF trusted THEN SnapshotWorks ELSE SnapshotFails
         /\ LET policy == Mem.pending
                bad == ~trusted \/ Violates(policy, session.before, worktree)
                owned == IF trusted /\ session.agent # "tool"
                         THEN [Mem EXCEPT !.candidate =
                                  Candidate(Mem, session.before, session.outcome = "ok" /\ ~bad)]
                         ELSE Mem
                mem == IF bad THEN SetStop(owned, ScopeViolation) ELSE owned
            IN  /\ saved' = mem
                /\ session' = [session EXCEPT !.mem = mem, !.stopped = bad,
                      !.pc = IF session.agent = "tool" THEN "clear" ELSE "restore"]
    /\ UNCHANGED <<worktree, snapshots, retained>>

\* _restore_delivery_scope_outer_pending: save, then delete the snapshot.
RestoreOuter ==
    /\ At("restore")
    /\ Save([Mem EXCEPT !.pending = session.policy], "restored")
    /\ UNCHANGED <<worktree, snapshots, retained, count>>

\* The attempt is over: a scope stop ends the agent, a failure may be retried.
MayRetry ==
    /\ session.outcome = "transient" /\ session.attempt < MaxAttempts
    /\ worktree = session.base

AttemptOver ==
    /\ At("restored")
    /\ snapshots' = [snapshots EXCEPT !.attempt = None]
    /\ LET ok == ~session.stopped /\ session.outcome = "ok"
           again == ~session.stopped /\ MayRetry
       IN  session' = [session EXCEPT !.verified = ok,
                          !.pc = IF ok THEN "answered" ELSE IF again THEN "attempt" ELSE "agent_over"]
    /\ UNCHANGED <<worktree, saved, retained, count>>

\* A successful answer ends the agent's run: what it wrote revokes the
\* approval; it may carry a claim that stops the child.
Answer(claim) ==
    /\ At("answered")
    /\ claim # 0 => session.agent = "implementer"
    /\ Remember([Mem EXCEPT !.claim = claim,
                     !.approved = @ /\ snapshots.outer.files = worktree], "agent_over")
    /\ UNCHANGED <<worktree, snapshots, retained, count>>

\* The test-only pass found a production defect: a second provider call.
ConfirmProduction ==
    /\ At("answered") /\ session.agent = "fixer" /\ session.errors = "test" /\ ~session.confirmed
    /\ session' = [session EXCEPT !.pc = "call", !.confirmed = TRUE]
    /\ UNCHANGED <<worktree, saved, snapshots, retained, count>>

\* After the agent: the audit of the whole run, unless a stop was already raised.
AgentOver ==
    /\ At("agent_over")
    /\ \E trusted \in BOOLEAN :
         /\ IF trusted \/ session.stopped THEN SnapshotWorks ELSE SnapshotFails
         /\ IF ~session.stopped /\ (~trusted \/ Violates(session.policy, snapshots.outer.files, worktree))
            THEN Save(SetStop(Mem, ScopeViolation), "clear")
            ELSE Remember(Mem, "clear")
    /\ UNCHANGED <<worktree, snapshots, retained>>

\* _clear_delivery_scope_audit_pending: save, then delete both snapshots.
ClearPending ==
    /\ At("clear")
    /\ Save([Mem EXCEPT !.pending = None], "cleared")
    /\ UNCHANGED <<worktree, snapshots, retained, count>>

Cleared ==
    /\ At("cleared")
    /\ snapshots' = [outer |-> None, attempt |-> None]
    /\ Goto("recovered")
    /\ UNCHANGED <<worktree, saved, retained, count>>

----------------------------------------------------------------------------
(* Reviews, for the approval a quarantine has to revoke, and the end. *)

Approve ==
    /\ At("ready") /\ ~Mem.done /\ ~Mem.approved
    /\ Save([Mem EXCEPT !.approved = TRUE, !.saw = worktree["new"] # Absent], "ready")
    /\ UNCHANGED <<worktree, snapshots, retained, count>>

ReviewerStops ==
    /\ At("ready") /\ ~Mem.done
    /\ \E claim \in {Stops.external_dependency_gap, Stops.scope_amendment_required} :
         Remember([Mem EXCEPT !.claim = claim], "recovered")
    /\ UNCHANGED <<worktree, snapshots, retained, count>>

Finish ==
    /\ At("ready") /\ Mem.approved /\ ~Mem.done
    /\ Save([Mem EXCEPT !.done = TRUE], "ready")
    /\ UNCHANGED <<worktree, snapshots, retained, count>>

----------------------------------------------------------------------------
(* The reversible quarantine of the untracked file. *)

\* _execute_fixer_quarantine up to before_move: the authority verified around
\* the last attempt is consumed, the file must be the one this session made.
IntendQuarantine ==
    /\ At("answered") /\ session.agent = "fixer" /\ session.errors # "test"
    /\ LET mine == /\ session.verified
                   /\ Mem.candidate # None /\ Mem.candidate.session = session.id
                   /\ Mem.candidate.content = worktree["new"]
       IN  IF mine
           THEN LET mem == [Mem EXCEPT !.candidate = None,
                               !.records = @ \cup {[content |-> worktree["new"], status |-> "moving"]}]
                IN  /\ saved' = mem
                    /\ session' = [session EXCEPT !.mem = mem, !.pc = "move", !.verified = FALSE]
           ELSE /\ session' = [session EXCEPT !.pc = "agent_over", !.verified = FALSE, !.outcome = "refused",
                                   !.mem = [Mem EXCEPT !.approved = @ /\ snapshots.outer.files = worktree]]
                /\ UNCHANGED saved
    /\ UNCHANGED <<worktree, snapshots, retained, count>>

Moving == CHOOSE r \in Mem.records : r.status = "moving"
Settle(mem, status) ==
    [mem EXCEPT !.records = (@ \ {Moving}) \cup {[Moving EXCEPT !.status = status]}]

\* Revalidated, then renamed into the quarantine; a rename of something else
\* is undone (_restore_quarantine_entry).
MoveFile ==
    /\ At("move")
    /\ IF worktree["new"] = Moving.content
       THEN /\ worktree' = [worktree EXCEPT !["new"] = Absent]
            /\ retained' = retained \cup {Moving.content}
            /\ Goto("moved") /\ UNCHANGED saved
       ELSE /\ saved' = Settle(Mem, "aborted")
            /\ session' = [session EXCEPT !.mem = saved', !.pc = "agent_over", !.outcome = "refused"]
            /\ UNCHANGED <<worktree, retained>>
    /\ UNCHANGED <<snapshots, count>>

\* after_move: the removal is a change of the fixer, so every gate looks again.
RecordMove ==
    /\ At("moved")
    /\ Save([Settle(Mem, "quarantined") EXCEPT !.approved = FALSE], "agent_over")
    /\ UNCHANGED <<worktree, snapshots, retained, count>>

\* Somebody else replaces the untracked file while the session works on it.
ForeignWrite ==
    /\ At("move") /\ MaySpend("edits", MaxEdits) /\ MaySpend("faults", MaxScopeFaults)
    /\ count' = [count EXCEPT !.edits = @ + 1, !.faults = @ + 1]
    /\ worktree' = [worktree EXCEPT !["new"] = [by |-> "user", n |-> count.edits + 1, id |-> count.edits + 1]]
    /\ UNCHANGED <<saved, snapshots, retained, session>>

\* cleanup --quarantine-only --force, in its two writes.
Active(records) == {r \in records : r.status \in {"moving", "quarantined", "aborted"}}
CleanupQuarantine ==
    /\ At("idle") /\ Active(saved.records) # {}
    /\ \A r \in saved.records : r.status = "moving" /\ r.content \notin retained => worktree["new"] = Absent
    /\ retained' = {}
    /\ session' = [pc |-> "cleanup"]
    /\ UNCHANGED <<worktree, saved, snapshots, count>>
\* A cleanup that leaves the gates of an interrupted move as they were.
RecordCleanupOnly ==
    /\ At("cleanup")
    /\ saved' = [saved EXCEPT !.candidate = None,
                     !.records = {[r EXCEPT !.status = "cleaned"] : r \in @}]
    /\ session' = NoSession
    /\ UNCHANGED <<worktree, snapshots, retained, count>>

RecordCleanup ==
    /\ At("cleanup")
    /\ saved' = [saved EXCEPT !.candidate = None,
                     !.records = {[r EXCEPT !.status = "cleaned"] : r \in @},
                     !.approved = @ /\ ~\E r \in saved.records : r.status = "moving"]
    /\ session' = NoSession
    /\ UNCHANGED <<worktree, snapshots, retained, count>>

----------------------------------------------------------------------------
Next ==
    \/ Resume \/ ResetFailed \/ Recover \/ Recovered \/ End \/ Kill
    \/ StartAgent("implementer", "none") \/ StartAgent("tool", "none")
    \/ \E errors \in {"build", "test", "check"} : StartAgent("fixer", errors)
    \/ TakeOuterSnapshot \/ BeginCall \/ SnapshotAttempt \/ PendAttempt
    \/ \E f \in Files : Write(f)
    \/ \E outcome \in {"ok", "transient", "fatal"} : ProviderEnds(outcome)
    \/ Audit \/ RestoreOuter \/ AttemptOver
    \/ \E claim \in 0..2 : Answer(claim)
    \/ ConfirmProduction \/ AgentOver \/ ClearPending \/ Cleared
    \/ Approve \/ ReviewerStops \/ Finish
    \/ IntendQuarantine \/ MoveFile \/ RecordMove \/ ForeignWrite
    \/ CleanupQuarantine \/ RecordCleanup

Spec == Init /\ [][Next]_scopeVars

----------------------------------------------------------------------------
Accepted == saved.done \/ At("ready")

\* Whatever is killed, retried or resumed, a child goes on, or is done, only
\* with a worktree in which nothing but the declared paths was written, and
\* tests by the fixer only: out-of-scope writes meet an audit or end the child
\* (delivery_scope_audit: attempts, agents, tools and the recovery together).
AcceptedWithinScope ==
    Accepted => worktree["foreign"] = Original /\ worktree["test"].by \in {"base", "fixer"}

\* A terminal stop outlives every later save, kill, resume and --reset-failed:
\* it is never weakened and the child never runs again.
StopIsFinal ==
    [][saved.stop # 0 => /\ saved'.stop >= saved.stop /\ saved'.failed /\ ~saved'.done
                         /\ ~(At("idle") /\ session'.pc = "recover")]_scopeVars

\* An approval that read a file is not carried past the removal of that file,
\* even when the move was interrupted and cleaned up by hand.
RemovalIsReviewed ==
    LET child == IF At("ready") THEN Mem ELSE saved
    IN  Accepted /\ child.approved /\ child.saw => worktree["new"] # Absent
=============================================================================
