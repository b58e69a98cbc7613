---------------------------- MODULE DeliveryRunNext ----------------------------
(***************************************************************************)
(* "delivery run-next" (sikula_cli/delivery.py): one unit is selected,     *)
(* recovered or retried under the progress lock, its child task is run     *)
(* (sikula_cli/run.py), and the result is recorded and assembled.          *)
(***************************************************************************)
EXTENDS DeliveryAssembly

RunningUnits == {u \in ActiveUnits : prog.units[u].status = "running"}

\* DeliveryStatusUnit.eligible, with the barriers of with_checkpoint_barriers.
Eligible(u, cfg) ==
    /\ prog.units[u].status = "pending"
    /\ \A d \in Prerequisites(appended, u) : prog.units[d].status = "done"
    /\ ~BlockedByCheckpoint(u, cfg)

Retryable(u, cfg) ==
    /\ prog.units[u].status = "failed" /\ prog.units[u].child
    /\ prog.units[u].failure = "child_run_failed"
    /\ ~BlockedByCheckpoint(u, cfg)

\* The units of s that come first in the plan; repair units are appended.
Foremost(s) ==
    {u \in s : \A i \in DOMAIN Units :
        Units[i] \in s => \E j \in 1..i : Units[j] = u}

\* select_next_delivery_unit
Selected(p) ==
    LET us == {u \in ActiveUnits : IF loc[p].reset THEN Retryable(u, loc[p].cfg)
                                   ELSE Eligible(u, loc[p].cfg)}
    IN  IF loc[p].reset \/ "failed" \notin StatusOf(prog, ActiveUnits) THEN Foremost(us) ELSE {}

\* _bounded_delivery_run_snapshot_issue
InSnapshot(p, u) == loc[p].cmd = "run" => u \in loc[p].units

\* _dependency_commit_errors and _delivery_assembly_target_commit
DependenciesIn(u, commit) ==
    \A d \in BuildsOn(appended, Prerequisites(appended, u)) :
        prog.units[d].status = "done" => prog.units[d].commit \subseteq commit
AssemblyTarget ==
    IF prog.assembled # NoCommit THEN prog.assembled
    ELSE IF ref # NoCommit THEN ref ELSE Base

Result(u) == child[u].start \cup {u}

StartRunNext(p) ==
    /\ At(p, "next") /\ ~NeedsReconcile
    /\ Acquire(p, "select")
    /\ UNCHANGED <<appended, edited, config, prog, journal, ref, child, handoff, repair, faults>>

InRunNext(p, pc) ==
    /\ At(p, pc) /\ Holds(p)
    /\ UNCHANGED <<appended, edited, config, journal, ref, repair>>

Blocked(p) ==
    \/ ~Ready \/ AnyRepairPending \/ TerminalStop(prog, ActiveUnits) \/ Barrier(loc[p].cfg)
    \/ Cardinality(RunningUnits) > 1

RefuseUnit(p) ==
    /\ InRunNext(p, "select")
    /\ \/ Blocked(p)
       \/ RunningUnits = {} /\ Selected(p) = {}
       \/ \E u \in RunningUnits \cup (IF RunningUnits = {} THEN Selected(p) ELSE {}) : ~InSnapshot(p, u)
    /\ Return(p)
    /\ UNCHANGED <<prog, child, handoff, faults>>

(***************************************************************************)
(* _handle_running_delivery_unit and _run_delivery_child_retry.            *)
(***************************************************************************)
CanRecover(p, u) == ~Blocked(p) /\ RunningUnits = {u} /\ InSnapshot(p, u)
CanRetry(p, u) ==
    /\ loc[p].reset /\ InSnapshot(p, u) /\ ~Blocked(p)
    /\ \/ RunningUnits = {u} /\ prog.units[u].child /\ child[u].st = "failed"
       \/ /\ RunningUnits = {} /\ u \in Selected(p)
          /\ HandoffsLoad(Prerequisites(appended, u)) /\ DependenciesIn(u, AssemblyTarget)

RunChild(p, u, pc) == loc' = [loc EXCEPT ![p].pc = pc, ![p].sel = u]

\* No child task id, or a child without a worktree to go on in.
RefuseRecovery(p) ==
    /\ InRunNext(p, "select")
    /\ \E u \in ActiveUnits :
         \/ CanRecover(p, u) /\ (~prog.units[u].child \/ (child[u].st = "open" /\ ~child[u].wt))
         \/ /\ CanRetry(p, u) /\ child[u].st # "done"
            /\ (child[u].stop = "terminal_stop" \/ ~child[u].wt)
    /\ Return(p)
    /\ UNCHANGED <<prog, child, handoff, faults>>

\* A child that is already terminal is only recorded.
ReconcileChild(p) ==
    /\ InRunNext(p, "select")
    /\ \E u \in ActiveUnits :
         /\ \/ /\ CanRecover(p, u) /\ prog.units[u].child
               /\ (child[u].st = "done" \/ (child[u].st = "failed" /\ ~loc[p].reset))
            \/ CanRetry(p, u) /\ child[u].st = "done" /\ child[u].stop # "terminal_stop"
         /\ RunChild(p, u, IF child[u].st = "done" THEN "exited" ELSE "exited_with_error")
    /\ UNCHANGED <<prog, lock, child, handoff, faults>>

ResumeChild(p) ==
    /\ InRunNext(p, "select")
    /\ \E u \in ActiveUnits :
         /\ CanRecover(p, u) /\ prog.units[u].child
         /\ child[u].st = "open" /\ child[u].wt
         /\ RunChild(p, u, "work")
    /\ UNCHANGED <<prog, lock, child, handoff, faults>>

RetryChild(p) ==
    /\ InRunNext(p, "select")
    /\ \E u \in ActiveUnits :
         /\ CanRetry(p, u)
         /\ child[u].st # "done" /\ child[u].stop # "terminal_stop" /\ child[u].wt
         /\ prog' = UpsertUnit(prog, u, [prog.units[u] EXCEPT !.status = "running",
                                                !.commit = NoCommit, !.failure = "none"])
         /\ RunChild(p, u, "reset_child")
    /\ UNCHANGED <<lock, child, handoff, faults>>

\* "sikula run --reset-failed" of the child task
ResetChild(p) ==
    /\ InRunNext(p, "reset_child")
    /\ child' = [child EXCEPT ![loc[p].sel].st = "open"]
    /\ Goto(p, "work")
    /\ UNCHANGED <<prog, lock, handoff, faults>>

(***************************************************************************)
(* A new child.                                                            *)
(***************************************************************************)
\* load_delivery_dependency_handoffs, then the branch is assembled.
SelectUnit(p) ==
    /\ InRunNext(p, "select")
    /\ ~Blocked(p) /\ RunningUnits = {} /\ ~loc[p].reset
    /\ \E u \in Selected(p) :
         /\ InSnapshot(p, u)
         /\ \/ /\ HandoffsLoad(Prerequisites(appended, u))
               /\ loc' = [loc EXCEPT ![p].pc = "assemble", ![p].then = "start", ![p].sel = u]
               /\ UNCHANGED lock
            \/ ~HandoffsLoad(Prerequisites(appended, u)) /\ Return(p)
    /\ UNCHANGED <<prog, child, handoff, faults>>

\* The checkpoints are read again after the assembly.
StartUnit(p) ==
    /\ InRunNext(p, "start")
    /\ LET u == loc[p].sel IN
       \/ /\ Checkpoints # {} => ~Barrier(loc[p].cfg)
          /\ DependenciesIn(u, prog.assembled)
          /\ prog' = UpsertUnit(prog, u, [PendingUnit EXCEPT !.status = "running"])
          /\ Goto(p, "create_child")
          /\ UNCHANGED lock
       \/ /\ (Checkpoints # {} /\ Barrier(loc[p].cfg)) \/ ~DependenciesIn(u, prog.assembled)
          /\ Return(p)
          /\ UNCHANGED prog
    /\ UNCHANGED <<child, handoff, faults>>

\* store.create; a setup or preflight error comes before it.
CreateChild(p) ==
    /\ InRunNext(p, "create_child")
    /\ \/ /\ child' = [child EXCEPT ![loc[p].sel] =
                [NoChild EXCEPT !.st = "open", !.start = prog.assembled, !.worked = child[loc[p].sel].worked]]
          /\ Goto(p, "link")
          /\ UNCHANGED faults
       \/ Fault /\ Goto(p, "restore") /\ UNCHANGED child
    /\ UNCHANGED <<prog, lock, handoff>>

\* delivery_child_created_callback; when it raises, the child is failed
\* before it has a worktree.
LinkChild(p) ==
    /\ InRunNext(p, "link")
    /\ LET u == loc[p].sel IN
       \/ /\ prog' = UpsertUnit(prog, u, [prog.units[u] EXCEPT !.child = TRUE])
          /\ Goto(p, "worktree")
          /\ UNCHANGED <<child, faults>>
       \/ /\ Fault
          /\ child' = [child EXCEPT ![u].st = "failed"]
          /\ Goto(p, "restore")
          /\ UNCHANGED prog
    /\ UNCHANGED <<lock, handoff>>

\* _restore_delivery_progress
RestoreProgress(p) ==
    /\ InRunNext(p, "restore")
    /\ prog' = UpsertUnit(prog, loc[p].sel, PendingUnit)
    /\ Return(p)
    /\ UNCHANGED <<child, handoff, faults>>

\* The contract gate, then the worktree; either may refuse.
CreateWorktree(p) ==
    /\ InRunNext(p, "worktree")
    /\ LET u == loc[p].sel IN
       \/ /\ child' = [child EXCEPT ![u].wt = TRUE, ![u].worked = @ + 1]
          /\ Goto(p, "work")
          /\ UNCHANGED faults
       \/ /\ Fault
          /\ \E st \in {"open", "failed"} : child' = [child EXCEPT ![u].st = st]
          /\ Goto(p, "exited_with_error")
    /\ UNCHANGED <<prog, lock, handoff>>

\* The agents finish, fail, stop the delivery, or are interrupted.
Work(p) ==
    /\ InRunNext(p, "work")
    /\ LET u == loc[p].sel IN
       \/ /\ child' = [child EXCEPT ![u].st = "done"]
          /\ Goto(p, "finalize_child")
          /\ UNCHANGED faults
       \/ /\ Fault
          /\ \E stop \in {"none", "terminal_stop", "budget"} :
               child' = [child EXCEPT ![u].st = "failed", ![u].stop = stop]
          /\ Goto(p, "exited_with_error")
       \/ Fault /\ Goto(p, "exited_with_error") /\ UNCHANGED child
    /\ UNCHANGED <<prog, lock, handoff>>

\* The result is committed on the child's branch.
FinalizeChild(p) ==
    /\ InRunNext(p, "finalize_child")
    /\ \/ /\ child' = [child EXCEPT ![loc[p].sel].fin = TRUE]
          /\ Goto(p, "exited")
          /\ UNCHANGED faults
       \/ Fault /\ Goto(p, "exited_with_error") /\ UNCHANGED child
    /\ UNCHANGED <<prog, lock, handoff>>

(***************************************************************************)
(* _record_delivery_child_terminal_result.                                 *)
(***************************************************************************)
\* _classify_delivery_child_run
FailureCode(p, u) ==
    IF child[u].stop # "none" THEN child[u].stop
    ELSE IF At(p, "exited") /\ child[u].st = "done" /\ child[u].fin THEN "none"
    ELSE "child_run_failed"

\* Faulty: the result is recorded whether its handoff could be written or not.
WriteHandoffLenient(p) ==
    /\ InRunNext(p, "exited")
    /\ FailureCode(p, loc[p].sel) = "none"
    /\ Goto(p, "record_done")
    /\ \/ handoff' = handoff \cup {loc[p].sel} /\ UNCHANGED faults
       \/ Fault /\ UNCHANGED handoff
    /\ UNCHANGED <<prog, lock, child>>

\* A handoff that cannot be written leaves the unit running.
WriteHandoff(p) ==
    /\ InRunNext(p, "exited")
    /\ LET u == loc[p].sel IN
       /\ FailureCode(p, u) = "none"
       /\ \/ /\ handoff' = handoff \cup {u}
             /\ Goto(p, "record_done")
             /\ UNCHANGED <<prog, lock, faults>>
          \/ /\ Fault
             /\ prog' = UpsertUnit(prog, u, [status |-> "running", child |-> TRUE,
                                             commit |-> Result(u), failure |-> "none"])
             /\ Return(p)
             /\ UNCHANGED handoff
    /\ UNCHANGED child

RecordDone(p) ==
    /\ InRunNext(p, "record_done")
    /\ LET u == loc[p].sel IN
       prog' = UpsertUnit(prog, u, [status |-> "done", child |-> TRUE,
                                    commit |-> Result(u), failure |-> "none"])
    /\ loc' = [loc EXCEPT ![p].pc = "assemble", ![p].then = "terminal", ![p].sel = NoUnit]
    /\ UNCHANGED <<lock, child, handoff, faults>>

\* Faulty: a child without a result gives its unit back.
RecordFailedAsPending(p) ==
    /\ At(p, "exited") \/ At(p, "exited_with_error")
    /\ InRunNext(p, loc[p].pc)
    /\ FailureCode(p, loc[p].sel) # "none"
    /\ prog' = UpsertUnit(prog, loc[p].sel, PendingUnit)
    /\ Return(p)
    /\ UNCHANGED <<child, handoff, faults>>

RecordFailed(p) ==
    /\ At(p, "exited") \/ At(p, "exited_with_error")
    /\ InRunNext(p, loc[p].pc)
    /\ LET u == loc[p].sel IN
       /\ FailureCode(p, u) # "none"
       /\ prog' = UpsertUnit(prog, u,
            [status |-> "failed", child |-> TRUE, failure |-> FailureCode(p, u),
             commit |-> IF child[u].fin THEN Result(u) ELSE NoCommit])
    /\ Return(p)
    /\ UNCHANGED <<child, handoff, faults>>

RunNextStep(p) ==
    \/ StartRunNext(p)
    \/ RefuseUnit(p)
    \/ RefuseRecovery(p)
    \/ ReconcileChild(p)
    \/ ResumeChild(p)
    \/ RetryChild(p)
    \/ ResetChild(p)
    \/ SelectUnit(p)
    \/ StartUnit(p)
    \/ CreateChild(p)
    \/ LinkChild(p)
    \/ RestoreProgress(p)
    \/ CreateWorktree(p)
    \/ Work(p)
    \/ FinalizeChild(p)
    \/ WriteHandoff(p)
    \/ RecordDone(p)
    \/ RecordFailed(p)

=============================================================================
