--------------------------- MODULE DeliveryAssembly ---------------------------
(***************************************************************************)
(* Building the final branch from the results of the units, under the      *)
(* progress lock: the branch is read once, then advanced one               *)
(* compare-and-swap at a time, then the result is recorded.                *)
(***************************************************************************)
EXTENDS DeliveryState

\* The commits of done units that the commit cur does not have yet, in an
\* order that puts a unit after the done units it depends on
\* (ordered_delivery_assembly_units).
Unapplied(cur) ==
    {u \in ActiveUnits : prog.units[u].status = "done" /\ ~(prog.units[u].commit \subseteq cur)}
NextUnapplied(cur) == {u \in Unapplied(cur) : Prerequisites(appended, u) \cap Unapplied(cur) = {}}

\* preview_delivery_assembly: the branch must extend what was recorded, or be
\* where it starts.
PreviewOK ==
    \/ prog.assembled # NoCommit /\ ref # NoCommit /\ prog.assembled \subseteq ref
    \/ prog.assembled = NoCommit /\ ref \in {NoCommit, Base}

\* _delivery_assembly_preview_issue with detect_conflicts, and the failed
\* assembly that makes the recovery of a checkpointed plan necessary.
NeedsReconcile == ~edited /\ Checkpoints # {} /\ prog.assembly = "failed"

\* Where a command starts, or "delivery run" starts a round.
Entries == {"loop", "next", "verify"}

Assembling(p, pc) ==
    /\ At(p, pc) /\ Holds(p)
    /\ UNCHANGED <<appended, edited, config, journal, child, handoff, repair>>

\* The base commit is written before anything else.
RecordBase(p) ==
    /\ Assembling(p, "assemble")
    /\ prog.base = NoCommit
    /\ prog' = [prog EXCEPT !.base = Base]
    /\ UNCHANGED <<lock, ref, loc, faults>>

ReadBranch(p) ==
    /\ Assembling(p, "assemble")
    /\ prog.base # NoCommit
    /\ loc' = [loc EXCEPT ![p].cur = ref,
                          ![p].pc = IF ~PreviewOK THEN "assembly_failed"
                                    ELSE IF ref = NoCommit THEN "create" ELSE "apply"]
    /\ UNCHANGED <<prog, lock, ref, faults>>

\* Faulty: the branch is set without comparing.
AdvanceForced(p, commit) ==
    /\ UNCHANGED <<prog, lock, faults>>
    /\ ref' = commit
    /\ loc' = [loc EXCEPT ![p].cur = commit, ![p].pc = "apply"]

\* _update_ref: compare-and-swap on the branch, from the commit last seen.
Advance(p, commit) ==
    /\ UNCHANGED <<prog, lock, faults>>
    /\ \/ /\ ref = loc[p].cur
          /\ ref' = commit
          /\ loc' = [loc EXCEPT ![p].cur = commit, ![p].pc = "apply"]
       \/ /\ ref # loc[p].cur
          /\ Goto(p, "assembly_failed")
          /\ UNCHANGED ref

CreateBranch(p) == Assembling(p, "create") /\ Advance(p, Base)

\* One completed unit is fast-forwarded or merged into the branch.
ApplyUnit(p) ==
    /\ Assembling(p, "apply")
    /\ \E u \in NextUnapplied(loc[p].cur) : Advance(p, loc[p].cur \cup prog.units[u].commit)

\* _merge_commits finds a conflict; never between a commit and its ancestor.
MergeConflict(p) ==
    /\ Assembling(p, "apply")
    /\ \E u \in NextUnapplied(loc[p].cur) : ~(loc[p].cur \subseteq prog.units[u].commit)
    /\ Fault
    /\ Goto(p, "assembly_failed")
    /\ UNCHANGED <<prog, lock, ref>>

\* Continues after the assembly it was made for: the unit that was recorded,
\* the one to start, the gate to capture, or a command that reconciled first.
RecordAssembly(p) ==
    /\ Assembling(p, "apply")
    /\ NextUnapplied(loc[p].cur) = {}
    /\ prog' = MarkAssembly(prog, loc[p].cur, "ready")
    /\ IF loc[p].then = "terminal" THEN ContinueAs(p, [Loop(p) EXCEPT !.reset = FALSE])
       ELSE /\ loc' = [loc EXCEPT ![p].pc = loc[p].then, ![p].then = "none", ![p].cur = NoCommit]
            /\ lock' = IF loc[p].then \in Entries THEN "free" ELSE lock
    /\ UNCHANGED <<ref, faults>>

RecordAssemblyFailure(p) ==
    /\ Assembling(p, "assembly_failed")
    /\ prog' = MarkAssembly(prog, loc[p].cur, "failed")
    /\ Return(p)
    /\ UNCHANGED <<ref, faults>>

\* reconcile_checkpoint_assembly, under a lock of its own: the preview refuses
\* without writing, also when it sees a conflict.
StartReconcile(p) ==
    /\ loc[p].pc \in Entries /\ NeedsReconcile
    /\ UNCHANGED <<appended, edited, config, prog, journal, ref, child, handoff, repair, faults>>
    /\ \/ /\ lock = "free" /\ lock' = p
          /\ loc' = [loc EXCEPT ![p].pc = "reconcile", ![p].then = loc[p].pc]
       \/ lock # "free" /\ Return(p)

ReconcileAssembly(p) ==
    /\ Assembling(p, "reconcile")
    /\ \/ PreviewOK /\ Goto(p, "assemble") /\ UNCHANGED <<lock, faults>>
       \/ ~PreviewOK /\ Return(p) /\ UNCHANGED faults
       \/ PreviewOK /\ Unapplied(ref) # {} /\ Fault /\ Return(p)
    /\ UNCHANGED <<prog, ref>>

AssemblyStep(p) ==
    \/ RecordBase(p)
    \/ ReadBranch(p)
    \/ CreateBranch(p)
    \/ ApplyUnit(p)
    \/ MergeConflict(p)
    \/ RecordAssembly(p)
    \/ RecordAssemblyFailure(p)
    \/ StartReconcile(p)
    \/ ReconcileAssembly(p)

=============================================================================
