-------------------------------- MODULE Delivery --------------------------------
(***************************************************************************)
(* The delivery commands together: "delivery run" drives units,            *)
(* checkpoints, repairs and finalization in one bounded loop               *)
(* (_run_delivery_plan), the others do one of these; they share progress,  *)
(* lock and branch with each other, and are killed at any step.            *)
(***************************************************************************)
EXTENDS DeliveryFinalize

(***************************************************************************)
(* _run_delivery_plan.  The unit and time limits may end the loop at any   *)
(* round.                                                                  *)
(***************************************************************************)
\* due_delivery_checkpoint
Due(cfg) == {n \in Checkpoints : ScopeComplete(prog, appended, n) /\ ~Usable(n, cfg)}

\* _delivery_verification_recovery_stop_code: what a record that is still
\* current asks for instead of another gate.
RecoveryStop(n, cfg) ==
    LET v == prog.ver[n] IN
    IF CurrentRecord(n, cfg) /\ v.status \in {"failed", "blocked"} /\ v.stop # "retry"
    THEN v.stop ELSE "none"

Looping(p, pc) ==
    /\ At(p, pc)
    /\ UNCHANGED <<appended, edited, config, prog, journal, lock, ref, child, handoff, repair, faults>>
LoopTo(p, pc, node, want) == loc' = [loc EXCEPT ![p].pc = pc, ![p].node = node, ![p].want = want]
StopRun(p) == loc' = [loc EXCEPT ![p] = Idle]

\* A checkpoint that is due is verified or repaired before any other unit.
CheckpointRound(p) ==
    /\ Looping(p, "loop") /\ ~NeedsReconcile
    /\ LET cfg == loc[p].cfg
           n == CHOOSE c \in Due(cfg) : TRUE
       IN  IF Due(cfg) # {} /\ loc[p].want = "none" /\ ~AnyRepairPending /\ Ready
           THEN IF ~CheckpointPreflight(n, cfg) THEN StopRun(p)
                ELSE IF RecoveryStop(n, cfg) = "repair" THEN LoopTo(p, "repair", n, n)
                ELSE IF RecoveryStop(n, cfg) # "none" THEN StopRun(p)
                ELSE LoopTo(p, "verify", n, "none")
           ELSE Goto(p, IF loc[p].want # "none" \/ AnyRepairPending THEN "repair" ELSE "advance")

\* A verified checkpoint must leave a usable handoff.
CheckHandoff(p) ==
    /\ Looping(p, "handoff")
    /\ IF Usable(loc[p].node, loc[p].cfg) THEN LoopTo(p, "loop", "root", "none") ELSE StopRun(p)

\* _finalize_delivery_run when every unit is done, else the next unit.
AdvanceRound(p) ==
    /\ Looping(p, "advance")
    /\ LET cfg == loc[p].cfg IN
       IF ~Ready THEN StopRun(p)
       ELSE IF OverallStatus(prog, ActiveUnits) # "done" THEN Goto(p, "next")
       ELSE IF prog.ver["root"].status = "passed" /\ CurrentRecord("root", cfg)
       THEN LoopTo(p, "finalize", "root", "none")
       ELSE IF RecoveryStop("root", cfg) = "repair" THEN LoopTo(p, "loop", "root", "root")
       ELSE IF RecoveryStop("root", cfg) # "none" THEN StopRun(p)
       ELSE LoopTo(p, "verify", "root", "none")

StopAtLimit(p) ==
    /\ \E pc \in {"repair", "advance"} : Looping(p, pc)
    /\ loc[p].cmd = "run"
    /\ StopRun(p)

(***************************************************************************)
(* Users, failures, and others.                                            *)
(***************************************************************************)
Entry == [run |-> "loop", run_next |-> "next", verify |-> "verify", finalize |-> "finalize"]

\* "delivery run" takes a snapshot of the units that are not done.
StartCommand(p) ==
    /\ At(p, "idle")
    /\ (\E q \in Procs : ~At(q, "idle")) => faults <= OverlapFaults
    /\ \E c \in Commands[p], reset \in BOOLEAN, n \in Nodes :
         /\ reset => c \in {"run", "run_next"} /\ StatusOf(prog, ActiveUnits) \cap {"running", "failed"} # {}
         /\ n # "root" => c = "verify"
         /\ loc' = [loc EXCEPT ![p] =
              [Idle EXCEPT !.cmd = c, !.pc = Entry[c], !.cfg = config, !.reset = reset, !.node = n,
                           !.units = IF c # "run" THEN {}
                                     ELSE {u \in ActiveUnits : prog.units[u].status # "done"}]]
    /\ UNCHANGED <<appended, edited, config, prog, journal, lock, ref, child, handoff, repair, faults>>

\* The process dies; its lock file stays.
Kill(p) ==
    /\ ~At(p, "idle")
    /\ Fault
    /\ loc' = [loc EXCEPT ![p] = Idle]
    /\ lock' = IF Holds(p) THEN "stale" ELSE lock
    /\ UNCHANGED <<appended, edited, config, prog, journal, ref, child, handoff, repair>>

\* The user checks that the owner is gone and deletes the file.
RemoveStaleLock ==
    /\ lock = "stale"
    /\ lock' = "free"
    /\ UNCHANGED <<appended, edited, config, prog, journal, ref, child, handoff, repair, loc, faults>>

\* Somebody else pushes to the final branch, or takes the push back.
PushToBranch ==
    /\ ref # NoCommit
    /\ ref' = IF Foreign \in ref THEN ref \ {Foreign} ELSE ref \cup {Foreign}
    /\ Fault
    /\ UNCHANGED <<appended, edited, config, prog, journal, lock, child, handoff, repair, loc>>

EditSource ==
    /\ edited' = ~edited
    /\ Fault
    /\ UNCHANGED <<appended, config, prog, journal, lock, ref, child, handoff, repair, loc>>

EditConfig ==
    /\ config' = 1 - config
    /\ Fault
    /\ UNCHANGED <<appended, edited, prog, journal, lock, ref, child, handoff, repair, loc>>

CommandStep(p) ==
    \/ AssemblyStep(p)
    \/ RunNextStep(p)
    \/ VerifyStep(p)
    \/ RepairStep(p)
    \/ FinalizeStep(p)
    \/ CheckpointRound(p)
    \/ CheckHandoff(p)
    \/ AdvanceRound(p)
    \/ StopAtLimit(p)

Next ==
    \/ \E p \in Procs : CommandStep(p) \/ StartCommand(p) \/ Kill(p)
    \/ RemoveStaleLock
    \/ PushToBranch
    \/ EditSource
    \/ EditConfig

Spec == Init /\ [][Next]_vars

(***************************************************************************)
(* Properties.                                                             *)
(***************************************************************************)
\* What a command is about to leave in progress.json is always a record that
\* write_delivery_progress accepts, whatever ran or was killed before.
ProgressWritable == ValidProgress(prog)

\* A delivery that is recorded as final is the one that was verified as a
\* whole: under the present plan, every unit is done, and the commit has each
\* of their results and the published plan.
FinalIsVerified ==
    prog.final # NoCommit =>
        /\ prog.ver["root"].status = "passed"
        /\ prog.ver["root"].candidate = prog.final /\ prog.assembled = prog.final
        /\ prog.ver["root"].plan = appended /\ PublishedPlan(prog.final) = appended
        /\ \A u \in ActiveUnits :
             prog.units[u].status = "done" /\ prog.units[u].commit \subseteq prog.final

\* A passed verification of the whole is never kept for a candidate that lacks
\* the result of a unit that has been recorded since.
PassedCoversResults ==
    prog.ver["root"].status = "passed" =>
        \A u \in UnitsOf(prog.ver["root"].plan) :
            prog.units[u].status = "done" /\ prog.units[u].commit \subseteq prog.ver["root"].candidate

\* A unit recorded done has its handoff on disk, and its commit has the
\* results of all the units it builds on, repairs of checkpoints included.
DoneUnitsCompose ==
    \A u \in ActiveUnits : prog.units[u].status = "done" =>
        /\ u \in handoff
        /\ \A d \in BuildsOn(appended, {u}) :
             prog.units[d].status = "done" /\ prog.units[d].commit \subseteq prog.units[u].commit

\* Work behind a checkpoint starts from a commit that already has the repair
\* of it: no repair is published under a unit that has been started.
BuiltOnRepairs ==
    \A n \in appended \cap Checkpoints : \A u \in RuntimeConsumers(appended, n) :
        prog.units[u].status # "pending" /\ child[u].wt => RepairUnit[n] \in child[u].start

\* No crash, retry or recovery lets two children of a unit work.
OneChildWorks == \A u \in AllUnits : child[u].worked <= 1

\* A repair unit exists for the scheduler only after its publication is
\* settled: its artifact is assembled under it.
RepairsPublishedFirst ==
    \A n \in Nodes : prog.units[RepairUnit[n]].status # "pending" =>
        repair[n].phase = "published" /\ n \in appended /\ Artifact[n] \in prog.assembled

\* The provider is never called more often for a repair than its budget allows,
\* however often commands are killed or repeated, and what is published was
\* accepted where acceptance is needed.
RepairWithinBudget ==
    \A n \in Nodes :
        /\ repair[n].calls <= MaxAuthoring /\ repair[n].reviews <= MaxReviews
        /\ n \in appended /\ n \in Renewed => repair[n].verdict = "approved"

\* A boundary stop recorded for a node is never replaced by a weaker record.
BoundaryRetained ==
    [][\A n \in Nodes : IsBoundaryStop(prog.ver[n]) => IsBoundaryStop(prog'.ver[n])]_vars

\* No command takes a change off the final branch, its own or another's.
BranchOnlyGrows ==
    [][ref # NoCommit /\ loc' # loc => ref \subseteq ref']_vars

\* A boundary violation that a gate has found is recorded for its node: the
\* command does not end with a weaker record, unless it is killed.
BoundaryRecorded ==
    [][\A p \in Procs :
         /\ loc[p].pc \in {"persist", "stale"} /\ IsBoundaryStop(loc[p].ver)
         /\ loc'[p].pc = "idle" /\ faults' = faults
         => IsBoundaryStop(prog'.ver[Node(p)])]_vars
=============================================================================
