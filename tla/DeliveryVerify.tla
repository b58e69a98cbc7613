---------------------------- MODULE DeliveryVerify ----------------------------
(***************************************************************************)
(* "delivery verify" (core/delivery_verify.py): the assembled candidate of *)
(* a node is captured under the lock, judged without it, and the verdict   *)
(* is recorded under the lock again if it is still about the present.      *)
(***************************************************************************)
EXTENDS DeliveryRunNext

CONSTANT MaxAttempts    \* bound on the attempts at one gate
ASSUME VerifyConstants == MaxAttempts \in Nat \ {0}

Node(p) == loc[p].node
Record(p) == prog.ver[Node(p)]

(***************************************************************************)
(* What must hold before a gate, and again after the assembly.             *)
(***************************************************************************)
\* Faulty: a boundary stop may be verified away.
PreflightPastBoundary(n, cfg) ==
    /\ Ready /\ ScopeComplete(prog, appended, n)
    /\ n = "root" => \A c \in Checkpoints : Usable(c, cfg)

\* _preflight_result
Preflight(n, cfg) ==
    /\ Ready
    /\ ScopeComplete(prog, appended, n)
    /\ Checkpoints # {} =>
         /\ ~IsBoundaryStop(prog.ver[n])
         /\ ~BoundaryIssue /\ ~HandoffStale(cfg)
         /\ n = "root" => \A c \in Checkpoints : Usable(c, cfg)
         /\ HandoffsLoad(ScopeUnits(appended, n))
    /\ prog # NewProgress

\* checkpoint_preflight_issue
CheckpointPreflight(n, cfg) ==
    /\ Ready
    /\ \A u \in ActiveUnits : prog.units[u].status \in {"pending", "done"}
    /\ ~BoundaryIssue /\ ~HandoffStale(cfg)
    /\ prog.ver[n].status \in {"failed", "blocked"} =>
         \/ prog.ver[n].stop \in {"repair", "retry"}
         \/ prog.ver[n].stop = "config" /\ ~CurrentRecord(n, cfg)
    /\ HandoffsLoad(ScopeUnits(appended, n))

MayCapture(p) ==
    /\ Preflight(Node(p), loc[p].cfg)
    /\ Node(p) # "root" => CheckpointPreflight(Node(p), loc[p].cfg)

\* An existing pass for the same gate answers the command.
AlreadyPassed(p) ==
    /\ Record(p).status = "passed"
    /\ prog.assembly = "ready"
    /\ GateCurrent(Record(p), prog.assembled, loc[p].cfg)

\* Where "delivery run" goes after a verdict: a passed checkpoint must have
\* left a usable handoff, a passed root is finalized.
Passed(p) == [Loop(p) EXCEPT !.pc = IF Node(p) = "root" THEN "finalize" ELSE "handoff",
                             !.node = Node(p)]
Repair(p) == [Loop(p) EXCEPT !.pc = IF Node(p) = "root" THEN "loop" ELSE "repair",
                             !.want = Node(p)]

(***************************************************************************)
(* Capture.                                                                *)
(***************************************************************************)
Verifying(p, pc) ==
    /\ At(p, pc)
    /\ UNCHANGED <<appended, edited, config, ref, child, handoff, repair>>

StartVerify(p) ==
    /\ Verifying(p, "verify") /\ ~NeedsReconcile
    /\ Acquire(p, "capture")
    /\ UNCHANGED <<prog, journal, faults>>

\* A record whose event is missing gets it first.
RepairVerificationEvent(p) ==
    /\ Verifying(p, "capture") /\ Holds(p)
    /\ MayCapture(p)
    /\ Record(p).status # "none" /\ ~journal.ver[Node(p)]
    /\ \/ journal' = [journal EXCEPT !.ver[Node(p)] = TRUE] /\ UNCHANGED <<loc, lock, faults>>
       \/ Fault /\ Return(p) /\ UNCHANGED journal
    /\ UNCHANGED prog

Capture(p) ==
    /\ Verifying(p, "capture") /\ Holds(p)
    /\ MayCapture(p) => Record(p).status = "none" \/ journal.ver[Node(p)]
    /\ IF ~MayCapture(p) THEN Return(p)
       ELSE IF AlreadyPassed(p) /\ ref = prog.assembled THEN ContinueAs(p, Passed(p))
       ELSE /\ loc' = [loc EXCEPT ![p].pc = "assemble", ![p].then = "captured"]
            /\ UNCHANGED lock
    /\ UNCHANGED <<prog, journal, faults>>

\* A checkpoint is only captured where the plan in the candidate is the plan
\* in the checkout.
Attempt(p) ==
    LET v == Record(p) IN
    IF v.status # "none" /\ (Node(p) # "root" \/ GateCurrent(v, prog.assembled, loc[p].cfg))
    THEN v.attempt + 1 ELSE 1

MarkRunning(p) ==
    /\ Verifying(p, "captured") /\ Holds(p)
    /\ IF \/ ~Preflight(Node(p), loc[p].cfg) \/ Attempt(p) > MaxAttempts
          \/ Node(p) # "root" /\ PublishedPlan(prog.assembled) # appended
       THEN Return(p) /\ UNCHANGED <<prog, journal>>
       ELSE IF AlreadyPassed(p) THEN ContinueAs(p, Passed(p)) /\ UNCHANGED <<prog, journal>>
       ELSE LET v == [status |-> "running", candidate |-> prog.assembled, cfg |-> loc[p].cfg,
                      plan |-> appended, attempt |-> Attempt(p), stop |-> "none"]
            IN  /\ prog' = MarkVerification(prog, Node(p), v)
                /\ journal' = [journal EXCEPT !.ver[Node(p)] = FALSE]
                /\ loc' = [loc EXCEPT ![p].pc = "log_running", ![p].ver = v]
                /\ UNCHANGED lock
    /\ UNCHANGED faults

\* The lock is given up for the gate; a running record without its event or
\* its audit line is blocked instead.
LogRunning(p) ==
    /\ Verifying(p, "log_running") /\ Holds(p)
    /\ \/ /\ journal' = [journal EXCEPT !.ver[Node(p)] = TRUE]
          /\ Goto(p, "gate") /\ Release(p)
          /\ UNCHANGED <<prog, faults>>
       \/ /\ Fault
          /\ prog' = MarkVerification(prog, Node(p),
                        [loc[p].ver EXCEPT !.status = "blocked", !.stop = "retry"])
          /\ Return(p)
          /\ UNCHANGED journal

(***************************************************************************)
(* _execute_gate, without the lock, on a detached worktree of the          *)
(* candidate: nothing it does is seen by other commands, so it is one step *)
(* with the outcomes its stages have.  A verdict is the rest of the record.*)
(***************************************************************************)
Outcome(status, stop) == [status |-> status, stop |-> stop]

\* What stops validation, the semantic review or the security review: a
\* boundary that one of them crossed, a command or provider that failed, a
\* finding that a repair may answer or not, and KeyboardInterrupt.
Violations ==
    {Outcome("failed", "boundary"), Outcome("blocked", "retry"), Outcome("failed", "repair"),
     Outcome("failed", "final"), Outcome("interrupted", "retry")}

\* The candidate carries configuration 0.
ExecuteGate(p) ==
    /\ Verifying(p, "gate")
    /\ \E o \in Violations \cup {Outcome("passed", "none"), Outcome("blocked", "config")} :
         /\ o.stop = "config" => loc[p].cfg # 0
         /\ o.stop \in {"none", "repair"} => loc[p].cfg = 0
         /\ IF o \in Violations THEN Fault ELSE UNCHANGED faults
         /\ loc' = [loc EXCEPT ![p].pc = "persist", ![p].ver.status = o.status, ![p].ver.stop = o.stop]
    /\ UNCHANGED <<prog, journal, lock>>

(***************************************************************************)
(* _persist_terminal_if_current and _persist_stale_attempt.                *)
(***************************************************************************)
SameAttempt(p) ==
    SameGate(Record(p), loc[p].ver) /\ Record(p).attempt = loc[p].ver.attempt

StillCurrent(p) ==
    /\ SameAttempt(p)
    /\ Record(p).status = "running" \/ IsBoundaryStop(Record(p))
    /\ \/ IsBoundaryStop(loc[p].ver)
       \/ GateCurrent(loc[p].ver, loc[p].ver.candidate, loc[p].cfg) /\ ref = loc[p].ver.candidate

\* A boundary already recorded for the attempt stays.
Final(p) == IF IsBoundaryStop(Record(p)) THEN Record(p) ELSE loc[p].ver

PersistVerdict(p) ==
    /\ Verifying(p, "persist")
    /\ lock = "free" /\ StillCurrent(p)
    /\ IF IsBoundaryStop(Record(p)) \/ CanMarkVerification(prog, Node(p), loc[p].ver)
       THEN /\ prog' = MarkVerification(prog, Node(p), Final(p))
            /\ journal' = [journal EXCEPT !.ver[Node(p)] = FALSE]
            /\ lock' = p
            /\ loc' = [loc EXCEPT ![p].pc = "log_verdict", ![p].ver = Final(p)]
       ELSE Return(p) /\ UNCHANGED <<prog, journal>>
    /\ UNCHANGED faults

\* The attempt is over for this command; an interrupted one is not marked stale.
GiveUpVerdict(p) ==
    /\ Verifying(p, "persist")
    /\ lock # "free" \/ ~StillCurrent(p)
    /\ IF loc[p].ver.status = "interrupted" THEN Return(p)
       ELSE Goto(p, "stale") /\ UNCHANGED lock
    /\ UNCHANGED <<prog, journal, faults>>

MarkStale(p) ==
    /\ Verifying(p, "stale")
    /\ IF /\ lock = "free" /\ SameAttempt(p) /\ Record(p).status = "running"
          /\ prog.assembly = "ready" /\ prog.assembled = loc[p].ver.candidate
       THEN /\ prog' = MarkVerification(prog, Node(p),
                          [loc[p].ver EXCEPT !.status = "stale", !.stop = "retry"])
            /\ journal' = [journal EXCEPT !.ver[Node(p)] = TRUE]
       ELSE UNCHANGED <<prog, journal>>
    /\ Return(p)
    /\ UNCHANGED faults

\* The event, then the command returns; "delivery run" repairs a node that
\* needs it, and stops at any other failure.
LogVerdict(p) ==
    /\ Verifying(p, "log_verdict") /\ Holds(p)
    /\ journal' = [journal EXCEPT !.ver[Node(p)] = TRUE]
    /\ IF loc[p].ver.status = "passed" THEN ContinueAs(p, Passed(p))
       ELSE IF loc[p].ver.status = "failed" /\ loc[p].ver.stop = "repair" THEN ContinueAs(p, Repair(p))
       ELSE Return(p)
    /\ UNCHANGED <<prog, faults>>

VerifyStep(p) ==
    \/ StartVerify(p)
    \/ RepairVerificationEvent(p)
    \/ Capture(p)
    \/ MarkRunning(p)
    \/ LogRunning(p)
    \/ ExecuteGate(p)
    \/ PersistVerdict(p)
    \/ GiveUpVerdict(p)
    \/ MarkStale(p)
    \/ LogVerdict(p)

=============================================================================
