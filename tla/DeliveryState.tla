---------------------------- MODULE DeliveryState ----------------------------
(***************************************************************************)
(* The state that the delivery commands share: the plan, progress.json,    *)
(* the journal, the lock file, the final branch, the child tasks and the   *)
(* integration repair control files; and the place of each command in its  *)
(* own code.  A command is killed at any step: what it wrote stays, what   *)
(* it only knew is lost, and its lock file stays behind.                   *)
(***************************************************************************)
EXTENDS DeliveryProgress

CONSTANTS
    Procs,          \* command invocations that may overlap
    Commands,       \* [process -> the commands its user gives]
    MaxFaults,      \* bound on everything that may go wrong or be changed,
    OverlapFaults,  \* and the same while two commands overlap
    MaxAuthoring,   \* _MAX_AUTHORING_ATTEMPTS
    Renewed,        \* nodes whose repair needs an independent authority review
    NoUnit
ASSUME StateConstants ==
    /\ Procs \cap {"free", "stale"} = {}
    /\ Commands \in [Procs -> SUBSET {"run", "run_next", "verify", "finalize"}]
    /\ MaxFaults \in Nat /\ OverlapFaults \in 0..MaxFaults
    /\ MaxAuthoring \in Nat \ {0}
    /\ Renewed \subseteq Nodes
    /\ NoUnit \notin AllUnits

VARIABLES
    appended,   \* nodes whose repair unit plan.yaml has
    edited,     \* the source task in the checkout is not the one the plan names
    config,     \* the project configuration, 0 or 1
    prog,       \* progress.json
    journal,    \* does events.jsonl hold the event of the current record?
    lock,       \* the lock file: free, held by a process, or left by a killed one
    ref,        \* refs/heads/<final_branch>
    child,      \* task state of each unit's newest child
    handoff,    \* units whose handoff file is written
    repair,     \* [node -> repair control state]
    loc,        \* [process -> command, place and local variables]
    faults

vars == <<appended, edited, config, prog, journal, lock, ref, child, handoff, repair, loc, faults>>

\* A child task: its flags, is its worktree recorded, the commit it started
\* from, has its result a commit, its stop, and how many children of this
\* unit let their agents work.
NoChild == [st |-> "none", wt |-> FALSE, start |-> NoCommit, fin |-> FALSE,
            stop |-> "none", worked |-> 0]
\* Integration repair control of a node: its phase, the provider calls
\* reserved for authoring and for the authority review, that review's
\* verdict, the verification it answers, and the progress it was prepared on;
\* "calls" counts the authoring calls that were really made.
NoRepair == [phase |-> "none", attempts |-> 0, calls |-> 0, reviews |-> 0, verdict |-> "none",
             ver |-> NoVerification, old |-> NewProgress]

Idle == [cmd |-> "none", pc |-> "idle", cfg |-> 0, reset |-> FALSE, node |-> "root",
         sel |-> NoUnit, cur |-> NoCommit, then |-> "none", ver |-> NoVerification,
         want |-> "none", units |-> {}]

Init ==
    /\ appended = {}
    /\ edited = FALSE
    /\ config = 0
    /\ prog = NewProgress
    /\ journal = [final |-> TRUE, ver |-> [n \in Nodes |-> TRUE]]
    /\ lock = "free"
    /\ ref = NoCommit
    /\ child = [u \in AllUnits |-> NoChild]
    /\ handoff = {}
    /\ repair = [n \in Nodes |-> NoRepair]
    /\ loc = [p \in Procs |-> Idle]
    /\ faults = 0

(***************************************************************************)
(* Steps of a command.                                                     *)
(***************************************************************************)
At(p, pc) == loc[p].pc = pc
Holds(p) == lock = p
ActiveUnits == UnitsOf(appended)
Overlapping(ps) == Cardinality({p \in ps : ~At(p, "idle")}) > 1
Fault ==
    /\ faults < IF Overlapping(Procs) THEN OverlapFaults ELSE MaxFaults
    /\ faults' = faults + 1

Goto(p, pc) == loc' = [loc EXCEPT ![p].pc = pc]

\* A command returns: the lock file is unlinked and its locals are gone.
Release(p) == lock' = IF Holds(p) THEN "free" ELSE lock
Return(p) == loc' = [loc EXCEPT ![p] = Idle] /\ Release(p)

\* A stage of "delivery run" that succeeds goes on in its loop, by default at
\* the top; any other command ends.
Loop(p) == [Idle EXCEPT !.cmd = "run", !.pc = "loop", !.cfg = loc[p].cfg,
                        !.reset = loc[p].reset, !.units = loc[p].units]
ContinueAs(p, place) ==
    /\ loc' = [loc EXCEPT ![p] = IF loc[p].cmd = "run" THEN place ELSE Idle]
    /\ Release(p)

\* acquire_delivery_progress_lock: the file is created exclusively, and an
\* existing one, live or left behind, refuses the command.
Acquire(p, pc) ==
    \/ lock = "free" /\ lock' = p /\ Goto(p, pc)
    \/ lock # "free" /\ Return(p)

(***************************************************************************)
(* What a handoff is: delivery_checkpoints.py.                             *)
(***************************************************************************)
PublishedPlan(commit) == {n \in Nodes : Artifact[n] \in commit}

\* build_delivery_verification_identity: the gate a verification would be bound
\* to now; there is none while the plan is invalid.
GateCurrent(v, candidate, cfg) ==
    ~edited /\ v.candidate = candidate /\ v.cfg = cfg /\ v.plan = appended

\* _checkpoint_local_pass_is_usable: a checkpoint is bound to its own scope
\* only, and holds for every later commit of the branch.
Usable(n, cfg) ==
    LET v == prog.ver[n] IN
    /\ v.status = "passed"
    /\ prog.assembled # NoCommit
    /\ ScopeComplete(prog, appended, n)
    /\ ~edited /\ PublishedPlan(prog.assembled) = appended
    /\ v.cfg = cfg /\ (n \in v.plan <=> n \in appended)
    /\ prog.assembly = "ready" /\ ref = prog.assembled
    /\ v.candidate \subseteq prog.assembled

\* checkpoint_boundary_issue
BoundaryIssue == \E n \in Nodes : IsBoundaryStop(prog.ver[n])

\* Faulty: work behind a checkpoint does not hold its verification back.
NeverStale(cfg) == FALSE

\* _checkpoint_barrier_issue: "none", "handoff_stale" or "required".
HandoffStale(cfg) ==
    \E n \in Checkpoints : ~Usable(n, cfg) /\
        \E u \in RuntimeConsumers(appended, n) : prog.units[u].status # "pending"
HandoffRequired(cfg) ==
    \E n \in Checkpoints : ~Usable(n, cfg) /\ ScopeComplete(prog, appended, n)
Barrier(cfg) == BoundaryIssue \/ HandoffStale(cfg) \/ HandoffRequired(cfg)

\* DeliveryStatusUnit.blocked_by_checkpoints
BlockedByCheckpoint(u, cfg) ==
    \E n \in Checkpoints : ~Usable(n, cfg) /\ u \in RuntimeConsumers(appended, n)

\* load_delivery_dependency_handoffs
HandoffsLoad(us) == \A u \in us : prog.units[u].status = "done" => u \in handoff

\* Faulty: a repair that is prepared no longer counts as pending.
RepairUnsettled(n) == repair[n].phase \in {"authoring", "blocked"}

\* pending_delivery_repair_node
RepairPending(n) == repair[n].phase \in {"authoring", "prepared", "blocked"}
AnyRepairPending == \E n \in Nodes : RepairPending(n)

\* check_delivery_plan and check_delivery_verification_readiness: the source
\* task is the one the plan was written for.
Ready == ~edited

\* get_delivery_status with the root's readiness: a passed verification of a
\* candidate the branch has left counts as stale.
CurrentRecord(n, cfg) ==
    /\ GateCurrent(prog.ver[n], prog.assembled, cfg)
    /\ prog.assembly = "ready" /\ ref = prog.assembled

=============================================================================
