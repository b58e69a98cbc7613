# TLA+ verification of Sikula

Sikula turns a task description into a reviewed, tested git branch, and a
delivery plan into a sequence of such tasks whose results are assembled,
verified and repaired on one branch. Agents (LLM processes) write and judge;
the program decides who is asked next and what counts as done. What it knows
lives in files (one JSON file per task, a progress file and a journal per plan,
evidence and control files), and a command may be killed at any moment and
given again while the operator and other commands go on working. The hard
question about this code is therefore not what one agent does, but whether the
*stored facts* (approvals, results, verifications, reservations, answers) still
mean what they say after fixes, failures, kills, resets, amendments and
resumptions in every order.

This directory holds the models, their TLC configurations and the proofs.
`PROJECT.json` lists every component with its status, every definition with the
source lines it stands for, every run with its properties, and every hazard at
its line.

## 1. Inventory

| Component | State it keeps | Operations | Hard behaviour |
|---|---|---|---|
| Orchestrator (`core/orchestrator.py`) | `TaskState`; flags of the process | run, phases, fix loops, final gate | nested loops with shared counters, early returns with and without a save, resumption |
| TaskState, JsonStateStore (`core/state.py`) | the task's JSON file | load, save, update of the active operation | kill between two saves; two threads of one process |
| Heartbeat (`core/progress.py`) | the active operation | save on enter, beat, clear on exit | a thread against the call that changes the same object |
| Agents (`agents/`) | files in the worktree; approval flags | write, report, approve, reject, fail after writing | writes that are not reported or lost; an approval outlives its code |
| Test audits | pending marker, gate records | begin, record files, retry, finish | marker, files and findings are saved at different times |
| Review command, reset, worktrees (`sikula.py`, `sikula_cli/`) | worktree, branch, fix commit | run, deliver, finalize, `--reset-failed` | git state against task state, an operator in the same checkout |
| LLM client (`core/llm_client.py`) | a subprocess, two readers, a queue | call, time out, terminate, retry | late output, surviving descendants, a retry after files changed |
| Delivery child stops, scope, quarantine | snapshots, terminal stop, intents | audit, stop, move, restore | interrupted moves, competing stops, retries over half-written files |
| Delivery plan, progress (`core/delivery_plan.py`, `delivery_progress.py`) | plan, progress file, journal, lock | check, update, derive the status | kill between file and journal; status derived from several records |
| Delivery run and run-next | child task against unit record | select, start, recover, retry, hand off | child state against parent record |
| Assembly, finalization | the final branch | merge, compare-and-swap, record | another process moves the ref |
| Verification, repair, checkpoints | attempts, verdicts, repair control | verify, repair, reverify | stale verdicts, reserved calls, boundaries |
| Review of nested checkpoints (`core/delivery_verify.py`, `delivery_reverification.py`, ...) | records, evidence files | compose, refresh, reassess, review in full | evidence that changes under a composed approval |
| Amendment (`core/delivery_amendment.py`) | proposal, plan, tasks, ref, journal | propose, publish, undo, complete | failure in the middle of several writes; chains of amendments |
| Delivery preparation | session of exchanges, drafts | reserve, answer, replay, write | repeated or half-finished exchanges |
| Task and contract preparation (`core/contract_check.py`, `sikula_cli/contract.py`, `task.py`) | texts, answers files | ask, answer, apply, prefill | answers by two authors about texts that change |
| Assets, build tools, configuration, summaries | none of their own | pure functions and I/O | none a state machine would show |

They interact in one direction. A command loads or creates the task and calls
`Orchestrator.run()`. The orchestrator calls agents and build tools one at a
time, each under a heartbeat that shares the task state with a thread. Agents
write the worktree and the state object; the orchestrator saves. Delivery
commands run orchestrators of child tasks and read the child's file to decide
what the parent records; they meet other commands through the progress lock,
the branch and the journal.

What makes each component correct: the orchestrator finishes only what every
enabled gate has looked at in its final form, stays within its budgets and
terminates; the store never loses or resurrects a finished task; delivery
progress is never ahead of what the children did, a ref moves only from the
value that was read, a pass covers what it is taken for; every publication is
completed or undone; every reserved call is spent once; what a person wrote is
kept.

## 2. Modules

### Task

* `TaskState`: the record of a task and the pure operators over it. A list or
  text the control flow only tests for emptiness is a BOOLEAN; `plan` is the
  number of steps.
* `Orchestrator`: one standalone task. `mem` is the session's TaskState,
  `disk` the saved one, `pc` the agent, tool or decision the session is at,
  `loc` the locals of its call stack and the flags of the process. `Saved`,
  `Unsaved` and `EndSession` say whether a step reaches the disk, because that
  is what a kill tells apart. One action per phase outcome; the fix gates
  (`ReviewFix`, `ReviewFixHandled`) are two actions because `_run_agent` saves
  the agent's files before the caller saves what they mean. `Crash` kills the
  process anywhere: with an agent running, what it had written may remain
  (`LeftBehind`) and the heartbeat had saved the session's memory; between two
  saves, files already returned lose their consequences (`Unhandled`).
  `work` is a ghost: per gate, who wrote since the gate last passed. It never
  guards what the code does, with three exceptions that are facts of the
  worktree the code reads with git or by scanning: `unrecorded`, `gated` and,
  through the marker, the restoration of an interrupted writer's files.
* `TaskLifecycle`: what a task promises its operator: open, done or failed;
  done only when no required gate is owed a look; done is final; failed is left
  by a reset. `Orchestrator` implements it (`ImplementsLifecycle`).
* `OrchestratorMC`: sets of configurations for TLC.

### Delivery runtime

* `DeliveryState` declares what the commands share (plan, progress, journal,
  lock, branch, child tasks, repair control) and the local place of each
  command; a kill keeps the first and drops the second, and leaves the lock.
* `DeliveryProgress`: the progress record and the status derived from it, as
  operators. A commit is the set of changes reachable from it, so "ancestor" is
  inclusion and a merge is a union.
* `DeliveryAssembly`, `DeliveryFinalize`, `DeliveryRunNext`, `DeliveryVerify`,
  `DeliveryRepair`: one command each, step by step between the points where it
  takes or leaves the lock, writes a file or moves the branch.
* `Delivery` composes them: `delivery run` drives all of them in its loop, the
  single commands do one; several processes run them over the shared state.
* `DeliveryMC` gives the plan and the commands.

### Components that meet only through files

`Components` runs one of these at a time; they share no state, so one run
explores several. While one of them runs, the others stay in one initial
state, and each property is evaluated where its component runs.

* `DeliveryAmendment`: publication of a proposal over tasks, plan, branch,
  progress and journal, its undo, and its completion after a kill. Every append
  to the journal may be cut after any part of it, the entry of a refused apply,
  which has two events, included.
* `PlanLineage`: what a chain of amendments makes of a plan: the check of a
  plan (dependencies, groups, checkpoints, requirements, lineage) and the
  amended plan that has to pass it again, with units delivered in between.
* `ChildScope`: audits around attempts, agents and tools in a delivery child,
  retries, terminal stops, recovery, quarantine.
* `AgentProcess`: the subprocess runner with its threads, queue, deadline and
  termination. `Heartbeat`: the thread, the store's lock and the join that
  gives up after a second.
* `Preparation`: hierarchical preparation, where a session reserves, saves and
  replays exchanges. `PlanAuthoring`: flat authoring with verification, repair
  calls and the writer that undoes what it could not finish.
* `Workspace`: the worktree of a task from creation to delivery of its commit.
* `CandidateReview`: the review of a node over its checkpoints: results are
  composed, refreshed, reassessed or replaced by a full review, by two roles. A
  verified node that composes without retained authority keeps no control: its
  full review is called unreserved. Saves of an attempt and of a boundary may be
  refused while another process holds the lock.
* `PreparedAnswers`: texts, what they ask, answers files, `--interactive` and
  `--auto` of `task refine` and `contract prepare`, over edits and kills.

`ComponentsMC` gives their constants and, as `Explored`, the components of a
run. `ComponentConstants` (evaluated by TLC) states what the modules assume of
the constants.

### What the models abstract

Data is reduced to what the properties tell apart: a commit to the changes it
contains, a proposal to its name, a prompt to the record of what it contains, a
text to its base and whose answers it contains. Beyond that:

* *Orchestrator*: an agent writes one of a few kinds of files (`code`,
  `config`, `tests`), because these are what it distinguishes.
* *Delivery*: re-reading the branch and the write that follows under the lock
  are one step, and a gate is one step (`CandidateReview` opens it up); unit
  and time limits are nondeterministic; the signature check for no progress,
  no-op units and empty assemblies are left out; `--reset-failed` is given only
  when a unit failed or was running.
* *Amendment*: authoring the proposal is one step. *Plan lineage*: the order of
  units in the file, sizes, paths, streams, and obligations of checkpoints are
  left out; a checkpoint passes once its units are done; failed units count as
  pending; a plan starts without amendments.
* *Child scope*: three files stand for what the audit distinguishes. The four
  provider clients contain the same retry loop.
* *Preparation*: a limit on sizes is a nondeterministic stop; an unresolved
  disposition counts as a defect; assessment files are left out. *Authoring*:
  what the model answers is arbitrary; rendering and assets are left out.
* *Workspace*: the safety check (branch, cleanliness, HEAD) is one step; a
  detached operator HEAD, cleanup of whole tasks and report-only reviews are
  left out.
* *Candidate review*: whether a packet fits and whether a rejection of a leaf
  may be reassessed are nondeterministic; a full review of a composing node may
  not be reassessed, a composed gap may; results that turn out invalid when
  reloaded are left out. The lock may be refused to a composition
  (`ReviewFails`), to the saves of a checkpoint (`ChildUnsaved`) and to the last
  save of the verified node (`AnchorUnsaved`), of a boundary too.
* *Answers*: which questions a text asks is a constant; an answer may raise
  follow-up questions, and the operator's answers to `Vague` ones do not settle
  them. The operator does not edit a file he is being prompted for. Project
  context, the revise exit (it leaves what `Abandon` leaves), assets and audit
  records are left out.

## 3. Runs

| Run | Instance | Question |
|---|---|---|
| `one_fault` | single-pass with and without build and heartbeat, review-fix; one kill or one reset (3.7 million states) | does done still mean reviewed, secured, tested, validated and free of execution gates when failures are reset or sessions killed; is the fixer budget kept, a terminal task final, an interrupted test writer remembered? |
| `planned` | up to two steps, build per step or deferred; one kill (2.5 million) | is a step left only with its gates passed, the whole reviewed again, and the lifecycle implemented? |
| `liveness` | single-pass, and a one-step plan; one kill; `FairSpec` | does every session end, and a resumed task become terminal? |
| `delivery` | two units, a checkpoint over the first, the root; two processes, one in `delivery run`, one in `verify`; kills, lost writes, foreign commits (0.67 million) | is what progress records always backed by children, branch and verdicts? |
| `components` | nine components, one at a time (0.94 million) | one or more properties of each, see below |
| `candidate` | the tenth, `CandidateReview`: the verified node over a checkpoint over a leaf; two commands, one fault (1.28 million) | are rejections answered, calls repeated, boundaries and evidence kept when the command is killed or refused the lock? |
| `unsaved_failure`, `lost_fix`, `unaudited_tests`, `review_fix_unvalidated`, `stale_sync`, `delivery_boundary_lost` | the instance that shows it | the disagreements of section 6 |

What `delivery` shows. What a command is about to write into progress is always
a record the writer accepts (`ProgressWritable`); a delivery recorded as final
was verified as a whole under the present plan and contains every result
(`FinalIsVerified`); a pass of the whole is not kept for a candidate that lacks
a result recorded since (`PassedCoversResults`); a done unit has its handoff and
its commit contains what the unit builds on (`DoneUnitsCompose`), repairs
included (`BuiltOnRepairs`); at most one child of a unit works
(`OneChildWorks`); a repair is scheduled only once its publication is settled
and the provider is called within its budget over all kills
(`RepairsPublishedFirst`, `RepairWithinBudget`); an execution boundary that was
recorded stays (`BoundaryRetained`); no command takes a change off the branch
(`BranchOnlyGrows`).

What `components` shows. An amended plan has its tasks and what a command
reports of it is so (`PublicationIsWhole`); a recovery that begins progress
anew forgets no delivered work, unless the journal ends in the start of a
refused apply whose second event was cut off (`NoWorkForgotten`; section 6 has
the sequence of five faults, outside these bounds). Amendments keep order and
requirements of the accepted plan (`PromisesSurvive`), and it can always be
delivered further (`PlanNeverStuck`). What a child accepts lies within its
scope (`AcceptedWithinScope`), a terminal stop stays (`StopIsFinal`), a removal
was reviewed (`RemovalIsReviewed`). When a provider call fails, nothing it
started still writes, and a completed one has returned all of its output
(`CallIsSettled`); heartbeats take back no save (`SavesSurviveHeartbeats`). A
prepared tree contains only approved proposals (`AssembledIsApproved`), within
the call budget over all kills (`AskedWithinBudget`), and no node is proposed
for its contract more than twice, though the walk counts its attempts in memory
and every command begins it again (`CorrectedOnce`); a reported plan is verified
and a reported block changed nothing (`ReportIsTrue`). The work of a done task is in
a branch or in the kept worktree (`FixNotLost`). Answers of a person are kept
and applied only to the text they were given for (`AnswersAreKept`).

What `candidate` shows. A node passes after a rejection below it only by a full
review that knew of one (`RejectionsAreReviewed`). Each exchange that is
reserved is asked once over all kills and refusals of the lock; the unreserved
full review of a verified node without control may be repeated by the next
command, but is asked at most once in each (`AskedOncePerGate`). A boundary is
on the verified node's record when the command ends, unless another process
held the lock at the very save of it (`CrossingIsLatched`); a pass that was cut
short can be repeated (`EvidenceIsReproducible`).

Bounds. Budgets of the orchestrator are 1, except `max_iterations = 2` in
`Retrying`: budgets of one already nest a review fix inside a security fix
inside a post-validation pass, and two attempts let a fixer's change be broken
by a second fixer. Two steps are enough for an advance and a last step. One kill
or one reset (`MaxFaults` bounds both together) suffices for its single-fault
properties; combinations of two are outside these runs (the proofs of section 5
have no bound). `PlannedLean` turns
off the security review and the checks, whose interplay the single-pass runs
cover. In `delivery` three faults let a kill, a lost write and a foreign commit
meet; `MaxAttempts` ends a command that would retry. In `components` two kills
or resumes are enough for a kill during the recovery of another; two chunks per
stream distinguish the last from an earlier one; three nodes in a chain are
enough for a result composed from a result composed; two units replaced up to
three times split a replacement again; four turns let a person, a model and an
edit interleave. `Max...` constants are the only bounds in guards. No constant
is symmetric: the elements have different roles.

Deadlock is checked in every run but those of the components (`components`,
`candidate`), which end: a process that has exited, a plan that is delivered, a
spent operator.

Fairness. `FairSpec` (run `liveness`) assumes weak fairness of `Session`:
agents and tools run under a timeout, so a call returns or fails, and the
process does not stop without being killed. It also assumes that the operator
starts a task again that is not terminal. Nothing is assumed of kills and
resets, which are bounded. The choice of agents is not fair: a reviewer may
reject for ever, and only the budgets end the session. The other runs check
safety and assume no fairness.

Conditions in the orchestrator's properties name real exceptions:
* `autofix`: a check's `fix_command` changes files after build and tests; only
  the check is repeated. This is documented (ARCHITECTURE.md, section on checks).
* `lost_sync`: outputs of a killed sync are not adopted by anyone.
* a review-fix task answers for security, tests and validation only while
  uninterrupted: its re-review of test changes reopens the review alone, and
  its fast path relies on flags of the process (`review_fix_unvalidated`).
* tests are written after the review; the reviewers of a normal task do not
  read them, so `tests` is not an origin the review answers for.
* "tested" with a build or a plan requires no kill: see `unaudited_tests`, and
  section 6 for the step and for the plan without a build.
* without a heartbeat a kill can cost one attempt its count (`FixerBudget`).

## 4. Faulty variants

Next to an operator its faulty variant states a plausible bug; substituting it
breaks the property it is paired with.

| Module | Operator -> variant | Bug | Property |
|---|---|---|---|
| Orchestrator | `AttemptStarted` -> `AttemptUncounted` | counter moves the wrong way | `TypeOK` |
| TaskState | `FixerChangeGateEffects` -> `TestOnlyFixKeepsSecurity` | a test-only fix skips security | `DoneMeansGated` |
| Orchestrator | `BeginAudit` -> `UnmarkedAudit` | writer starts without the marker | `InterruptedTestsArePending` |
| Orchestrator | `ValidationOnly` -> `ValidationOnlyTooLate` | off by one in the budget | `FixerBudget` |
| Orchestrator | `StartRun` -> `RestartsTerminal` | no terminal guard | `TerminalStable` |
| TaskState | `OpenFinalGate` -> `FinalGateKeepsApprovals` | step approvals count for the whole | `DoneMeansReviewedAsAWhole` |
| TaskState | `AdvanceStep` -> `AdvanceKeepsApproval` | approval leaks into the next step | `StepsLeaveApproved` |
| TaskState | `FixerChangeGateEffects` -> `FixKeepsGates` | a fix reopens no gate | `ImplementsLifecycle` |
| Orchestrator | `CountSecurityFix` -> `UncountedSecurityFix` | security fixes are not counted | `SessionEnds` |
| Orchestrator | `FailSaved` -> `FailureUnrecorded` | failures are not recorded | `EventuallyTerminal` |
| DeliveryProgress | `MarkAssembly` -> `MarkAssemblyKeepsPass` | a new candidate keeps the old pass | `ProgressWritable` |
| DeliveryProgress | `MarkAssembly` -> `MarkAssemblyKeepsFinal` | a new candidate keeps the final commit | `FinalIsVerified` |
| DeliveryProgress | `ScopeComplete` -> `ScopeStarted` | a unit that has only been started counts as complete | `PassedCoversResults` |
| DeliveryRunNext | `WriteHandoff` -> `WriteHandoffLenient` | a result is recorded although its handoff could not be written | `DoneUnitsCompose` |
| DeliveryState | `HandoffStale` -> `NeverStale` | work behind a checkpoint does not hold its verification back | `BuiltOnRepairs` |
| DeliveryRunNext | `RecordFailed` -> `RecordFailedAsPending` | a child without a result gives its unit back | `OneChildWorks` |
| DeliveryState | `RepairPending` -> `RepairUnsettled` | a repair that is prepared no longer counts as pending | `RepairsPublishedFirst` |
| DeliveryRepair | `ReserveAuthoring` -> `AuthorUnreserved` | a call is counted only by its result | `RepairWithinBudget` |
| DeliveryVerify | `Preflight` -> `PreflightPastBoundary` | a boundary does not stop verification | `BoundaryRetained` |
| DeliveryAssembly | `Advance` -> `AdvanceForced` | the ref is set without comparing | `BranchOnlyGrows` |
| DeliveryAmendment | `Missing` -> `MissingUnlessBegun` | one event of a publication in the journal counts for all | `PublicationIsWhole` |
| DeliveryAmendment | `MissingProgressCurrent` -> `RecreateProgress` | lost progress is begun anew whatever was journalled since | `NoWorkForgotten` |
| ChildScope | `Recover` -> `RecoverUnaudited` | recovery drops the record of an interrupted audit | `AcceptedWithinScope` |
| ChildScope | `ResetFailed` -> `ResetAnyFailed` | a reset takes any failure | `StopIsFinal` |
| ChildScope | `RecordCleanup` -> `RecordCleanupOnly` | a cleaned-up removal keeps approvals | `RemovalIsReviewed` |
| AgentProcess | `EndSeen` -> `EndSeenQueueFirst` | queue is looked at before the readers | `CallIsSettled` |
| Heartbeat | `ReadFile` -> `ReadFileUnlocked` | read-modify-write without the lock | `SavesSurviveHeartbeats` |
| Preparation | `Rejected` -> `RejectedLocally` | a rejection of the whole by its integration review is passed over | `AssembledIsApproved` |
| Preparation | `Budgeted` -> `BudgetedByAnswers` | only answered calls count | `AskedWithinBudget` |
| Preparation | `Correct` -> `CorrectByStage` | what the integration review finds has a correction of its own | `CorrectedOnce` |
| PlanAuthoring | `IsRepair` -> `CountedRepair` | a repair with as many requirements as before is accepted | `ReportIsTrue` |
| Workspace | `HoldsFix` -> `HoldsFixMadeNow` | only this process's commits count as work | `FixNotLost` |
| CandidateReview | `Latched` -> `LatchEntry` | only the rejected child's own entry remembers the gap | `RejectionsAreReviewed` |
| CandidateReview | `Reserved` -> `ReservedForRefresh` | an exchange is marked only when children were refreshed for it | `AskedOncePerGate` |
| CandidateReview | `LatchAnchor` -> `LatchIfCurrent` | a boundary is recorded like any other verdict | `CrossingIsLatched` |
| CandidateReview | `CompletedAt` -> `UnreservedTime` | evidence carries the time it is written at | `EvidenceIsReproducible` |
| PlanLineage | `DraftLeaves` -> `DraftRoots` | dependents follow the first replacements, not the last | `PromisesSurvive` |
| PlanLineage | `Ordered` -> `Unordered` | only the units' own dependencies must be free of cycles | `PlanNeverStuck` |
| PreparedAnswers | `Prefilled` -> `PrefilledOver` | a model's answer replaces a person's | `AnswersAreKept` |

## 5. Proofs

The theorems hold for every value of the constants that their assumption
admits: any number of kills, resets, steps, beats, texts, commands and edits.

Orchestrator (`Orchestrator_proofs`, `Orchestrator_gates_proofs`), from
`ConfigsAssumption`, `MaxStepsAssumption` and `BoundsAssumption`:

* `TypeCorrect`: `Spec => []TypeOK`. Replacing a field of a task state by a
  value of its type gives a task state, operator by operator; the same for the
  worktree and the locals; then the actions group by group.
* `SessionInvariant`: `Spec => []IInv`. Neither property below is inductive
  alone. `IInv` adds `OpenSession` (no session runs on a task that is terminal
  in memory or on disk, memory equals disk between sessions, and done and
  failed exclude each other) and `AuditMarked` (while the writer may be writing,
  or its files are unaudited, the marker is set in memory *and* on disk: a kill
  keeps either copy). Most actions either continue a session with outcome and
  marker unchanged (`Continues`) or end it (`Ends`); one lemma shows that both
  keep the invariant, and only the test writer's actions, the kill and the
  reset need an argument of their own.
* `TerminalStaysTerminal`: `Spec => TerminalStable`.
* `InterruptedTestsStayPending`: `Spec => []InterruptedTestsArePending`.
* `GatesInvariant`: `Spec => [](IInv /\ GatesInv)`. That a done task has passed
  its gates is decided long before it is done, by flags set in one session and
  believed in another. `GatesInv` says at every place of a session, and between
  sessions, what each of them is worth:
  - `FlagsSaved`, `StepsAgree`: no progress or approval flag differs between
    memory and disk, so that no kill gives one back; `Placed`, `Scoped`: which
    place goes with which scope of work (`LoopKeyCases` tells the loops' keys
    apart);
  - `ReviewCurrent`, `SecurityCurrent`, `TestsCurrent`: as long as an approval is
    recorded, nobody it answers for has written since, it is missing where a fix
    is under way, and it stands behind its gate. Most of the proof goes here,
    because every writer has to withdraw every approval it spoils before the
    next save;
  - `PostValidated`: after a passed attempt the tree is validated unless the
    gates the loop reopened changed something, and then the counters show it and
    the loop goes round; `GatesRecorded`: an execution gate in the tree is
    recorded in memory and on disk;
  - `WholeReview`, `FixerIdle`: a loop or a fixer of the final scope means that
    the whole was reviewed; a step's fixer leaves no mark behind it;
  - `AuditKept`, `FirstLook`, `FixesAreDue`: where an audit can be pending, what
    a review-fix task's fast path may rely on, which fixes can be under way;
  - `FixesCounted`: each fixer of the loop is covered by a counted attempt, in
    memory and, up to one per kill without a heartbeat, on disk;
  - `StepTested`, `StepReady`: a step is at its end only with its gates passed.

  One lemma per action (`ReviewEffect`, `SyncEffect`, ...) says what it does to
  the fields these parts speak of; each part then has one lemma for the steps of
  a session and one for kills, resets and starts. The parts were checked by TLC
  before they were proved, which is how the exceptions below were found.
* From it: `DoneIsGated` (`DoneMeansGated`), `ReviewedAsAWhole`
  (`DoneMeansReviewedAsAWhole`), `FixerWithinBudget` (`FixerBudget`, for every
  limit) and the action property `StepsLeftApproved` (`StepsLeaveApproved`).
* `LifecycleImplemented`: `Spec => ImplementsLifecycle`. Every step of a session
  is a step of `TaskLifecycle` (a write makes gates owed, one gate looks, the
  task finishes or stops) or leaves it alone: the debts only grow, or exactly
  one gate's are cleared (`SessionMoves`), and a task finishes with none of a
  required gate, by `DoneIsGated`.

Answers (`PreparedAnswers_proofs`), from `PreparedAssumption` (what a text asks
are questions):

* `PreparedAnswersAreKept`: `Spec => []AnswersAreKept`. The invariant says where
  an answer of a person may stand: in a file, only with the text it was given
  for (`EntriesGiven`); in a command, only as loaded from such a file or typed
  at its prompts, while the model adds answers where there are none
  (`CommandAdds`); and in the file of a contract check, only to a question the
  check asks (`CheckAsks`), so that rewriting the file drops none. Three lemmas
  on the operators carry it: moving a file to another text archives every
  answer (`MergedKeeps`), prefilling replaces none (`PrefilledKeeps`), and what
  a text asks are questions (`AskedAreQuestions`).

Candidate review (`CandidateReview_proofs`), from `CandidateAssumption`: the
anchor is a node, `Kids` maps nodes to other nodes than the anchor, and a
checkpoint has one parent (core/delivery_checkpoint_model.py:22, 42). The tree
may have any shape and depth.

* `CandidateInvariant`: `Spec => []CandidateInv`. What a gate is told by a child
  is decided several exchanges, saves and kills earlier. `CandidateInv` says that
  the gates in progress are a path from the verified node down (`Stacked`), that
  a node without a record has kept nothing (`Blank`), what each record's status,
  gaps and counted exchanges mean for one another (`NodesHold`: a role refers
  only to gaps of children that were rejected for it, and a counted exchange is
  reserved or its result is there), what the innermost gate has in its hands at
  each of its places (`FramesHold`), where a crossed boundary is on its way to
  the anchor's record (`CrossingOK`), and that a rejection leaves a gap in every
  enclosing record until a full review answers it (`RejectedOK`: a gate that
  composes has no gap below it). It was checked by TLC for three shapes of
  `Kids` before it was proved.
* `CandidateAskedOnce`: what is reserved follows from `CandidateInv`. What is not,
  the full review of a verified node without control, is bounded by
  `OpenCounted`: such a gate is the innermost one of its command (nothing below
  it is refreshed), and a command that is past the review never returns to it.
* `CandidateCrossingLatched`, from `CrossingHeld`: a boundary crossed and not yet
  recorded is in the hands of the command, up to the save that records it or is
  refused the lock.
* `CandidateRejections` and `CandidateEvidence` follow from `CandidateInv`.

Components (`Components_proofs`), from `ComponentConstants`, the components'
own assumptions. The runs `components` and `candidate` check the same properties.

* `ComponentsAnswersKept`, `ComponentsRejectionsReviewed`, `ComponentsAskedOnce`,
  `ComponentsCrossingLatched` and `ComponentsEvidenceReproducible` carry the
  theorems of the answers and of the candidate review over to the composition: a
  step of `Components` is a step of the component or leaves its variables alone.
* `ComponentsSavesSurvive`: `Spec => []SavesSurviveHeartbeats`. Between its read
  and its write a heartbeat holds a copy of the file; `CopyIsCurrent` says that
  then it holds the lock and the copy's task is the one saved last. A save finds
  the lock free, so no copy is in flight.
* `WorkIsNeverLost`: `Spec => []FixNotLost`. Reviewed work moves from the
  worktree to a branch and on to the operator's checkout, by commands that may be
  killed after each step. `WorkspaceInv` says where it is: in the worktree of a
  done task while that is there, else in a branch or in the operator's checkout
  (`WorkIsHeld`), and in a branch before the worktree is removed
  (`InBranchFirst`); `TreeOfMode` and `CommandFollowsTask` say on which branch
  the worktree is, and how far the task has come at each place of a command.

Child scope, agent process and amendments (`Components_delivery_proofs`), from
`ComponentConstants`:

* `ScopeAccepted` (`AcceptedWithinScope`), `ScopeRemovals` (`RemovalIsReviewed`)
  and the action property `ScopeStopIsFinal` (`StopIsFinal`). The invariant
  `ScopeInv` rests on `WritesAreAudited`: a child without a stop has a worktree
  in scope, or owes the audit of it, with the policy saved and a snapshot from
  before the writes, so that a kill between a write and its audit leaves the
  audit due. `AuditIsReady` says that what an audit compares with is what was
  saved for it, `RemovalIsRecorded` that a file which an approval read is gone
  only while its move is recorded as under way, `MemoryFollowsFile` and
  `StopEnds` that a session believes what the file says and that a stop ends it.
* `CallSettled` (`CallIsSettled`). What the process wrote is at any time spread
  over the record of the main thread, the queue and the pipe. `ProcessInv` says of
  each stream that the queue takes the one to the point where the other begins
  (`OnItsWay`, `Leads`), that a reader ends only with its pipe empty and nobody
  left to write (`ReadToTheEnd`), and that a call ends with the readers done
  *and then* the queue empty (`EndWasSeen`): in the other order, a chunk put in
  between would be lost. `FailureWasKilled` says that every other end comes
  after the process and what it started were killed. `Leads` follows the queue
  chunk by chunk, so that no filter of a sequence needs an induction.
* `PublicationWhole` (`PublicationIsWhole`). An amendment writes tasks, plan,
  commit, progress and journal in turn, any write may fail or be the last, and a
  recovery may find whatever they left. `AmendInv` says where a command is
  between what it found (`FoundEither`: nothing of the amendment, or its
  publication) and what it publishes: each file is as found, or as written,
  according to the marks the command keeps (`DoneSoFar`), also while it undoes
  them; the tasks of a plan are there before the plan is (`TasksFirst`); and
  each step follows all those before it (`PublishedSoFar`). `Missing`, what a
  recovery adds to the journal, is shown to have every event that the journal
  lacks by an induction over a set of lengths (`NatSetInduction`).
  `AmendmentConstants` says that replacements are distinct
  (core/delivery_amendment.py:2193-2198), and their events those of no other.
* The action property `WorkNotForgotten` (`NoWorkForgotten`). A recovery that
  finds no progress begins it anew if the journal ends with the start of the
  amendment (`_missing_progress_recovery_is_current`). `NothingBehind` says what
  that end is worth: as long as the journal has it, and for as long as the
  command holds the lock, the branch has no unit that the proposal does not
  know, unless the start is that of a refused apply, left alone by a cut through
  its entry.

Planning (`Components_planning_proofs`), from `ComponentConstants`:

* `AuthoringReportsTruth` (`ReportIsTrue`). `AuthoringInv`: the draft in work
  keeps every requirement authored, with at least its units, through all
  corrections (`NothingDropped`); a draft reaches the writer only with the
  verification of its own text (`VerifiedAsItIs`); until it writes, a command
  has changed no file, and while it restores, a file is as it was or still to be
  restored (`BackedUp`).
* `PreparationApproved` (`AssembledIsApproved`), `PreparationBudget`
  (`AskedWithinBudget`) and `PreparationCorrectedOnce` (`CorrectedOnce`). A resumed command walks the hierarchy again and takes the
  answers from the ledger, so the claim is that it walks where they lead.
  `PreparationInv` speaks of the saved answers alone (`Sayings`): a question is
  on file only for the reason that answers before it give (`WellAsked`), no
  answered question is asked again (`LedgerOK`), the frames of a walk follow
  from the answers (`FrameOK`, `PassedLocally`), and what the provider was sent
  is on file (`AskedOK`). A leaf is accepted by approvals of exactly what it
  says (`AcceptedLeaf`). That a node is corrected once follows from the reason
  on file of each proposal (`WhyAuthor`): one without feedback is the first, and
  one with feedback has that of the first rejection of the first.
* `PlanGoesOn` (`PlanNeverStuck`). Units and groups of an accepted plan are
  ordered together, so that of all that is not done something comes first. It is
  not a group, since its units are not done either, and would come before it;
  and the first unit has what it follows, and every barrier before it, delivered
  (`AcceptedGoesOn`).
* `PromisesKept` (`PromisesSurvive`). `LineageInv` says that no unit replaces
  itself by way of others (`Grounded`: else its lineage would not be unique),
  that an accepted plan passes the check as it is now, and that the promises
  hold. An amendment puts the replacements where the target was: they descend
  from whatever it descended from (`DescendantsGoOn`); each follows all that the
  target followed, itself or by way of others (`RootsInherit`); and what follows
  the last of them follows all (`LeavesFollow`: of the replacements it did not
  follow, one that follows the most others would be followed by another).
  Hence every order between units, however far apart, goes on between what has
  become of them (`OrderGoesOn`). Lineage and order are recursive functions; the
  lemmas are about any functions with these equations, and that some exist is
  shown of the least closed sets (`BeforeExists`). `LineageAssumption` says that
  the identities of replacements are new (core/delivery_amendment.py:2188-2204)
  and that units are told from checkpoints (`unit:` and `checkpoint:`,
  core/delivery_checkpoint_model.py:196-202).

Delivery (`Delivery_proofs`), from `DeliveryConstants`, `AcyclicPlans`,
`StateConstants`, `VerifyConstants` and `RepairConstants`. A plan is any number
of units and checkpoints with any dependencies; what is assumed is what the
parsers refuse otherwise. `AcyclicPlans` says that in each group of units of a
plan, repairs included, one comes first (`_validate_dependencies`,
core/delivery_plan.py:2070; `parse_delivery_checkpoints`,
core/delivery_checkpoint_model.py:206; `_appended_plan` parses the enlarged plan
again). `DeliveryConstants` says that identities are distinct and a checkpoint
covers something (core/delivery_checkpoint_model.py:115-124).

* `DeliveryInvariant`: `Spec => []IInv`. None of the properties is inductive: a
  command writes the progress, the branch, the child and the repair files one
  after the other, may be killed in between, and the next command runs on what
  it left. `IInv` therefore has two parts. `Shared` says what always holds of
  the files together, for example that a published repair is in the branch and
  in the assembled candidate (`PublishedIsThere`), that no commit has a repair
  which plan.yaml has not (`CommitsAreAppended`), that a unit recorded done has a
  handoff and its commit the results of its prerequisites (`DoneComposes`), and
  that a running or passed gate of the root covers all units of the plan it
  judges (`RootCovered`). `Knows(p)` says what a command may rely on at its
  place while it holds the lock: between `select` and `start` the unit is
  pending and its prerequisites done, between `capture` and `log_running` the
  assembly is the one to be judged, after `replace plan` the repair is appended.
  Without the lock a command knows nothing; that is why a gate that ran without
  it must be compared with the record again, and why `OneStep`, the lemma
  the step lemmas go through, asks nothing of other commands. Before it was
  proved, `IInv` was checked by TLC on the instance of the run `delivery`.
* The eight invariants of the run follow from `IInv`. `DoneUnitsCompose` and
  `BuiltOnRepairs` speak of what a unit builds on at any depth; `Lineage` is the
  least closed set, and that the units which satisfy the claim are closed
  replaces an induction (`LineageStands`). That a consumer of a checkpoint
  builds on its repair (`ConsumersBuildOnRepair`) is such an argument too: who
  reads a member of the scope reads the repair, so without the repair the units
  outside the scope would be closed. `AcyclicPlans` is needed once, where an
  assembly that finds no unit to apply must have applied all (`NothingUnapplied`).
* `DeliveryBranchGrows` and `DeliveryStopsStay` are the action properties. The
  second holds of plans with checkpoints only: without them `_preflight_result`
  (core/delivery_verify.py) does not ask for boundary stops, and the root may be
  verified again after one.

TLC evaluates the assumptions on every run of their module (`ComponentConstants`
for those of the components). Every safety property of the passing runs,
invariant or action property, is a theorem. Only model-checked:

* liveness under fairness (`SessionEnds`, `EventuallyTerminal`) and ENABLED, which
  are out of the prover's reach;
* the runs of section 6, which are counterexamples.

## 6. Where code and documents disagree

Shown by a run that finds the violation:

* `unsaved_failure`: a gate that gives up inside a loop that would set `done`
  sets `failed` in memory and nobody saves it; the task can be resumed without
  `--reset-failed`.
* `lost_fix`: a fixer that fails after writing keeps all approvals; after
  `--reset-failed` the change is accepted unreviewed.
* `unaudited_tests`: killed during the audit of a post-validation test pass, a
  resumed task finishes with the audit pending.
* `review_fix_unvalidated`: a killed review-fix task that wrote code takes the
  fast path around CI when resumed.
* `stale_sync`: a later step's implementer changes a build file and the step is
  built on the old sync.
* `delivery_boundary_lost`: a gate that finds a boundary while another process
  holds the lock records the attempt as stale, and the next command asks again.

Met while modelling, part of the models, claimed by no property:

* Delivery. A failed assembly records a foreign tip as assembled, so that the
  next command passes the divergence guard (docs/delivery-plans.md:1088-1093:
  fail closed). A done child whose worktree was not finalized is recorded failed
  for good (docs/delivery-plans.md:1043). A failing `create_worktree` leaves the
  child open without one. A pending repair cannot go on when a verification
  changes the record between the killed authoring and the resumption.
* Test audits of plans. `_run_test_write_phase` (core/orchestrator.py:3076)
  repeats only the audit when the marker says the writer had completed, and sets
  no flag. Killed during the audit of the final gate, a planned task without a
  build opens that gate again, which withdraws `tests_up_to_date`; a review fix
  made then is accepted with the audit alone, although the writer never saw it.
  The same in the loop of a step, where a fixer withdraws the flag. Hence the
  kill in `DoneMeansTested` and in `StepsLeaveApproved`; the runs' budgets and
  plans are too small to show it, the proofs met it.
* Candidate review. A boundary found while another process holds the lock is not
  recorded: `_persist_terminal_if_current` returns nothing
  (core/delivery_verify.py:2132-2133), and `_persist_candidate_boundary` (1237)
  raises, which ends in a failure that may be retried (1359-1366). The full
  review of a verified node without retained authority is not reserved
  (1630-1631); killed behind the call, the next command asks again. Both are in
  the model, and `CrossingIsLatched` and `AskedOncePerGate` say no more.
  `semantic_fallback_covers_gaps`
  (core/delivery_reverification.py:357) compares gaps by child: a full review of
  the root that covered a child before a second role had that child rejected
  counts as covering it afterwards, so the root can pass on an approval made
  before the rejection, against the assertion at 299-305 and the docstring at
  348-349. `RejectionsAreReviewed` asks for a full review after *a* rejection
  below, not after each one.
* Amendments. After `t` was replaced by `r` and `r` by `s`, an amendment of a
  dependency of `t` is refused: `_amended_plan_data` does not rewire the
  superseded `r`, and `_validate_replacement_dependencies`
  (core/delivery_plan.py:2188-2215) compares it with the new leaves
  (docs/delivery-plans.md:499-507 allows such amendments). Killed between the
  publication of tasks and of the plan, an amendment leaves tasks that block
  the next application. A refused apply journals its two events in one append
  (core/delivery_amendment.py:1483-1496). Killed between them, after an applied
  amendment, a delivered unit, an edit and the loss of progress, it leaves a
  journal that ends like that of an apply killed before it wrote progress; with
  the edit undone, recovery, which looks at the last line only (2813-2831),
  begins progress without the unit, although its delivery is in the journal
  (docs/delivery-plans.md:494-495: any later delivery event makes recovery fail
  closed). This is the exception in `NoWorkForgotten`. An interrupt during `git update-ref` leaves the branch
  advanced with the old plan; a second interrupt leaves the undo half done; a
  torn journal line that is appended to refuses later recovery.
* Child scope. A kill between the save that ends a pending audit and the
  deletion of its snapshot makes the next resume stop with a scope violation. A
  fixer pass for tests that writes production code ends a child for good.
* Preparation. An answer is saved as received before the inputs are validated
  behind the call (core/delivery_preparation_session.py:258-270). Killed in
  between, with an edit of the sources undone, the next command accepts what the
  provider said about the edited ones
  (tests/test_delivery_hierarchical_preparation.py:1010 calls such a change
  durable). A changed authority that only `exchange`, `context` or the assembly
  sees (189, 106; agents/delivery_hierarchical_preparation_agent.py:288) is not
  recorded either: once it is undone, the next command goes on. A proposal repeated unchanged is assessed again when the
  correction round asked for context (the comment at
  agents/delivery_hierarchical_preparation_agent.py:437-439 says it is not). A
  kill during the forced rewriting of a plan leaves files of two drafts; task
  files of units that are no more in the plan are not removed.
* Workspace. An operator who switches branches between the safety check and
  `git merge --ff-only` gets the fix on what is checked out then, recorded as
  delivered. A task killed before its worktree is recorded is resumed in the
  operator's own checkout. A done task killed before its worktree is finalized
  is not finalized by `run --task-id` (already terminal). A review killed
  before its save leaks a worktree.
* Heartbeat. A heartbeat that outlives the join may leave a stale
  `active_operation`.
* Answers. Answers of a second `--auto` round to follow-up questions are never
  applied, since only questions the source leaves open are active
  (core/contract_check.py:1030). A person's answer written while the model is
  asked stays in the file, but the contract has the model's. `task refine
  --auto` looks for an existing output only before it asks. A contract check
  drops filled answers to questions no longer asked, where `contract prepare`
  keeps them.

## 7. Not modelled, and the plan

Not modelled: source scanning and text accounting (execution-gate patterns,
validation coverage, obligations in Markdown, assets), prompts and parsers,
provider command lines, build tools' subprocesses, configuration, summaries and
diagnostics. They keep no state between calls; their verdicts enter the models
as nondeterministic inputs. Partly modelled components say in `PROJECT.json`
what is left out: usage and history counters, reporting and argument checks of
commands, cleanup of whole tasks, the delivery branches of the orchestrator's
loops (their scope audits and stops are `ChildScope`), repair of nested
checkpoints, path canonicalisation.

Next, most important first:
1. A theorem of what `FailurePersisted` and `DoneMeansFixesReviewed` fall short
   of: which exits leave a failure unsaved, and after which a fix stays unreviewed.
2. Composition of `DeliveryVerify` with `CandidateReview` (a gate opened up
   under concurrent commands), and of `DeliveryRunNext` with `TaskLifecycle`.
3. Delivery over larger plans (nested checkpoints), and liveness of `delivery
   run` under a fair scheduler.
