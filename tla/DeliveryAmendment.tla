-------------------------- MODULE DeliveryAmendment --------------------------
(***************************************************************************)
(* Splitting a unit of a delivery plan (core/delivery_amendment.py):       *)
(* "amend prepare" stores a proposal that names the fingerprints of all    *)
(* it was authored from; "amend apply" publishes it in one transaction     *)
(* over the replacement task files, plan.yaml, the final branch,           *)
(* progress.json and events.jsonl, undoes it when a step fails, and        *)
(* completes it when it was killed after the plan was replaced.            *)
(*                                                                         *)
(* A commit is the set of changes reachable from it, as in                 *)
(* DeliveryProgress; the assembly base is {}.                              *)
(***************************************************************************)
EXTENDS Naturals, Sequences, FiniteSets, SequencesExt

CONSTANTS
    Replacements,       \* the replacement units, in the order of the proposal
    MaxAmendFaults,     \* bound on edits, pushes, failures and kills
    MaxAmendCommands    \* bound on the commands of the user

\* A replacement stands for its own event in the journal too.  The start that a
\* refused apply journals is a plan.amend_started like that of any other.
OtherEvents ==
    {"started", "blocked", "failed", "corrupt", "later", "split", "superseded", "amended"}
Starts == {"started", "blocked"}
AmendmentConstants ==
    /\ Replacements \in Seq(Range(Replacements)) /\ Len(Replacements) > 1
    /\ IsInjective(Replacements) /\ Range(Replacements) \cap OtherEvents = {}
    /\ MaxAmendFaults \in Nat /\ MaxAmendCommands \in Nat

VARIABLES
    plan,       \* plan.yaml: which text it is, and does it name the replacements?
    contract,   \* which text the target's and the retained contracts have
    tasks,      \* [replacement -> its task file]
    progress,   \* progress.json
    branch,     \* refs/heads/<final_branch>
    log,        \* the event types in events.jsonl
    torn,       \* does events.jsonl end in an incomplete line?
    locked,     \* the lock file exists
    proposal,   \* the newest stored proposal
    amend,      \* the running command and its locals
    tally       \* commands and faults so far

amendVars == <<plan, contract, tasks, progress, branch, log, torn, locked, proposal, amend, tally>>

NoCommit == {"none"}
Success == <<"split", "superseded">> \o Replacements \o <<"amended">>
Blocked == <<"blocked", "failed">>
NoProposal == [plan |-> "none"]
NoProgress == [has |-> FALSE, assembled |-> NoCommit, failed |-> FALSE, work |-> FALSE]
\* "before" is the tree as the command found it, "quiet" holds while nobody
\* else has written since, "cut" once an interrupt fell between a write and
\* the assignment that remembers it.
NoCommand == [pc |-> "idle", wrote |-> {}, planned |-> FALSE, made |-> FALSE, prev |-> NoCommit,
              bad |-> FALSE, before |-> <<>>, quiet |-> TRUE, cut |-> FALSE]

Tree == [plan |-> plan, tasks |-> tasks, progress |-> progress, branch |-> branch,
         log |-> log, torn |-> torn]

Init ==
    /\ plan = [text |-> "a", amended |-> FALSE]
    /\ contract = "a"
    /\ tasks = [r \in Range(Replacements) |-> "absent"]
    /\ \E done \in {NoCommit, {"unit"}} :
         /\ branch = done
         /\ progress = IF done = NoCommit THEN NoProgress
                       ELSE [NoProgress EXCEPT !.has = TRUE, !.assembled = done]
    /\ log = <<>> /\ torn = FALSE
    /\ locked = FALSE
    /\ proposal = NoProposal
    /\ amend = NoCommand
    /\ tally = [commands |-> 0, faults |-> 0]

At(pc) == amend.pc = pc
Go(pc) == amend' = [amend EXCEPT !.pc = pc]
Fault == tally.faults < MaxAmendFaults /\ tally' = [tally EXCEPT !.faults = @ + 1]
NoFault == UNCHANGED tally
Command(pc) ==
    /\ At("idle") /\ tally.commands < MaxAmendCommands
    /\ tally' = [tally EXCEPT !.commands = @ + 1]
    /\ amend' = [NoCommand EXCEPT !.pc = pc, !.before = Tree]
End == amend' = NoCommand

\* append_delivery_progress_events: behind an incomplete line the first event
\* makes a line that no reader can parse.
Append2Log(events) ==
    /\ log' = log \o (IF torn /\ events # <<>> THEN <<"corrupt">> \o Tail(events) ELSE events)
    /\ torn' = (torn /\ events = <<>>)

\* An append that is cut short leaves any part of it; broken says whether the
\* file ended in an incomplete line before.
AppendPart(events, broken) ==
    \E n \in 0..Len(events) :
        /\ log' = log \o (IF broken /\ n > 0 THEN <<"corrupt">> \o Tail(SubSeq(events, 1, n))
                                            ELSE SubSeq(events, 1, n))
        /\ torn' \in IF n < Len(events) THEN IF broken /\ n = 0 THEN {TRUE} ELSE BOOLEAN
                                       ELSE {broken /\ n = 0}

(***************************************************************************)
(* What a command reads.                                                   *)
(***************************************************************************)
\* preview_delivery_assembly without units
PreviewOK(expected) ==
    IF expected # NoCommit THEN branch # NoCommit /\ expected \subseteq branch
    ELSE branch \in {NoCommit, {}}

Assembled == IF branch = NoCommit THEN {} ELSE branch
Or(commit, default) == IF commit # NoCommit THEN commit ELSE default

\* inspect_delivery_amendment_target with _resolve_amendment_assembly
Inspect ==
    /\ ~plan.amended
    /\ ~progress.failed
    /\ progress.assembled # NoCommit => PreviewOK(progress.assembled)

\* capture_delivery_amendment_source_snapshot
Sources == [plan |-> plan.text, contract |-> contract, progress |-> progress,
            assembled |-> Assembled]
TasksAvailable == \A r \in DOMAIN tasks : tasks[r] = "absent"
AmendedPlan == [text |-> proposal.plan, amended |-> TRUE]

\* _preflight_amendment, for a proposal that is not applied yet
FreshReady ==
    /\ Inspect /\ Sources = proposal
    /\ PreviewOK(Or(progress.assembled, branch))
    /\ TasksAvailable

\* find_delivery_artifact_commit
AmendmentFound == proposal.assembled \subseteq branch /\ "amend" \in branch

\* _preflight_applied_amendment with _inspect_applied_assembly_recovery
AppliedHere == plan = AmendedPlan
AppliedReady ==
    /\ contract = proposal.contract
    /\ \A r \in DOMAIN tasks : tasks[r] = "new"
    /\ ~progress.failed
    /\ IF AmendmentFound THEN PreviewOK(Or(progress.assembled, proposal.assembled))
       ELSE /\ branch = NoCommit \/ branch \subseteq proposal.assembled
            /\ progress = proposal.progress
            /\ PreviewOK(Or(progress.assembled, branch))

(***************************************************************************)
(* amend prepare                                                           *)
(***************************************************************************)
\* _prepare_delivery_amendment takes a snapshot and calls the author.
StartPrepare ==
    /\ Inspect
    /\ Command("author")
    /\ UNCHANGED <<plan, contract, tasks, progress, branch, log, torn, locked, proposal>>

\* create_delivery_amendment_proposal refuses a draft authored from sources
\* that are not the present ones, and stores the proposal.
StoreProposal ==
    /\ At("author")
    /\ LET b == amend.before
           snapshot == [plan |-> b.plan.text, contract |-> contract, progress |-> b.progress,
                        assembled |-> Or(b.branch, {})]
       IN  IF Inspect /\ amend.quiet /\ Sources = snapshot /\ TasksAvailable
           THEN proposal' = snapshot /\ Go("recheck")
           ELSE UNCHANGED proposal /\ End
    /\ NoFault /\ UNCHANGED <<plan, contract, tasks, progress, branch, log, torn, locked>>

\* What changed while it was being stored takes it back.
RecheckProposal ==
    /\ At("recheck")
    /\ proposal' = IF TasksAvailable /\ Inspect /\ Sources = proposal THEN proposal ELSE NoProposal
    /\ End
    /\ NoFault /\ UNCHANGED <<plan, contract, tasks, progress, branch, log, torn, locked>>

(***************************************************************************)
(* amend apply: the transaction.                                           *)
(***************************************************************************)
StartApply ==
    /\ proposal # NoProposal /\ ~locked
    /\ Command("preflight")
    /\ locked' = TRUE
    /\ UNCHANGED <<plan, contract, tasks, progress, branch, log, torn, proposal>>

\* The preflight repeated under the lock.
Preflight ==
    /\ At("preflight")
    /\ amend' = [amend EXCEPT !.before = Tree,
                              !.pc = IF AppliedHere THEN IF AppliedReady THEN "reintegrate" ELSE "blocked"
                                     ELSE IF FreshReady THEN "started" ELSE "blocked"]
    /\ NoFault /\ UNCHANGED <<plan, contract, tasks, progress, branch, log, torn, locked, proposal>>

Release == End /\ locked' = FALSE

RecordBlocked ==
    /\ At("blocked")
    /\ \/ Append2Log(Blocked) /\ NoFault
       \/ AppendPart(Blocked, torn) /\ Fault
    /\ Release
    /\ UNCHANGED <<plan, contract, tasks, progress, branch, proposal>>

RecordStarted ==
    /\ At("started")
    /\ \/ /\ Append2Log(<<"started">>) /\ NoFault
          /\ amend' = [amend EXCEPT !.pc = "tasks", !.before.log = log', !.before.torn = torn']
          /\ UNCHANGED locked
       \/ AppendPart(<<"started">>, torn) /\ Fault /\ Release
    /\ UNCHANGED <<plan, contract, tasks, progress, branch, proposal>>

\* An exception before a step's write, an interrupt behind it that keeps the
\* step from being remembered, or the step as it should be.
Failing == Go("undo_ref") /\ Fault
Interrupted == amend' = [amend EXCEPT !.pc = "undo_ref", !.cut = TRUE] /\ Fault
GoOrCut(pc) == \/ Go(pc) /\ NoFault
               \/ Interrupted
Refused == Go("undo_ref") /\ NoFault

\* _atomic_write_new
PublishTask(r) ==
    /\ At("tasks") /\ r \notin amend.wrote
    /\ \/ /\ tasks[r] = "absent" /\ tasks' = [tasks EXCEPT ![r] = "new"]
          /\ \/ amend' = [amend EXCEPT !.wrote = @ \cup {r}] /\ NoFault
             \/ Interrupted
       \/ UNCHANGED tasks /\ (IF tasks[r] = "absent" THEN Failing ELSE Refused)
    /\ UNCHANGED <<plan, contract, progress, branch, log, torn, locked, proposal>>

\* _assert_proposal_source_fingerprints_current and _atomic_replace_if_unchanged
ReplacePlan ==
    /\ At("tasks") /\ amend.wrote = Range(Replacements)
    /\ \/ /\ Inspect /\ Sources = proposal
          /\ plan' = AmendedPlan
          /\ \/ amend' = [amend EXCEPT !.pc = "commit", !.planned = TRUE] /\ NoFault
             \/ Interrupted
       \/ UNCHANGED plan /\ (IF Inspect /\ Sources = proposal THEN Failing ELSE Refused)
    /\ UNCHANGED <<contract, tasks, progress, branch, log, torn, locked, proposal>>

\* The plan and all the proposal was bound to, after the plan was replaced
StillCurrent ==
    /\ plan = AmendedPlan
    /\ contract = proposal.contract /\ progress = proposal.progress
    /\ \A r \in DOMAIN tasks : tasks[r] = "new"

\* assemble_delivery_artifacts: the branch must not be ahead of the parent.
CanIntegrate == branch = NoCommit \/ branch \subseteq proposal.assembled
Integrate(pc) ==
    /\ branch' = proposal.assembled \cup {"amend"}
    /\ \/ amend' = [amend EXCEPT !.pc = pc, !.made = TRUE, !.prev = branch] /\ NoFault
       \/ Interrupted

IntegrateArtifacts ==
    /\ At("commit")
    /\ \/ StillCurrent /\ CanIntegrate /\ Integrate("record")
       \/ UNCHANGED branch /\ (IF StillCurrent /\ CanIntegrate THEN Failing ELSE Refused)
    /\ UNCHANGED <<plan, contract, tasks, progress, log, torn, locked, proposal>>

\* _write_amendment_assembly_progress
Recorded(commit) == [progress EXCEPT !.has = TRUE, !.assembled = commit]

\* The branch and all sources are read once more before progress is written.
RecordAssembly ==
    /\ At("record")
    /\ LET ok == StillCurrent /\ branch = proposal.assembled \cup {"amend"} IN
       \/ /\ ok
          /\ progress' = Recorded(branch)
          /\ GoOrCut("journal")
       \/ UNCHANGED progress /\ (IF ok THEN Failing ELSE Refused)
    /\ UNCHANGED <<plan, contract, tasks, branch, log, torn, locked, proposal>>

\* _append_success_events
RecordSuccess ==
    /\ At("journal")
    /\ \/ /\ Append2Log(Success)
          /\ GoOrCut("applied")
       \/ UNCHANGED <<log, torn>> /\ Failing
    /\ UNCHANGED <<plan, contract, tasks, progress, branch, locked, proposal>>

Applied ==
    /\ At("applied")
    /\ Release
    /\ NoFault /\ UNCHANGED <<plan, contract, tasks, progress, branch, log, torn, proposal>>

(***************************************************************************)
(* The undo of a failed transaction: the branch, progress, plan, tasks and *)
(* events, in this order; an undo that fails is reported and the next ones *)
(* still run.  A recovery undoes the branch, progress and events only.     *)
(***************************************************************************)
Then(pc, ok) == amend' = [amend EXCEPT !.pc = pc, !.bad = @ \/ ~ok]
Recovering == amend.before.plan.amended

\* rollback_delivery_artifacts
UndoRef ==
    /\ At("undo_ref")
    /\ LET mine == branch = proposal.assembled \cup {"amend"} IN
       /\ branch' = IF amend.made /\ mine THEN amend.prev ELSE branch
       /\ Then("undo_progress", amend.made => mine)
    /\ NoFault /\ UNCHANGED <<plan, contract, tasks, progress, log, torn, locked, proposal>>

\* _restore_backup
UndoProgress ==
    /\ At("undo_progress")
    /\ LET next == IF Recovering THEN "undo_log" ELSE "undo_plan" IN
       \/ progress' = amend.before.progress /\ Then(next, TRUE) /\ NoFault
       \/ UNCHANGED progress /\ Then(next, FALSE) /\ Fault
    /\ UNCHANGED <<plan, contract, tasks, branch, log, torn, locked, proposal>>

\* _rollback_amended_artifacts: task files that a plan may still name are kept.
UndoFiles ==
    /\ At("undo_plan")
    /\ LET restored == amend.planned => plan = AmendedPlan IN
       \/ /\ plan' = IF amend.planned /\ restored THEN amend.before.plan ELSE plan
          /\ IF restored /\ ~plan'.amended
             THEN /\ tasks' = [r \in DOMAIN tasks |->
                        IF r \in amend.wrote /\ tasks[r] = "new" THEN "absent" ELSE tasks[r]]
                  /\ Then("undo_log", \A r \in amend.wrote : tasks[r] # "edited")
             ELSE UNCHANGED tasks /\ Then("undo_log", FALSE)
          /\ NoFault
       \/ UNCHANGED <<plan, tasks>> /\ Then("undo_log", FALSE) /\ Fault
    /\ UNCHANGED <<contract, progress, branch, log, torn, locked, proposal>>

\* _restore_appended_events
UndoLog ==
    /\ At("undo_log")
    /\ \/ log' = amend.before.log /\ torn' = amend.before.torn /\ Then("failed", TRUE) /\ NoFault
       \/ UNCHANGED <<log, torn>> /\ Then("failed", FALSE) /\ Fault
    /\ UNCHANGED <<plan, contract, tasks, progress, branch, locked, proposal>>

\* The failure is journalled, that of a recovery is only returned.
RecordFailure ==
    /\ At("failed")
    /\ LET events == IF Recovering THEN <<>> ELSE <<"failed">>
       IN \/ Append2Log(events) /\ NoFault
          \/ AppendPart(events, torn) /\ Fault
    /\ Release
    /\ UNCHANGED <<plan, contract, tasks, progress, branch, proposal>>

(***************************************************************************)
(* _reconcile_applied_amendment: what a killed transaction still owes.     *)
(***************************************************************************)
Reintegrate ==
    /\ At("reintegrate")
    /\ \/ AmendmentFound /\ UNCHANGED branch /\ Go("rerecord") /\ NoFault
       \/ ~AmendmentFound /\ CanIntegrate /\ Integrate("rerecord")
       \/ ~AmendmentFound /\ UNCHANGED branch /\ (IF CanIntegrate THEN Failing ELSE Refused)
    /\ UNCHANGED <<plan, contract, tasks, progress, log, torn, locked, proposal>>

\* Faulty: lost progress is begun anew whatever was journalled since.
RecreateProgress == proposal.progress = NoProgress /\ log # <<>>

\* _missing_progress_recovery_is_current
MissingProgressCurrent ==
    /\ proposal.progress = NoProgress
    /\ log # <<>> /\ ~torn /\ log[Len(log)] \in Starts

\* Progress names the head of the branch as it was read before.
Rerecord ==
    /\ At("rerecord")
    /\ LET head == IF amend.made THEN proposal.assembled \cup {"amend"} ELSE amend.before.branch
           ok == /\ progress.has \/ MissingProgressCurrent
                 /\ amend.made => branch = head
       IN  \/ /\ ok
              /\ progress' = Recorded(head)
              /\ GoOrCut("rejournal")
           \/ UNCHANGED progress /\ (IF ok THEN Failing ELSE Refused)
    /\ UNCHANGED <<plan, contract, tasks, branch, log, torn, locked, proposal>>

\* Faulty: an event that is there already counts for all.
MissingUnlessBegun == IF Range(log) \cap Range(Success) # {} THEN <<>> ELSE Success

\* _amendment_event_keys
Missing ==
    LET upTo[i \in 0..Len(Success)] ==
            IF i = 0 THEN <<>>
            ELSE IF Success[i] \in Range(log) THEN upTo[i - 1]
            ELSE Append(upTo[i - 1], Success[i])
    IN upTo[Len(Success)]

\* _repair_amendment_event_suffix cuts an incomplete line; a line that cannot
\* be parsed elsewhere refuses the recovery.
Rejournal ==
    /\ At("rejournal")
    /\ IF "corrupt" \in Range(log) THEN UNCHANGED <<log, torn>> /\ Refused
       ELSE \/ /\ log' = log \o Missing /\ torn' = FALSE
               /\ GoOrCut("applied")
            \/ UNCHANGED <<log, torn>> /\ Failing
    /\ UNCHANGED <<plan, contract, tasks, progress, branch, locked, proposal>>

AmendStep ==
    \/ StoreProposal \/ RecheckProposal
    \/ Preflight \/ RecordBlocked \/ RecordStarted
    \/ \E r \in Range(Replacements) : PublishTask(r)
    \/ ReplacePlan \/ IntegrateArtifacts \/ RecordAssembly \/ RecordSuccess \/ Applied
    \/ UndoRef \/ UndoProgress \/ UndoFiles \/ UndoLog \/ RecordFailure
    \/ Reintegrate \/ Rerecord \/ Rejournal

(***************************************************************************)
(* Everybody else.                                                         *)
(***************************************************************************)
Loud == amend' = IF At("idle") THEN amend ELSE [amend EXCEPT !.quiet = FALSE]

EditFile ==
    /\ \/ plan' = [plan EXCEPT !.text = IF @ = "a" THEN "b" ELSE "a"] /\ UNCHANGED <<contract, tasks>>
       \/ contract' = (IF contract = "a" THEN "b" ELSE "a") /\ UNCHANGED <<plan, tasks>>
       \/ /\ \E r \in DOMAIN tasks : tasks[r] # "edited" /\ tasks' = [tasks EXCEPT ![r] = "edited"]
          /\ UNCHANGED <<plan, contract>>
    /\ Fault /\ Loud
    /\ UNCHANGED <<progress, branch, log, torn, locked, proposal>>

PushToBranch ==
    /\ branch # NoCommit /\ "other" \notin branch
    /\ branch' = branch \cup {"other"}
    /\ Fault /\ Loud
    /\ UNCHANGED <<plan, contract, tasks, progress, log, torn, locked, proposal>>

LoseProgress ==
    /\ progress.has
    /\ progress' = NoProgress
    /\ Fault /\ Loud
    /\ UNCHANGED <<plan, contract, tasks, branch, log, torn, locked, proposal>>

\* Another sikula process delivers a unit, or cannot assemble it.
DeliverUnit ==
    /\ ~locked /\ ~progress.failed /\ "later" \notin branch
    /\ PreviewOK(progress.assembled)
    /\ \/ /\ branch' = Assembled \cup {"later"}
          /\ progress' = [has |-> TRUE, assembled |-> branch', failed |-> FALSE, work |-> TRUE]
          /\ Append2Log(<<"later">>)
       \/ /\ progress' = [progress EXCEPT !.has = TRUE, !.failed = TRUE, !.assembled = Assembled]
          /\ UNCHANGED <<branch, log, torn>>
    /\ Fault /\ Loud
    /\ UNCHANGED <<plan, contract, tasks, locked, proposal>>

\* What the running step appends to the journal.
Appending ==
    CASE At("blocked") -> Blocked
      [] At("started") -> <<"started">>
      [] At("journal") -> Success
      [] At("rejournal") /\ "corrupt" \notin Range(log) -> Missing
      [] At("failed") /\ ~Recovering -> <<"failed">>
      [] OTHER -> <<>>

\* A kill leaves the lock file, and of an append any part of it; a recovery
\* cuts an incomplete line before it appends.
Kill ==
    /\ ~At("idle")
    /\ Fault /\ End
    /\ UNCHANGED <<log, torn>> \/ AppendPart(Appending, torn /\ ~At("rejournal"))
    /\ UNCHANGED <<plan, contract, tasks, progress, branch, locked, proposal>>

RemoveStaleLock ==
    /\ At("idle") /\ locked
    /\ locked' = FALSE
    /\ UNCHANGED <<plan, contract, tasks, progress, branch, log, torn, proposal, amend, tally>>

Next ==
    \/ StartPrepare \/ StartApply \/ AmendStep
    \/ EditFile \/ PushToBranch \/ LoseProgress \/ DeliverUnit \/ Kill \/ RemoveStaleLock

Spec == Init /\ [][Next]_amendVars

(***************************************************************************)
(* Properties.                                                             *)
(***************************************************************************)
\* A plan that names the replacements finds their task files, whatever failed
\* or was killed: they are written before it and removed only behind it.
PlanHasContracts == plan.amended => \A r \in DOMAIN tasks : tasks[r] # "absent"

\* What an amendment reports is so.  A failed transaction that does not report
\* a failed undo has left plan, tasks, branch, progress and events as it found
\* them, unless an interrupt hid a write from it or somebody else wrote
\* meanwhile.  One that reports success, and a recovery, has everything
\* published: plan and tasks, the branch, progress at the head of it, and
\* every event.
OutcomeIsTrue ==
    amend.quiet =>
        /\ At("failed") /\ ~amend.bad /\ ~amend.cut => Tree = amend.before
        /\ At("applied") =>
            /\ plan = AmendedPlan /\ "amend" \in branch /\ progress.assembled = branch
            /\ Range(Success) \subseteq Range(log) /\ ~torn

\* Whatever fails or is killed: an amended plan has its tasks, and reports are so.
PublicationIsWhole == PlanHasContracts /\ OutcomeIsTrue

BeginsAnew == At("rerecord") /\ ~progress.has /\ progress'.has
NothingDeliveredSince == "later" \in branch => "later" \in proposal.assembled

\* A recovery that has to begin a lost progress record anew does so only where
\* no unit was delivered since the proposal: nothing it forgets was done.  The
\* exception is the journal of a refused apply that was cut between its two
\* events, and ends in a plan.amend_started with no apply behind it.
NoWorkForgotten ==
    [][BeginsAnew => NothingDeliveredSince \/ log[Len(log)] = "blocked"]_amendVars
=============================================================================
