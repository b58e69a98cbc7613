---------------------------- MODULE Components -----------------------------
(***************************************************************************)
(* The components around the orchestrator and the delivery runtime that    *)
(* share no state with each other: amending a plan, the write scope of a   *)
(* delivery child, the subprocess of an agent, the heartbeat of a state    *)
(* file, preparing a delivery tree, authoring a flat plan, the worktree of *)
(* a task, reviewing the nodes below a verified one, what amendments make  *)
(* of a plan, and the answers to the questions about a task.  A behaviour  *)
(* is a behaviour of one of them; the others stay as they are initially.   *)
(***************************************************************************)
EXTENDS Naturals, Sequences, FiniteSets

CONSTANTS Replacements, MaxAmendFaults, MaxAmendCommands,
          MaxEdits, MaxScopeFaults, MaxResumes, MaxAttempts,
          MaxChunks,
          MaxChanges, MaxBeats,
          Proposals, Defective, MaxNodeCalls, MaxFaults,
          ConstraintIds, ObligationIds, Units, Drafts, MaxPrepares,
          MaxOperatorSteps, MaxKills, MaxGitFaults,
          Anchor, Kids, MaxCandidateNodes, MaxSessions, MaxReviewFaults,
          FirstUnits, FirstPlans, Checkpoints, Owners, FreshUnits, MaxSplit,
          Bases, Questions, Needs, FollowUps, Vague, MaxTurns

VARIABLES
    component,
    plan, contract, tasks, progress, branch, log, torn, locked, proposal, amend, tally,
    worktree, saved, snapshots, retained, session, count,
    provider, descendant, pipe, reader, writer, chunks, parts, sent, late, caller,
    memory, file, written, lock, main, beat, stop,
    control, selected, evidence, source, walk, asked, trees, faults,
    files, work, original, authored, report, prepares,
    repo, tree, stored, command, reviewed, used,
    reviews, frames, artifacts, moved, trail,
    declared, groups, constraint, obligation, delivered, verdict,
    texts, sheets, tracked, exchange, given, spent

Amendment   == INSTANCE DeliveryAmendment
Scope       == INSTANCE ChildScope
Process     == INSTANCE AgentProcess
Beats       == INSTANCE Heartbeat
Preparing   == INSTANCE Preparation
Authoring   == INSTANCE PlanAuthoring
Workspaces  == INSTANCE Workspace
Candidates  == INSTANCE CandidateReview
Lineages    == INSTANCE PlanLineage
Prepared    == INSTANCE PreparedAnswers

ASSUME ComponentConstants ==
    /\ Amendment!AmendmentConstants /\ Candidates!CandidateAssumption
    /\ Preparing!PreparationAssumption /\ Authoring!AuthoringAssumption
    /\ Lineages!LineageAssumption /\ Prepared!PreparedAssumption

amendVars ==
    <<plan, contract, tasks, progress, branch, log, torn, locked, proposal, amend, tally>>
scopeVars == <<worktree, saved, snapshots, retained, session, count>>
processVars ==
    <<provider, descendant, pipe, reader, writer, chunks, parts, sent, late, caller>>
heartbeatVars == <<memory, file, written, lock, main, beat, stop>>
preparationVars ==
    <<control, selected, evidence, source, walk, asked, trees, faults>>
authoringVars == <<files, work, original, authored, report, prepares>>
workspaceVars == <<repo, tree, stored, command, reviewed, used>>
candidateVars == <<reviews, frames, artifacts, moved, trail>>
lineageVars == <<declared, groups, constraint, obligation, delivered, verdict>>
preparedVars == <<texts, sheets, tracked, exchange, given, spent>>

vars == <<component, amendVars, scopeVars, processVars, heartbeatVars,
          preparationVars, authoringVars, workspaceVars, candidateVars, lineageVars,
                   preparedVars>>

Init ==
    /\ component \in {"amendment", "scope", "process", "heartbeat",
                      "preparation", "authoring", "workspace", "candidate", "lineage",
                      "answers"}
    /\ Amendment!Init /\ Scope!Init /\ Process!Init /\ Beats!Init
    /\ Preparing!Init /\ Authoring!Init /\ Workspaces!Init
    /\ Candidates!Init /\ Lineages!Init /\ Prepared!Init
    \* One initial state for each component that does not run.
    /\ component # "amendment" => ~progress.has
    /\ component # "workspace" => stored.mode = "run"
    /\ component # "candidate" => trail.compact = {}
    /\ component # "lineage" => Lineages!Idle
    /\ component # "answers" => \A b \in Bases : texts.task.base <= b

Amend ==
    /\ component = "amendment" /\ Amendment!Next
    /\ UNCHANGED <<component, scopeVars, processVars, heartbeatVars,
                   preparationVars, authoringVars, workspaceVars, candidateVars, lineageVars,
                   preparedVars>>
RunChild ==
    /\ component = "scope" /\ Scope!Next
    /\ UNCHANGED <<component, amendVars, processVars, heartbeatVars,
                   preparationVars, authoringVars, workspaceVars, candidateVars, lineageVars,
                   preparedVars>>
RunAgent ==
    /\ component = "process" /\ Process!Next
    /\ UNCHANGED <<component, amendVars, scopeVars, heartbeatVars,
                   preparationVars, authoringVars, workspaceVars, candidateVars, lineageVars,
                   preparedVars>>
KeepAlive ==
    /\ component = "heartbeat" /\ Beats!Next
    /\ UNCHANGED <<component, amendVars, scopeVars, processVars,
                   preparationVars, authoringVars, workspaceVars, candidateVars, lineageVars,
                   preparedVars>>
Prepare ==
    /\ component = "preparation" /\ Preparing!Next
    /\ UNCHANGED <<component, amendVars, scopeVars, processVars, heartbeatVars,
                   authoringVars, workspaceVars, candidateVars, lineageVars,
                   preparedVars>>
AuthorPlan ==
    /\ component = "authoring" /\ Authoring!Next
    /\ UNCHANGED <<component, amendVars, scopeVars, processVars, heartbeatVars,
                   preparationVars, workspaceVars, candidateVars, lineageVars,
                   preparedVars>>
UseWorktree ==
    /\ component = "workspace" /\ Workspaces!Next
    /\ UNCHANGED <<component, amendVars, scopeVars, processVars, heartbeatVars,
                   preparationVars, authoringVars, candidateVars, lineageVars,
                   preparedVars>>
ReviewCandidate ==
    /\ component = "candidate" /\ Candidates!Next
    /\ UNCHANGED <<component, amendVars, scopeVars, processVars, heartbeatVars,
                   preparationVars, authoringVars, workspaceVars, lineageVars, preparedVars>>
ShapePlan ==
    /\ component = "lineage" /\ Lineages!Next
    /\ UNCHANGED <<component, amendVars, scopeVars, processVars, heartbeatVars,
                   preparationVars, authoringVars, workspaceVars, candidateVars, preparedVars>>
AnswerQuestions ==
    /\ component = "answers" /\ Prepared!Next
    /\ UNCHANGED <<component, amendVars, scopeVars, processVars, heartbeatVars,
                   preparationVars, authoringVars, workspaceVars, candidateVars, lineageVars>>

Next == \/ Amend \/ RunChild \/ RunAgent \/ KeepAlive \/ Prepare \/ AuthorPlan
        \/ UseWorktree \/ ReviewCandidate \/ ShapePlan \/ AnswerQuestions

Spec == Init /\ [][Next]_vars

(***************************************************************************)
(* The properties of the components, each where its component runs.        *)
(***************************************************************************)
\* An amended plan finds its task files, and what an amendment reports is so.
PublicationIsWhole == component = "amendment" => Amendment!PublicationIsWhole

\* Recovering an amendment never forgets a unit that was delivered since, but
\* for the journal of a refused one that was cut in two.
NoWorkForgotten == Amendment!NoWorkForgotten

\* A delivery child goes on, or is done, only with writes inside its scope.
AcceptedWithinScope == component = "scope" => Scope!AcceptedWithinScope

\* A terminal stop of a delivery child is never weakened or restarted.
StopIsFinal == Scope!StopIsFinal

\* An approval is not carried past the quarantine of a file it read.
RemovalIsReviewed == component = "scope" => Scope!RemovalIsReviewed

\* A completed agent call returns all that was written, in order; a failed one
\* leaves nothing running that could write.
CallIsSettled == component = "process" => Process!CallIsSettled

\* No heartbeat takes back a save of the main thread.
SavesSurviveHeartbeats == component = "heartbeat" => Beats!SavesSurviveHeartbeats

\* A delivery tree is assembled only from what every readable review approved.
AssembledIsApproved == component = "preparation" => Preparing!AssembledIsApproved

\* A preparation question is sent at most twice, never once it was answered.
AskedWithinBudget == component = "preparation" => Preparing!AskedWithinBudget

\* No node of a delivery tree is proposed more than twice for its contract.
CorrectedOnce == component = "preparation" => Preparing!CorrectedOnce

\* A plan reported ready was verified as written and lost no requirement; a
\* command that reports blocked has left plan and tasks as they were.
ReportIsTrue == component = "authoring" => Authoring!ReportIsTrue

\* The work of a done task is in a branch or in the kept worktree.
FixNotLost == component = "workspace" => Workspaces!FixNotLost

\* A node passes after a rejection below it only by a full review that knew.
RejectionsAreReviewed == component = "candidate" => Candidates!RejectionsAreReviewed

\* A node's reviewer is asked once for each exchange of one gate; the verified
\* node's full review once in each command, while nothing is kept of it.
AskedOncePerGate == component = "candidate" => Candidates!AskedOncePerGate

\* A boundary crossed at any depth is on the verified node's record, unless the
\* lock was held at the very save of it.
CrossingIsLatched == component = "candidate" => Candidates!CrossingIsLatched

\* A pass cut short is published again as it was.
EvidenceIsReproducible == component = "candidate" => Candidates!EvidenceIsReproducible

\* Amendments keep the order and the requirements of the accepted plan.
PromisesSurvive == component = "lineage" => Lineages!PromisesSurvive

\* An accepted plan, amended or not, can be delivered to its end.
PlanNeverStuck == component = "lineage" => Lineages!PlanNeverStuck

\* Authored answers are kept, and applied to the text they were given for.
AnswersAreKept == component = "answers" => Prepared!AnswersAreKept
=============================================================================
