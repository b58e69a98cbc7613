---------------------------- MODULE Preparation ----------------------------
(***************************************************************************)
(* Hierarchical delivery preparation: a tree of proposals that one model   *)
(* authors and another call of it reviews, node by node.  Every question   *)
(* goes through a PreparationSession                                       *)
(* (core/delivery_preparation_session.py), which reserves the call on disk *)
(* before the provider is asked, saves what it answered and replays it     *)
(* when the same question is asked again, so that a killed command is      *)
(* repeated without asking anything twice.  The walk over the tree         *)
(* (agents/delivery_hierarchical_preparation_agent.py) keeps no state of   *)
(* its own: every command walks from the root through the saved answers.   *)
(*                                                                         *)
(* A prompt is the record of what it contains, so two prompts are the same *)
(* question exactly when the records are equal (authority_digest).  The    *)
(* tree is a root and one child; what a proposal says is one of Proposals, *)
(* of which Defective are those the parser wants corrected.  Size limits   *)
(* end the command (TooLarge) wherever a question is asked.                *)
(***************************************************************************)
EXTENDS Naturals, Sequences, FiniteSets

CONSTANTS
    Proposals,      \* what an author may propose for each node
    Defective,      \* the proposals with defects the parser can name
    MaxNodeCalls,   \* MAX_NODE_CALLS
    MaxFaults       \* bound: kills, failed calls, requests for context,
                    \* malformed reviews and edits of the sources together

VARIABLES
    control,    \* control.json, or NoControl
    selected,   \* selection.json names the binding
    evidence,   \* the calls whose exchange-<index>.json is written
    source,     \* the task file and guidelines still are those of the binding
    walk,       \* the command in progress
    asked,      \* every request the provider was sent: <<question, ordinal>>
    trees,      \* the trees commands have assembled
    faults      \* how many of them there were

preparationVars ==
    <<control, selected, evidence, source, walk, asked, trees, faults>>

None == "none"

\* The root has one child; the child's contract is the integration context
\* the root's proposal gives it.
Root == "root"
Child == "child"

\* What is proposed is none of the words an answer may be instead.
PreparationAssumption ==
    \A node \in {Root, Child} :
        Proposals[node] \cap {None, "context", "unusable", "stop", "approved", "revise",
                             "malformed", "mismatch"} = {}

Empty == [terminal |-> None, calls |-> <<>>, contexts |-> {}]
NoControl == [terminal |-> "absent", calls |-> <<>>, contexts |-> {}]

Frame(node, contract) ==
    [node |-> node, contract |-> contract, attempt |-> 1, feedback |-> None,
     previous |-> None, context |-> FALSE, retrieved |-> FALSE,
     proposal |-> None, correction |-> None, stage |-> "author",
     protocol |-> FALSE, child |-> None]

Idle == [pc |-> "idle", stack |-> <<>>, index |-> 0, answer |-> None,
         tree |-> {}]

Init ==
    /\ control = NoControl /\ selected = FALSE /\ evidence = {} /\ source = TRUE
    /\ walk = Idle
    /\ asked = {} /\ trees = {}
    /\ faults = 0

Running == walk.pc # "idle"
Top == walk.stack[Len(walk.stack)]
WithTop(frame) == [walk.stack EXCEPT ![Len(walk.stack)] = frame]

Fail == walk' = Idle
GoWith(pc, frame) ==
    walk' = [walk EXCEPT !.pc = pc, !.stack = WithTop(frame), !.index = 0,
                         !.answer = None]

(***************************************************************************)
(* Questions.                                                              *)
(***************************************************************************)

AuthorQuestion(f) ==
    [node |-> f.node, stage |-> "author", contract |-> f.contract,
     context |-> f.context, proposal |-> f.previous, feedback |-> f.feedback,
     protocol |-> FALSE, child |-> None]

\* A correction is reviewed with the feedback it answers; a proposal that is
\* not changed is the question that was asked before.
CorrectionFeedback(f) ==
    IF f.feedback # None /\ f.proposal # f.previous THEN f.feedback ELSE None

ReviewQuestion(f) ==
    [node |-> f.node, stage |-> f.stage, contract |-> f.contract,
     context |-> f.context, proposal |-> f.proposal,
     feedback |-> f.correction, protocol |-> f.protocol, child |-> f.child]

Question == IF Top.stage = "author" THEN AuthorQuestion(Top) ELSE ReviewQuestion(Top)

Answers(f) ==
    IF f.stage = "author" THEN Proposals[f.node] \cup {"context", "unusable", "stop"}
    ELSE {"approved", "revise", "malformed", "mismatch", "stop"}

Calls == control.calls
Matches == {i \in 1..Len(Calls) : Calls[i].question = Question}
Answered(i) == Calls[i].status \in {"received", "accepted"}
CallsOf(node) == {i \in 1..Len(Calls) : Calls[i].question.node = node}

(***************************************************************************)
(* Opening a session.                                                      *)
(***************************************************************************)

\* prepare_hierarchy: evidence that is half there is refused, except the
\* empty control file a kill leaves before the selection marker.
Readable == selected <=> control # NoControl
Initializing == ~selected /\ control = Empty

Open ==
    /\ walk.pc = "idle"
    /\ source
    /\ Readable \/ Initializing
    /\ control.terminal \in {None, "absent"}
    /\ control' = IF control = NoControl THEN Empty ELSE control
    /\ walk' = [Idle EXCEPT !.pc = "select"]
    /\ UNCHANGED <<selected, evidence, source, asked, trees, faults>>

Select ==
    /\ walk.pc = "select"
    /\ selected' = TRUE
    /\ walk' = [walk EXCEPT !.pc = "ask", !.stack = <<Frame(Root, "task")>>]
    /\ UNCHANGED <<control, evidence, source, asked, trees, faults>>

(***************************************************************************)
(* One exchange.                                                           *)
(***************************************************************************)

\* A saved answer is used again, and only that: an answer whose evidence is
\* missing ends the command instead of opening the question again.
Replay ==
    /\ walk.pc = "ask"
    /\ source
    /\ \E i \in Matches :
        /\ Answered(i)
        /\ IF i \in evidence
           THEN /\ control' = [control EXCEPT !.calls[i].status = "accepted"]
                /\ walk' = [walk EXCEPT !.pc = "use", !.answer = Calls[i].answer]
           ELSE /\ Fail
                /\ UNCHANGED control
    /\ UNCHANGED <<selected, evidence, source, asked, trees, faults>>

\* Faulty: a reservation nothing was answered to does not count.
BudgetedByAnswers ==
    /\ Cardinality({i \in Matches : Answered(i)}) < 2
    /\ Cardinality(CallsOf(Top.node)) < MaxNodeCalls

Budgeted == Cardinality(Matches) < 2 /\ Cardinality(CallsOf(Top.node)) < MaxNodeCalls

Reserved(calls) ==
    Append(calls, [question |-> Question, status |-> "reserved", answer |-> None])

\* The reservation is saved before the provider is called.
Reserve ==
    /\ walk.pc = "ask"
    /\ source
    /\ ~\E i \in Matches : Answered(i)
    /\ Budgeted
    /\ control' = [control EXCEPT !.calls = Reserved(@)]
    /\ walk' = [walk EXCEPT !.pc = "call", !.index = Len(control'.calls)]
    /\ UNCHANGED <<selected, evidence, source, asked, trees, faults>>

Refuse ==
    /\ walk.pc = "ask"
    /\ \/ ~source
       \/ ~Budgeted /\ ~\E i \in Matches : Answered(i)
    /\ Fail
    /\ UNCHANGED <<control, selected, evidence, source, asked, trees, faults>>

\* More than a packet, a node or the tree may hold: hierarchy_required.
TooLarge ==
    /\ walk.pc = "ask"
    /\ Fail
    /\ UNCHANGED <<control, selected, evidence, source, asked, trees, faults>>

Fault == faults < MaxFaults /\ faults' = faults + 1

Ask ==
    asked' = asked \cup {<<Question, 1 + Cardinality({a \in asked : a[1] = Question})>>}

ProviderAnswers ==
    /\ walk.pc = "call"
    /\ Ask
    /\ \E answer \in Answers(Top) :
        /\ walk' = [walk EXCEPT !.pc = "answered", !.answer = answer]
        /\ IF answer \in {"context", "malformed"} THEN Fault ELSE UNCHANGED faults
    /\ UNCHANGED <<control, selected, evidence, source, trees>>

\* What a call that raised leaves in the control file: a boundary is final,
\* any other failure leaves the reservation open for one more call.
Raised(code) ==
    IF code \in {"readonly_violation", "hierarchy_authority_changed"}
    THEN [control EXCEPT !.terminal = code] ELSE control

ProviderRaises ==
    /\ walk.pc = "call"
    /\ Ask
    /\ \E code \in {"failed", "readonly_violation", "hierarchy_authority_changed"} :
        /\ control' = Raised(code)
        /\ IF code = "failed" THEN Fault ELSE UNCHANGED faults
    /\ Fail
    /\ UNCHANGED <<selected, evidence, source, trees>>

SaveStop ==
    /\ walk.pc = "answered" /\ walk.answer = "stop" /\ control.terminal = None
    /\ control' = [control EXCEPT !.terminal = "prerequisite_stop"]
    /\ UNCHANGED <<selected, evidence, source, walk, asked, trees, faults>>

\* The status is saved before the evidence: a kill in between loses the
\* evidence but never asks the question again.
SaveReceived ==
    /\ walk.pc = "answered"
    /\ walk.answer = "stop" => control.terminal # None
    /\ control' = [control EXCEPT !.calls[walk.index].status = "received",
                                  !.calls[walk.index].answer = walk.answer]
    /\ walk' = [walk EXCEPT !.pc = "received"]
    /\ UNCHANGED <<selected, evidence, source, asked, trees, faults>>

WriteEvidence ==
    /\ walk.pc = "received"
    /\ evidence' = evidence \cup {walk.index}
    /\ walk' = [walk EXCEPT !.pc = "written"]
    /\ UNCHANGED <<control, selected, source, asked, trees, faults>>

\* Inputs are validated again, the answer audited and accepted; a boundary
\* then ends the command.
Accept ==
    /\ walk.pc = "written"
    /\ LET terminal == IF source \/ control.terminal # None THEN control.terminal
                       ELSE "hierarchy_authority_changed"
       IN /\ control' = [control EXCEPT !.terminal = terminal,
                                        !.calls[walk.index].status = "accepted"]
          /\ IF terminal = None THEN walk' = [walk EXCEPT !.pc = "use"] ELSE Fail
    /\ UNCHANGED <<selected, evidence, source, asked, trees, faults>>

(***************************************************************************)
(* The walk over the tree.                                                 *)
(***************************************************************************)

NextAttempt(f, feedback) ==
    [f EXCEPT !.attempt = 2, !.feedback = feedback, !.previous = f.proposal,
              !.proposal = None, !.retrieved = FALSE, !.stage = "author",
              !.protocol = FALSE, !.child = None, !.correction = None]

\* Faulty: what the review of a root with its child finds has a correction of
\* its own.
CorrectByStage(f, feedback) ==
    IF f.attempt = 1 \/ f.stage = "integration_review"
    THEN GoWith("ask", NextAttempt(f, feedback)) ELSE Fail

Correct(f, feedback) ==
    IF f.attempt = 1 THEN GoWith("ask", NextAttempt(f, feedback)) ELSE Fail

\* The author asks for files once: the question is asked again with them.
UseContext ==
    /\ walk.pc = "use" /\ Top.stage = "author" /\ walk.answer = "context"
    /\ IF Top.retrieved \/ ~source
       THEN Fail /\ UNCHANGED control
       ELSE /\ control' = [control EXCEPT !.contexts = @ \cup {Top.node}]
            /\ GoWith("ask", [Top EXCEPT !.context = TRUE, !.retrieved = TRUE])
    /\ UNCHANGED <<selected, evidence, source, asked, trees, faults>>

UseUnusable ==
    /\ walk.pc = "use" /\ Top.stage = "author" /\ walk.answer = "unusable"
    /\ Fail
    /\ UNCHANGED <<control, selected, evidence, source, asked, trees, faults>>

\* A defect the parser can name is corrected once, after a review.
UseProposal ==
    /\ walk.pc = "use" /\ Top.stage = "author" /\ walk.answer \in Proposals[Top.node]
    /\ IF walk.answer \in Defective /\ Top.attempt = 2 THEN Fail
       ELSE LET f == [Top EXCEPT !.proposal = walk.answer]
            IN GoWith("ask", [f EXCEPT !.stage = "local_review",
                                       !.correction = CorrectionFeedback(f)])
    /\ UNCHANGED <<control, selected, evidence, source, asked, trees, faults>>

\* A review that is no JSON is asked once more, with its format error.
UseMalformed ==
    /\ walk.pc = "use" /\ walk.answer = "malformed"
    /\ IF Top.protocol THEN Fail ELSE GoWith("ask", [Top EXCEPT !.protocol = TRUE])
    /\ UNCHANGED <<control, selected, evidence, source, asked, trees, faults>>

\* A review of another input is a changed authority, which is final.
UseMismatch ==
    /\ walk.pc = "use" /\ walk.answer = "mismatch"
    /\ control' = [control EXCEPT !.terminal = "hierarchy_authority_changed"]
    /\ Fail
    /\ UNCHANGED <<selected, evidence, source, asked, trees, faults>>

\* Faulty: the review of the root with its child does not stop it.
RejectedLocally(f) ==
    f.stage = "local_review" /\ (walk.answer = "revise" \/ f.proposal \in Defective)

Rejected(f) ==
    \/ walk.answer = "revise"
    \/ f.stage = "local_review" /\ f.proposal \in Defective

UseRejection ==
    /\ walk.pc = "use" /\ walk.answer \in {"approved", "revise"}
    /\ Rejected(Top)
    /\ Correct(Top, IF Top.proposal \in Defective THEN "draft" ELSE Top.stage)
    /\ UNCHANGED <<control, selected, evidence, source, asked, trees, faults>>

Leaf(f) == [node |-> f.node, contract |-> f.contract, context |-> f.context,
            proposal |-> f.proposal, child |-> f.child]

\* The root's child is prepared once the root's proposal is approved; the
\* root is reviewed again with the child it got.
UseApproval ==
    /\ walk.pc = "use" /\ walk.answer \in {"approved", "revise"}
    /\ ~Rejected(Top)
    /\ \/ /\ Top.node = Root /\ Top.stage = "local_review"
          /\ walk' = [walk EXCEPT !.pc = "ask", !.answer = None, !.index = 0,
                                  !.stack = Append(@, Frame(Child, Top.proposal))]
       \/ /\ Top.node = Child
          /\ walk' = [walk EXCEPT !.pc = "ask", !.answer = None, !.index = 0,
                !.tree = {Leaf(Top)},
                !.stack = <<[walk.stack[1] EXCEPT !.stage = "integration_review",
                                !.protocol = FALSE, !.child = Top.proposal]>>]
       \/ /\ Top.node = Root /\ Top.stage = "integration_review"
          /\ walk' = [walk EXCEPT !.pc = "assemble", !.tree = @ \cup {Leaf(Top)}]
    /\ UNCHANGED <<control, selected, evidence, source, asked, trees, faults>>

Assemble ==
    /\ walk.pc = "assemble"
    /\ trees' = IF source THEN trees \cup {walk.tree} ELSE trees
    /\ Fail
    /\ UNCHANGED <<control, selected, evidence, source, asked, faults>>

(***************************************************************************)
(* The environment.                                                        *)
(***************************************************************************)

\* The process dies, or a write or the audit recorder raises: also between
\* the receipt of an answer and the validation of the inputs behind it.
Kill ==
    /\ Running
    /\ Fault
    /\ Fail
    /\ UNCHANGED <<control, selected, evidence, source, asked, trees>>

\* The task file or the guidelines are edited, or the edit is undone.
SourceChanges ==
    /\ Fault
    /\ source' = ~source
    /\ UNCHANGED <<control, selected, evidence, walk, asked, trees>>

Exchange ==
    \/ Replay \/ Reserve \/ Refuse \/ TooLarge \/ ProviderAnswers \/ ProviderRaises
    \/ SaveStop \/ SaveReceived \/ WriteEvidence \/ Accept

Walk ==
    \/ UseContext \/ UseUnusable \/ UseProposal \/ UseMalformed \/ UseMismatch
    \/ UseRejection \/ UseApproval \/ Assemble

Next == Open \/ Select \/ Exchange \/ Walk \/ Kill \/ SourceChanges

Spec == Init /\ [][Next]_preparationVars

(***************************************************************************)
(* Properties.                                                             *)
(***************************************************************************)

\* The verdicts on file about one node as it was accepted, whatever feedback
\* or format correction the question carried.
Opinions(leaf, stage) ==
    {Calls[i].answer : i \in {j \in 1..Len(Calls) :
        /\ Calls[j].question.stage = stage
        /\ Leaf(Calls[j].question) =
              IF stage = "local_review" THEN [leaf EXCEPT !.child = None] ELSE leaf}}
      \ {None, "malformed"}

\* A tree is assembled only from proposals every readable review of which
\* approved, and the root also as a whole with the child it was given: a kill
\* and a rerun, a correction or a repeated proposal never gets the same
\* proposal a second opinion (_HierarchyPreparation.node).
AssembledIsApproved ==
    \A tree \in trees : \A leaf \in tree :
        /\ Opinions(leaf, "local_review") = {"approved"}
        /\ leaf.node = Root => Opinions(leaf, "integration_review") = {"approved"}

\* The provider is sent a question at most twice, and never again once an
\* answer was saved, whatever is killed in between (exchange).
AskedWithinBudget ==
    /\ \A a \in asked : a[2] <= 2
    /\ \A i, j \in 1..Len(Calls) :
        Answered(i) /\ i < j => Calls[i].question # Calls[j].question

\* A node is proposed for its contract at most twice, once and once more for
\* what a review found.  A walk counts its attempts in memory only, and every
\* command starts at the first: that no kill, rerun or edit refills the budget
\* is due to the answers that are replayed, the rejections among them.
CorrectedOnce ==
    \A node \in {Root, Child} : \A i \in CallsOf(node) :
        Cardinality({j \in CallsOf(node) :
            /\ Calls[j].question.contract = Calls[i].question.contract
            /\ Calls[j].answer \in Proposals[node]}) <= 2

=============================================================================
