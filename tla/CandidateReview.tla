---------------------------- MODULE CandidateReview ----------------------------
(***************************************************************************)
(* The review of a candidate along the checkpoint hierarchy                *)
(* (core/delivery_verify.py from _execute_gate on, core/                   *)
(* delivery_reverification.py, delivery_candidate_control.py,              *)
(* delivery_composition.py, delivery_checkpoint_evidence.py,               *)
(* delivery_checkpoint_applicability.py, delivery_candidate_repair.py).    *)
(* The gate of a node composes the results of its children; it may have a  *)
(* child reviewed anew, whose gate runs inside its own; and it falls back  *)
(* on one full review.  Every exchange with a provider is reserved in the  *)
(* record first, and the command is killed or interrupted anywhere.        *)
(***************************************************************************)
EXTENDS Naturals, Sequences, FiniteSets, SequencesExt

CONSTANTS
    Anchor,             \* the node that is verified
    Kids,               \* [node -> its immediate checkpoints]
    MaxCandidateNodes,  \* MAX_CANDIDATE_NODES
    MaxSessions,        \* bound: verify commands
    MaxReviewFaults     \* bound: what goes wrong outside the reviews' verdicts

ReviewNodes == DOMAIN Kids

CandidateAssumption ==
    /\ Anchor \in ReviewNodes
    /\ Kids \in [ReviewNodes -> SUBSET (ReviewNodes \ {Anchor})]
    /\ \A m, n \in ReviewNodes : m # n => Kids[m] \cap Kids[n] = {}

VARIABLES
    reviews,    \* [node -> its record; a child's is an entry in its parent's]
    frames,     \* the gates in progress, the innermost last
    artifacts,  \* [node -> when the pass in its evidence file was completed]
    moved,      \* plan, policy or branch changed since the command captured them
    trail       \* what happened at this gate, and the bounds used up

candidateVars == <<reviews, frames, artifacts, moved, trail>>

Roles == {"semantic", "security"}
NoResult == [verdict |-> "none", required |-> {}]
NoFull == [state |-> "none", verdict |-> "none", gaps |-> {}]
NoRole == [attempted |-> FALSE, composed |-> NoResult, refresh |-> {}, reserved |-> FALSE,
           round |-> "none", full |-> NoFull]
NoReview == [status |-> "absent", semantic |-> "not_run", security |-> "not_run",
             stop |-> "none", local |-> FALSE, gap |-> FALSE, completed |-> 0,
             control |-> FALSE, role |-> [r \in Roles |-> NoRole]]
RunningReview == [NoReview EXCEPT !.status = "running"]

\* How a node was approved: by a full review, and knowing that work was rejected.
NoBasis == [full |-> FALSE, knows |-> FALSE]
Enter(n) == [node |-> n, role |-> "semantic", pc |-> "review", todo |-> {}, then |-> "compose",
             basis |-> NoBasis, out |-> NoReview]
\* The exchanges of a gate: to compose, to reassess, to review in full, and to
\* review in full without a record of it.
NoCalls == [r \in Roles |-> [k \in {"composed", "again", "full", "open"} |-> 0]]
\* A child's gate that has ended has none left.
SpentCalls == [r \in Roles |-> [k \in {"composed", "again", "full", "open"} |->
                                  IF k = "open" THEN 0 ELSE 1]]
\* trail.compact: the nodes whose part of the plan holds the authority that
\* composing needs (verified_final_gate_authority, verified_composition_authority).
NoTrail == [rejected |-> {}, basis |-> [n \in ReviewNodes |-> NoBasis],
            calls |-> [n \in ReviewNodes |-> NoCalls], compact |-> {},
            crossed |-> FALSE, refused |-> FALSE,
            began |-> 0, sessions |-> 0, faults |-> 0]

Composers == {n \in ReviewNodes : Kids[n] # {}}

Init ==
    /\ reviews = [n \in ReviewNodes |-> NoReview]
    /\ frames = <<>>
    /\ artifacts = [n \in ReviewNodes |-> 0]
    /\ moved = FALSE
    /\ \E compact \in SUBSET Composers : trail = [NoTrail EXCEPT !.compact = compact]

(***************************************************************************)
(* What the records say.                                                   *)
(***************************************************************************)
Present(n) == reviews[n].status # "absent"

\* delivery_verification_is_boundary_stop, of a record and what it contains.
Crossed(r) == r.status \in {"blocked", "failed"} /\ (r.security = "rejected" \/ r.stop = "boundary")
AtBoundary == \E n \in DOMAIN reviews : Crossed(reviews[n])

\* semantic_gap_ids
Gaps(n) == {c \in Kids[n] : reviews[c].semantic = "rejected" \/ reviews[c].gap}

\* semantic_fallback_covers_gaps
Covers(n) ==
    LET full == reviews[n].role["semantic"].full
    IN full.state = "done" /\ Gaps(n) \subseteq full.gaps

\* reverification_budget_exhausted
Exhausted ==
    \E n \in DOMAIN reviews :
        LET r == reviews[n] IN
        \/ r.stop = "budget"
        \/ r.control /\ \/ \E role \in Roles : r.role[role].full.state = "reserved"
                        \/ /\ r.role["semantic"].full.state # "none"
                           /\ r.stop # "candidate_repair" /\ ~Covers(n)

\* CompositionResult.fallback: a child must be reviewed, or nobody can act on
\* the verdict as it is.
NeedsFull(result) == result.required # {} \/ result.verdict = "other"

\* eligible_local_finding, and the same of an ineligible parent's handoff.
RoutesToRepair(r) ==
    \/ r.stop = "candidate_repair"
    \/ r.status = "failed" /\ r.stop = "repair" /\ r.semantic = "rejected" /\ r.local

\* The gates of the nodes that enclose the running one.
Path == {frames[i].node : i \in DOMAIN frames}

(***************************************************************************)
(* Steps of the innermost gate.                                            *)
(***************************************************************************)
Top == Last(frames)
Here == Top.node
Review == reviews[Here]
Role == Review.role[Top.role]
In(pc) == frames # <<>> /\ Top.pc = pc

WithTop(f) == Append(Front(frames), f)
\* The gate at pc, with no children to see to.
On(pc) == [Top EXCEPT !.pc = pc, !.todo = {}, !.then = "compose"]
Go(pc) == frames' = WithTop(On(pc))
Finish(out) == frames' = WithTop([On("finish") EXCEPT !.out = out])
BlockedBy(stop) == Finish([Review EXCEPT !.status = "blocked", !.stop = stop])

\* Faulty: only the entry of the rejected child itself remembers the gap.
LatchEntry(rs) ==
    [n \in ReviewNodes |-> IF rs[n].semantic = "rejected" THEN [rs[n] EXCEPT !.gap = TRUE] ELSE rs[n]]

\* replace_at: a save goes through the entries of every enclosing gate, and a
\* rejection below stays in each of them whatever becomes of the child.
Latched(rs) ==
    [n \in ReviewNodes |->
        IF n \in Path \ {Anchor} /\ (rs[n].semantic = "rejected" \/ rs[Here].semantic = "rejected")
        THEN [rs[n] EXCEPT !.gap = TRUE] ELSE rs[n]]

\* _update_candidate_record: refused once the authority has moved, which ends
\* the command (and marks the attempt as stale).
Saving(rs, next) ==
    IF moved
    THEN /\ reviews' = [reviews EXCEPT ![Anchor].status = "stale"]
         /\ frames' = <<>>
    ELSE /\ reviews' = Latched(rs)
         /\ frames' = next
\* _persist_composition_control: a composition without retained authority is
\* only marked as attempted; its record gets no control of its own.
SaveRole(role, pc) ==
    Saving([reviews EXCEPT ![Here].control = @ \/ Here \in trail.compact,
                           ![Here].role[Top.role] = role],
           WithTop(On(pc)))

Fault == trail.faults < MaxReviewFaults
Faulted == [trail EXCEPT !.faults = @ + 1]
Called(kind) == [trail EXCEPT !.calls[Here][Top.role][kind] = @ + 1]
\* What is reserved is only asked when the reservation was saved.
Reserving(kind) == trail' = IF moved THEN trail ELSE Called(kind)

\* The verdict of a role: the security review follows an approval.
Approve(full) ==
    LET basis == IF Top.role = "semantic" THEN [full |-> full, knows |-> trail.rejected # {}] ELSE Top.basis
    IN WithTop([On(IF Top.role = "semantic" THEN "review" ELSE "publish") EXCEPT
                    !.basis = basis, !.role = "security"])
Reject(stop, local) ==
    WithTop([On("finish") EXCEPT
        !.out = [Review EXCEPT !.status = "failed", !.semantic = "rejected", !.stop = stop,
                               !.local = local]])

(***************************************************************************)
(* Commands.                                                               *)
(***************************************************************************)
\* resolve_candidate_repair comes before another attempt at the same gate.
NeedsRepair == RoutesToRepair(reviews[Anchor])

\* _preflight_result, and the record of a new attempt, which keeps what the
\* earlier attempts at this gate reserved and accepted.
Start ==
    /\ frames = <<>> /\ ~moved /\ trail.sessions < MaxSessions
    /\ ~AtBoundary /\ ~Exhausted /\ ~NeedsRepair
    /\ reviews[Anchor].status # "passed"
    /\ reviews' = [reviews EXCEPT ![Anchor].status = "running", ![Anchor].semantic = "not_run",
                                  ![Anchor].security = "not_run", ![Anchor].stop = "none",
                                  ![Anchor].local = FALSE]
    /\ frames' = <<Enter(Anchor)>>
    /\ trail' = [trail EXCEPT !.sessions = @ + 1, !.crossed = FALSE, !.refused = FALSE]
    /\ UNCHANGED <<artifacts, moved>>

\* Another candidate, plan or policy is another gate, with nothing spent; a
\* boundary that was crossed refuses that one too.
NewGate ==
    /\ frames = <<>> /\ ~AtBoundary
    /\ moved \/ NeedsRepair
    /\ reviews' = [n \in ReviewNodes |-> NoReview]
    /\ artifacts' = [n \in ReviewNodes |-> 0]
    /\ moved' = FALSE
    /\ \E compact \in SUBSET Composers :
        trail' = [NoTrail EXCEPT !.sessions = trail.sessions, !.began = trail.sessions,
                                 !.faults = trail.faults, !.compact = compact]
    /\ UNCHANGED frames

(***************************************************************************)
(* Composition: run_node_composition_cycle and _composition_exchange.      *)
(***************************************************************************)
\* Children whose change since their own review is too large to judge here
\* are reviewed first; that is reserved before it is done.
BeginRole ==
    /\ In("review")
    /\ IF Kids[Here] = {} \/ (Top.role = "semantic" /\ Gaps(Here) # {})
       THEN Go("full") /\ UNCHANGED reviews
       ELSE IF Role.refresh # {} /\ ~Role.reserved /\ Role.full.state = "none"
       THEN /\ frames' = WithTop([Top EXCEPT !.pc = "children", !.todo = Role.refresh, !.then = "compose"])
            /\ UNCHANGED reviews
       ELSE IF Here \notin trail.compact \/ Role.attempted \/ Role.full.state # "none"
       THEN Go("compose") /\ UNCHANGED reviews
       ELSE \E large \in SUBSET {c \in Kids[Here] : reviews[c].status # "passed"} :
            IF large = {} THEN Go("compose") /\ UNCHANGED reviews
            ELSE Saving([reviews EXCEPT ![Here].control = TRUE,
                                        ![Here].role[Top.role] =
                                            [Role EXCEPT !.attempted = TRUE, !.refresh = large]],
                        WithTop([Top EXCEPT !.pc = "children", !.todo = large, !.then = "compose"]))
    /\ UNCHANGED <<artifacts, moved, trail>>

\* What an accepted but provisional result leads to, once.
Settle ==
    IF Role.round # "none" \/ Role.composed.required = {} \/ Role.composed.verdict = "other"
    THEN WithTop(On("full"))
    ELSE WithTop([Top EXCEPT !.pc = "children", !.todo = Role.composed.required,
                             !.then = "reassess"])

\* Faulty: the exchange is only marked when children were refreshed for it.
ReservedForRefresh == [Role EXCEPT !.reserved = (Role.refresh # {})]

\* _reserve_composition_refresh, _persist_composition_control: first reserved.
Reserved == [Role EXCEPT !.attempted = TRUE, !.reserved = (Role.refresh # {})]

\* load_node_composition: an accepted result is used again.
UseAccepted ==
    /\ frames' = IF NeedsFull(Role.composed) THEN Settle
                 ELSE IF Role.composed.verdict = "approved" THEN Approve(FALSE)
                 ELSE Reject("repair", TRUE)
    /\ UNCHANGED <<reviews, trail>>

\* build_node_composition_context: the children's evidence does not make a packet
\* within its bounds, or there is none for the security review of such a node.
NoPacket == Go("full") /\ UNCHANGED <<reviews, trail>>

\* A spent exchange without a result is not repeated.
Compose ==
    /\ In("compose")
    /\ IF Role.composed.verdict # "none" THEN UseAccepted
       ELSE IF Role.attempted /\ (Role.refresh = {} \/ Role.reserved)
       THEN Go("full") /\ UNCHANGED <<reviews, trail>>
       ELSE \/ /\ Top.role = "semantic" \/ Here \in trail.compact
               /\ SaveRole(Reserved, "ask")
               /\ Reserving("composed")
            \/ NoPacket
    /\ UNCHANGED <<artifacts, moved>>

\* What a composing reviewer may accept: its verdict, and the children it wants
\* reviewed.  Where the full review follows anyway, what it wants is not kept.
Results ==
    {result \in [verdict : {"approved", "gap", "other"}, required : SUBSET Kids[Here]] :
        /\ result.verdict = "gap" => Top.role = "semantic" /\ Here \in trail.compact
        /\ result.required # {} => /\ result.verdict # "other" /\ Top.pc # "again"
                                   /\ Here \in trail.compact}

Ask ==
    /\ In("ask") \/ In("again")
    /\ \/ \E result \in Results :
            /\ SaveRole([Role EXCEPT !.composed = result,
                                     !.round = IF Top.pc = "again" THEN "accepted" ELSE @], "compose")
            /\ UNCHANGED trail
       \/ \* a verdict that is not cached: only an outside decision helps
          /\ Top.role = "semantic"
          /\ frames' = Reject("external", FALSE)
          /\ UNCHANGED <<reviews, trail>>
       \/ Fault /\ trail' = Faulted /\ Go("full") /\ UNCHANGED reviews   \* composition_invalid
    /\ UNCHANGED <<artifacts, moved>>

Reassess ==
    /\ In("reassess")
    /\ \/ SaveRole([Role EXCEPT !.round = "reserved"], "again") /\ Reserving("again")
       \/ Go("full") /\ UNCHANGED <<reviews, trail>>
    /\ UNCHANGED <<artifacts, moved>>

(***************************************************************************)
(* Children: _reverify_candidate_child.                                    *)
(***************************************************************************)
Child == CHOOSE c \in Top.todo : TRUE
Into(c, next) == Append(WithTop([Top EXCEPT !.pc = next]), Enter(c))

\* A node that composes is continued where it was; a leaf that was being
\* reviewed has used its attempt.
ReviewChild ==
    /\ In("children")
    /\ IF ~Present(Child)
       THEN IF Cardinality({n \in DOMAIN reviews : Present(n)}) = MaxCandidateNodes
            THEN BlockedBy("budget") /\ UNCHANGED reviews
            ELSE Saving([reviews EXCEPT ![Here].control = TRUE, ![Child] = RunningReview],
                        Into(Child, "returned"))
       ELSE /\ frames' = IF reviews[Child].status = "running" /\ Kids[Child] # {}
                         THEN Into(Child, "returned") ELSE WithTop([Top EXCEPT !.pc = "settled"])
            /\ UNCHANGED reviews
    /\ UNCHANGED <<artifacts, moved, trail>>

\* A finding that can be repaired in the child ends every enclosing gate; a
\* stop that is not about the work itself ends it too, unless it is old.  A
\* rejection takes back what the composition was approved for.
ChildReviewed ==
    /\ In("returned") \/ In("settled")
    /\ LET c == reviews[Child] IN
       IF RoutesToRepair(c)
       THEN Finish([Review EXCEPT !.status = "failed", !.semantic = "rejected",
                                  !.stop = "candidate_repair"])
       ELSE IF c.stop = "budget" \/ (Top.pc = "returned" /\ c.status # "passed" /\ c.stop # "repair")
       THEN BlockedBy(c.stop)
       ELSE IF Gaps(Here) # {} /\ ~Covers(Here)
       THEN IF Top.role = "security"
            THEN frames' = WithTop(Enter(Here))     \* SemanticRecheckRequired
            ELSE Go("full")
       ELSE IF c.status # "passed" THEN Go("full")
       ELSE LET rest == Top.todo \ {Child}
            IN frames' = WithTop([Top EXCEPT !.pc = IF rest = {} THEN Top.then ELSE "children",
                                             !.todo = rest])
    /\ UNCHANGED <<reviews, artifacts, moved, trail>>

(***************************************************************************)
(* The full review: _bounded_full_review.                                  *)
(***************************************************************************)
Spent(full) == full.state = "reserved" \/ (Top.role = "semantic" /\ ~Covers(Here))

\* A leaf's one attempt is its entry; a child that composed without control gets
\* one first; the verified node's own review is only reserved once there is
\* anything to keep it in.
FullReview ==
    /\ In("full")
    /\ LET full == Role.full
       IN IF full.state # "none"
          THEN /\ IF Spent(full) THEN BlockedBy("budget")
                  ELSE frames' = IF full.verdict = "approved" THEN Approve(TRUE)
                                 ELSE Reject(full.verdict, FALSE)
               /\ UNCHANGED <<reviews, trail>>
          ELSE IF Review.control
          THEN /\ Saving([reviews EXCEPT ![Here].role[Top.role].full.state = "reserved"],
                         WithTop(On("ask_full")))
               /\ Reserving("full")
          ELSE IF Here # Anchor /\ Kids[Here] # {}
          THEN /\ Saving([reviews EXCEPT ![Here].control = TRUE,
                                         ![Here].role["semantic"].attempted = TRUE],
                         frames)
               /\ UNCHANGED trail
          ELSE /\ Go("ask_full") /\ UNCHANGED reviews
               /\ trail' = Called(IF Here = Anchor THEN "open" ELSE "full")
    /\ UNCHANGED <<artifacts, moved>>

Verdicts == IF Top.role = "semantic" THEN {"approved", "repair", "external"} ELSE {"approved"}

\* An answer is stored with the rejections it was given after.
FullAnswer ==
    /\ In("ask_full")
    /\ \E verdict \in Verdicts, local \in BOOLEAN :
        /\ local => verdict = "repair" /\ Kids[Here] = {}
        /\ LET next == IF verdict = "approved" THEN Approve(TRUE) ELSE Reject(verdict, local)
           IN IF Role.full.state = "none" THEN frames' = next /\ UNCHANGED reviews
              ELSE Saving([reviews EXCEPT ![Here].role[Top.role].full =
                              [state |-> "done", verdict |-> verdict,
                               gaps |-> IF Top.role = "semantic" THEN Gaps(Here) ELSE {}]], next)
    /\ UNCHANGED <<artifacts, moved, trail>>

Asking == In("ask") \/ In("again") \/ In("ask_full")

\* The call fails, its audit cannot be written, or, _composition_review: another
\* process holds the lock of the progress, or evidence cannot be read.
ReviewFails ==
    /\ frames # <<>> /\ Top.pc \notin {"publish", "finish", "unwind"} /\ Fault
    /\ BlockedBy("retry")
    /\ trail' = Faulted
    /\ UNCHANGED <<reviews, artifacts, moved>>

(***************************************************************************)
(* The end of a gate.                                                      *)
(***************************************************************************)
\* The time of a pass is reserved before its evidence is written, so that a
\* second try writes the same evidence.
ReserveCompletion ==
    /\ In("publish") /\ Here # Anchor /\ Review.completed = 0
    /\ Saving([reviews EXCEPT ![Here].completed = trail.sessions], frames)
    /\ UNCHANGED <<artifacts, moved, trail>>

PassedReview(r) == [r EXCEPT !.status = "passed", !.semantic = "approved", !.security = "approved"]

\* Faulty: evidence carries the time it is written at.
UnreservedTime == trail.sessions

CompletedAt == IF Review.completed = 0 THEN trail.sessions ELSE Review.completed

\* store_checkpoint_evidence: an evidence file is never overwritten.
Publish ==
    /\ In("publish") /\ (Here # Anchor => Review.completed # 0)
    /\ IF artifacts[Here] \in {0, CompletedAt} \/ Here = Anchor
       THEN /\ artifacts' = [artifacts EXCEPT ![Here] = CompletedAt]
            /\ Finish(PassedReview(Review))
       ELSE /\ UNCHANGED artifacts
            /\ BlockedBy("evidence")
    /\ UNCHANGED <<reviews, moved, trail>>

\* validate_reverification, when a pass is accepted.
Accepted(out) ==
    IF out.status = "passed" /\ Gaps(Here) # {} /\ ~Covers(Here)
    THEN [out EXCEPT !.status = "blocked", !.stop = "evidence"] ELSE out

\* Nobody continues the gate of a child that has ended: of its exchanges only
\* the full reviews are looked at again (reverification_budget_exhausted).
Kept == IF Here = Anchor THEN Review.role
        ELSE [r \in Roles |-> [NoRole EXCEPT !.full = Review.role[r].full]]

\* _persist_terminal_if_current for the verified node, the save of the child's
\* terminal record for any other; what was reserved meanwhile is kept.
EndGate ==
    /\ In("finish")
    /\ LET out == [Accepted(Top.out) EXCEPT !.control = Review.control, !.role = Kept,
                                            !.gap = Review.gap, !.completed = Review.completed]
       IN /\ Saving([reviews EXCEPT ![Here] = out], Front(frames))
          /\ trail' = IF moved THEN trail
                      ELSE [trail EXCEPT !.rejected = IF out.semantic = "rejected" /\ out.stop # "candidate_repair"
                                                      THEN @ \cup {Here} ELSE @,
                                         !.basis[Here] = Top.basis,
                                         !.calls[Here] = IF Here = Anchor THEN @ ELSE SpentCalls]
    /\ UNCHANGED <<artifacts, moved>>

\* Past its composition, a child that cannot save (its lock is held) fails the
\* composition of its parent: what it was about to say is lost, a boundary too.
ChildUnsaved ==
    /\ frames # <<>> /\ Here # Anchor /\ Fault
    /\ \/ Top.pc \in {"full", "ask_full"} /\ Kids[Here] # {}
       \/ Top.pc = "publish" /\ Review.completed = 0
       \/ Top.pc = "finish"
    /\ LET parent == Last(Front(frames))
       IN frames' = Append(Front(Front(frames)),
                           [parent EXCEPT !.pc = "finish", !.todo = {}, !.then = "compose",
                              !.out = [reviews[parent.node] EXCEPT !.status = "blocked",
                                                                   !.stop = "retry"]])
    /\ trail' = [Faulted EXCEPT !.refused = @ \/ (In("finish") /\ Crossed(Top.out))]
    /\ UNCHANGED <<reviews, artifacts, moved>>

\* The same of the verified node: the attempt is marked as stale, and not even
\* that while the lock is held (_persist_stale_attempt).
AnchorUnsaved ==
    /\ In("finish") /\ Here = Anchor /\ Fault
    /\ frames' = <<>>
    /\ \E status \in {"running", "stale"} : reviews' = [reviews EXCEPT ![Anchor].status = status]
    /\ trail' = [Faulted EXCEPT !.refused = @ \/ Crossed(Top.out)]
    /\ UNCHANGED <<artifacts, moved>>

(***************************************************************************)
(* Boundaries, kills and changes.                                          *)
(***************************************************************************)
\* A reviewer changed its workspace, or the security review rejects.
Cross ==
    /\ Asking
    /\ \/ /\ Fault /\ trail' = [Faulted EXCEPT !.crossed = TRUE]
          /\ Finish([Review EXCEPT !.status = "blocked", !.stop = "boundary"])
       \/ /\ Top.role = "security" /\ trail' = [trail EXCEPT !.crossed = TRUE]
          /\ Finish([Review EXCEPT !.status = "failed", !.semantic = "approved",
                                   !.security = "rejected", !.stop = "repair"])
    /\ frames' # frames
    /\ UNCHANGED <<reviews, artifacts, moved>>

BoundaryOf(r, out) == [r EXCEPT !.status = "blocked", !.stop = out.stop, !.security = out.security]

\* Faulty: a boundary is recorded like any other verdict.
LatchIfCurrent(out) ==
    IF moved THEN reviews ELSE [reviews EXCEPT ![Anchor] = BoundaryOf(@, out)]

\* _persist_candidate_boundary: the verified node's record, whether or not the
\* attempt is still about the present.
LatchAnchor(out) == [reviews EXCEPT ![Anchor] = BoundaryOf(@, out)]

Latch ==
    /\ In("finish") /\ Crossed(Top.out)
    /\ reviews' = LatchAnchor(Top.out)
    /\ IF Here = Anchor THEN frames' = <<>> ELSE Go("unwind")
    /\ UNCHANGED <<artifacts, moved, trail>>

\* Then the child's own record and those between, and every gate ends.
Unwind ==
    /\ In("unwind")
    /\ reviews' = [n \in ReviewNodes |->
                     IF n = Here THEN [Top.out EXCEPT !.control = Review.control, !.role = Review.role]
                     ELSE IF n \in Path THEN BoundaryOf(reviews[n], Top.out) ELSE reviews[n]]
    /\ frames' = <<>>
    /\ UNCHANGED <<artifacts, moved, trail>>

\* The command is killed: what it saved stays, what it saw is lost.
Kill ==
    /\ frames # <<>> /\ Fault
    /\ frames' = <<>>
    /\ trail' = [Faulted EXCEPT !.crossed = AtBoundary]
    /\ UNCHANGED <<reviews, artifacts, moved>>

\* KeyboardInterrupt while a provider works: the attempt is over.
Interrupt ==
    /\ Asking /\ Fault
    /\ frames' = <<>>
    /\ reviews' = IF moved THEN reviews ELSE [reviews EXCEPT ![Anchor].status = "interrupted"]
    /\ trail' = Faulted
    /\ UNCHANGED <<artifacts, moved>>

\* Someone edits the plan or the policy, or advances the branch.
Move ==
    /\ frames # <<>> /\ ~moved /\ Fault
    /\ moved' = TRUE
    /\ trail' = Faulted
    /\ UNCHANGED <<reviews, frames, artifacts>>

Gate ==
    \/ BeginRole \/ Compose \/ Ask \/ Reassess
    \/ ReviewChild \/ ChildReviewed
    \/ FullReview \/ FullAnswer \/ ReviewFails \/ Cross
    \/ ReserveCompletion \/ Publish
    \/ (In("finish") /\ ~Crossed(Top.out) /\ EndGate)
    \/ Latch \/ Unwind \/ ChildUnsaved \/ AnchorUnsaved

Next == Start \/ NewGate \/ Gate \/ Kill \/ Interrupt \/ Move

Spec == Init /\ [][Next]_candidateVars

(***************************************************************************)
(* Properties.                                                             *)
(***************************************************************************)
\* checkpoint_applicability: a checkpoint whose own review does not cover the
\* candidate counts as reviewed anew if its new review or the root's passed.
Reverified(n) ==
    /\ reviews[Anchor].semantic # "rejected"
    /\ reviews[n].status = "passed" \/ reviews[Anchor].status = "passed"

Covered(n) ==
    {d \in DOMAIN reviews \ {Anchor} : n = Anchor \/ d = n \/ d \in Kids[n]}

\* A node counts as reviewed at this candidate only if every rejection that
\* was recorded for it or below it was answered by a full review, its own or
\* the verified node's, that was made once something had been rejected: an
\* approval by composition never outlives the evidence it was composed from,
\* through kills, resumes and the two roles (semantic_gap_ids, replace_at).
RejectionsAreReviewed ==
    \A n \in DOMAIN reviews : Reverified(n) /\ Covered(n) \cap trail.rejected # {} =>
        \E by \in {n, Anchor} :
            /\ reviews[by].status = "passed"
            /\ trail.basis[by].full /\ trail.basis[by].knows

\* At one gate a node's reviewer is asked at most once to compose, once to
\* reassess and once to review in full, however often the command is killed,
\* refused the lock and given again (MAX_NODE_PROVIDER_CALLS).  Only the
\* verified node's own full review is repeated, at most once in each command,
\* as long as its record keeps no control to reserve it in.
AskedOncePerGate ==
    \A n \in DOMAIN reviews, r \in Roles :
        /\ \A k \in {"composed", "again", "full"} : trail.calls[n][r][k] <= 1
        /\ trail.calls[n][r]["open"] <= IF n = Anchor THEN trail.sessions - trail.began ELSE 0

\* A boundary that the command saw crossed, at any depth, is on the verified
\* node's record when the command ends, also when plan or branch changed
\* meanwhile and every other verdict would be dropped: unless another process
\* held the lock of the progress at the very save of that boundary, or, killed
\* before it, the command never came to it.
CrossingIsLatched ==
    frames = <<>> /\ trail.crossed => Crossed(reviews[Anchor]) \/ trail.refused

\* A pass whose publication was cut short is published again as it was: no
\* gate is stopped by its own evidence file.
EvidenceIsReproducible == \A n \in DOMAIN reviews : reviews[n].stop # "evidence"
=============================================================================
