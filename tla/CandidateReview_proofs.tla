----------------------- MODULE CandidateReview_proofs -----------------------
(***************************************************************************)
(* What a verification of nested checkpoints may be trusted with, for      *)
(* every hierarchy of checkpoints and any number of commands, faults and   *)
(* kills: a pass answers every rejection below it, no reviewer is asked    *)
(* twice for an exchange that is reserved, a boundary that was crossed is  *)
(* on record or was refused by the lock, and no gate is stopped by its own *)
(* evidence.                                                               *)
(*                                                                         *)
(* None of them is inductive.  A gate that composes has no gap below it,   *)
(* and behind the semantic review of its node the gaps are answered; a     *)
(* rejection leaves a gap on the record of every gate that encloses it; an *)
(* exchange that was counted is reserved in the record, or its result is   *)
(* there.  That is CandidateInv; upon it stand CrossingHeld (a boundary    *)
(* not refused is in the outcome of the innermost gate, on its way to the  *)
(* record of the verified node) and OpenCounted (what is not reserved is   *)
(* asked once in a command, where its gate is the only one).               *)
(*                                                                         *)
(* The module takes the steps of a gate by what they save: the lemmas      *)
(* ...Keeps are about the actions, and those before them about a record    *)
(* and a frame that are replaced.                                          *)
(***************************************************************************)
EXTENDS CandidateReview, SequenceTheorems, TLAPS

\* The values of the variables.
ReviewStatuses == {"absent", "running", "passed", "failed", "blocked", "stale", "interrupted"}
ReviewVerdicts == {"not_run", "approved", "rejected"}
ReviewStops == {"none", "boundary", "budget", "candidate_repair", "repair", "external", "retry",
                "evidence"}
ReviewResults == [verdict : {"none", "approved", "gap", "other"}, required : SUBSET ReviewNodes]
FullReviews ==
    {full \in [state : {"none", "reserved", "done"},
               verdict : {"none", "approved", "repair", "external"}, gaps : SUBSET ReviewNodes] :
       full.state = "done" => full.verdict # "none"}
RoleRecords == [attempted : BOOLEAN, composed : ReviewResults, refresh : SUBSET ReviewNodes,
                reserved : BOOLEAN, round : {"none", "reserved", "accepted"}, full : FullReviews]
ReviewRecords == [status : ReviewStatuses, semantic : ReviewVerdicts, security : ReviewVerdicts,
                  stop : ReviewStops, local : BOOLEAN, gap : BOOLEAN, completed : Nat,
                  control : BOOLEAN, role : [Roles -> RoleRecords]]
BasisRecords == [full : BOOLEAN, knows : BOOLEAN]
ChildPlaces == {"children", "returned", "settled"}
EndPlaces == {"finish", "unwind"}
GatePlaces == {"review", "compose", "ask", "again", "reassess", "full", "ask_full", "publish"}
              \cup ChildPlaces \cup EndPlaces
FrameRecords == [node : ReviewNodes, role : Roles, pc : GatePlaces, todo : SUBSET ReviewNodes,
                 then : {"compose", "reassess"}, basis : BasisRecords, out : ReviewRecords]
Kinds == {"composed", "again", "full", "open"}
TrailRecords == [rejected : SUBSET ReviewNodes, basis : [ReviewNodes -> BasisRecords],
                 calls : [ReviewNodes -> [Roles -> [Kinds -> Nat]]], compact : SUBSET ReviewNodes,
                 crossed : BOOLEAN, refused : BOOLEAN,
                 began : Nat, sessions : Nat, faults : Nat]

CandidateTypes ==
    /\ reviews \in [ReviewNodes -> ReviewRecords]
    /\ frames \in Seq(FrameRecords)
    /\ artifacts \in [ReviewNodes -> Nat]
    /\ moved \in BOOLEAN
    /\ trail \in TrailRecords

(***************************************************************************)
(* The parts of the invariant, as predicates of a state given by its       *)
(* parts: a record r of node n, a frame f at it, the calls c counted.      *)
(***************************************************************************)
\* The record of a gate in progress holds no verdict.
InProgress(r) ==
    r.status = "running" /\ r.semantic = "not_run" /\ r.security = "not_run" /\ r.stop = "none"

\* What a role's record refers to are children of the node.
RoleRefers(r, n) ==
    \A role \in Roles : /\ r.role[role].refresh \subseteq Kids[n]
                        /\ r.role[role].composed.required \subseteq Kids[n]

\* A leaf below the verified node keeps no record of its exchanges.
LeafKeeps(r, n) == Kids[n] = {} /\ n # Anchor => ~r.control

\* The places of a frame.
FramePlaced(f) ==
    /\ f.pc \in ChildPlaces => f.todo # {} /\ f.todo \subseteq Kids[f.node]
    /\ Kids[f.node] = {} => f.pc \in {"review", "full", "ask_full", "publish", "finish", "unwind"}
    /\ f.pc = "publish" => f.role = "security"

\* An exchange counted is one the record will not repeat.
ComposedOnce(r, c, role) ==
    /\ c[role]["composed"] <= 1
    /\ c[role]["composed"] = 1 =>
         r.role[role].attempted /\ (r.role[role].refresh = {} \/ r.role[role].reserved)
AgainOnce(r, c, role) ==
    c[role]["again"] <= 1 /\ (c[role]["again"] = 1 => r.role[role].round # "none")
\* The round of a frame that is about to reassess.
RoundOpen(f, r) ==
    f.pc = "reassess" \/ (f.pc \in ChildPlaces /\ f.then = "reassess") =>
        r.role[f.role].round = "none"
FullOnce(r, n, c, role) ==
    /\ c[role]["full"] <= 1
    /\ c[role]["full"] = 1 =>
         \/ r.role[role].full.state # "none"
         \/ Kids[n] = {} /\ n # Anchor /\ r.status # "absent"
\* A leaf's frame is past the review that is counted.
PastFull(f, r, c) ==
    Kids[f.node] = {} /\ f.node # Anchor => \A role \in Roles :
        c[role]["full"] = 1 /\ r.role[role].full.state = "none" =>
            \/ f.role = role /\ f.pc \in {"ask_full", "publish", "finish", "unwind"}
            \/ role = "semantic" /\ f.role = "security"
CallsCounted(r, n, c) ==
    \A role \in Roles : ComposedOnce(r, c, role) /\ AgainOnce(r, c, role) /\ FullOnce(r, n, c, role)

\* Nobody asks for a child's gate again once it has ended.
Ended(r, n) == n # Anchor /\ r.status \notin {"absent", "running"}
AtMostOnce(c) ==
    \A role \in Roles :
        c[role]["composed"] <= 1 /\ c[role]["again"] <= 1 /\ c[role]["full"] <= 1
CallsHold(r, n, c) == IF Ended(r, n) THEN AtMostOnce(c) ELSE CallsCounted(r, n, c)

\* How a gate ends: its outcome is a verdict that goes with it.
FrameEnds(f, r) ==
    f.pc \in EndPlaces =>
        /\ f.out.status \in {"passed", "failed", "blocked"}
        /\ f.out.status = "passed" => f.out.security = "approved" /\ f.out.semantic = "approved"
        /\ f.out.semantic = "rejected" => f.out.status = "failed"
                                          /\ f.out.security = "not_run"
                                          /\ f.out.stop \in {"repair", "external", "candidate_repair"}
        /\ f.out.stop = "candidate_repair" => f.out.semantic = "rejected"
        /\ f.out.stop # "evidence"
        /\ f.out.completed = r.completed
        /\ f.out.gap = r.gap

\* The gaps of a node, as the children's records keep them.
Gapped(rs, n) == {c \in Kids[n] : rs[c].gap}
Answered(r, gaps) == r.role["semantic"].full.state = "done" /\ gaps \subseteq r.role["semantic"].full.gaps

\* What a gate has seen of the gaps below it: composing goes without any, and
\* behind the semantic review they are answered.
GapsSeen(f, r, gaps) ==
    /\ f.role = "semantic" /\ f.pc \in {"compose", "ask", "again", "reassess", "children", "settled"}
         => gaps = {}
    /\ f.role = "semantic" /\ f.pc = "returned" => r.role["semantic"].full.gaps = {}
    /\ \/ f.role = "security" /\ f.pc \notin {"returned", "finish", "unwind"}
       \/ f.pc = "finish" /\ f.out.status = "passed"
       => f.role = "security" /\ (gaps = {} \/ Answered(r, gaps))
    /\ f.role = "security" /\ r.role["semantic"].full.gaps # {} => f.basis.full /\ f.basis.knows

\* What is asked in full without being kept is asked where nothing is below.
AskedUnkept(f, r) ==
    f.pc = "ask_full" /\ r.role[f.role].full.state = "none" =>
        Kids[f.node] = {} \/ (f.node = Anchor /\ ~r.control)

FrameHolds(f, r, c, gaps) ==
    /\ FramePlaced(f) /\ RoundOpen(f, r) /\ PastFull(f, r, c) /\ FrameEnds(f, r)
    /\ GapsSeen(f, r, gaps) /\ AskedUnkept(f, r)

\* Who hands a finding on to a repair has it from a child's review.
RepairKnown(f, t) == f.pc \in EndPlaces /\ f.out.stop = "candidate_repair" => t.rejected # {}

\* The gates in progress, from the verified node down to the innermost.
Stacked ==
    /\ frames # <<>> => frames[1].node = Anchor
    /\ \A i, j \in 1..Len(frames) : frames[i].node = frames[j].node => i = j
    /\ \A i \in 1..(Len(frames) - 1) :
         frames[i].pc = "returned" /\ frames[i + 1].node \in Kids[frames[i].node]
    /\ \A i \in 1..Len(frames) :
         (i > 1 \/ frames[Len(frames)].pc # "unwind") => InProgress(reviews[frames[i].node])
    /\ frames # <<>> => reviews[Anchor].status # "absent"

\* A node without a record has kept nothing; nothing is below a verified node
\* that keeps no record of its exchanges.
Blank ==
    /\ \A n \in ReviewNodes : reviews[n].status = "absent" => reviews[n] = NoReview
    /\ ~reviews[Anchor].control => \A n \in ReviewNodes \ {Anchor} : reviews[n].status = "absent"

NodesHold ==
    \A n \in ReviewNodes :
        /\ RoleRefers(reviews[n], n) /\ LeafKeeps(reviews[n], n)
        /\ CallsHold(reviews[n], n, trail.calls[n])
        /\ reviews[n].stop # "evidence"
        /\ reviews[n].status = "running" => InProgress(reviews[n])
        /\ n # Anchor /\ artifacts[n] # 0 => artifacts[n] = reviews[n].completed
        /\ n # Anchor /\ reviews[n].semantic = "rejected" => reviews[n].gap
        /\ n # Anchor /\ (reviews[n].gap \/ reviews[n].stop = "candidate_repair") => trail.rejected # {}
        /\ reviews[n].role["semantic"].full.gaps \subseteq Gapped(reviews, n)

FramesHold ==
    \A i \in 1..Len(frames) :
        /\ FrameHolds(frames[i], reviews[frames[i].node], trail.calls[frames[i].node],
                      Gapped(reviews, frames[i].node))
        /\ RepairKnown(frames[i], trail)

\* A boundary on record is on the record of the verified node, which has it first.
CrossingOK ==
    /\ frames = <<>> => (AtBoundary => Crossed(reviews[Anchor]))
    /\ frames # <<>> =>
         LET top == frames[Len(frames)]
         IN IF top.pc = "unwind" THEN Crossed(reviews[Anchor]) /\ Crossed(top.out)
            ELSE ~AtBoundary

\* What became of the rejections.
RejectedOK ==
    /\ \A d \in trail.rejected \ {Anchor} : reviews[d].gap /\ reviews[d].status = "failed"
    /\ trail.rejected \ {Anchor} # {} => Gapped(reviews, Anchor) # {}
    /\ \A n \in ReviewNodes :
         /\ reviews[n].status = "passed"
         /\ IF n = Anchor THEN trail.rejected \ {Anchor} # {} ELSE Kids[n] \cap trail.rejected # {}
         => trail.basis[n].full /\ trail.basis[n].knows

CandidateInv ==
    CandidateTypes /\ Stacked /\ Blank /\ NodesHold /\ FramesHold /\ CrossingOK /\ RejectedOK

(***************************************************************************)
(* The frames.                                                             *)
(***************************************************************************)
LEMMA TopIsLast ==
    ASSUME frames \in Seq(FrameRecords), frames # <<>>
    PROVE  /\ Len(frames) \in Nat \ {0} /\ Top = frames[Len(frames)]
           /\ Top \in FrameRecords /\ Here \in ReviewNodes
           /\ \A i \in 1..Len(frames) : frames[i] \in FrameRecords
           /\ DOMAIN frames = 1..Len(frames)
<1>1. Len(frames) \in Nat \ {0} /\ \A i \in 1..Len(frames) : frames[i] \in FrameRecords
  OBVIOUS
<1>2. Top = frames[Len(frames)]
  BY DEF Top, Last
<1>3. Top \in FrameRecords
  BY <1>1, <1>2
<1>4. Here \in ReviewNodes
  BY <1>3 DEF Here, FrameRecords
<1> QED
  BY <1>1, <1>2, <1>3, <1>4

LEMMA AllButLast ==
    ASSUME NEW S, NEW s \in Seq(S), NEW n \in Nat, Len(s) = n + 1
    PROVE  /\ SubSeq(s, 1, n) \in Seq(S) /\ Len(SubSeq(s, 1, n)) = n
           /\ \A i \in 1..n : SubSeq(s, 1, n)[i] = s[i]
<1>1. 1 \in Int /\ n \in Int /\ \A i \in 1..n : s[i] \in S
  OBVIOUS
<1> DEFINE sub == SubSeq(s, 1, n)
<1>2. /\ sub \in Seq(S) /\ Len(sub) = IF 1 <= n THEN n - 1 + 1 ELSE 0
      /\ \A i \in 1..(n - 1 + 1) : sub[i] = s[1 + i - 1]
  BY <1>1, SubSeqProperties, SMT
<1> HIDE DEF sub
<1>3. Len(sub) = n
  BY <1>2
<1>4. n - 1 + 1 = n /\ \A i \in 1..n : 1 + i - 1 = i
  OBVIOUS
<1>5. \A i \in 1..n : sub[i] = s[i]
  BY <1>2, <1>4
<1> QED
  BY <1>2, <1>3, <1>5 DEF sub

LEMMA FrontIs ==
    ASSUME frames \in Seq(FrameRecords), frames # <<>>
    PROVE  /\ Front(frames) \in Seq(FrameRecords)
           /\ Len(Front(frames)) = Len(frames) - 1
           /\ \A i \in 1..(Len(frames) - 1) : Front(frames)[i] = frames[i]
<1>1. Len(frames) - 1 \in Nat /\ Len(frames) = (Len(frames) - 1) + 1
  OBVIOUS
<1> QED
  BY <1>1, AllButLast DEF Front

LEMMA WithTopIs ==
    ASSUME frames \in Seq(FrameRecords), frames # <<>>, NEW f \in FrameRecords
    PROVE  /\ WithTop(f) \in Seq(FrameRecords)
           /\ Len(WithTop(f)) = Len(frames)
           /\ WithTop(f)[Len(frames)] = f
           /\ \A i \in 1..(Len(frames) - 1) : WithTop(f)[i] = frames[i]
BY FrontIs DEF WithTop

LEMMA NewTop ==
    ASSUME CandidateInv, frames # <<>>, NEW f \in FrameRecords, frames' = WithTop(f)
    PROVE  frames' # <<>> /\ Top' = f
<1>1. /\ WithTop(f) \in Seq(FrameRecords) /\ Len(WithTop(f)) = Len(frames)
      /\ WithTop(f)[Len(frames)] = f /\ Len(frames) \in Nat \ {0}
  BY WithTopIs, TopIsLast DEF CandidateInv, CandidateTypes
<1>2. Len(frames') = Len(frames) /\ frames'[Len(frames)] = f /\ frames' # <<>>
  BY <1>1
<1>3. Top' = frames'[Len(frames')]
  BY DEF Top, Last
<1> QED
  BY <1>2, <1>3

LEMMA PushIs ==
    ASSUME frames \in Seq(FrameRecords), frames # <<>>,
           NEW f \in FrameRecords, NEW g \in FrameRecords
    PROVE  /\ Append(WithTop(f), g) \in Seq(FrameRecords)
           /\ Len(Append(WithTop(f), g)) = Len(frames) + 1
           /\ Append(WithTop(f), g)[Len(frames) + 1] = g
           /\ Append(WithTop(f), g)[Len(frames)] = f
           /\ \A i \in 1..(Len(frames) - 1) : Append(WithTop(f), g)[i] = frames[i]
<1> HIDE DEF WithTop
<1>1. Len(frames) \in Nat \ {0}
  OBVIOUS
<1> QED
  BY WithTopIs, <1>1

LEMMA PathIs ==
    ASSUME frames \in Seq(FrameRecords)
    PROVE  Path = {frames[i].node : i \in 1..Len(frames)}
BY DEF Path

(***************************************************************************)
(* What the invariant says of the innermost gate.                          *)
(***************************************************************************)
\* What is counted stays covered by a record that keeps its roles.
LEMMA SameCalls ==
    ASSUME NEW r, NEW q, NEW n, NEW c, CallsHold(r, n, c), q.role = r.role,
           Ended(r, n) => Ended(q, n), r.status # "absent" => q.status # "absent"
    PROVE  CallsHold(q, n, c)
<1>1. CASE Ended(r, n)
  BY <1>1 DEF CallsHold
<1>2. CASE ~Ended(r, n)
  <2>1. \A role \in Roles : ComposedOnce(r, c, role) /\ AgainOnce(r, c, role) /\ FullOnce(r, n, c, role)
    BY <1>2 DEF CallsHold, CallsCounted
  <2>2. \A role \in Roles : ComposedOnce(q, c, role) /\ AgainOnce(q, c, role) /\ FullOnce(q, n, c, role)
    BY <2>1 DEF ComposedOnce, AgainOnce, FullOnce
  <2> QED
    BY <2>2 DEF CallsHold, CallsCounted, AtMostOnce, ComposedOnce, AgainOnce, FullOnce
<1> QED
  BY <1>1, <1>2

TopHolds(f, r) == FrameHolds(f, r, trail.calls[f.node], Gapped(reviews, f.node))

LEMMA GapsAre ==
    ASSUME CandidateAssumption, CandidateInv, NEW n \in ReviewNodes
    PROVE  Gaps(n) = Gapped(reviews, n) /\ (Covers(n) <=> Answered(reviews[n], Gapped(reviews, n)))
<1>1. Kids[n] \subseteq ReviewNodes \ {Anchor}
  BY DEF CandidateAssumption
<1>2. \A c \in Kids[n] : reviews[c].semantic = "rejected" => reviews[c].gap
  BY <1>1 DEF CandidateInv, NodesHold
<1>3. Gaps(n) = Gapped(reviews, n)
  BY <1>2 DEF Gaps, Gapped
<1> QED
  BY <1>3 DEF Covers, Answered

LEMMA TopFacts ==
    ASSUME CandidateAssumption, CandidateInv, frames # <<>>
    PROVE  /\ Top = frames[Len(frames)] /\ Top \in FrameRecords /\ Here \in ReviewNodes
           /\ Review \in ReviewRecords /\ Role \in RoleRecords
           /\ Here \in Path /\ Path \subseteq ReviewNodes /\ Anchor \in Path
           /\ Top.pc # "unwind" => /\ InProgress(Review) /\ ~AtBoundary
                                   /\ \A n \in Path : InProgress(reviews[n])
           /\ TopHolds(Top, Review)
           /\ Gaps(Here) = Gapped(reviews, Here)
           /\ Covers(Here) <=> Answered(Review, Gapped(reviews, Here))
           /\ RoleRefers(Review, Here) /\ LeafKeeps(Review, Here)
           /\ Top.pc # "unwind" => CallsCounted(Review, Here, trail.calls[Here])
           /\ Review.stop # "evidence"
           /\ Review.role["semantic"].full.gaps \subseteq Gapped(reviews, Here)
           /\ Kids[Here] \cap Path = {} /\ Kids[Here] \subseteq ReviewNodes \ {Anchor}
<1>1. /\ Top = frames[Len(frames)] /\ Top \in FrameRecords /\ Here \in ReviewNodes
      /\ Len(frames) \in Nat \ {0} /\ \A i \in 1..Len(frames) : frames[i] \in FrameRecords
      /\ DOMAIN frames = 1..Len(frames)
  BY TopIsLast DEF CandidateInv, CandidateTypes
<1>2. Review \in ReviewRecords /\ Top.role \in Roles
  BY <1>1 DEF CandidateInv, CandidateTypes, Review, FrameRecords
<1>3. Role \in RoleRecords
  BY <1>2 DEF Role, ReviewRecords
<1>4. /\ Here \in Path /\ Path \subseteq ReviewNodes /\ Anchor \in Path
      /\ \A n \in Path : \E i \in 1..Len(frames) : n = frames[i].node
  BY <1>1 DEF Path, FrameRecords, Here, CandidateInv, Stacked
<1>5. Top.pc # "unwind" => \A n \in Path : InProgress(reviews[n])
  BY <1>1, <1>4 DEF CandidateInv, Stacked
<1>6. Top.pc # "unwind" => InProgress(Review) /\ ~AtBoundary
  BY <1>1, <1>4, <1>5 DEF CandidateInv, CrossingOK, Review
<1>8. TopHolds(Top, Review)
  BY <1>1 DEF CandidateInv, FramesHold, TopHolds, Review, Here
<1>9. /\ RoleRefers(Review, Here) /\ LeafKeeps(Review, Here)
      /\ CallsHold(Review, Here, trail.calls[Here])
      /\ Review.stop # "evidence"
      /\ Review.role["semantic"].full.gaps \subseteq Gapped(reviews, Here)
  BY <1>1 DEF CandidateInv, NodesHold, Review
<1>7. Top.pc # "unwind" => CallsCounted(Review, Here, trail.calls[Here])
  BY <1>6, <1>9 DEF CallsHold, Ended, InProgress
<1>10. Kids[Here] \subseteq ReviewNodes \ {Anchor}
  BY <1>1 DEF CandidateAssumption
<1>11. Kids[Here] \cap Path = {}
  <2> SUFFICES ASSUME NEW i \in 1..Len(frames), frames[i].node \in Kids[Here] PROVE FALSE
    BY <1>4
  <2>1. i # 1
    BY <1>1, <1>10 DEF CandidateInv, Stacked
  <2>2. i - 1 \in 1..(Len(frames) - 1) /\ (i - 1) + 1 = i
    BY <2>1, <1>1
  <2>3. frames[i].node \in Kids[frames[i - 1].node]
    BY <2>2 DEF CandidateInv, Stacked
  <2>4. frames[i - 1].node \in ReviewNodes
    BY <2>2, <1>1 DEF FrameRecords
  <2>5. frames[i - 1].node = Here
    BY <2>3, <2>4, <1>1 DEF CandidateAssumption
  <2>6. i - 1 = Len(frames)
    BY <2>5, <2>2, <1>1 DEF CandidateInv, Stacked, Here
  <2> QED
    BY <2>6, <1>1
<1>12. Gaps(Here) = Gapped(reviews, Here) /\ (Covers(Here) <=> Answered(Review, Gapped(reviews, Here)))
  BY GapsAre, <1>1 DEF Review
<1> QED
  BY <1>1, <1>2, <1>3, <1>4, <1>5, <1>6, <1>7, <1>8, <1>9, <1>10, <1>11, <1>12

(***************************************************************************)
(* A step of the innermost gate, which may change its record.              *)
(***************************************************************************)
Within(f, rec, c) ==
    /\ frames # <<>> /\ Top.pc \notin EndPlaces
    /\ f \in FrameRecords /\ rec \in ReviewRecords /\ c \in [Roles -> [Kinds -> Nat]]
    /\ f.node = Here /\ f.pc # "unwind" /\ frames' = WithTop(f)
    /\ reviews' = [reviews EXCEPT ![Here] = rec]
    /\ InProgress(rec) /\ rec.gap = Review.gap /\ (Review.control => rec.control)
    /\ RoleRefers(rec, Here) /\ LeafKeeps(rec, Here) /\ CallsCounted(rec, Here, c)
    /\ rec.role["semantic"].full.gaps \subseteq Gapped(reviews, Here)
    /\ artifacts' \in [ReviewNodes -> Nat]
    /\ \A n \in ReviewNodes \ {Here} : artifacts'[n] = artifacts[n]
    /\ Here # Anchor /\ artifacts'[Here] # 0 => artifacts'[Here] = rec.completed
    /\ moved' = moved
    /\ trail' \in TrailRecords /\ trail'.rejected = trail.rejected /\ trail'.basis = trail.basis
    /\ trail'.calls = [trail.calls EXCEPT ![Here] = c]
    /\ FrameHolds(f, rec, c, Gapped(reviews, Here)) /\ RepairKnown(f, trail)

LEMMA WithinKeeps ==
    ASSUME CandidateAssumption, CandidateInv, NEW f, NEW rec, NEW c, Within(f, rec, c)
    PROVE  CandidateInv'
<1> USE DEF Within
<1>1. /\ Top = frames[Len(frames)] /\ Top \in FrameRecords /\ Here \in ReviewNodes
      /\ Review \in ReviewRecords /\ Here \in Path /\ InProgress(Review) /\ ~AtBoundary
      /\ Kids[Here] \cap Path = {}
  BY TopFacts DEF EndPlaces
<1>2. /\ Len(frames) \in Nat \ {0} /\ frames' \in Seq(FrameRecords) /\ Len(frames') = Len(frames)
      /\ frames'[Len(frames)] = f /\ frames' # <<>>
      /\ \A i \in 1..(Len(frames) - 1) : frames'[i] = frames[i]
  <2>1. frames \in Seq(FrameRecords)
    BY DEF CandidateInv, CandidateTypes
  <2> QED
    BY <2>1, WithTopIs, TopIsLast
<1>3. /\ reviews'[Here] = rec /\ \A n \in ReviewNodes \ {Here} : reviews'[n] = reviews[n]
      /\ reviews' \in [ReviewNodes -> ReviewRecords]
  BY <1>1 DEF CandidateInv, CandidateTypes
<1>4. /\ trail'.calls[Here] = c
      /\ \A n \in ReviewNodes \ {Here} : trail'.calls[n] = trail.calls[n]
  BY <1>1 DEF CandidateInv, CandidateTypes, TrailRecords
<1>5. \A n \in ReviewNodes : reviews'[n].gap = reviews[n].gap
  BY <1>3 DEF Review
<1>6. \A n \in ReviewNodes : Gapped(reviews', n) = Gapped(reviews, n)
  BY <1>5 DEF Gapped, CandidateAssumption
<1>7. frames'[Len(frames)].node = Here /\ frames[Len(frames)].node = Here
  BY <1>1, <1>2 DEF Here
<1>8. \A i \in 1..Len(frames) : frames'[i].node = frames[i].node
  BY <1>2, <1>7
<1>9. \A i \in 1..(Len(frames) - 1) : frames[i].node # Here /\ frames[i].node \in ReviewNodes
  <2> SUFFICES ASSUME NEW i \in 1..(Len(frames) - 1)
               PROVE  frames[i].node # Here /\ frames[i].node \in ReviewNodes
    OBVIOUS
  <2>1. i \in 1..Len(frames) /\ i # Len(frames) /\ Len(frames) \in 1..Len(frames)
    BY <1>2
  <2>2. frames[i] \in FrameRecords
    BY <2>1 DEF CandidateInv, CandidateTypes
  <2> QED
    BY <2>1, <2>2, <1>7 DEF CandidateInv, Stacked, FrameRecords
<1>10. CandidateTypes'
  BY <1>2, <1>3 DEF CandidateInv, CandidateTypes
<1>11. Stacked'
  <2>1. frames'[1].node = Anchor
    BY <1>2, <1>8 DEF CandidateInv, Stacked
  <2>2. \A i, j \in 1..Len(frames) : frames'[i].node = frames'[j].node => i = j
    BY <1>8 DEF CandidateInv, Stacked
  <2>3. \A i \in 1..(Len(frames) - 1) :
          frames'[i].pc = "returned" /\ frames'[i + 1].node \in Kids[frames'[i].node]
    <3> SUFFICES ASSUME NEW i \in 1..(Len(frames) - 1)
                 PROVE frames'[i].pc = "returned" /\ frames'[i + 1].node \in Kids[frames'[i].node]
      OBVIOUS
    <3>1. i + 1 \in 1..Len(frames)
      BY <1>2
    <3> QED
      BY <3>1, <1>2, <1>8 DEF CandidateInv, Stacked
  <2>4. \A i \in 1..Len(frames) : InProgress(reviews'[frames'[i].node])
    <3> SUFFICES ASSUME NEW i \in 1..Len(frames) PROVE InProgress(reviews'[frames'[i].node])
      OBVIOUS
    <3>1. CASE i = Len(frames)
      BY <3>1, <1>2, <1>3
    <3>2. CASE i # Len(frames)
      BY <3>2, <1>1, <1>2, <1>3, <1>9 DEF CandidateInv, Stacked, EndPlaces
    <3> QED
      BY <3>1, <3>2
  <2>5. reviews'[Anchor].status # "absent"
    BY <1>3 DEF CandidateInv, Stacked, CandidateAssumption, InProgress
  <2> QED
    BY <1>2, <2>1, <2>2, <2>3, <2>4, <2>5 DEF Stacked
<1>12. Blank'
  <2>1. \A n \in ReviewNodes : reviews'[n].status = "absent" <=> reviews[n].status = "absent"
    BY <1>1, <1>3 DEF InProgress, Review
  <2>2. \A n \in ReviewNodes : reviews'[n].status = "absent" => reviews'[n] = reviews[n]
    BY <1>3 DEF InProgress
  <2>3. ~reviews'[Anchor].control => ~reviews[Anchor].control
    BY <1>3 DEF CandidateAssumption, Review
  <2> QED
    BY <2>1, <2>2, <2>3 DEF CandidateInv, Blank
<1>13. NodesHold'
  <2> SUFFICES ASSUME NEW n \in ReviewNodes
               PROVE  /\ RoleRefers(reviews'[n], n) /\ LeafKeeps(reviews'[n], n)
                      /\ CallsHold(reviews'[n], n, trail'.calls[n])
                      /\ reviews'[n].stop # "evidence"
                      /\ reviews'[n].status = "running" => InProgress(reviews'[n])
                      /\ n # Anchor /\ artifacts'[n] # 0 => artifacts'[n] = reviews'[n].completed
                      /\ n # Anchor /\ reviews'[n].semantic = "rejected" => reviews'[n].gap
                      /\ n # Anchor /\ (reviews'[n].gap \/ reviews'[n].stop = "candidate_repair")
                           => trail'.rejected # {}
                      /\ reviews'[n].role["semantic"].full.gaps \subseteq Gapped(reviews', n)
    BY DEF NodesHold
  <2>1. CASE n = Here
    BY <2>1, <1>1, <1>3, <1>4, <1>6
       DEF InProgress, CandidateInv, NodesHold, Review, CallsHold, Ended
  <2>2. CASE n # Here
    <3>1. /\ reviews'[n] = reviews[n] /\ trail'.calls[n] = trail.calls[n]
          /\ artifacts'[n] = artifacts[n] /\ trail'.rejected = trail.rejected
          /\ Gapped(reviews', n) = Gapped(reviews, n)
      BY <2>2, <1>3, <1>4, <1>6
    <3> HIDE DEF Within
    <3> QED
      BY <3>1 DEF CandidateInv, NodesHold
  <2> QED
    BY <2>1, <2>2
<1>14. FramesHold'
  <2> SUFFICES ASSUME NEW i \in 1..Len(frames)
               PROVE  /\ FrameHolds(frames'[i], reviews'[frames'[i].node],
                                    trail'.calls[frames'[i].node],
                                    Gapped(reviews', frames'[i].node))
                      /\ RepairKnown(frames'[i], trail')
    BY <1>2 DEF FramesHold
  <2>1. CASE i = Len(frames)
    <3>1. /\ frames'[i] = f /\ frames'[i].node = Here /\ reviews'[Here] = rec
          /\ trail'.calls[Here] = c /\ Gapped(reviews', Here) = Gapped(reviews, Here)
          /\ trail'.rejected = trail.rejected
      BY <2>1, <1>2, <1>1, <1>3, <1>4, <1>6
    <3>2. FrameHolds(f, rec, c, Gapped(reviews, Here)) /\ RepairKnown(f, trail)
      OBVIOUS
    <3> HIDE DEF Within
    <3> QED
      BY <3>1, <3>2 DEF RepairKnown
  <2>2. CASE i # Len(frames)
    <3>1. i \in 1..(Len(frames) - 1)
      BY <2>2, <1>2
    <3>2. /\ reviews'[frames[i].node] = reviews[frames[i].node]
          /\ trail'.calls[frames[i].node] = trail.calls[frames[i].node]
          /\ Gapped(reviews', frames[i].node) = Gapped(reviews, frames[i].node)
          /\ frames'[i] = frames[i]
      BY <3>1, <1>2, <1>3, <1>4, <1>6, <1>9
    <3> QED
      BY <3>2 DEF CandidateInv, FramesHold, RepairKnown
  <2> QED
    BY <2>1, <2>2
<1>15. CrossingOK'
  <2>1. ~AtBoundary'
    BY <1>1, <1>3 DEF AtBoundary, Crossed, InProgress, CandidateInv, CandidateTypes
  <2> QED
    BY <2>1, <1>2 DEF CrossingOK
<1>16. RejectedOK'
  <2>1. \A n \in ReviewNodes : reviews'[n].status = reviews[n].status
    BY <1>1, <1>3 DEF InProgress, Review
  <2> QED
    BY <2>1, <1>5, <1>6 DEF CandidateInv, CandidateTypes, TrailRecords, RejectedOK,
                            CandidateAssumption
<1> QED
  BY <1>10, <1>11, <1>12, <1>13, <1>14, <1>15, <1>16 DEF CandidateInv

(***************************************************************************)
(* The command ends, or is ended, where it is.                             *)
(***************************************************************************)
Abandons ==
    /\ frames # <<>> /\ frames' = <<>> /\ artifacts' = artifacts /\ moved' = moved
    /\ trail' \in TrailRecords /\ trail'.rejected = trail.rejected
    /\ trail'.basis = trail.basis /\ trail'.calls = trail.calls
    /\ \/ reviews' = reviews
       \/ /\ Top.pc # "unwind"
          /\ \E s \in {"stale", "interrupted"} : reviews' = [reviews EXCEPT ![Anchor].status = s]

LEMMA AbandonKeeps ==
    ASSUME CandidateAssumption, CandidateInv, Abandons
    PROVE  CandidateInv'
<1>1. /\ Top = frames[Len(frames)] /\ Len(frames) \in Nat \ {0}
      /\ Top.pc # "unwind" => ~AtBoundary
  BY TopFacts, TopIsLast DEF Abandons, CandidateInv, CandidateTypes
<1>2. Anchor \in ReviewNodes /\ frames # <<>> /\ frames' = <<>> /\ Len(<<>>) = 0
  BY DEF CandidateAssumption, Abandons
<1>3. PICK s \in {"stale", "interrupted"} :
        \/ reviews' = reviews
        \/ Top.pc # "unwind" /\ reviews' = [reviews EXCEPT ![Anchor].status = s]
  BY DEF Abandons
<1>4. /\ reviews' \in [ReviewNodes -> ReviewRecords]
      /\ \A n \in ReviewNodes : /\ reviews'[n].gap = reviews[n].gap
                                /\ reviews'[n].role = reviews[n].role
                                /\ reviews'[n].control = reviews[n].control
                                /\ reviews'[n].semantic = reviews[n].semantic
                                /\ reviews'[n].stop = reviews[n].stop
                                /\ reviews'[n].completed = reviews[n].completed
                                /\ \/ reviews'[n] = reviews[n]
                                   \/ n = Anchor /\ reviews'[n].status = s /\ Top.pc # "unwind"
  <2>1. CASE reviews' = reviews
    BY <2>1 DEF CandidateInv, CandidateTypes
  <2>2. CASE Top.pc # "unwind" /\ reviews' = [reviews EXCEPT ![Anchor].status = s]
    <3>1. reviews \in [ReviewNodes -> ReviewRecords] /\ s \in ReviewStatuses
      BY DEF CandidateInv, CandidateTypes, ReviewStatuses
    <3> DEFINE r == [reviews[Anchor] EXCEPT !.status = s]
    <3>2. /\ r \in ReviewRecords /\ r.status = s /\ r.gap = reviews[Anchor].gap
          /\ r.role = reviews[Anchor].role /\ r.control = reviews[Anchor].control
          /\ r.semantic = reviews[Anchor].semantic /\ r.stop = reviews[Anchor].stop
          /\ r.completed = reviews[Anchor].completed
      BY <3>1, <1>2 DEF ReviewRecords
    <3>3. reviews' = [reviews EXCEPT ![Anchor] = r]
      BY <2>2
    <3> HIDE DEF r
    <3> QED
      BY <2>2, <3>1, <3>2, <3>3, <1>2
  <2> QED
    BY <1>3, <2>1, <2>2
<1>5. \A n \in ReviewNodes : Gapped(reviews', n) = Gapped(reviews, n)
  BY <1>4 DEF Gapped, CandidateAssumption
<1>6. CandidateTypes'
  BY <1>4 DEF Abandons, CandidateInv, CandidateTypes
<1>7. Stacked' /\ FramesHold'
  BY <1>2 DEF Stacked, FramesHold
<1>8. Blank'
  BY <1>2, <1>4 DEF CandidateInv, Blank, Stacked
<1>9. NodesHold'
  <2> SUFFICES ASSUME NEW n \in ReviewNodes
               PROVE  /\ RoleRefers(reviews'[n], n) /\ LeafKeeps(reviews'[n], n)
                      /\ CallsHold(reviews'[n], n, trail'.calls[n])
                      /\ reviews'[n].stop # "evidence"
                      /\ reviews'[n].status = "running" => InProgress(reviews'[n])
                      /\ n # Anchor /\ artifacts'[n] # 0 => artifacts'[n] = reviews'[n].completed
                      /\ n # Anchor /\ reviews'[n].semantic = "rejected" => reviews'[n].gap
                      /\ n # Anchor /\ (reviews'[n].gap \/ reviews'[n].stop = "candidate_repair")
                           => trail'.rejected # {}
                      /\ reviews'[n].role["semantic"].full.gaps \subseteq Gapped(reviews', n)
    BY DEF NodesHold
  <2>1. /\ RoleRefers(reviews[n], n) /\ LeafKeeps(reviews[n], n)
        /\ CallsHold(reviews[n], n, trail.calls[n])
        /\ reviews[n].stop # "evidence"
        /\ reviews[n].status = "running" => InProgress(reviews[n])
        /\ n # Anchor /\ artifacts[n] # 0 => artifacts[n] = reviews[n].completed
        /\ n # Anchor /\ reviews[n].semantic = "rejected" => reviews[n].gap
        /\ n # Anchor /\ (reviews[n].gap \/ reviews[n].stop = "candidate_repair")
             => trail.rejected # {}
        /\ reviews[n].role["semantic"].full.gaps \subseteq Gapped(reviews, n)
    BY DEF CandidateInv, NodesHold
  <2>2. RoleRefers(reviews'[n], n) /\ LeafKeeps(reviews'[n], n)
    BY <2>1, <1>4 DEF RoleRefers, LeafKeeps
  <2>3. CallsHold(reviews'[n], n, trail'.calls[n])
    <3>1. /\ reviews'[n].role = reviews[n].role /\ trail'.calls[n] = trail.calls[n]
          /\ Ended(reviews[n], n) => Ended(reviews'[n], n)
          /\ reviews[n].status # "absent" => reviews'[n].status # "absent"
      BY <1>4 DEF Abandons, Ended
    <3> QED
      BY <2>1, <3>1, SameCalls
  <2>4. reviews'[n].status = "running" => InProgress(reviews'[n])
    BY <2>1, <1>4
  <2> QED
    BY <2>1, <2>2, <2>3, <2>4, <1>4, <1>5 DEF Abandons
<1>10. CrossingOK'
  <2>1. CASE reviews' = reviews
    BY <2>1, <1>1, <1>2 DEF CandidateInv, CrossingOK, AtBoundary
  <2>2. CASE Top.pc # "unwind" /\ reviews' = [reviews EXCEPT ![Anchor].status = s]
    <3>1. ~AtBoundary'
      <4>1. reviews'[Anchor].status = s
        BY <2>2, <1>2 DEF CandidateInv, CandidateTypes, ReviewRecords
      <4>2. \A n \in ReviewNodes : ~Crossed(reviews'[n])
        BY <4>1, <2>2, <1>1, <1>4 DEF AtBoundary, Crossed, CandidateInv, CandidateTypes
      <4>3. DOMAIN reviews' = ReviewNodes
        BY <1>4
      <4> QED
        BY <4>2, <4>3, Zenon DEF AtBoundary
    <3> QED
      BY <3>1, <1>2 DEF CrossingOK
  <2> QED
    BY <2>1, <2>2, <1>3
<1>11. RejectedOK'
  <2>1. trail'.rejected = trail.rejected /\ trail'.basis = trail.basis
        /\ trail.rejected \subseteq ReviewNodes
    BY DEF Abandons, CandidateInv, CandidateTypes, TrailRecords
  <2> QED
    BY <2>1, <1>2, <1>4, <1>5 DEF CandidateInv, RejectedOK
<1> QED
  BY <1>6, <1>7, <1>8, <1>9, <1>10, <1>11 DEF CandidateInv

(***************************************************************************)
(* Saving.                                                                 *)
(***************************************************************************)
Stale == /\ moved /\ frames' = <<>>
         /\ reviews' = [reviews EXCEPT ![Anchor].status = "stale"]

\* No gate in progress has a verdict, so a save without one latches nothing.
LEMMA SavingIs ==
    ASSUME CandidateAssumption, CandidateInv, frames # <<>>, NEW rs, NEW next,
           rs \in [ReviewNodes -> ReviewRecords],
           \A n \in Path : rs[n].semantic = "not_run", Saving(rs, next)
    PROVE  Stale \/ (~moved /\ reviews' = rs /\ frames' = next)
<1>1. Here \in Path /\ Path \subseteq ReviewNodes
  BY TopFacts
<1>2. Latched(rs) = [n \in ReviewNodes |-> rs[n]]
  BY <1>1 DEF Latched
<1>3. Latched(rs) = rs
  BY <1>2
<1> QED
  BY <1>3 DEF Saving, Stale

LEMMA StaleKeeps ==
    ASSUME CandidateAssumption, CandidateInv, frames # <<>>, Top.pc \notin EndPlaces, Stale,
           UNCHANGED <<artifacts, moved, trail>>
    PROVE  CandidateInv'
<1>1. Abandons
  BY TopFacts DEF Abandons, Stale, CandidateInv, CandidateTypes, EndPlaces
<1> QED
  BY <1>1, AbandonKeeps

LEMMA SaveStep ==
    ASSUME CandidateAssumption, CandidateInv, frames # <<>>, Top.pc \notin EndPlaces,
           NEW f \in FrameRecords, NEW rec \in ReviewRecords,
           NEW c \in [Roles -> [Kinds -> Nat]],
           f.node = Here, f.pc # "unwind", RepairKnown(f, trail),
           InProgress(rec), rec.gap = Review.gap, Review.control => rec.control,
           rec.completed = Review.completed,
           Saving([reviews EXCEPT ![Here] = rec], WithTop(f)),
           UNCHANGED <<artifacts, moved>>,
           moved => trail' = trail,
           ~moved => /\ trail' \in TrailRecords /\ trail'.rejected = trail.rejected
                     /\ trail'.basis = trail.basis
                     /\ trail'.calls = [trail.calls EXCEPT ![Here] = c],
           RoleRefers(rec, Here), LeafKeeps(rec, Here), CallsCounted(rec, Here, c),
           rec.role["semantic"].full.gaps \subseteq Gapped(reviews, Here),
           FrameHolds(f, rec, c, Gapped(reviews, Here))
    PROVE  CandidateInv'
<1> DEFINE rs == [reviews EXCEPT ![Here] = rec]
<1>1. Here \in ReviewNodes /\ Path \subseteq ReviewNodes
      /\ \A n \in Path : InProgress(reviews[n])
  BY TopFacts DEF EndPlaces
<1>2. rs \in [ReviewNodes -> ReviewRecords] /\ \A n \in Path : rs[n].semantic = "not_run"
  BY <1>1 DEF CandidateInv, CandidateTypes, InProgress
<1>6. Saving(rs, WithTop(f))
  OBVIOUS
<1> HIDE DEF rs
<1>3. Stale \/ (~moved /\ reviews' = rs /\ frames' = WithTop(f))
  BY <1>2, <1>6, SavingIs
<1>4. CASE Stale
  BY <1>4, StaleKeeps DEF Stale
<1>5. CASE ~moved /\ reviews' = rs /\ frames' = WithTop(f)
  <2>1. /\ artifacts' \in [ReviewNodes -> Nat]
        /\ \A n \in ReviewNodes : artifacts'[n] = artifacts[n]
        /\ Here # Anchor /\ artifacts'[Here] # 0 => artifacts'[Here] = rec.completed
    BY <1>1 DEF CandidateInv, CandidateTypes, NodesHold, Review
  <2>2. moved' = moved
    OBVIOUS
  <2>3. /\ trail' \in TrailRecords /\ trail'.rejected = trail.rejected
        /\ trail'.basis = trail.basis
        /\ trail'.calls = [trail.calls EXCEPT ![Here] = c]
    BY <1>5
  <2>4. Within(f, rec, c)
    <3>1. reviews' = [reviews EXCEPT ![Here] = rec] /\ frames' = WithTop(f)
      BY <1>5 DEF rs
    <3> QED
      BY <3>1, <2>1, <2>2, <2>3 DEF Within
  <2> QED
    BY <2>4, WithinKeeps
<1> QED
  BY <1>3, <1>4, <1>5

(***************************************************************************)
(* Moving on without a save.                                               *)
(***************************************************************************)
LEMMA MoveStep ==
    ASSUME CandidateAssumption, CandidateInv, frames # <<>>, Top.pc \notin EndPlaces,
           NEW f \in FrameRecords, f.node = Here, f.pc # "unwind",
           frames' = WithTop(f), UNCHANGED <<reviews, artifacts, moved>>,
           trail' \in TrailRecords, trail'.rejected = trail.rejected,
           trail'.basis = trail.basis,
           NEW c \in [Roles -> [Kinds -> Nat]], CallsCounted(Review, Here, c),
           trail'.calls = [trail.calls EXCEPT ![Here] = c],
           FrameHolds(f, Review, c, Gapped(reviews, Here)), RepairKnown(f, trail)
    PROVE  CandidateInv'
<1>1. Here \in ReviewNodes /\ Review \in ReviewRecords /\ InProgress(Review)
      /\ RoleRefers(Review, Here) /\ LeafKeeps(Review, Here)
      /\ Review.role["semantic"].full.gaps \subseteq Gapped(reviews, Here)
  BY TopFacts DEF EndPlaces
<1>2. reviews' = [reviews EXCEPT ![Here] = Review]
  BY <1>1 DEF Review, CandidateInv, CandidateTypes
<1>3. /\ artifacts' \in [ReviewNodes -> Nat]
      /\ \A n \in ReviewNodes : artifacts'[n] = artifacts[n]
      /\ Here # Anchor /\ artifacts'[Here] # 0 => artifacts'[Here] = Review.completed
  BY <1>1 DEF CandidateInv, CandidateTypes, NodesHold, Review
<1>4. Within(f, Review, c)
  BY <1>1, <1>2, <1>3 DEF Within
<1> QED
  BY <1>4, WithinKeeps

LEMMA FaultedIs ==
    ASSUME trail \in TrailRecords
    PROVE  /\ Faulted \in TrailRecords /\ Faulted.rejected = trail.rejected
           /\ Faulted.basis = trail.basis /\ Faulted.calls = trail.calls
           /\ Faulted.crossed = trail.crossed /\ Faulted.refused = trail.refused
           /\ Faulted.sessions = trail.sessions /\ Faulted.began = trail.began
<1> DEFINE n == trail.faults + 1
<1>1. n \in Nat
  BY DEF TrailRecords
<1>2. Faulted = [trail EXCEPT !.faults = n]
  BY DEF Faulted
<1> HIDE DEF n
<1> QED
  BY <1>1, <1>2 DEF TrailRecords

\* With nothing counted.
LEMMA MoveOn ==
    ASSUME CandidateAssumption, CandidateInv, frames # <<>>, Top.pc \notin EndPlaces,
           NEW f \in FrameRecords, f.node = Here, f.pc # "unwind",
           frames' = WithTop(f), UNCHANGED <<reviews, artifacts, moved>>,
           trail' = trail \/ trail' = Faulted,
           FrameHolds(f, Review, trail.calls[Here], Gapped(reviews, Here)), RepairKnown(f, trail)
    PROVE  CandidateInv'
<1>1. Here \in ReviewNodes /\ CallsCounted(Review, Here, trail.calls[Here])
  BY TopFacts DEF EndPlaces
<1>2. trail \in TrailRecords
  BY DEF CandidateInv, CandidateTypes
<1>3. /\ trail' \in TrailRecords /\ trail'.rejected = trail.rejected
      /\ trail'.basis = trail.basis /\ trail'.calls = trail.calls
  <2>1. CASE trail' = trail
    BY <2>1, <1>1, <1>2
  <2>2. CASE trail' = Faulted
    BY <2>2, <1>1, <1>2, FaultedIs
  <2> QED
    BY <2>1, <2>2
<1>4. trail.calls[Here] \in [Roles -> [Kinds -> Nat]]
      /\ trail.calls = [trail.calls EXCEPT ![Here] = trail.calls[Here]]
  BY <1>1, <1>2 DEF TrailRecords
<1> QED
  BY <1>1, <1>3, <1>4, MoveStep

(***************************************************************************)
(* The frames a gate moves on with.                                        *)
(***************************************************************************)
Now == Gapped(reviews, Here)

LEMMA TopSeen ==
    ASSUME CandidateAssumption, CandidateInv, frames # <<>>
    PROVE  /\ FramePlaced(Top) /\ RoundOpen(Top, Review)
           /\ PastFull(Top, Review, trail.calls[Here])
           /\ FrameEnds(Top, Review) /\ GapsSeen(Top, Review, Now) /\ AskedUnkept(Top, Review)
           /\ trail.calls[Here] \in [Roles -> [Kinds -> Nat]]
           /\ Top.role \in Roles /\ Top.pc \in GatePlaces
           /\ Kids[Here] # {} \/ Top.pc \in {"review", "full", "ask_full", "publish", "finish", "unwind"}
<1>1. TopHolds(Top, Review) /\ Top \in FrameRecords /\ Here \in ReviewNodes /\ Top.node = Here
  BY TopFacts DEF Here
<1>2. FrameHolds(Top, Review, trail.calls[Here], Now)
  BY <1>1 DEF TopHolds, Now
<1>3. trail.calls[Here] \in [Roles -> [Kinds -> Nat]]
  BY <1>1 DEF CandidateInv, CandidateTypes, TrailRecords
<1> QED
  BY <1>1, <1>2, <1>3 DEF FrameHolds, FramePlaced, FrameRecords

LEMMA OnIs ==
    ASSUME CandidateAssumption, CandidateInv, frames # <<>>,
           NEW pc \in GatePlaces
    PROVE  /\ On(pc) \in FrameRecords /\ On(pc).node = Here /\ On(pc).pc = pc
           /\ On(pc).role = Top.role /\ On(pc).basis = Top.basis /\ On(pc).out = Top.out
           /\ On(pc).todo = {} /\ On(pc).then = "compose"
BY TopFacts DEF On, FrameRecords, Here

LEMMA ChildrenIs ==
    ASSUME CandidateAssumption, CandidateInv, frames # <<>>,
           NEW todo \in SUBSET ReviewNodes, NEW then \in {"compose", "reassess"}
    PROVE  LET f == [Top EXCEPT !.pc = "children", !.todo = todo, !.then = then]
           IN  /\ f \in FrameRecords /\ f.node = Here /\ f.pc = "children"
               /\ f.role = Top.role /\ f.basis = Top.basis /\ f.out = Top.out
               /\ f.todo = todo /\ f.then = then
BY TopFacts DEF FrameRecords, Here, GatePlaces, ChildPlaces

\* The semantic review that was made in full stays as it is.
SameFull(rec) == rec.role["semantic"].full = Review.role["semantic"].full

LEMMA ComposingFrame ==
    ASSUME CandidateAssumption, CandidateInv, frames # <<>>,
           Top.pc \in {"review", "compose", "ask", "again", "reassess"}, Kids[Here] # {},
           Top.role = "semantic" => Now = {},
           NEW rec, SameFull(rec), NEW c, NEW pc \in {"compose", "ask", "again"}
    PROVE  FrameHolds(On(pc), rec, c, Now)
<1>1. /\ On(pc).node = Here /\ On(pc).pc = pc /\ On(pc).role = Top.role
      /\ On(pc).basis = Top.basis
  BY OnIs DEF GatePlaces
<1>2. GapsSeen(Top, Review, Now) /\ Top.role \in Roles
  BY TopSeen
<1>3. FramePlaced(On(pc)) /\ RoundOpen(On(pc), rec) /\ PastFull(On(pc), rec, c)
      /\ FrameEnds(On(pc), rec) /\ AskedUnkept(On(pc), rec)
  BY <1>1 DEF FramePlaced, RoundOpen, PastFull, FrameEnds, AskedUnkept, ChildPlaces, EndPlaces
<1>4. GapsSeen(On(pc), rec, Now)
  BY <1>1, <1>2 DEF GapsSeen, SameFull, Answered, Roles
<1> QED
  BY <1>3, <1>4 DEF FrameHolds

LEMMA ChildrenFrame ==
    ASSUME CandidateAssumption, CandidateInv, frames # <<>>,
           Top.pc \in {"review", "compose", "ask", "again", "reassess"}, Kids[Here] # {},
           Top.role = "semantic" => Now = {},
           NEW rec, SameFull(rec), NEW c,
           NEW todo \in SUBSET ReviewNodes, todo # {}, todo \subseteq Kids[Here],
           NEW then \in {"compose", "reassess"},
           then = "reassess" => rec.role[Top.role].round = "none"
    PROVE  FrameHolds([Top EXCEPT !.pc = "children", !.todo = todo, !.then = then], rec, c, Now)
<1> DEFINE f == [Top EXCEPT !.pc = "children", !.todo = todo, !.then = then]
<1>1. /\ f.node = Here /\ f.pc = "children" /\ f.role = Top.role
      /\ f.basis = Top.basis /\ f.todo = todo /\ f.then = then
  BY TopFacts DEF FrameRecords, Here
<1> HIDE DEF f
<1>2. GapsSeen(Top, Review, Now) /\ Top.role \in Roles
  BY TopSeen
<1>3. FramePlaced(f) /\ RoundOpen(f, rec) /\ PastFull(f, rec, c)
      /\ FrameEnds(f, rec) /\ AskedUnkept(f, rec)
  BY <1>1 DEF FramePlaced, RoundOpen, PastFull, FrameEnds, AskedUnkept, ChildPlaces, EndPlaces
<1>4. GapsSeen(f, rec, Now)
  BY <1>1, <1>2 DEF GapsSeen, SameFull, Answered, Roles
<1>5. FrameHolds(f, rec, c, Now)
  BY <1>3, <1>4 DEF FrameHolds
<1> QED
  BY <1>5 DEF f

LEMMA FullFrame ==
    ASSUME CandidateAssumption, CandidateInv, frames # <<>>,
           Top.pc \in {"review", "compose", "ask", "again", "reassess"} \cup ChildPlaces,
           Top.role = "security" => Now = {} \/ Answered(Review, Now)
    PROVE  FrameHolds(On("full"), Review, trail.calls[Here], Now)
<1>1. /\ On("full").node = Here /\ On("full").pc = "full" /\ On("full").role = Top.role
      /\ On("full").basis = Top.basis
  BY OnIs DEF GatePlaces
<1>2. /\ GapsSeen(Top, Review, Now) /\ Top.role \in Roles
      /\ PastFull(Top, Review, trail.calls[Here])
      /\ Top.node = Here
  BY TopSeen DEF Here
<1>3. FramePlaced(On("full")) /\ RoundOpen(On("full"), Review)
      /\ FrameEnds(On("full"), Review) /\ AskedUnkept(On("full"), Review)
  BY <1>1 DEF FramePlaced, RoundOpen, FrameEnds, AskedUnkept, ChildPlaces, EndPlaces
<1>4. PastFull(On("full"), Review, trail.calls[Here])
  BY <1>1, <1>2 DEF PastFull, ChildPlaces
<1>5. GapsSeen(On("full"), Review, Now)
  BY <1>1, <1>2 DEF GapsSeen, Roles
<1> QED
  BY <1>3, <1>4, <1>5 DEF FrameHolds

\* An approval is based on what is known when it is given.
LEMMA ApprovedIs ==
    ASSUME CandidateAssumption, CandidateInv, frames # <<>>, NEW full \in BOOLEAN
    PROVE  \E f \in FrameRecords :
             /\ Approve(full) = WithTop(f) /\ f.node = Here /\ f.role = "security"
             /\ f.pc = IF Top.role = "semantic" THEN "review" ELSE "publish"
             /\ f.basis = IF Top.role = "semantic"
                          THEN [full |-> full, knows |-> trail.rejected # {}] ELSE Top.basis
<1> DEFINE pc == IF Top.role = "semantic" THEN "review" ELSE "publish"
           basis == IF Top.role = "semantic" THEN [full |-> full, knows |-> trail.rejected # {}]
                    ELSE Top.basis
           f == [On(pc) EXCEPT !.basis = basis, !.role = "security"]
<1>1. pc \in GatePlaces /\ basis \in BasisRecords
  BY TopFacts DEF GatePlaces, FrameRecords, BasisRecords
<1>2. On(pc) \in FrameRecords /\ On(pc).node = Here /\ On(pc).pc = pc
  BY <1>1, OnIs
<1>3. Approve(full) = WithTop(f)
  BY DEF Approve
<1>4. f \in FrameRecords /\ f.node = Here /\ f.pc = pc /\ f.basis = basis /\ f.role = "security"
  <2> HIDE DEF pc, basis
  <2> QED
    BY <1>1, <1>2 DEF FrameRecords, Roles
<1> QED
  BY <1>3, <1>4

LEMMA ApprovedFrame ==
    ASSUME CandidateAssumption, CandidateInv, frames # <<>>,
           Top.pc \in {"compose", "full", "ask_full"},
           NEW full \in BOOLEAN, NEW rec, NEW c,
           NEW f \in FrameRecords, f.node = Here, f.role = "security",
           f.pc = IF Top.role = "semantic" THEN "review" ELSE "publish",
           f.basis = IF Top.role = "semantic"
                     THEN [full |-> full, knows |-> trail.rejected # {}] ELSE Top.basis,
           rec.role["semantic"].full.gaps \subseteq Now,
           Now = {} \/ Answered(rec, Now),
           Top.role = "semantic" => full \/ Now = {},
           Top.role = "security" => SameFull(rec),
           PastFull(f, rec, c)
    PROVE  FrameHolds(f, rec, c, Now)
<1>1. /\ GapsSeen(Top, Review, Now) /\ Top.role \in Roles /\ Here \in ReviewNodes
      /\ Kids[Here] \subseteq ReviewNodes \ {Anchor}
  BY TopSeen, TopFacts
<1>2. Now # {} => trail.rejected # {}
  BY <1>1 DEF Now, Gapped, CandidateInv, NodesHold
<1>3. FramePlaced(f) /\ RoundOpen(f, rec) /\ FrameEnds(f, rec) /\ AskedUnkept(f, rec)
  BY DEF FramePlaced, RoundOpen, FrameEnds, AskedUnkept, ChildPlaces, EndPlaces
<1>4. GapsSeen(f, rec, Now)
  <2>1. f.role = "security" /\ (Now = {} \/ Answered(rec, Now)) /\ f.pc \in {"review", "publish"}
    OBVIOUS
  <2>2. rec.role["semantic"].full.gaps # {} => f.basis.full /\ f.basis.knows
    <3>1. CASE Top.role = "semantic"
      BY <3>1, <1>2
    <3>2. CASE Top.role = "security"
      BY <3>2, <1>1 DEF GapsSeen, SameFull
    <3> QED
      BY <3>1, <3>2, <1>1 DEF Roles
  <2> QED
    BY <2>1, <2>2 DEF GapsSeen
<1> QED
  BY <1>3, <1>4 DEF FrameHolds

\* How a gate may end while its own record is in progress.
Ends(out) ==
    /\ out \in ReviewRecords /\ out.stop # "evidence"
    /\ out.completed = Review.completed /\ out.gap = Review.gap
    /\ \/ out.status = "blocked" /\ out.semantic # "rejected" /\ out.stop # "candidate_repair"
       \/ /\ out.status = "failed" /\ out.semantic = "rejected" /\ out.security = "not_run"
          /\ out.stop \in {"repair", "external"}
       \/ /\ out.status = "failed" /\ out.semantic = "approved" /\ out.stop = "repair"
       \/ /\ out.status = "failed" /\ out.semantic = "rejected" /\ out.security = "not_run"
          /\ out.stop = "candidate_repair" /\ trail.rejected # {}

LEMMA FinishIs ==
    ASSUME CandidateAssumption, CandidateInv, frames # <<>>, NEW out \in ReviewRecords
    PROVE  LET f == [On("finish") EXCEPT !.out = out]
           IN  /\ f \in FrameRecords /\ f.node = Here /\ f.pc = "finish" /\ f.role = Top.role
               /\ f.basis = Top.basis /\ f.out = out
<1>1. /\ On("finish") \in FrameRecords /\ On("finish").node = Here /\ On("finish").pc = "finish"
      /\ On("finish").role = Top.role /\ On("finish").basis = Top.basis
  BY OnIs DEF GatePlaces, EndPlaces
<1> QED
  BY <1>1 DEF FrameRecords

LEMMA FinishFrame ==
    ASSUME CandidateAssumption, CandidateInv, frames # <<>>, Top.pc \notin EndPlaces,
           NEW out, Ends(out), NEW rec, rec.completed = Review.completed, rec.gap = Review.gap,
           Top.role = "security" => SameFull(rec), NEW c,
           PastFull([On("finish") EXCEPT !.out = out], rec, c)
    PROVE  /\ FrameHolds([On("finish") EXCEPT !.out = out], rec, c, Now)
           /\ RepairKnown([On("finish") EXCEPT !.out = out], trail)
<1> DEFINE f == [On("finish") EXCEPT !.out = out]
<1>1. /\ f \in FrameRecords /\ f.node = Here /\ f.pc = "finish" /\ f.role = Top.role
      /\ f.basis = Top.basis /\ f.out = out
  BY FinishIs DEF Ends
<1> HIDE DEF f
<1>2. GapsSeen(Top, Review, Now) /\ Top.role \in Roles
  BY TopSeen
<1>3. FramePlaced(f) /\ RoundOpen(f, rec) /\ AskedUnkept(f, rec)
  BY <1>1 DEF FramePlaced, RoundOpen, AskedUnkept, ChildPlaces
<1>4. FrameEnds(f, rec) /\ RepairKnown(f, trail)
  BY <1>1 DEF FrameEnds, RepairKnown, Ends
<1>5. GapsSeen(f, rec, Now)
  BY <1>1, <1>2 DEF GapsSeen, SameFull, Ends, Roles
<1>6. PastFull(f, rec, c)
  BY DEF f
<1>7. FrameHolds(f, rec, c, Now) /\ RepairKnown(f, trail)
  BY <1>3, <1>4, <1>5, <1>6 DEF FrameHolds
<1> QED
  BY <1>7 DEF f

LEMMA FinishPast ==
    ASSUME CandidateAssumption, CandidateInv, frames # <<>>, NEW out \in ReviewRecords
    PROVE  PastFull([On("finish") EXCEPT !.out = out], Review, trail.calls[Here])
<1>1. PastFull(Top, Review, trail.calls[Here]) /\ Top.node = Here
  BY TopSeen DEF Here
<1> DEFINE f == [On("finish") EXCEPT !.out = out]
<1>2. f.node = Here /\ f.pc = "finish" /\ f.role = Top.role
  BY FinishIs
<1> HIDE DEF f
<1>3. PastFull(f, Review, trail.calls[Here])
  BY <1>1, <1>2 DEF PastFull
<1> QED
  BY <1>3 DEF f

LEMMA FinishKeeps ==
    ASSUME CandidateAssumption, CandidateInv, frames # <<>>, Top.pc \notin EndPlaces,
           NEW out, Ends(out), frames' = WithTop([On("finish") EXCEPT !.out = out]),
           UNCHANGED <<reviews, artifacts, moved>>,
           trail' = trail \/ trail' = Faulted
    PROVE  CandidateInv'
<1> DEFINE f == [On("finish") EXCEPT !.out = out]
<1>1. f \in FrameRecords /\ f.node = Here /\ f.pc = "finish"
  BY FinishIs DEF Ends
<1>2. FrameHolds(f, Review, trail.calls[Here], Now) /\ RepairKnown(f, trail)
  BY FinishFrame, FinishPast DEF Ends, SameFull
<1>3. frames' = WithTop(f)
  OBVIOUS
<1> HIDE DEF f
<1> QED
  BY <1>1, <1>2, <1>3, MoveOn DEF Now

LEMMA BlockedKeeps ==
    ASSUME CandidateAssumption, CandidateInv, frames # <<>>, Top.pc \notin EndPlaces,
           NEW s \in ReviewStops \ {"evidence", "candidate_repair"}, BlockedBy(s),
           UNCHANGED <<reviews, artifacts, moved>>, trail' = trail \/ trail' = Faulted
    PROVE  CandidateInv'
<1>1. Review \in ReviewRecords /\ InProgress(Review)
  BY TopFacts DEF EndPlaces
<1>2. Ends([Review EXCEPT !.status = "blocked", !.stop = s])
  BY <1>1 DEF Ends, ReviewRecords, ReviewStatuses, InProgress
<1> QED
  BY <1>2, FinishKeeps DEF BlockedBy, Finish

LEMMA FullKeeps ==
    ASSUME CandidateAssumption, CandidateInv, frames # <<>>,
           Top.pc \in {"review", "compose", "ask", "again", "reassess"} \cup ChildPlaces,
           Top.role = "security" => Now = {} \/ Answered(Review, Now),
           Go("full"), UNCHANGED <<reviews, artifacts, moved>>, trail' = trail \/ trail' = Faulted
    PROVE  CandidateInv'
<1>1. On("full") \in FrameRecords /\ On("full").node = Here /\ On("full").pc = "full"
  BY OnIs DEF GatePlaces
<1>2. FrameHolds(On("full"), Review, trail.calls[Here], Now) /\ RepairKnown(On("full"), trail)
      /\ Top.pc \notin EndPlaces
  BY <1>1, FullFrame DEF RepairKnown, EndPlaces, ChildPlaces
<1> QED
  BY <1>1, <1>2, MoveOn DEF Now, Go

LEMMA EnterIs ==
    ASSUME CandidateAssumption, NEW n \in ReviewNodes
    PROVE  /\ Enter(n) \in FrameRecords /\ Enter(n).node = n /\ Enter(n).pc = "review"
           /\ Enter(n).role = "semantic" /\ Enter(n).basis = NoBasis
           /\ NoReview \in ReviewRecords
<1>1. NoFull \in FullReviews
  BY DEF NoFull, FullReviews
<1>2. NoResult \in ReviewResults
  BY DEF NoResult, ReviewResults
<1>3. NoRole \in RoleRecords
  BY <1>1, <1>2 DEF NoRole, RoleRecords
<1>4. NoReview \in ReviewRecords
  BY <1>3 DEF NoReview, ReviewRecords, ReviewStatuses, ReviewVerdicts, ReviewStops
<1>5. NoBasis \in BasisRecords
  BY DEF NoBasis, BasisRecords
<1> QED
  BY <1>4, <1>5 DEF Enter, FrameRecords, Roles, GatePlaces

(***************************************************************************)
(* What a gate saves of a role.                                            *)
(***************************************************************************)
SavedRole(role, control) ==
    [Review EXCEPT !.control = control, !.role = [Review.role EXCEPT ![Top.role] = role]]

LEMMA SavedRoleIs ==
    ASSUME CandidateAssumption, CandidateInv, frames # <<>>, Top.pc \notin EndPlaces,
           NEW role \in RoleRecords, NEW control \in BOOLEAN
    PROVE  /\ SavedRole(role, control) \in ReviewRecords
           /\ SavedRole(role, control).role[Top.role] = role
           /\ \A r \in Roles \ {Top.role} : SavedRole(role, control).role[r] = Review.role[r]
           /\ SavedRole(role, control).control = control /\ InProgress(SavedRole(role, control))
           /\ SavedRole(role, control).gap = Review.gap
           /\ SavedRole(role, control).completed = Review.completed
           /\ SavedRole(role, control).status = Review.status
           /\ [reviews EXCEPT ![Here].control = control, ![Here].role[Top.role] = role]
                = [reviews EXCEPT ![Here] = SavedRole(role, control)]
<1>1. /\ Review \in ReviewRecords /\ InProgress(Review) /\ Top.role \in Roles
      /\ Here \in ReviewNodes /\ reviews \in [ReviewNodes -> ReviewRecords]
  BY TopFacts, TopSeen DEF EndPlaces, CandidateInv, CandidateTypes
<1> DEFINE roles == [Review.role EXCEPT ![Top.role] = role]
<1>2. /\ roles \in [Roles -> RoleRecords] /\ roles[Top.role] = role
      /\ \A r \in Roles \ {Top.role} : roles[r] = Review.role[r]
  BY <1>1 DEF ReviewRecords
<1>3. /\ SavedRole(role, control) = [Review EXCEPT !.control = control, !.role = roles]
      /\ [reviews EXCEPT ![Here].control = control, ![Here].role[Top.role] = role]
           = [reviews EXCEPT ![Here] = SavedRole(role, control)]
  BY <1>1 DEF SavedRole, Review, ReviewRecords
<1> HIDE DEF roles
<1>4. /\ SavedRole(role, control) \in ReviewRecords /\ SavedRole(role, control).role = roles
      /\ SavedRole(role, control).control = control /\ SavedRole(role, control).gap = Review.gap
      /\ SavedRole(role, control).completed = Review.completed
      /\ SavedRole(role, control).status = Review.status /\ SavedRole(role, control).stop = Review.stop
      /\ SavedRole(role, control).semantic = Review.semantic
      /\ SavedRole(role, control).security = Review.security
  BY <1>1, <1>2, <1>3 DEF ReviewRecords
<1> QED
  BY <1>1, <1>2, <1>3, <1>4 DEF InProgress

LEMMA SaveRoleStep ==
    ASSUME CandidateAssumption, CandidateInv, frames # <<>>, Top.pc \notin EndPlaces,
           NEW role \in RoleRecords, NEW control \in BOOLEAN, Review.control => control,
           NEW f \in FrameRecords,
           NEW c \in [Roles -> [Kinds -> Nat]],
           Kids[Here] # {} \/ Here = Anchor,
           f.node = Here, f.pc # "unwind", RepairKnown(f, trail),
           Saving([reviews EXCEPT ![Here].control = control, ![Here].role[Top.role] = role], WithTop(f)),
           UNCHANGED <<artifacts, moved>>,
           moved => trail' = trail,
           ~moved => /\ trail' \in TrailRecords /\ trail'.rejected = trail.rejected
                     /\ trail'.basis = trail.basis
                     /\ trail'.calls = [trail.calls EXCEPT ![Here] = c],
           role.refresh \subseteq Kids[Here], role.composed.required \subseteq Kids[Here],
           \A r \in Roles \ {Top.role} : c[r] = trail.calls[Here][r],
           c[Top.role]["composed"] <= 1,
           c[Top.role]["composed"] = 1 => role.attempted /\ (role.refresh = {} \/ role.reserved),
           c[Top.role]["again"] <= 1,
           c[Top.role]["again"] = 1 => role.round # "none",
           c[Top.role]["full"] <= 1,
           c[Top.role]["full"] = 1 => role.full.state # "none",
           Top.role = "semantic" => role.full.gaps \subseteq Now,
           FrameHolds(f, SavedRole(role, control), c, Now)
    PROVE  CandidateInv'
<1> DEFINE rec == SavedRole(role, control)
<1>1. /\ rec \in ReviewRecords /\ rec.role[Top.role] = role
      /\ \A r \in Roles \ {Top.role} : rec.role[r] = Review.role[r]
      /\ rec.control = control /\ InProgress(rec) /\ rec.gap = Review.gap
      /\ rec.completed = Review.completed /\ rec.status = Review.status
      /\ [reviews EXCEPT ![Here].control = control, ![Here].role[Top.role] = role]
           = [reviews EXCEPT ![Here] = rec]
  BY SavedRoleIs, ZenonT(90)
<1> HIDE DEF rec
<1>2. /\ RoleRefers(Review, Here) /\ CallsCounted(Review, Here, trail.calls[Here])
      /\ Review.role["semantic"].full.gaps \subseteq Now /\ Top.role \in Roles
  BY TopFacts, TopSeen DEF Now, EndPlaces
<1>3. RoleRefers(rec, Here) /\ LeafKeeps(rec, Here)
  BY <1>1, <1>2 DEF RoleRefers, LeafKeeps
<1>4. CallsCounted(rec, Here, c)
  <2> SUFFICES ASSUME NEW r \in Roles
               PROVE  ComposedOnce(rec, c, r) /\ AgainOnce(rec, c, r) /\ FullOnce(rec, Here, c, r)
    BY DEF CallsCounted
  <2>1. CASE r = Top.role
    BY <2>1, <1>1 DEF ComposedOnce, AgainOnce, FullOnce
  <2>2. CASE r # Top.role
    <3>1. /\ ComposedOnce(Review, trail.calls[Here], r) /\ AgainOnce(Review, trail.calls[Here], r)
          /\ FullOnce(Review, Here, trail.calls[Here], r)
      BY <1>2 DEF CallsCounted
    <3>2. c[r] = trail.calls[Here][r] /\ rec.role[r] = Review.role[r]
      BY <2>2, <1>1
    <3> QED
      BY <3>1, <3>2, <1>1 DEF ComposedOnce, AgainOnce, FullOnce
  <2> QED
    BY <2>1, <2>2
<1>5. rec.role["semantic"].full.gaps \subseteq Now
  BY <1>1, <1>2 DEF Roles
<1>6. Saving([reviews EXCEPT ![Here] = rec], WithTop(f)) /\ FrameHolds(f, rec, c, Now)
  BY <1>1 DEF rec
<1> QED
  BY <1>1, <1>3, <1>4, <1>5, <1>6, SaveStep DEF Now

\* A composition without retained authority keeps no record of its own.
Retains == Review.control \/ Here \in trail.compact

LEMMA SaveRoleIs ==
    ASSUME CandidateAssumption, CandidateInv, frames # <<>>, Top.pc \notin EndPlaces,
           NEW role, NEW pc, SaveRole(role, pc)
    PROVE  /\ Retains \in BOOLEAN /\ (Review.control => Retains)
           /\ Saving([reviews EXCEPT ![Here].control = Retains, ![Here].role[Top.role] = role],
                     WithTop(On(pc)))
<1>1. Here \in ReviewNodes /\ Review \in ReviewRecords /\ reviews \in [ReviewNodes -> ReviewRecords]
  BY TopFacts DEF CandidateInv, CandidateTypes
<1>2. Retains \in BOOLEAN /\ (Review.control => Retains)
  BY <1>1 DEF Retains, ReviewRecords
<1>3. [reviews EXCEPT ![Here].control = @ \/ Here \in trail.compact, ![Here].role[Top.role] = role]
        = [reviews EXCEPT ![Here].control = Retains, ![Here].role[Top.role] = role]
  BY <1>1 DEF Retains, Review
<1> QED
  BY <1>2, <1>3 DEF SaveRole

LEMMA SavedSame ==
    ASSUME CandidateAssumption, CandidateInv, frames # <<>>, Top.pc \notin EndPlaces,
           NEW role \in RoleRecords, NEW control \in BOOLEAN, role.full = Role.full
    PROVE  SameFull(SavedRole(role, control))
<1> DEFINE rec == SavedRole(role, control)
<1>1. rec.role[Top.role] = role /\ \A r \in Roles \ {Top.role} : rec.role[r] = Review.role[r]
  BY SavedRoleIs, ZenonT(90)
<1> HIDE DEF rec
<1>2. rec.role["semantic"] = IF Top.role = "semantic" THEN role ELSE Review.role["semantic"]
  BY <1>1 DEF Roles
<1>3. SameFull(rec)
  BY <1>2 DEF SameFull, Role
<1> QED
  BY <1>3 DEF rec

\* The exchanges as counted after one more of a kind.
LEMMA CountedIs ==
    ASSUME CandidateAssumption, CandidateInv, frames # <<>>, NEW kind \in Kinds
    PROVE  LET c == [trail.calls[Here] EXCEPT ![Top.role][kind] = @ + 1]
               t == [trail EXCEPT !.calls[Here][Top.role][kind] = @ + 1]
           IN  /\ c \in [Roles -> [Kinds -> Nat]]
               /\ c[Top.role][kind] = trail.calls[Here][Top.role][kind] + 1
               /\ \A k \in Kinds \ {kind} : c[Top.role][k] = trail.calls[Here][Top.role][k]
               /\ \A r \in Roles \ {Top.role} : c[r] = trail.calls[Here][r]
               /\ t \in TrailRecords /\ t.rejected = trail.rejected /\ t.basis = trail.basis
               /\ t.crossed = trail.crossed /\ t.refused = trail.refused
               /\ t.sessions = trail.sessions /\ t.began = trail.began
               /\ t.calls = [trail.calls EXCEPT ![Here] = c]
<1>1. /\ Here \in ReviewNodes /\ Top.role \in Roles /\ trail \in TrailRecords
      /\ trail.calls[Here] \in [Roles -> [Kinds -> Nat]]
      /\ trail.calls \in [ReviewNodes -> [Roles -> [Kinds -> Nat]]]
  BY TopFacts, TopSeen DEF CandidateInv, CandidateTypes, TrailRecords
<1> DEFINE k1 == [trail.calls[Here][Top.role] EXCEPT ![kind] = trail.calls[Here][Top.role][kind] + 1]
           c == [trail.calls[Here] EXCEPT ![Top.role] = k1]
           all == [trail.calls EXCEPT ![Here] = c]
<1>2. /\ k1 \in [Kinds -> Nat] /\ k1[kind] = trail.calls[Here][Top.role][kind] + 1
      /\ \A k \in Kinds \ {kind} : k1[k] = trail.calls[Here][Top.role][k]
  BY <1>1
<1>3. /\ c = [trail.calls[Here] EXCEPT ![Top.role][kind] = @ + 1]
      /\ [trail EXCEPT !.calls[Here][Top.role][kind] = @ + 1] = [trail EXCEPT !.calls = all]
  BY <1>1 DEF TrailRecords
<1> HIDE DEF k1
<1>4. /\ c \in [Roles -> [Kinds -> Nat]] /\ c[Top.role] = k1
      /\ \A r \in Roles \ {Top.role} : c[r] = trail.calls[Here][r]
  BY <1>1, <1>2
<1>5. all \in [ReviewNodes -> [Roles -> [Kinds -> Nat]]]
  <2> HIDE DEF c
  <2> QED
    BY <1>1, <1>4
<1>6. LET t == [trail EXCEPT !.calls = all]
      IN  /\ t \in TrailRecords /\ t.rejected = trail.rejected /\ t.basis = trail.basis
          /\ t.crossed = trail.crossed /\ t.refused = trail.refused
          /\ t.sessions = trail.sessions /\ t.began = trail.began /\ t.calls = all
  <2> HIDE DEF all
  <2> QED
    BY <1>1, <1>5 DEF TrailRecords
<1>7. /\ c[Top.role][kind] = trail.calls[Here][Top.role][kind] + 1
      /\ \A k \in Kinds \ {kind} : c[Top.role][k] = trail.calls[Here][Top.role][k]
  BY <1>2, <1>4
<1> HIDE DEF c
<1> QED
  BY <1>3, <1>4, <1>6, <1>7

(***************************************************************************)
(* Composition.                                                            *)
(***************************************************************************)
LEMMA BeginRoleKeeps ==
    ASSUME CandidateAssumption, CandidateInv, BeginRole
    PROVE  CandidateInv'
<1>1. /\ frames # <<>> /\ Top.pc = "review" /\ UNCHANGED <<artifacts, moved, trail>>
      /\ Top.pc \notin EndPlaces
  BY DEF BeginRole, In, EndPlaces
<1>2. /\ Role \in RoleRecords /\ Review \in ReviewRecords /\ Gaps(Here) = Now
      /\ Role.refresh \subseteq Kids[Here] /\ Role.composed.required \subseteq Kids[Here]
      /\ Kids[Here] \subseteq ReviewNodes
      /\ CallsCounted(Review, Here, trail.calls[Here])
      /\ Review.role["semantic"].full.gaps \subseteq Now
  BY <1>1, TopFacts, TopSeen DEF Now, RoleRefers, Role
<1>3. /\ Top.role = "security" => Now = {} \/ Answered(Review, Now)
      /\ Top.role \in Roles /\ trail.calls[Here] \in [Roles -> [Kinds -> Nat]]
  BY <1>1, TopSeen DEF GapsSeen
<1>4. CASE Kids[Here] = {} \/ (Top.role = "semantic" /\ Gaps(Here) # {})
  <2>1. Go("full") /\ UNCHANGED reviews
    BY <1>4 DEF BeginRole
  <2> QED
    BY <2>1, <1>1, <1>3, FullKeeps
<1>5. CASE ~(Kids[Here] = {} \/ (Top.role = "semantic" /\ Gaps(Here) # {}))
  <2>1. Kids[Here] # {} /\ (Top.role = "semantic" => Now = {})
    BY <1>5, <1>2
  <2>2. SameFull(Review)
    BY DEF SameFull
  <2>3. CASE Go("compose") /\ UNCHANGED reviews
    <3>1. On("compose") \in FrameRecords /\ On("compose").node = Here /\ On("compose").pc = "compose"
      BY <1>1, OnIs DEF GatePlaces
    <3>2. FrameHolds(On("compose"), Review, trail.calls[Here], Now)
          /\ RepairKnown(On("compose"), trail)
      BY <1>1, <2>1, <2>2, <3>1, ComposingFrame DEF RepairKnown, EndPlaces
    <3> QED
      BY <2>3, <3>1, <3>2, <1>1, MoveOn DEF Now, Go
  <2>4. ASSUME NEW todo \in SUBSET ReviewNodes, todo # {}, todo \subseteq Kids[Here],
               frames' = WithTop([Top EXCEPT !.pc = "children", !.todo = todo, !.then = "compose"]),
               UNCHANGED reviews
        PROVE  CandidateInv'
    <3> DEFINE f == [Top EXCEPT !.pc = "children", !.todo = todo, !.then = "compose"]
    <3>1. f \in FrameRecords /\ f.node = Here /\ f.pc = "children"
      BY <1>1, ChildrenIs
    <3>2. FrameHolds(f, Review, trail.calls[Here], Now) /\ RepairKnown(f, trail)
      BY <1>1, <2>1, <2>2, <2>4, <3>1, ChildrenFrame DEF RepairKnown, EndPlaces
    <3>3. frames' = WithTop(f)
      BY <2>4
    <3> HIDE DEF f
    <3> QED
      BY <2>4, <3>1, <3>2, <3>3, <1>1, MoveOn DEF Now
  <2>5. ASSUME NEW large \in SUBSET Kids[Here], large # {}, ~Role.attempted,
               Saving([reviews EXCEPT ![Here].control = TRUE,
                                      ![Here].role[Top.role] =
                                          [Role EXCEPT !.attempted = TRUE, !.refresh = large]],
                      WithTop([Top EXCEPT !.pc = "children", !.todo = large, !.then = "compose"]))
        PROVE  CandidateInv'
    <3> DEFINE f == [Top EXCEPT !.pc = "children", !.todo = large, !.then = "compose"]
               role == [Role EXCEPT !.attempted = TRUE, !.refresh = large]
    <3>1. f \in FrameRecords /\ f.node = Here /\ f.pc = "children"
      BY <1>1, <1>2, ChildrenIs
    <3>2. /\ role \in RoleRecords /\ role.attempted /\ role.refresh = large
          /\ role.composed = Role.composed /\ role.round = Role.round /\ role.full = Role.full
          /\ role.reserved = Role.reserved
      BY <1>2 DEF RoleRecords
    <3>5. Saving([reviews EXCEPT ![Here].control = TRUE, ![Here].role[Top.role] = role], WithTop(f))
      BY <2>5
    <3> HIDE DEF role
    <3>3. FrameHolds(f, SavedRole(role, TRUE), trail.calls[Here], Now) /\ RepairKnown(f, trail)
      BY <1>1, <2>1, <2>5, <3>1, <3>2, <1>2, SavedSame, ChildrenFrame
         DEF RepairKnown, EndPlaces
    <3> HIDE DEF f
    <3>6. /\ ComposedOnce(Review, trail.calls[Here], Top.role)
          /\ AgainOnce(Review, trail.calls[Here], Top.role)
          /\ FullOnce(Review, Here, trail.calls[Here], Top.role)
          /\ LeafKeeps(Review, Here)
      BY <1>1, <1>2, <1>3, TopFacts DEF CallsCounted
    <3>7. /\ trail.calls[Here][Top.role]["composed"] <= 1
          /\ trail.calls[Here][Top.role]["composed"] # 1
          /\ trail.calls[Here][Top.role]["again"] <= 1
          /\ trail.calls[Here][Top.role]["again"] = 1 => role.round # "none"
          /\ trail.calls[Here][Top.role]["full"] <= 1
          /\ trail.calls[Here][Top.role]["full"] = 1 => role.full.state # "none"
      BY <3>6, <3>2, <2>1, <2>5 DEF ComposedOnce, AgainOnce, FullOnce, Role
    <3>8. Top.role = "semantic" => role.full.gaps \subseteq Now
      BY <3>2, <1>2 DEF Role
    <3>9. trail \in TrailRecords /\ trail.calls = [trail.calls EXCEPT ![Here] = trail.calls[Here]]
      BY DEF CandidateInv, CandidateTypes, TrailRecords
    <3> QED
      BY <1>1, <1>2, <1>3, <2>1, <3>1, <3>2, <3>3, <3>5, <3>7, <3>8, <3>9, SaveRoleStep
  <2> QED
    BY <1>1, <1>2, <1>5, <2>3, <2>4, <2>5 DEF BeginRole
<1> QED
  BY <1>4, <1>5

\* Where a gate that composes stands.
LEMMA Composing ==
    ASSUME CandidateAssumption, CandidateInv, frames # <<>>,
           Top.pc \in {"compose", "ask", "again", "reassess"}
    PROVE  /\ Kids[Here] # {} /\ Top.pc \notin EndPlaces /\ Kids[Here] \subseteq ReviewNodes
           /\ Top.role = "semantic" => Now = {}
           /\ Top.role = "security" => Now = {} \/ Answered(Review, Now)
           /\ Top.role \in Roles /\ Role \in RoleRecords
           /\ Review \in ReviewRecords /\ InProgress(Review)
           /\ Role.refresh \subseteq Kids[Here] /\ Role.composed.required \subseteq Kids[Here]
           /\ ComposedOnce(Review, trail.calls[Here], Top.role)
           /\ AgainOnce(Review, trail.calls[Here], Top.role)
           /\ trail.calls[Here][Top.role]["full"] <= 1
           /\ trail.calls[Here][Top.role]["full"] = 1 => Role.full.state # "none"
           /\ Top.role = "semantic" => Role.full.gaps \subseteq Now
           /\ trail.calls[Here] \in [Roles -> [Kinds -> Nat]]
           /\ trail \in TrailRecords
           /\ trail.calls = [trail.calls EXCEPT ![Here] = trail.calls[Here]]
<1>1. /\ GapsSeen(Top, Review, Now) /\ Top.role \in Roles
      /\ trail.calls[Here] \in [Roles -> [Kinds -> Nat]]
      /\ Kids[Here] # {} /\ Top.pc \notin EndPlaces
  BY TopSeen DEF EndPlaces
<1>2. /\ Kids[Here] \subseteq ReviewNodes /\ Role \in RoleRecords /\ Review \in ReviewRecords
      /\ InProgress(Review) /\ RoleRefers(Review, Here)
      /\ CallsCounted(Review, Here, trail.calls[Here])
      /\ Review.role["semantic"].full.gaps \subseteq Now
  BY <1>1, TopFacts DEF Now, EndPlaces
<1>3. /\ ComposedOnce(Review, trail.calls[Here], Top.role)
      /\ AgainOnce(Review, trail.calls[Here], Top.role)
      /\ FullOnce(Review, Here, trail.calls[Here], Top.role)
  BY <1>1, <1>2 DEF CallsCounted
<1>4. trail \in TrailRecords /\ trail.calls = [trail.calls EXCEPT ![Here] = trail.calls[Here]]
  BY DEF CandidateInv, CandidateTypes, TrailRecords
<1>5. /\ Top.role = "semantic" => Now = {}
      /\ Top.role = "security" => Now = {} \/ Answered(Review, Now)
  BY <1>1 DEF GapsSeen
<1>6. Role.refresh \subseteq Kids[Here] /\ Role.composed.required \subseteq Kids[Here]
      /\ (Top.role = "semantic" => Role.full.gaps \subseteq Now)
  BY <1>1, <1>2 DEF RoleRefers, Role
<1>7. /\ trail.calls[Here][Top.role]["full"] <= 1
      /\ trail.calls[Here][Top.role]["full"] = 1 => Role.full.state # "none"
  BY <1>1, <1>3 DEF FullOnce, Role
<1> QED
  BY <1>1, <1>2, <1>3, <1>4, <1>5, <1>6, <1>7

\* The verdict of a composed result.
LEMMA SettleKeeps ==
    ASSUME CandidateAssumption, CandidateInv, frames # <<>>, Top.pc = "compose",
           frames' = Settle, UNCHANGED <<reviews, artifacts, moved, trail>>
    PROVE  CandidateInv'
<1>1. CASE frames' = WithTop(On("full"))
  BY <1>1, Composing, FullKeeps DEF Go
<1>2. CASE /\ frames' = WithTop([Top EXCEPT !.pc = "children", !.todo = Role.composed.required,
                                            !.then = "reassess"])
           /\ Role.round = "none" /\ Role.composed.required # {}
  <2> DEFINE todo == Role.composed.required
             f == [Top EXCEPT !.pc = "children", !.todo = todo, !.then = "reassess"]
  <2>1. /\ Kids[Here] # {} /\ Top.pc \notin EndPlaces /\ todo \subseteq Kids[Here]
        /\ todo \in SUBSET ReviewNodes /\ todo # {} /\ (Top.role = "semantic" => Now = {})
    BY <1>2, Composing
  <2>2. f \in FrameRecords /\ f.node = Here /\ f.pc = "children"
    BY <2>1, ChildrenIs
  <2>3. FrameHolds(f, Review, trail.calls[Here], Now) /\ RepairKnown(f, trail)
    BY <1>2, <2>1, <2>2, ChildrenFrame DEF RepairKnown, EndPlaces, SameFull, Role
  <2>4. frames' = WithTop(f)
    BY <1>2
  <2> HIDE DEF f
  <2> QED
    BY <2>1, <2>2, <2>3, <2>4, MoveOn DEF Now
<1> QED
  BY <1>1, <1>2 DEF Settle

LEMMA ApproveKeeps ==
    ASSUME CandidateAssumption, CandidateInv, frames # <<>>,
           Top.pc \in {"compose", "full", "ask_full"}, NEW full \in BOOLEAN,
           Now = {} \/ Answered(Review, Now), Top.role = "semantic" => full \/ Now = {},
           Kids[Here] # {} \/ Role.full.state # "none" \/ Top.pc = "ask_full",
           frames' = Approve(full), UNCHANGED <<reviews, artifacts, moved, trail>>
    PROVE  CandidateInv'
<1>1. PICK f \in FrameRecords :
        /\ Approve(full) = WithTop(f) /\ f.node = Here /\ f.role = "security"
        /\ f.pc = IF Top.role = "semantic" THEN "review" ELSE "publish"
        /\ f.basis = IF Top.role = "semantic"
                     THEN [full |-> full, knows |-> trail.rejected # {}] ELSE Top.basis
  BY ApprovedIs
<1>2. /\ PastFull(Top, Review, trail.calls[Here]) /\ Top.node = Here /\ Top.role \in Roles
      /\ Review.role["semantic"].full.gaps \subseteq Now
  BY TopSeen, TopFacts DEF Here, Now
<1>3. PastFull(f, Review, trail.calls[Here])
  BY <1>1, <1>2 DEF PastFull, Role, Roles
<1>4. FrameHolds(f, Review, trail.calls[Here], Now) /\ RepairKnown(f, trail)
  BY <1>1, <1>2, <1>3, ApprovedFrame DEF SameFull, RepairKnown, EndPlaces
<1>5. f.pc # "unwind" /\ Top.pc \notin EndPlaces
  BY <1>1 DEF EndPlaces
<1> QED
  BY <1>1, <1>4, <1>5, MoveOn DEF Now

LEMMA RejectKeeps ==
    ASSUME CandidateAssumption, CandidateInv, frames # <<>>, Top.pc \notin EndPlaces,
           NEW s \in {"repair", "external"}, NEW local \in BOOLEAN,
           frames' = Reject(s, local), UNCHANGED <<reviews, artifacts, moved, trail>>
    PROVE  CandidateInv'
<1> DEFINE out == [Review EXCEPT !.status = "failed", !.semantic = "rejected", !.stop = s,
                                 !.local = local]
<1>1. Review \in ReviewRecords /\ InProgress(Review)
  BY TopFacts DEF EndPlaces
<1>2. Ends(out)
  BY <1>1 DEF Ends, ReviewRecords, ReviewStatuses, ReviewStops, ReviewVerdicts, InProgress
<1>3. frames' = WithTop([On("finish") EXCEPT !.out = out])
  BY DEF Reject
<1> HIDE DEF out
<1> QED
  BY <1>2, <1>3, FinishKeeps

LEMMA ComposeKeeps ==
    ASSUME CandidateAssumption, CandidateInv, Compose
    PROVE  CandidateInv'
<1>1. frames # <<>> /\ Top.pc = "compose" /\ UNCHANGED <<artifacts, moved>>
  BY DEF Compose, In
<1>2. CASE UseAccepted
  <2>1. UNCHANGED <<reviews, artifacts, moved, trail>>
    BY <1>1, <1>2 DEF UseAccepted
  <2>2. CASE frames' = Settle
    BY <1>1, <2>1, <2>2, SettleKeeps
  <2>3. CASE frames' = Approve(FALSE)
    <3>1. Kids[Here] # {} /\ (Now = {} \/ Answered(Review, Now))
          /\ (Top.role = "semantic" => Now = {})
      BY <1>1, Composing DEF Roles
    <3> QED
      BY <1>1, <2>1, <2>3, <3>1, ApproveKeeps
  <2>4. CASE frames' = Reject("repair", TRUE)
    BY <1>1, <2>1, <2>4, RejectKeeps DEF EndPlaces
  <2> QED
    BY <1>2, <2>2, <2>3, <2>4 DEF UseAccepted
<1>3. CASE Go("full") /\ UNCHANGED <<reviews, trail>>
  BY <1>1, <1>3, Composing, FullKeeps
<1>4. CASE /\ ~(Role.attempted /\ (Role.refresh = {} \/ Role.reserved))
           /\ SaveRole(Reserved, "ask") /\ Reserving("composed")
  <2> DEFINE role == Reserved
             c == [trail.calls[Here] EXCEPT ![Top.role]["composed"] = @ + 1]
             f == On("ask")
  <2>1. /\ Kids[Here] # {} /\ Top.pc \notin EndPlaces
        /\ Top.role = "semantic" => Now = {}
        /\ Top.role \in Roles /\ Role \in RoleRecords
        /\ Role.refresh \subseteq Kids[Here] /\ Role.composed.required \subseteq Kids[Here]
        /\ ComposedOnce(Review, trail.calls[Here], Top.role)
        /\ AgainOnce(Review, trail.calls[Here], Top.role)
        /\ trail.calls[Here][Top.role]["full"] <= 1
        /\ trail.calls[Here][Top.role]["full"] = 1 => Role.full.state # "none"
        /\ Top.role = "semantic" => Role.full.gaps \subseteq Now
        /\ trail.calls[Here] \in [Roles -> [Kinds -> Nat]]
    BY <1>1, Composing
  <2>2. /\ role \in RoleRecords /\ role.attempted /\ role.reserved = (Role.refresh # {})
        /\ role.refresh = Role.refresh /\ role.composed = Role.composed
        /\ role.round = Role.round /\ role.full = Role.full
    BY <2>1 DEF Reserved, RoleRecords
  <2>3. /\ c \in [Roles -> [Kinds -> Nat]]
        /\ c[Top.role]["composed"] = trail.calls[Here][Top.role]["composed"] + 1
        /\ \A k \in Kinds \ {"composed"} : c[Top.role][k] = trail.calls[Here][Top.role][k]
        /\ \A r \in Roles \ {Top.role} : c[r] = trail.calls[Here][r]
        /\ ~moved => /\ trail' \in TrailRecords /\ trail'.rejected = trail.rejected
                     /\ trail'.basis = trail.basis
                     /\ trail'.calls = [trail.calls EXCEPT ![Here] = c]
        /\ moved => trail' = trail
    BY <1>1, <1>4, CountedIs DEF Kinds, Reserving, Called
  <2>4. f \in FrameRecords /\ f.node = Here /\ f.pc = "ask"
    BY <1>1, OnIs DEF GatePlaces
  <2>5. Saving([reviews EXCEPT ![Here].control = Retains, ![Here].role[Top.role] = role], WithTop(f))
         /\ Retains \in BOOLEAN /\ (Review.control => Retains)
    BY <1>1, <1>4, <2>1, SaveRoleIs
  <2> HIDE DEF role, c
  <2>6. FrameHolds(f, SavedRole(role, Retains), c, Now) /\ RepairKnown(f, trail)
    <3>1. SameFull(SavedRole(role, Retains))
      <4>1. Retains \in BOOLEAN /\ frames # <<>> /\ role \in RoleRecords /\ role.full = Role.full
        BY <1>1, <2>2, <2>5
      <4> QED
        BY <2>1, <4>1, SavedSame, Zenon
    <3> QED
      BY <1>1, <2>1, <2>4, <3>1, ComposingFrame DEF RepairKnown, EndPlaces
  <2>7. /\ c[Top.role]["composed"] <= 1
        /\ c[Top.role]["composed"] = 1 => role.attempted /\ (role.refresh = {} \/ role.reserved)
        /\ c[Top.role]["again"] <= 1 /\ (c[Top.role]["again"] = 1 => role.round # "none")
        /\ c[Top.role]["full"] <= 1 /\ (c[Top.role]["full"] = 1 => role.full.state # "none")
    <3>0. trail.calls[Here][Top.role]["composed"] \in Nat
      BY <2>1 DEF Kinds
    <3>1. trail.calls[Here][Top.role]["composed"] = 0
      <4>1. trail.calls[Here][Top.role]["composed"] <= 1
            /\ (trail.calls[Here][Top.role]["composed"] = 1 =>
                   Role.attempted /\ (Role.refresh = {} \/ Role.reserved))
        BY <2>1 DEF ComposedOnce, Role
      <4> QED
        BY <1>4, <4>1, <3>0
    <3>2. c[Top.role]["again"] = trail.calls[Here][Top.role]["again"]
          /\ c[Top.role]["full"] = trail.calls[Here][Top.role]["full"]
      BY <2>3 DEF Kinds
    <3>3. c[Top.role]["composed"] = 1 /\ (role.refresh = {} \/ role.reserved)
      <4>1. c[Top.role]["composed"] = 1
        BY <2>3, <3>1
      <4>2. role.refresh = {} \/ role.reserved
        BY <2>2, Zenon
      <4> QED
        BY <4>1, <4>2
    <3>4. /\ c[Top.role]["again"] <= 1 /\ (c[Top.role]["again"] = 1 => role.round # "none")
          /\ c[Top.role]["full"] <= 1 /\ (c[Top.role]["full"] = 1 => role.full.state # "none")
      BY <2>1, <2>2, <3>2 DEF AgainOnce, Role
    <3> QED
      BY <2>2, <3>3, <3>4
  <2> HIDE DEF f
  <2> QED
    BY <1>1, <1>4, <2>1, <2>2, <2>3, <2>4, <2>5, <2>6, <2>7, SaveRoleStep
<1> QED
  BY <1>2, <1>3, <1>4 DEF Compose, NoPacket

LEMMA AskKeeps ==
    ASSUME CandidateAssumption, CandidateInv, Ask
    PROVE  CandidateInv'
<1>1. frames # <<>> /\ Top.pc \in {"ask", "again"} /\ UNCHANGED <<artifacts, moved>>
  BY DEF Ask, In
<1>2. ASSUME NEW result \in Results, UNCHANGED trail,
             SaveRole([Role EXCEPT !.composed = result,
                                   !.round = IF Top.pc = "again" THEN "accepted" ELSE @], "compose")
      PROVE  CandidateInv'
  <2> DEFINE round == IF Top.pc = "again" THEN "accepted" ELSE Role.round
             role == [Role EXCEPT !.composed = result, !.round = round]
             f == On("compose")
  <2>1. /\ Kids[Here] # {} /\ Top.pc \notin EndPlaces /\ Kids[Here] \subseteq ReviewNodes
        /\ Top.role = "semantic" => Now = {}
        /\ Top.role \in Roles /\ Role \in RoleRecords
        /\ Role.refresh \subseteq Kids[Here]
        /\ ComposedOnce(Review, trail.calls[Here], Top.role)
        /\ AgainOnce(Review, trail.calls[Here], Top.role)
        /\ trail.calls[Here][Top.role]["full"] <= 1
        /\ trail.calls[Here][Top.role]["full"] = 1 => Role.full.state # "none"
        /\ Top.role = "semantic" => Role.full.gaps \subseteq Now
        /\ trail.calls[Here] \in [Roles -> [Kinds -> Nat]]
        /\ trail \in TrailRecords
        /\ trail.calls = [trail.calls EXCEPT ![Here] = trail.calls[Here]]
    BY <1>1, Composing
  <2>2. result \in ReviewResults /\ result.required \subseteq Kids[Here]
    BY <2>1 DEF Results, ReviewResults
  <2>3. round \in {"none", "reserved", "accepted"} /\ (Role.round # "none" => round # "none")
    BY <2>1 DEF RoleRecords
  <2> HIDE DEF round
  <2>4. /\ role \in RoleRecords /\ role.attempted = Role.attempted /\ role.reserved = Role.reserved
        /\ role.refresh = Role.refresh /\ role.composed = result
        /\ role.round = round /\ role.full = Role.full
    BY <2>1, <2>2, <2>3 DEF RoleRecords
  <2>5. f \in FrameRecords /\ f.node = Here /\ f.pc = "compose"
    BY <1>1, OnIs DEF GatePlaces
  <2>6. Saving([reviews EXCEPT ![Here].control = Retains, ![Here].role[Top.role] = role], WithTop(f))
         /\ Retains \in BOOLEAN /\ (Review.control => Retains)
    BY <1>1, <1>2, <2>1, SaveRoleIs DEF round
  <2> HIDE DEF role
  <2>7. FrameHolds(f, SavedRole(role, Retains), trail.calls[Here], Now) /\ RepairKnown(f, trail)
    <3>1. SameFull(SavedRole(role, Retains))
      <4>1. Retains \in BOOLEAN /\ frames # <<>> /\ role \in RoleRecords /\ role.full = Role.full
        BY <1>1, <2>4, <2>6
      <4> QED
        BY <2>1, <4>1, SavedSame, Zenon
    <3> QED
      BY <1>1, <2>1, <2>5, <3>1, ComposingFrame DEF RepairKnown, EndPlaces
  <2>8. /\ trail.calls[Here][Top.role]["composed"] <= 1
        /\ trail.calls[Here][Top.role]["composed"] = 1 =>
             role.attempted /\ (role.refresh = {} \/ role.reserved)
        /\ trail.calls[Here][Top.role]["again"] <= 1
        /\ trail.calls[Here][Top.role]["again"] = 1 => role.round # "none"
        /\ trail.calls[Here][Top.role]["full"] = 1 => role.full.state # "none"
    BY <2>1, <2>3, <2>4 DEF ComposedOnce, AgainOnce, Role
  <2> HIDE DEF f
  <2> QED
    BY <1>1, <1>2, <2>1, <2>2, <2>4, <2>5, <2>6, <2>7, <2>8, SaveRoleStep
<1>3. CASE frames' = Reject("external", FALSE) /\ UNCHANGED <<reviews, trail>>
  BY <1>1, <1>3, RejectKeeps DEF EndPlaces
<1>4. CASE Fault /\ trail' = Faulted /\ Go("full") /\ UNCHANGED reviews
  BY <1>1, <1>4, Composing, FullKeeps
<1> QED
  BY <1>2, <1>3, <1>4 DEF Ask

LEMMA ReassessKeeps ==
    ASSUME CandidateAssumption, CandidateInv, Reassess
    PROVE  CandidateInv'
<1>1. frames # <<>> /\ Top.pc = "reassess" /\ UNCHANGED <<artifacts, moved>>
  BY DEF Reassess, In
<1>2. CASE SaveRole([Role EXCEPT !.round = "reserved"], "again") /\ Reserving("again")
  <2> DEFINE role == [Role EXCEPT !.round = "reserved"]
             c == [trail.calls[Here] EXCEPT ![Top.role]["again"] = @ + 1]
             f == On("again")
  <2>1. /\ Kids[Here] # {} /\ Top.pc \notin EndPlaces
        /\ Top.role = "semantic" => Now = {}
        /\ Top.role \in Roles /\ Role \in RoleRecords
        /\ Role.refresh \subseteq Kids[Here] /\ Role.composed.required \subseteq Kids[Here]
        /\ ComposedOnce(Review, trail.calls[Here], Top.role)
        /\ AgainOnce(Review, trail.calls[Here], Top.role)
        /\ trail.calls[Here][Top.role]["full"] <= 1
        /\ trail.calls[Here][Top.role]["full"] = 1 => Role.full.state # "none"
        /\ Top.role = "semantic" => Role.full.gaps \subseteq Now
        /\ trail.calls[Here] \in [Roles -> [Kinds -> Nat]]
        /\ trail \in TrailRecords
        /\ trail.calls = [trail.calls EXCEPT ![Here] = trail.calls[Here]]
    BY <1>1, Composing
  <2>2. /\ role \in RoleRecords /\ role.attempted = Role.attempted /\ role.reserved = Role.reserved
        /\ role.refresh = Role.refresh /\ role.composed = Role.composed
        /\ role.round = "reserved" /\ role.full = Role.full
    BY <2>1 DEF RoleRecords
  <2>3. /\ c \in [Roles -> [Kinds -> Nat]]
        /\ c[Top.role]["again"] = trail.calls[Here][Top.role]["again"] + 1
        /\ c[Top.role]["composed"] = trail.calls[Here][Top.role]["composed"]
        /\ c[Top.role]["full"] = trail.calls[Here][Top.role]["full"]
        /\ \A r \in Roles \ {Top.role} : c[r] = trail.calls[Here][r]
        /\ ~moved => /\ trail' \in TrailRecords /\ trail'.rejected = trail.rejected
                     /\ trail'.basis = trail.basis
                     /\ trail'.calls = [trail.calls EXCEPT ![Here] = c]
        /\ moved => trail' = trail
    BY <1>1, <1>2, CountedIs DEF Kinds, Reserving, Called
  <2>5. f \in FrameRecords /\ f.node = Here /\ f.pc = "again"
    BY <1>1, OnIs DEF GatePlaces
  <2>6. Saving([reviews EXCEPT ![Here].control = Retains, ![Here].role[Top.role] = role], WithTop(f))
         /\ Retains \in BOOLEAN /\ (Review.control => Retains)
    BY <1>1, <1>2, <2>1, SaveRoleIs
  <2> HIDE DEF role, c
  <2>7. FrameHolds(f, SavedRole(role, Retains), c, Now) /\ RepairKnown(f, trail)
    <3>1. SameFull(SavedRole(role, Retains))
      <4>1. Retains \in BOOLEAN /\ frames # <<>> /\ role \in RoleRecords /\ role.full = Role.full
        BY <1>1, <2>2, <2>6
      <4> QED
        BY <2>1, <4>1, SavedSame, Zenon
    <3> QED
      BY <1>1, <2>1, <2>5, <3>1, ComposingFrame DEF RepairKnown, EndPlaces
  <2>8. /\ c[Top.role]["composed"] <= 1
        /\ c[Top.role]["composed"] = 1 => role.attempted /\ (role.refresh = {} \/ role.reserved)
        /\ c[Top.role]["again"] <= 1
        /\ c[Top.role]["full"] <= 1 /\ (c[Top.role]["full"] = 1 => role.full.state # "none")
    <3>1. Role.round = "none"
      BY <1>1, TopSeen DEF RoundOpen, Role
    <3>2. trail.calls[Here][Top.role]["again"] = 0
      BY <3>1, <2>1 DEF AgainOnce, Role, Kinds
    <3> QED
      BY <3>2, <2>1, <2>2, <2>3 DEF ComposedOnce, Role
  <2> HIDE DEF f
  <2> QED
    BY <1>1, <1>2, <2>1, <2>2, <2>3, <2>5, <2>6, <2>7, <2>8, SaveRoleStep
<1>3. CASE Go("full") /\ UNCHANGED <<reviews, trail>>
  BY <1>1, <1>3, Composing, FullKeeps
<1> QED
  BY <1>2, <1>3 DEF Reassess

(***************************************************************************)
(* Children.                                                               *)
(***************************************************************************)
LEMMA ChildIs ==
    ASSUME CandidateAssumption, CandidateInv, frames # <<>>, Top.pc \in ChildPlaces
    PROVE  /\ Child \in Top.todo /\ Top.todo \subseteq Kids[Here] /\ Kids[Here] # {}
           /\ Child \in Kids[Here] /\ Child \in ReviewNodes \ {Anchor} /\ Child \notin Path
           /\ Child # Here /\ Top.pc \notin EndPlaces /\ Top.node = Here
           /\ reviews[Child] \in ReviewRecords /\ reviews[Child].stop # "evidence"
           /\ reviews[Child].status = "absent" => reviews[Child] = NoReview
           /\ reviews[Child].status = "running" => InProgress(reviews[Child])
           /\ reviews[Child].gap \/ reviews[Child].semantic = "rejected"
              \/ reviews[Child].stop = "candidate_repair" => trail.rejected # {}
           /\ CallsHold(reviews[Child], Child, trail.calls[Child])
<1>1. FramePlaced(Top) /\ Top.node = Here
  BY TopSeen DEF Here
<1>2. Top.todo # {} /\ Top.todo \subseteq Kids[Here]
  BY <1>1 DEF FramePlaced
<1>3. Child \in Top.todo
  BY <1>2 DEF Child
<1>4. Kids[Here] \cap Path = {} /\ Kids[Here] \subseteq ReviewNodes \ {Anchor} /\ Here \in Path
  BY TopFacts
<1>5. Child \in Kids[Here] /\ Child \in ReviewNodes \ {Anchor}
  BY <1>2, <1>3, <1>4
<1>6. /\ reviews[Child].stop # "evidence"
      /\ reviews[Child].status = "running" => InProgress(reviews[Child])
      /\ reviews[Child].semantic = "rejected" => reviews[Child].gap
      /\ reviews[Child].gap \/ reviews[Child].stop = "candidate_repair" => trail.rejected # {}
      /\ CallsHold(reviews[Child], Child, trail.calls[Child])
  BY <1>5 DEF CandidateInv, NodesHold
<1>7. reviews[Child] \in ReviewRecords
      /\ (reviews[Child].status = "absent" => reviews[Child] = NoReview)
  BY <1>5 DEF CandidateInv, CandidateTypes, Blank
<1> QED
  BY <1>1, <1>2, <1>3, <1>4, <1>5, <1>6, <1>7 DEF EndPlaces, ChildPlaces

\* A child that is not entered is as it is.
LEMMA SettledKeeps ==
    ASSUME CandidateAssumption, CandidateInv, In("children"),
           frames' = WithTop([Top EXCEPT !.pc = "settled"]),
           UNCHANGED <<reviews, artifacts, moved, trail>>
    PROVE  CandidateInv'
<1> DEFINE f == [Top EXCEPT !.pc = "settled"]
<1>1. frames # <<>> /\ Top.pc = "children" /\ Kids[Here] # {} /\ Top.pc \notin EndPlaces
  BY ChildIs DEF In, ChildPlaces
<1>2. /\ FramePlaced(Top) /\ RoundOpen(Top, Review) /\ GapsSeen(Top, Review, Now)
      /\ Top.role \in Roles
  BY <1>1, TopSeen
<1>3. /\ f \in FrameRecords /\ f.node = Here /\ f.pc = "settled" /\ f.role = Top.role
      /\ f.basis = Top.basis /\ f.todo = Top.todo /\ f.then = Top.then /\ Top.node = Here
  BY <1>1, TopFacts DEF FrameRecords, Here, GatePlaces, ChildPlaces
<1>4. frames' = WithTop(f)
  OBVIOUS
<1> HIDE DEF f
<1>5. /\ FramePlaced(f) /\ RoundOpen(f, Review) /\ PastFull(f, Review, trail.calls[Here])
      /\ FrameEnds(f, Review) /\ AskedUnkept(f, Review) /\ RepairKnown(f, trail)
  BY <1>1, <1>2, <1>3
     DEF FramePlaced, RoundOpen, PastFull, FrameEnds, AskedUnkept, ChildPlaces,
                          EndPlaces, RepairKnown
<1>6. GapsSeen(f, Review, Now)
  BY <1>1, <1>2, <1>3 DEF GapsSeen, Roles
<1> QED
  BY <1>1, <1>3, <1>4, <1>5, <1>6, MoveOn DEF FrameHolds, Now

LEMMA ReturnedGaps ==
    ASSUME CandidateAssumption, CandidateInv, In("returned") \/ In("settled")
    PROVE  /\ frames # <<>> /\ Top.pc \in ChildPlaces /\ Top.pc \notin EndPlaces
           /\ Gaps(Here) = Now /\ (Covers(Here) <=> Answered(Review, Now))
           /\ Top.role = "semantic" /\ Answered(Review, Now) => Now = {}
           /\ Top.role \in Roles
<1>1. frames # <<>> /\ Top.pc \in {"returned", "settled"}
  BY DEF In
<1>2. GapsSeen(Top, Review, Now) /\ Top.role \in Roles
  BY <1>1, TopSeen
<1>3. Gaps(Here) = Now /\ (Covers(Here) <=> Answered(Review, Now))
  BY <1>1, TopFacts DEF Now
<1>4. Top.role = "semantic" /\ Answered(Review, Now) => Now = {}
  BY <1>1, <1>2 DEF GapsSeen, Answered
<1> QED
  BY <1>1, <1>2, <1>3, <1>4 DEF ChildPlaces, EndPlaces

LEMMA ChildReviewedKeeps ==
    ASSUME CandidateAssumption, CandidateInv, ChildReviewed
    PROVE  CandidateInv'
<1> DEFINE cr == reviews[Child]
<1>1. /\ frames # <<>> /\ Top.pc \in ChildPlaces /\ Top.pc \notin EndPlaces
      /\ Gaps(Here) = Now /\ (Covers(Here) <=> Answered(Review, Now))
      /\ Top.role = "semantic" /\ Answered(Review, Now) => Now = {}
      /\ Top.role \in Roles
      /\ UNCHANGED <<reviews, artifacts, moved, trail>>
  BY ReturnedGaps DEF ChildReviewed
<1>2. /\ Review \in ReviewRecords /\ InProgress(Review) /\ Here \in ReviewNodes
      /\ cr \in ReviewRecords /\ cr.stop # "evidence"
      /\ cr.semantic = "rejected" \/ cr.stop = "candidate_repair" => trail.rejected # {}
      /\ Kids[Here] # {} /\ Top.todo \subseteq Kids[Here] /\ Kids[Here] \subseteq ReviewNodes
      /\ Top.node = Here
  BY <1>1, ChildIs, TopFacts DEF EndPlaces
<1> HIDE DEF cr
<1>3. CASE RoutesToRepair(cr) /\ Finish([Review EXCEPT !.status = "failed", !.semantic = "rejected",
                                                       !.stop = "candidate_repair"])
  <2> DEFINE out == [Review EXCEPT !.status = "failed", !.semantic = "rejected",
                                   !.stop = "candidate_repair"]
  <2>1. trail.rejected # {}
    BY <1>2, <1>3 DEF RoutesToRepair
  <2>2. Ends(out)
    BY <1>2, <2>1
       DEF Ends, ReviewRecords, ReviewStatuses, ReviewStops, ReviewVerdicts, InProgress
  <2>3. frames' = WithTop([On("finish") EXCEPT !.out = out])
    BY <1>3 DEF Finish
  <2> HIDE DEF out
  <2> QED
    BY <1>1, <2>2, <2>3, FinishKeeps
<1>4. CASE ~RoutesToRepair(cr) /\ BlockedBy(cr.stop)
  <2>1. cr.stop \in ReviewStops \ {"evidence", "candidate_repair"}
    BY <1>2, <1>4 DEF RoutesToRepair, ReviewRecords
  <2> QED
    BY <1>1, <1>4, <2>1, BlockedKeeps
<1>5. CASE frames' = WithTop(Enter(Here))
  <2> DEFINE f == Enter(Here)
  <2>1. /\ f \in FrameRecords /\ f.node = Here /\ f.pc = "review" /\ f.role = "semantic"
        /\ f.basis = NoBasis
    BY <1>2, EnterIs
  <2>2. frames' = WithTop(f)
    BY <1>5
  <2> HIDE DEF f
  <2>3. FrameHolds(f, Review, trail.calls[Here], Now) /\ RepairKnown(f, trail)
    BY <1>2, <2>1
       DEF FrameHolds, FramePlaced, RoundOpen, PastFull, FrameEnds, GapsSeen, AskedUnkept,
           ChildPlaces, EndPlaces, RepairKnown
  <2> QED
    BY <1>1, <2>1, <2>2, <2>3, MoveOn DEF Now
<1>6. CASE /\ Go("full")
           /\ Top.role = "security" => ~(Gaps(Here) # {} /\ ~Covers(Here))
  BY <1>1, <1>6, FullKeeps
<1>7. CASE /\ ~(Gaps(Here) # {} /\ ~Covers(Here))
           /\ LET rest == Top.todo \ {Child}
              IN frames' = WithTop([Top EXCEPT !.pc = IF rest = {} THEN Top.then ELSE "children",
                                               !.todo = rest])
  <2> DEFINE rest == Top.todo \ {Child}
             pc == IF rest = {} THEN Top.then ELSE "children"
             f == [Top EXCEPT !.pc = pc, !.todo = rest]
  <2>1. RoundOpen(Top, Review) /\ GapsSeen(Top, Review, Now) /\ Top \in FrameRecords
    BY <1>1, TopSeen, TopFacts
  <2>2. /\ pc \in {"compose", "reassess", "children"} /\ rest \in SUBSET ReviewNodes
        /\ pc = "children" => rest # {} /\ rest \subseteq Kids[Here]
        /\ pc = "reassess" => Top.then = "reassess"
    BY <1>2, <2>1 DEF FrameRecords
  <2>3. frames' = WithTop(f)
    BY <1>7
  <2> HIDE DEF pc, rest
  <2>4. /\ f \in FrameRecords /\ f.node = Here /\ f.pc = pc /\ f.role = Top.role
        /\ f.basis = Top.basis /\ f.todo = rest /\ f.then = Top.then
    BY <1>2, <2>1, <2>2 DEF FrameRecords, GatePlaces, ChildPlaces
  <2>5. Now = {} \/ Answered(Review, Now)
    BY <1>1, <1>7
  <2> HIDE DEF f
  <2>6. /\ FramePlaced(f) /\ PastFull(f, Review, trail.calls[Here])
        /\ FrameEnds(f, Review) /\ AskedUnkept(f, Review) /\ RepairKnown(f, trail)
    BY <1>2, <2>2, <2>4
       DEF FramePlaced, PastFull, FrameEnds, AskedUnkept, ChildPlaces, EndPlaces, RepairKnown
  <2>7. RoundOpen(f, Review)
    BY <1>1, <2>1, <2>2, <2>4 DEF RoundOpen, ChildPlaces
  <2>8. GapsSeen(f, Review, Now)
    BY <1>1, <2>1, <2>2, <2>4, <2>5 DEF GapsSeen, Roles
  <2>9. f.pc # "unwind"
    BY <2>2, <2>4
  <2> QED
    BY <1>1, <2>3, <2>4, <2>6, <2>7, <2>8, <2>9, MoveOn DEF FrameHolds, Now
<1> QED
  BY <1>1, <1>3, <1>4, <1>5, <1>6, <1>7 DEF ChildReviewed, cr, Roles

(***************************************************************************)
(* The full review.                                                        *)
(***************************************************************************)
LEMMA TopOnItself ==
    ASSUME CandidateAssumption, CandidateInv, frames # <<>>
    PROVE  frames = WithTop(Top)
<1>1. /\ frames \in Seq(FrameRecords) /\ Len(frames) \in Nat \ {0}
      /\ Top = frames[Len(frames)] /\ Top \in FrameRecords
  BY TopIsLast DEF CandidateInv, CandidateTypes
<1>2. /\ WithTop(Top) \in Seq(FrameRecords) /\ Len(WithTop(Top)) = Len(frames)
      /\ WithTop(Top)[Len(frames)] = Top
      /\ \A i \in 1..(Len(frames) - 1) : WithTop(Top)[i] = frames[i]
  BY <1>1, WithTopIs
<1> DEFINE w == WithTop(Top)
<1> HIDE DEF w
<1>3. w \in Seq(FrameRecords) /\ Len(w) = Len(frames) /\ \A i \in 1..Len(frames) : w[i] = frames[i]
  BY <1>1, <1>2 DEF w
<1>4. w = frames
  BY <1>1, <1>3
<1> QED
  BY <1>4 DEF w

LEMMA FullReviewKeeps ==
    ASSUME CandidateAssumption, CandidateInv, FullReview
    PROVE  CandidateInv'
<1>1. frames # <<>> /\ Top.pc = "full" /\ UNCHANGED <<artifacts, moved>> /\ Top.pc \notin EndPlaces
  BY DEF FullReview, In, EndPlaces
<1>2. /\ Review \in ReviewRecords /\ Role \in RoleRecords /\ InProgress(Review)
      /\ Here \in ReviewNodes /\ Role = Review.role[Top.role]
      /\ RoleRefers(Review, Here) /\ LeafKeeps(Review, Here)
      /\ CallsCounted(Review, Here, trail.calls[Here])
      /\ Review.role["semantic"].full.gaps \subseteq Now
      /\ Covers(Here) <=> Answered(Review, Now)
  BY <1>1, TopFacts DEF Now, EndPlaces, Role
<1>3. /\ GapsSeen(Top, Review, Now) /\ PastFull(Top, Review, trail.calls[Here])
      /\ trail.calls[Here] \in [Roles -> [Kinds -> Nat]] /\ Top.role \in Roles
      /\ Top.node = Here
      /\ Top.role = "security" => Now = {} \/ Answered(Review, Now)
  BY <1>1, TopSeen DEF Here, GapsSeen
<1>4. CASE Role.full.state # "none" /\ UNCHANGED <<reviews, trail>>
  <2>1. CASE BlockedBy("budget")
    BY <1>1, <1>4, <2>1, BlockedKeeps DEF ReviewStops
  <2>2. CASE ~Spent(Role.full) /\ frames' = Approve(TRUE)
    <3>1. Now = {} \/ Answered(Review, Now)
      BY <1>2, <1>3, <2>2 DEF Spent, Roles
    <3> QED
      BY <1>1, <1>4, <2>2, <3>1, ApproveKeeps
  <2>3. CASE /\ ~Spent(Role.full) /\ Role.full.verdict # "approved"
             /\ frames' = Reject(Role.full.verdict, FALSE)
    <3>1. Role.full.verdict \in {"repair", "external"}
      BY <1>2, <1>4, <2>3 DEF Spent, RoleRecords, FullReviews
    <3> QED
      BY <1>1, <1>4, <2>3, <3>1, RejectKeeps
  <2> QED
    BY <1>4, <2>1, <2>2, <2>3 DEF FullReview
<1> DEFINE f == On("ask_full")
<1>5. /\ f \in FrameRecords /\ f.node = Here /\ f.pc = "ask_full" /\ f.role = Top.role
      /\ f.basis = Top.basis /\ f.pc # "unwind" /\ RepairKnown(f, trail)
  BY <1>1, OnIs DEF GatePlaces, RepairKnown, EndPlaces
<1>6. ASSUME NEW c, NEW rec, SameFull(rec) \/ Top.role = "semantic",
             PastFull(f, rec, c), AskedUnkept(f, rec)
      PROVE  FrameHolds(f, rec, c, Now)
  <2>1. FramePlaced(f) /\ RoundOpen(f, rec) /\ FrameEnds(f, rec)
    BY <1>5 DEF FramePlaced, RoundOpen, FrameEnds, ChildPlaces, EndPlaces
  <2>2. GapsSeen(f, rec, Now)
    BY <1>1, <1>3, <1>5, <1>6 DEF GapsSeen, SameFull, Answered, Roles
  <2> QED
    BY <2>1, <2>2, <1>6 DEF FrameHolds
<1> DEFINE c1 == [trail.calls[Here] EXCEPT ![Top.role]["full"] = @ + 1]
           t1 == [trail EXCEPT !.calls[Here][Top.role]["full"] = @ + 1]
<1>7. /\ c1 \in [Roles -> [Kinds -> Nat]]
      /\ c1[Top.role]["full"] = trail.calls[Here][Top.role]["full"] + 1
      /\ c1[Top.role]["composed"] = trail.calls[Here][Top.role]["composed"]
      /\ c1[Top.role]["again"] = trail.calls[Here][Top.role]["again"]
      /\ \A r \in Roles \ {Top.role} : c1[r] = trail.calls[Here][r]
      /\ t1 \in TrailRecords /\ t1.rejected = trail.rejected /\ t1.basis = trail.basis
      /\ t1.calls = [trail.calls EXCEPT ![Here] = c1]
  BY <1>1, CountedIs DEF Kinds
<1>8. /\ ComposedOnce(Review, trail.calls[Here], Top.role)
      /\ AgainOnce(Review, trail.calls[Here], Top.role)
      /\ FullOnce(Review, Here, trail.calls[Here], Top.role)
      /\ trail.calls[Here][Top.role]["full"] \in Nat
  BY <1>2, <1>3 DEF CallsCounted, Kinds
<1>9. Role.full.state = "none" /\ (Kids[Here] = {} /\ Here # Anchor => ~Review.control) =>
        trail.calls[Here][Top.role]["full"] = 0
  <2> SUFFICES ASSUME Role.full.state = "none", trail.calls[Here][Top.role]["full"] = 1
               PROVE  FALSE
    BY <1>8 DEF FullOnce
  <2>1. Kids[Here] = {} /\ Here # Anchor
    BY <1>2, <1>8 DEF FullOnce
  <2> QED
    BY <2>1, <1>1, <1>2, <1>3 DEF PastFull
<1>10. Role.full.state = "none" => trail.calls[Here][Top.role]["full"] = 0
  BY <1>9, <1>2 DEF LeafKeeps
<1> HIDE DEF f, c1, t1
\* The verified node's own review, which nothing is kept of.
<1>11. CASE /\ Role.full.state = "none" /\ ~Review.control /\ Here = Anchor
            /\ frames' = WithTop(f) /\ trail' = Called("open") /\ UNCHANGED reviews
  <2> DEFINE c == [trail.calls[Here] EXCEPT ![Top.role]["open"] = @ + 1]
  <2>1. /\ c \in [Roles -> [Kinds -> Nat]]
        /\ \A r \in Roles, k \in Kinds \ {"open"} : c[r][k] = trail.calls[Here][r][k]
        /\ trail' \in TrailRecords /\ trail'.rejected = trail.rejected
        /\ trail'.basis = trail.basis /\ trail'.calls = [trail.calls EXCEPT ![Here] = c]
    <3>1. /\ c \in [Roles -> [Kinds -> Nat]]
          /\ \A k \in Kinds \ {"open"} : c[Top.role][k] = trail.calls[Here][Top.role][k]
          /\ \A r \in Roles \ {Top.role} : c[r] = trail.calls[Here][r]
          /\ Called("open") \in TrailRecords /\ Called("open").rejected = trail.rejected
          /\ Called("open").basis = trail.basis
          /\ Called("open").calls = [trail.calls EXCEPT ![Here] = c]
      <4>1. "open" \in Kinds
        BY DEF Kinds
      <4> QED
        BY <1>1, <4>1, CountedIs DEF Called
    <3> HIDE DEF c
    <3> QED
      BY <1>11, <3>1
  <2> HIDE DEF c
  <2>2. CallsCounted(Review, Here, c)
    BY <1>2, <2>1 DEF CallsCounted, ComposedOnce, AgainOnce, FullOnce, Kinds
  <2>3. AskedUnkept(f, Review) /\ PastFull(f, Review, c)
    BY <1>5, <1>11 DEF AskedUnkept, PastFull
  <2>4. FrameHolds(f, Review, c, Now)
    BY <1>6, <2>3 DEF SameFull
  <2> QED
    BY <1>1, <1>5, <1>11, <2>1, <2>2, <2>4, MoveStep DEF Now
\* A leaf's one review.
<1>12. CASE /\ Role.full.state = "none" /\ ~Review.control /\ Here # Anchor /\ Kids[Here] = {}
            /\ frames' = WithTop(f) /\ trail' = Called("full") /\ UNCHANGED reviews
  <2>1. AskedUnkept(f, Review) /\ trail' = t1
    BY <1>5, <1>12 DEF AskedUnkept, Called, t1
  <2>2. PastFull(f, Review, c1)
    <3> SUFFICES ASSUME NEW r \in Roles, c1[r]["full"] = 1, Review.role[r].full.state = "none"
                 PROVE  \/ f.role = r /\ f.pc \in {"ask_full", "publish", "finish", "unwind"}
                        \/ r = "semantic" /\ f.role = "security"
      BY DEF PastFull
    <3>1. CASE r = Top.role
      BY <3>1, <1>5
    <3>2. CASE r # Top.role
      BY <3>2, <1>12, <1>1, <1>3, <1>5, <1>7 DEF PastFull
    <3> QED
      BY <3>1, <3>2
  <2>3. CallsCounted(Review, Here, c1)
    <3> SUFFICES ASSUME NEW r \in Roles
                 PROVE  /\ ComposedOnce(Review, c1, r) /\ AgainOnce(Review, c1, r)
                        /\ FullOnce(Review, Here, c1, r)
      BY DEF CallsCounted
    <3>1. CASE r = Top.role
      BY <3>1, <1>2, <1>7, <1>8, <1>10, <1>12
         DEF ComposedOnce, AgainOnce, FullOnce, InProgress
    <3>2. CASE r # Top.role
      <4>1. /\ ComposedOnce(Review, trail.calls[Here], r) /\ AgainOnce(Review, trail.calls[Here], r)
            /\ FullOnce(Review, Here, trail.calls[Here], r) /\ c1[r] = trail.calls[Here][r]
        BY <3>2, <1>2, <1>7 DEF CallsCounted
      <4> QED
        BY <4>1 DEF ComposedOnce, AgainOnce, FullOnce
    <3> QED
      BY <3>1, <3>2
  <2>4. FrameHolds(f, Review, c1, Now)
    BY <1>6, <2>1, <2>2 DEF SameFull
  <2> QED
    BY <1>1, <1>5, <1>7, <1>12, <2>1, <2>3, <2>4, MoveStep DEF Now
\* A child that composed without a record gets one first.
<1>13. CASE /\ Here # Anchor /\ Kids[Here] # {} /\ UNCHANGED trail
            /\ Saving([reviews EXCEPT ![Here].control = TRUE,
                                      ![Here].role["semantic"].attempted = TRUE], frames)
  <2> DEFINE role == [Review.role["semantic"] EXCEPT !.attempted = TRUE]
             roles == [Review.role EXCEPT !["semantic"] = role]
             rec == [Review EXCEPT !.control = TRUE, !.role = roles]
             c == trail.calls[Here]
  <2>1. [reviews EXCEPT ![Here].control = TRUE, ![Here].role["semantic"].attempted = TRUE]
          = [reviews EXCEPT ![Here] = rec]
    <3>1. reviews \in [ReviewNodes -> ReviewRecords] /\ "semantic" \in Roles
      BY DEF CandidateInv, CandidateTypes, Roles
    <3> QED
      BY <1>2, <3>1 DEF Review, ReviewRecords, RoleRecords
  <2>2. /\ role \in RoleRecords /\ role.attempted /\ role.full = Review.role["semantic"].full
        /\ role.refresh = Review.role["semantic"].refresh
        /\ role.composed = Review.role["semantic"].composed
        /\ role.reserved = Review.role["semantic"].reserved
        /\ role.round = Review.role["semantic"].round
    BY <1>2 DEF ReviewRecords, RoleRecords, Roles
  <2> HIDE DEF role
  <2>3. /\ roles \in [Roles -> RoleRecords]
        /\ \A r \in Roles : /\ roles[r].full = Review.role[r].full
                            /\ roles[r].refresh = Review.role[r].refresh
                            /\ roles[r].composed = Review.role[r].composed
                            /\ roles[r].reserved = Review.role[r].reserved
                            /\ roles[r].round = Review.role[r].round
                            /\ Review.role[r].attempted => roles[r].attempted
    BY <1>2, <2>2 DEF ReviewRecords, Roles
  <2> HIDE DEF roles
  <2>4. /\ rec \in ReviewRecords /\ rec.role = roles /\ rec.control /\ rec.gap = Review.gap
        /\ rec.completed = Review.completed /\ rec.status = Review.status /\ InProgress(rec)
    BY <1>2, <2>3 DEF ReviewRecords, InProgress
  <2>5. Saving([reviews EXCEPT ![Here] = rec], WithTop(Top))
    BY <1>1, <1>13, <2>1, TopOnItself
  <2> HIDE DEF rec
  <2>6. RoleRefers(rec, Here) /\ LeafKeeps(rec, Here)
        /\ rec.role["semantic"].full.gaps \subseteq Now
    BY <1>2, <1>13, <2>3, <2>4 DEF RoleRefers, LeafKeeps, Roles
  <2>7. CallsCounted(rec, Here, c)
    BY <1>2, <2>3, <2>4 DEF CallsCounted, ComposedOnce, AgainOnce, FullOnce
  <2>8. /\ FramePlaced(Top) /\ RoundOpen(Top, rec) /\ PastFull(Top, rec, c) /\ FrameEnds(Top, rec)
        /\ AskedUnkept(Top, rec) /\ RepairKnown(Top, trail)
    BY <1>1, <1>3, <1>13, TopSeen
       DEF FramePlaced, RoundOpen, PastFull, FrameEnds, AskedUnkept, RepairKnown, ChildPlaces,
           EndPlaces
  <2>9. GapsSeen(Top, rec, Now)
    <3>1. rec.role["semantic"].full = Review.role["semantic"].full
      BY <2>3, <2>4 DEF Roles
    <3> QED
      BY <1>3, <3>1 DEF GapsSeen, Answered
  <2>10. Top \in FrameRecords /\ Top.node = Here /\ Top.pc # "unwind" /\ trail \in TrailRecords
         /\ trail.calls = [trail.calls EXCEPT ![Here] = c]
    BY <1>1, TopFacts DEF Here, CandidateInv, CandidateTypes, TrailRecords
  <2>11. FrameHolds(Top, rec, c, Gapped(reviews, Here)) /\ c \in [Roles -> [Kinds -> Nat]]
         /\ rec.role["semantic"].full.gaps \subseteq Gapped(reviews, Here)
    BY <1>3, <2>6, <2>8, <2>9 DEF FrameHolds, Now
  <2> HIDE DEF c
  <2> QED
    BY <1>1, <1>13, <2>4, <2>5, <2>6, <2>7, <2>8, <2>10, <2>11, SaveStep
\* A review that is reserved in the record.
<1>14. CASE /\ Role.full.state = "none" /\ Review.control
            /\ Saving([reviews EXCEPT ![Here].role[Top.role].full.state = "reserved"],
                      WithTop(On("ask_full")))
            /\ Reserving("full")
  <2> DEFINE full == [Role.full EXCEPT !.state = "reserved"]
             role == [Role EXCEPT !.full = full]
  <2>1. full \in FullReviews /\ full.state = "reserved" /\ full.gaps = Role.full.gaps
    BY <1>2 DEF RoleRecords, FullReviews
  <2>2. [reviews EXCEPT ![Here].role[Top.role].full.state = "reserved"]
          = [reviews EXCEPT ![Here] = SavedRole(role, TRUE)]
    <3>1. reviews \in [ReviewNodes -> ReviewRecords]
      BY DEF CandidateInv, CandidateTypes
    <3>2. [reviews EXCEPT ![Here].role[Top.role].full.state = "reserved"]
            = [reviews EXCEPT ![Here] = [Review EXCEPT !.role = [Review.role EXCEPT ![Top.role] = role]]]
      BY <1>2, <1>3, <3>1 DEF Review, ReviewRecords, RoleRecords
    <3>3. [Review EXCEPT !.role = [Review.role EXCEPT ![Top.role] = role]] = SavedRole(role, TRUE)
      BY <1>2, <1>14 DEF SavedRole, ReviewRecords
    <3> QED
      BY <3>2, <3>3
  <2> HIDE DEF full
  <2>4. /\ role \in RoleRecords /\ role.attempted = Role.attempted /\ role.reserved = Role.reserved
        /\ role.refresh = Role.refresh /\ role.composed = Role.composed
        /\ role.round = Role.round /\ role.full = full
    BY <1>2, <2>1 DEF RoleRecords
  <2>5. Kids[Here] # {} \/ Here = Anchor
    BY <1>2, <1>14 DEF LeafKeeps
  <2> HIDE DEF role
  <2>6. Saving([reviews EXCEPT ![Here].control = TRUE, ![Here].role[Top.role] = role], WithTop(f))
    BY <1>1, <1>14, <2>2, <2>4, SavedRoleIs DEF f
  <2>7. SameFull(SavedRole(role, TRUE)) \/ Top.role = "semantic"
    BY <1>1, <1>3, <2>4, SavedRoleIs DEF SameFull, Roles
  <2>8. PastFull(f, SavedRole(role, TRUE), c1) /\ AskedUnkept(f, SavedRole(role, TRUE))
    <3>1. SavedRole(role, TRUE).role[Top.role] = role
      BY <1>1, <2>4, SavedRoleIs
    <3> QED
      BY <1>5, <2>1, <2>4, <2>5, <3>1 DEF PastFull, AskedUnkept
  <2>9. /\ role.refresh \subseteq Kids[Here] /\ role.composed.required \subseteq Kids[Here]
        /\ Top.role = "semantic" => role.full.gaps \subseteq Now
    BY <1>2, <1>3, <2>1, <2>4 DEF RoleRefers
  <2>10. /\ c1[Top.role]["composed"] <= 1
         /\ c1[Top.role]["composed"] = 1 => role.attempted /\ (role.refresh = {} \/ role.reserved)
         /\ c1[Top.role]["again"] <= 1
         /\ c1[Top.role]["again"] = 1 => role.round # "none"
         /\ c1[Top.role]["full"] <= 1 /\ role.full.state # "none"
    BY <1>2, <1>7, <1>8, <1>10, <1>14, <2>1, <2>4 DEF ComposedOnce, AgainOnce
  <2>11. FrameHolds(f, SavedRole(role, TRUE), c1, Now)
    BY <1>6, <2>7, <2>8
  <2>12. trail' = IF moved THEN trail ELSE t1
    BY <1>14 DEF Reserving, Called, t1
  <2> QED
    BY <1>1, <1>5, <1>7, <1>14, <2>4, <2>5, <2>6, <2>9, <2>10, <2>11, <2>12, SaveRoleStep
<1> QED
  BY <1>4, <1>11, <1>12, <1>13, <1>14 DEF FullReview, Go, f

\* An answer is kept in the record that reserved it.
LEMMA FullAnswerKeeps ==
    ASSUME CandidateAssumption, CandidateInv, FullAnswer
    PROVE  CandidateInv'
<1>1. /\ frames # <<>> /\ Top.pc = "ask_full" /\ UNCHANGED <<artifacts, moved, trail>>
      /\ Top.pc \notin EndPlaces
  BY DEF FullAnswer, In, EndPlaces
<1>2. /\ Review \in ReviewRecords /\ Role \in RoleRecords /\ InProgress(Review)
      /\ Here \in ReviewNodes /\ Role = Review.role[Top.role] /\ Gaps(Here) = Now
      /\ RoleRefers(Review, Here) /\ LeafKeeps(Review, Here)
      /\ CallsCounted(Review, Here, trail.calls[Here])
      /\ Review.role["semantic"].full.gaps \subseteq Now
      /\ Kids[Here] \subseteq ReviewNodes \ {Anchor}
  BY <1>1, TopFacts DEF Now, EndPlaces, Role
<1>3. /\ PastFull(Top, Review, trail.calls[Here]) /\ AskedUnkept(Top, Review)
      /\ trail.calls[Here] \in [Roles -> [Kinds -> Nat]] /\ Top.role \in Roles
      /\ Top.node = Here
      /\ Top.role = "security" => Now = {} \/ Answered(Review, Now)
  BY <1>1, TopSeen DEF Here, GapsSeen
<1>4. PICK answer \in {"approved", "repair", "external"}, local \in BOOLEAN :
        LET next == IF answer = "approved" THEN Approve(TRUE) ELSE Reject(answer, local)
        IN IF Role.full.state = "none" THEN frames' = next /\ UNCHANGED reviews
           ELSE Saving([reviews EXCEPT ![Here].role[Top.role].full =
                           [state |-> "done", verdict |-> answer,
                            gaps |-> IF Top.role = "semantic" THEN Gaps(Here) ELSE {}]], next)
  <2>1. \A answer \in Verdicts : answer \in {"approved", "repair", "external"}
    BY DEF Verdicts
  <2> QED
    BY <2>1 DEF FullAnswer
<1>5. CASE Role.full.state = "none"
  <2>1. Now = {}
    <3>1. Kids[Here] = {} \/ (Here = Anchor /\ ~Review.control)
      BY <1>1, <1>2, <1>3, <1>5 DEF AskedUnkept
    <3>2. CASE Kids[Here] = {}
      BY <3>2 DEF Now, Gapped
    <3>3. CASE Here = Anchor /\ ~Review.control
      <4>1. \A n \in Kids[Here] : reviews[n] = NoReview
        BY <3>3, <1>2 DEF CandidateInv, Blank, Review
      <4> QED
        BY <4>1 DEF Now, Gapped, NoReview
    <3> QED
      BY <3>1, <3>2, <3>3
  <2>2. CASE answer = "approved"
    <3>1. frames' = Approve(TRUE) /\ UNCHANGED reviews
      BY <2>2, <1>4, <1>5
    <3> QED
      BY <1>1, <2>1, <3>1, ApproveKeeps
  <2>3. CASE answer # "approved"
    <3>1. frames' = Reject(answer, local) /\ UNCHANGED reviews
      BY <2>3, <1>4, <1>5
    <3>2. answer \in {"repair", "external"}
      BY <2>3
    <3> QED
      BY <1>1, <3>1, <3>2, RejectKeeps
  <2> QED
    BY <2>2, <2>3
<1>6. CASE Role.full.state # "none"
  <2> DEFINE gaps == IF Top.role = "semantic" THEN Now ELSE {}
             full == [state |-> "done", verdict |-> answer, gaps |-> gaps]
             role == [Role EXCEPT !.full = full]
             roles == [Review.role EXCEPT ![Top.role] = role]
             rec == [Review EXCEPT !.role = roles]
             c == trail.calls[Here]
             next == IF answer = "approved" THEN Approve(TRUE) ELSE Reject(answer, local)
  <2>1. gaps \in SUBSET ReviewNodes
    BY <1>2 DEF Now, Gapped
  <2>2. full \in FullReviews /\ full.state = "done" /\ full.gaps = gaps
    <3> HIDE DEF gaps
    <3> QED
      BY <2>1 DEF FullReviews
  <2>3. [reviews EXCEPT ![Here].role[Top.role].full =
                           [state |-> "done", verdict |-> answer,
                            gaps |-> IF Top.role = "semantic" THEN Gaps(Here) ELSE {}]]
          = [reviews EXCEPT ![Here] = rec]
    <3>1. [state |-> "done", verdict |-> answer,
           gaps |-> IF Top.role = "semantic" THEN Gaps(Here) ELSE {}] = full
      BY <1>2
    <3> HIDE DEF full
    <3>2. reviews \in [ReviewNodes -> ReviewRecords]
      BY DEF CandidateInv, CandidateTypes
    <3>3. [reviews EXCEPT ![Here].role[Top.role].full = full] = [reviews EXCEPT ![Here] = rec]
      BY <1>2, <1>3, <3>2 DEF Review, ReviewRecords, RoleRecords
    <3> QED
      BY <3>1, <3>3
  <2>4. Saving([reviews EXCEPT ![Here] = rec], next)
    BY <1>4, <1>6, <2>3
  <2>5. /\ role \in RoleRecords /\ role.attempted = Role.attempted /\ role.reserved = Role.reserved
        /\ role.refresh = Role.refresh /\ role.composed = Role.composed
        /\ role.round = Role.round /\ role.full = full
    <3> HIDE DEF full
    <3> QED
      BY <1>2, <2>2 DEF RoleRecords
  <2> HIDE DEF role
  <2>6. /\ roles \in [Roles -> RoleRecords] /\ roles[Top.role] = role
        /\ \A r \in Roles \ {Top.role} : roles[r] = Review.role[r]
    BY <1>2, <1>3, <2>5 DEF ReviewRecords
  <2> HIDE DEF roles
  <2>7. /\ rec \in ReviewRecords /\ rec.role = roles /\ InProgress(rec)
        /\ rec.gap = Review.gap /\ rec.control = Review.control
        /\ rec.completed = Review.completed /\ rec.status = Review.status
    BY <1>2, <2>6 DEF ReviewRecords, InProgress
  <2> HIDE DEF rec
  <2>8. RoleRefers(rec, Here) /\ LeafKeeps(rec, Here)
    <3>1. \A r \in Roles : /\ rec.role[r].refresh = Review.role[r].refresh
                           /\ rec.role[r].composed = Review.role[r].composed
      BY <2>5, <2>6, <2>7, <1>2
    <3> QED
      BY <1>2, <2>7, <3>1 DEF RoleRefers, LeafKeeps
  <2>9. CallsCounted(rec, Here, c)
    <3> SUFFICES ASSUME NEW r \in Roles
                 PROVE  ComposedOnce(rec, c, r) /\ AgainOnce(rec, c, r) /\ FullOnce(rec, Here, c, r)
      BY DEF CallsCounted
    <3>1. /\ ComposedOnce(Review, c, r) /\ AgainOnce(Review, c, r)
          /\ FullOnce(Review, Here, c, r)
      BY <1>2 DEF CallsCounted
    <3>2. CASE r = Top.role
      <4>1. rec.role[r] = role /\ Review.role[r] = Role /\ role.full.state = "done"
        BY <3>2, <1>2, <2>2, <2>5, <2>6, <2>7
      <4> QED
        BY <3>1, <4>1, <2>5 DEF ComposedOnce, AgainOnce, FullOnce
    <3>3. CASE r # Top.role
      <4>1. rec.role[r] = Review.role[r]
        BY <3>3, <2>6, <2>7
      <4> QED
        BY <3>1, <4>1, <2>7 DEF ComposedOnce, AgainOnce, FullOnce
    <3> QED
      BY <3>2, <3>3
  <2>10. Top.role = "semantic" => /\ rec.role["semantic"].full.state = "done"
                                  /\ rec.role["semantic"].full.gaps = Now
    BY <2>2, <2>5, <2>6, <2>7
  <2>11. Top.role = "security" => SameFull(rec)
    BY <2>6, <2>7 DEF SameFull, Roles
  <2>12. /\ rec.role["semantic"].full.gaps \subseteq Now
         /\ Now = {} \/ Answered(rec, Now)
    BY <1>2, <1>3, <2>10, <2>11 DEF SameFull, Answered, Roles
  <2>13. ASSUME NEW f, f.node = Here,
                f.role = "security" \/ (f.role = Top.role /\ f.pc = "finish")
         PROVE  PastFull(f, rec, c)
    <3> SUFFICES ASSUME Kids[Here] = {}, Here # Anchor,
                        NEW r \in Roles, c[r]["full"] = 1, rec.role[r].full.state = "none"
                 PROVE  r = "semantic" /\ f.role = "security"
      BY <2>13 DEF PastFull
    <3>1. r # Top.role
      BY <2>2, <2>5, <2>6, <2>7
    <3>2. rec.role[r] = Review.role[r]
      BY <3>1, <2>6, <2>7
    <3>3. r = "semantic" /\ Top.role = "security"
      BY <3>1, <3>2, <1>3 DEF PastFull
    <3> QED
      BY <3>3, <2>13
  <2>14. /\ UNCHANGED <<artifacts, moved, trail>> /\ trail \in TrailRecords
         /\ trail.calls = [trail.calls EXCEPT ![Here] = c]
    BY <1>1, <1>2 DEF CandidateInv, CandidateTypes, TrailRecords
  <2>15. ASSUME NEW f \in FrameRecords, f.node = Here, f.pc # "unwind", next = WithTop(f),
                FrameHolds(f, rec, c, Now), RepairKnown(f, trail)
         PROVE  CandidateInv'
    <3>1. Saving([reviews EXCEPT ![Here] = rec], WithTop(f))
      BY <2>4, <2>15
    <3>2. /\ Review.control => rec.control
          /\ rec.role["semantic"].full.gaps \subseteq Gapped(reviews, Here)
          /\ FrameHolds(f, rec, trail.calls[Here], Gapped(reviews, Here))
      BY <2>7, <2>12, <2>15 DEF Now
    <3> HIDE DEF next
    <3> QED
      BY <1>1, <1>3, <2>7, <2>8, <2>9, <2>14, <2>15, <3>1, <3>2, SaveStep
  <2>16. CASE answer = "approved"
    <3>1. PICK f \in FrameRecords :
            /\ Approve(TRUE) = WithTop(f) /\ f.node = Here /\ f.role = "security"
            /\ f.pc = IF Top.role = "semantic" THEN "review" ELSE "publish"
            /\ f.basis = IF Top.role = "semantic"
                         THEN [full |-> TRUE, knows |-> trail.rejected # {}] ELSE Top.basis
      BY <1>1, ApprovedIs
    <3>2. PastFull(f, rec, c)
      BY <3>1, <2>13
    <3>3. FrameHolds(f, rec, c, Now)
      BY <1>1, <2>11, <2>12, <3>1, <3>2, ApprovedFrame
    <3>4. f.pc # "unwind" /\ RepairKnown(f, trail)
      BY <3>1 DEF RepairKnown, EndPlaces
    <3> QED
      BY <2>15, <2>16, <3>1, <3>3, <3>4
  <2>17. CASE answer # "approved"
    <3> DEFINE out == [Review EXCEPT !.status = "failed", !.semantic = "rejected",
                                     !.stop = answer, !.local = local]
               f == [On("finish") EXCEPT !.out = out]
    <3>1. answer \in {"repair", "external"}
      BY <2>17
    <3>2. Ends(out)
      BY <1>2, <3>1
         DEF Ends, ReviewRecords, ReviewStatuses, ReviewStops, ReviewVerdicts, InProgress
    <3>3. Reject(answer, local) = WithTop(f)
      BY DEF Reject
    <3> HIDE DEF out
    <3>4. f \in FrameRecords /\ f.node = Here /\ f.pc = "finish" /\ f.role = Top.role
      BY <1>1, <3>2, FinishIs DEF Ends
    <3>5. PastFull(f, rec, c)
      BY <3>4, <2>13
    <3>6. FrameHolds(f, rec, c, Now) /\ RepairKnown(f, trail)
      BY <1>1, <2>7, <2>11, <3>2, <3>5, FinishFrame
    <3> HIDE DEF f
    <3> QED
      BY <2>15, <2>17, <3>3, <3>4, <3>6
  <2> QED
    BY <2>16, <2>17
<1> QED
  BY <1>5, <1>6

LEMMA ReviewFailsKeeps ==
    ASSUME CandidateAssumption, CandidateInv, ReviewFails
    PROVE  CandidateInv'
<1>1. /\ frames # <<>> /\ Top.pc \notin EndPlaces /\ BlockedBy("retry") /\ trail' = Faulted
      /\ UNCHANGED <<reviews, artifacts, moved>>
  BY DEF ReviewFails, EndPlaces
<1> QED
  BY <1>1, BlockedKeeps DEF ReviewStops

\* A boundary that is crossed ends the gate.
LEMMA CrossKeeps ==
    ASSUME CandidateAssumption, CandidateInv, Cross
    PROVE  CandidateInv'
<1>1. /\ frames # <<>> /\ Top.pc \notin EndPlaces /\ UNCHANGED <<reviews, artifacts, moved>>
  BY DEF Cross, Asking, In, EndPlaces
<1>6. /\ Review \in ReviewRecords /\ InProgress(Review) /\ Here \in ReviewNodes
      /\ CallsCounted(Review, Here, trail.calls[Here])
  BY <1>1, TopFacts DEF EndPlaces
<1>7. trail.calls[Here] \in [Roles -> [Kinds -> Nat]]
  BY <1>1, TopSeen
<1>8. trail \in TrailRecords /\ trail.calls = [trail.calls EXCEPT ![Here] = trail.calls[Here]]
  BY DEF CandidateInv, CandidateTypes, TrailRecords
<1>2. /\ Review \in ReviewRecords /\ InProgress(Review) /\ Here \in ReviewNodes
      /\ CallsCounted(Review, Here, trail.calls[Here])
      /\ trail.calls[Here] \in [Roles -> [Kinds -> Nat]] /\ trail \in TrailRecords
      /\ trail.calls = [trail.calls EXCEPT ![Here] = trail.calls[Here]]
  BY <1>6, <1>7, <1>8
<1>3. ASSUME NEW out, Ends(out), Crossed(out), frames' = WithTop([On("finish") EXCEPT !.out = out]),
             NEW t \in TrailRecords, t.rejected = trail.rejected, t.basis = trail.basis,
             t.calls = trail.calls, trail' = [t EXCEPT !.crossed = TRUE]
      PROVE  CandidateInv'
  <2> DEFINE f == [On("finish") EXCEPT !.out = out]
  <2>1. f \in FrameRecords /\ f.node = Here /\ f.pc = "finish" /\ f.out = out
    BY <1>1, <1>3, FinishIs DEF Ends
  <2>2. FrameHolds(f, Review, trail.calls[Here], Now) /\ RepairKnown(f, trail)
    BY <1>1, <1>3, FinishFrame, FinishPast DEF Ends, SameFull
  <2>3. /\ trail' \in TrailRecords /\ trail'.rejected = trail.rejected
        /\ trail'.basis = trail.basis /\ trail'.calls = trail.calls
    BY <1>3 DEF TrailRecords
  <2>4. frames' = WithTop(f)
    BY <1>3
  <2> HIDE DEF f
  <2> QED
    BY <1>1, <1>2, <1>3, <2>1, <2>2, <2>3, <2>4, MoveStep DEF Now
<1>4. CASE /\ trail' = [Faulted EXCEPT !.crossed = TRUE]
           /\ Finish([Review EXCEPT !.status = "blocked", !.stop = "boundary"])
  <2> DEFINE out == [Review EXCEPT !.status = "blocked", !.stop = "boundary"]
  <2>1. Ends(out) /\ Crossed(out)
    BY <1>2 DEF Ends, Crossed, ReviewRecords, ReviewStatuses, ReviewStops, InProgress
  <2>2. frames' = WithTop([On("finish") EXCEPT !.out = out])
    BY <1>4 DEF Finish
  <2> HIDE DEF out
  <2> QED
    BY <1>2, <1>3, <1>4, <2>1, <2>2, FaultedIs
<1>5. CASE /\ trail' = [trail EXCEPT !.crossed = TRUE]
           /\ Finish([Review EXCEPT !.status = "failed", !.semantic = "approved",
                                    !.security = "rejected", !.stop = "repair"])
  <2> DEFINE out == [Review EXCEPT !.status = "failed", !.semantic = "approved",
                                   !.security = "rejected", !.stop = "repair"]
  <2>1. Ends(out) /\ Crossed(out)
    BY <1>2
       DEF Ends, Crossed, ReviewRecords, ReviewStatuses, ReviewStops, ReviewVerdicts,
           InProgress
  <2>2. frames' = WithTop([On("finish") EXCEPT !.out = out])
    BY <1>5 DEF Finish
  <2> HIDE DEF out
  <2> QED
    BY <1>2, <1>3, <1>5, <2>1, <2>2
<1> QED
  BY <1>4, <1>5 DEF Cross

(***************************************************************************)
(* The evidence of a pass.                                                 *)
(***************************************************************************)
LEMMA ReserveCompletionKeeps ==
    ASSUME CandidateAssumption, CandidateInv, ReserveCompletion
    PROVE  CandidateInv'
<1> DEFINE rec == [Review EXCEPT !.completed = trail.sessions]
           c == trail.calls[Here]
<1>1. /\ frames # <<>> /\ Top.pc = "publish" /\ UNCHANGED <<artifacts, moved, trail>>
      /\ Top.pc \notin EndPlaces /\ Here # Anchor /\ Review.completed = 0
      /\ Saving([reviews EXCEPT ![Here].completed = trail.sessions], frames)
  BY DEF ReserveCompletion, In, EndPlaces
<1>2. /\ Review \in ReviewRecords /\ InProgress(Review) /\ Here \in ReviewNodes
      /\ RoleRefers(Review, Here) /\ LeafKeeps(Review, Here) /\ CallsCounted(Review, Here, c)
      /\ Review.role["semantic"].full.gaps \subseteq Now /\ Top \in FrameRecords /\ Top.node = Here
  BY <1>1, TopFacts DEF Now, EndPlaces, Here
<1>3. /\ FramePlaced(Top) /\ RoundOpen(Top, Review) /\ PastFull(Top, Review, c)
      /\ GapsSeen(Top, Review, Now) /\ AskedUnkept(Top, Review)
  BY <1>1, TopSeen
<1>4. c \in [Roles -> [Kinds -> Nat]]
  BY <1>1, TopSeen
<1>5. trail \in TrailRecords /\ trail.calls = [trail.calls EXCEPT ![Here] = c]
      /\ trail.sessions \in Nat
  BY DEF CandidateInv, CandidateTypes, TrailRecords
<1>6. /\ rec \in ReviewRecords /\ InProgress(rec) /\ rec.gap = Review.gap
      /\ rec.control = Review.control /\ rec.role = Review.role /\ rec.status = Review.status
      /\ [reviews EXCEPT ![Here].completed = trail.sessions] = [reviews EXCEPT ![Here] = rec]
  <2>1. reviews \in [ReviewNodes -> ReviewRecords]
    BY DEF CandidateInv, CandidateTypes
  <2>2. [reviews EXCEPT ![Here].completed = trail.sessions] = [reviews EXCEPT ![Here] = rec]
    BY <1>2, <2>1 DEF Review
  <2> QED
    BY <1>2, <1>5, <2>2 DEF ReviewRecords, InProgress
<1> HIDE DEF rec
<1>7. [reviews EXCEPT ![Here] = rec] \in [ReviewNodes -> ReviewRecords]
      /\ \A n \in Path : [reviews EXCEPT ![Here] = rec][n].semantic = "not_run"
  <2>1. \A n \in Path : InProgress(reviews[n]) /\ n \in ReviewNodes
    BY <1>1, TopFacts DEF EndPlaces
  <2> QED
    BY <1>2, <1>6, <2>1 DEF InProgress, CandidateInv, CandidateTypes
<1>8. Stale \/ (~moved /\ reviews' = [reviews EXCEPT ![Here] = rec] /\ frames' = frames)
  BY <1>1, <1>6, <1>7, SavingIs
<1>9. CASE Stale
  BY <1>1, <1>9, StaleKeeps
<1>10. CASE ~moved /\ reviews' = [reviews EXCEPT ![Here] = rec] /\ frames' = frames
  <2>1. frames' = WithTop(Top)
    BY <1>1, <1>10, TopOnItself
  <2>2. artifacts[Here] = 0 /\ artifacts \in [ReviewNodes -> Nat]
    BY <1>1, <1>2 DEF CandidateInv, CandidateTypes, NodesHold, Review
  <2>3. /\ RoleRefers(rec, Here) /\ LeafKeeps(rec, Here) /\ CallsCounted(rec, Here, c)
        /\ rec.role["semantic"].full.gaps \subseteq Now
    BY <1>2, <1>6
       DEF RoleRefers, LeafKeeps, CallsCounted, ComposedOnce, AgainOnce, FullOnce
  <2>4. FrameHolds(Top, rec, c, Now) /\ RepairKnown(Top, trail)
    <3>1. /\ RoundOpen(Top, rec) /\ PastFull(Top, rec, c) /\ AskedUnkept(Top, rec)
          /\ FrameEnds(Top, rec) /\ RepairKnown(Top, trail)
      BY <1>1, <1>3, <1>6
         DEF RoundOpen, PastFull, AskedUnkept, FrameEnds, RepairKnown, EndPlaces
    <3>2. GapsSeen(Top, rec, Now)
      BY <1>1, <1>3, <1>6 DEF GapsSeen, Answered
    <3> QED
      BY <1>3, <3>1, <3>2 DEF FrameHolds
  <2>6. Within(Top, rec, c)
    BY <1>1, <1>2, <1>4, <1>5, <1>6, <1>10, <2>1, <2>2, <2>3, <2>4 DEF Within, Now
  <2> QED
    BY <2>6, WithinKeeps
<1> QED
  BY <1>8, <1>9, <1>10

LEMMA PublishKeeps ==
    ASSUME CandidateAssumption, CandidateInv, Publish
    PROVE  CandidateInv'
<1> DEFINE out == PassedReview(Review)
           f == [On("finish") EXCEPT !.out = out]
           c == trail.calls[Here]
<1>1. /\ frames # <<>> /\ Top.pc = "publish" /\ UNCHANGED <<reviews, moved, trail>>
      /\ Top.pc \notin EndPlaces /\ (Here # Anchor => Review.completed # 0)
  BY DEF Publish, In, EndPlaces
<1>2. /\ Review \in ReviewRecords /\ InProgress(Review) /\ Here \in ReviewNodes
      /\ RoleRefers(Review, Here) /\ LeafKeeps(Review, Here) /\ CallsCounted(Review, Here, c)
      /\ Review.role["semantic"].full.gaps \subseteq Now
  BY <1>1, TopFacts DEF Now, EndPlaces
<1>3. FramePlaced(Top) /\ GapsSeen(Top, Review, Now) /\ c \in [Roles -> [Kinds -> Nat]]
  BY <1>1, TopSeen
<1>4. /\ trail \in TrailRecords /\ trail.calls = [trail.calls EXCEPT ![Here] = c]
      /\ trail.sessions \in Nat /\ artifacts \in [ReviewNodes -> Nat]
      /\ Here # Anchor /\ artifacts[Here] # 0 => artifacts[Here] = Review.completed
  BY <1>2 DEF CandidateInv, CandidateTypes, TrailRecords, NodesHold, Review
<1>5. CompletedAt \in Nat /\ (Here # Anchor => CompletedAt = Review.completed)
  BY <1>1, <1>2, <1>4 DEF CompletedAt, ReviewRecords
<1>6. artifacts' = [artifacts EXCEPT ![Here] = CompletedAt] /\ frames' = WithTop(f)
  BY <1>1, <1>4, <1>5 DEF Publish, Finish
<1>7. /\ out \in ReviewRecords /\ out.status = "passed" /\ out.semantic = "approved"
      /\ out.security = "approved" /\ out.stop = "none"
      /\ out.completed = Review.completed /\ out.gap = Review.gap
  BY <1>2 DEF PassedReview, ReviewRecords, ReviewStatuses, ReviewVerdicts, InProgress
<1> HIDE DEF out
<1>8. /\ f \in FrameRecords /\ f.node = Here /\ f.pc = "finish" /\ f.role = Top.role
      /\ f.basis = Top.basis /\ f.out = out /\ PastFull(f, Review, c)
  BY <1>1, <1>7, FinishIs, FinishPast
<1> HIDE DEF f
<1>9. FramePlaced(f) /\ RoundOpen(f, Review) /\ AskedUnkept(f, Review)
  BY <1>8 DEF FramePlaced, RoundOpen, AskedUnkept, ChildPlaces
<1>10. FrameEnds(f, Review) /\ RepairKnown(f, trail)
  BY <1>7, <1>8 DEF FrameEnds, RepairKnown
<1>11. GapsSeen(f, Review, Now)
  BY <1>1, <1>3, <1>8 DEF GapsSeen, FramePlaced
<1>12. FrameHolds(f, Review, c, Now)
  BY <1>8, <1>9, <1>10, <1>11 DEF FrameHolds
<1>13. reviews' = [reviews EXCEPT ![Here] = Review]
  BY <1>1, <1>2 DEF Review, CandidateInv, CandidateTypes
<1>14. /\ artifacts' \in [ReviewNodes -> Nat]
       /\ \A n \in ReviewNodes \ {Here} : artifacts'[n] = artifacts[n]
       /\ artifacts'[Here] = CompletedAt
  BY <1>2, <1>4, <1>5, <1>6
<1>15. Within(f, Review, c)
  BY <1>1, <1>2, <1>3, <1>4, <1>5, <1>6, <1>8, <1>10, <1>12, <1>13, <1>14 DEF Within, Now
<1> QED
  BY <1>15, WithinKeeps

(***************************************************************************)
(* A child's gate inside its parent's.                                     *)
(***************************************************************************)
\* The parent keeps a record from now on, and the child has one.
Entered ==
    /\ reviews' \in [ReviewNodes -> ReviewRecords]
    /\ \A n \in ReviewNodes \ {Here, Child} : reviews'[n] = reviews[n]
    /\ \A n \in ReviewNodes :
         /\ reviews'[n].gap = reviews[n].gap /\ reviews'[n].role = reviews[n].role
         /\ reviews'[n].completed = reviews[n].completed /\ reviews'[n].stop = reviews[n].stop
         /\ reviews'[n].semantic = reviews[n].semantic
         /\ reviews'[n].security = reviews[n].security
         /\ reviews[n].control => reviews'[n].control
    /\ InProgress(reviews'[Here]) /\ reviews'[Here].status = Review.status
    /\ InProgress(reviews'[Child]) /\ reviews'[Child].control = reviews[Child].control
    /\ \/ reviews[Child].status = "absent" /\ reviews'[Here].control
       \/ reviews[Child].status = "running" /\ Kids[Child] # {}

LEMMA EnteredKeeps ==
    ASSUME CandidateAssumption, CandidateInv, In("children"), Entered,
           frames' = Into(Child, "returned"), UNCHANGED <<artifacts, moved, trail>>
    PROVE  CandidateInv'
<1> DEFINE f == [Top EXCEPT !.pc = "returned"]
           g == Enter(Child)
           L == Len(frames)
<1>1. frames # <<>> /\ Top.pc = "children" /\ Top.pc \notin EndPlaces
  BY DEF In, EndPlaces
<1>2. /\ Child \in Kids[Here] /\ Child \in ReviewNodes \ {Anchor} /\ Child \notin Path
      /\ Child # Here /\ Kids[Here] # {}
      /\ CallsHold(reviews[Child], Child, trail.calls[Child])
      /\ reviews[Child].status = "absent" => reviews[Child] = NoReview
  BY <1>1, ChildIs DEF ChildPlaces
<1>3. /\ Top = frames[L] /\ Top \in FrameRecords /\ Here \in ReviewNodes /\ InProgress(Review)
      /\ ~AtBoundary /\ Top.node = Here
      /\ Review.role["semantic"].full.gaps \subseteq Now
      /\ \A n \in Path : InProgress(reviews[n])
  BY <1>1, TopFacts DEF EndPlaces, Now, Here
<1>4. FramePlaced(Top) /\ RoundOpen(Top, Review) /\ GapsSeen(Top, Review, Now) /\ Top.role \in Roles
  BY <1>1, TopSeen
<1>5. /\ frames \in Seq(FrameRecords) /\ L \in Nat \ {0} /\ DOMAIN frames = 1..L
      /\ \A i \in 1..L : frames[i] \in FrameRecords
  BY <1>1, TopIsLast DEF CandidateInv, CandidateTypes
<1>6. /\ f \in FrameRecords /\ f.node = Here /\ f.pc = "returned" /\ f.role = Top.role
      /\ f.basis = Top.basis /\ f.todo = Top.todo /\ f.then = Top.then
  BY <1>3 DEF FrameRecords, GatePlaces, ChildPlaces
<1>7. g \in FrameRecords /\ g.node = Child /\ g.pc = "review" /\ g.role = "semantic"
  BY <1>2, EnterIs
<1>8. frames' = Append(WithTop(f), g)
  BY DEF Into
<1> HIDE DEF f, g
<1>9. /\ frames' \in Seq(FrameRecords) /\ Len(frames') = L + 1 /\ frames'[L + 1] = g
      /\ frames'[L] = f /\ \A i \in 1..(L - 1) : frames'[i] = frames[i]
  <2>1. /\ Append(WithTop(f), g) \in Seq(FrameRecords) /\ Len(Append(WithTop(f), g)) = Len(frames) + 1
        /\ Append(WithTop(f), g)[Len(frames) + 1] = g /\ Append(WithTop(f), g)[Len(frames)] = f
        /\ \A i \in 1..(Len(frames) - 1) : Append(WithTop(f), g)[i] = frames[i]
    BY <1>1, <1>5, <1>6, <1>7, PushIs
  <2> QED
    BY <1>8, <2>1
<1> HIDE DEF L
<1>10. \A i \in 1..(L - 1) : /\ frames[i].node \in ReviewNodes /\ frames[i].node # Here
                             /\ frames[i].node # Child
  <2> SUFFICES ASSUME NEW i \in 1..(L - 1)
               PROVE  /\ frames[i].node \in ReviewNodes /\ frames[i].node # Here
                      /\ frames[i].node # Child
    OBVIOUS
  <2>1. i \in 1..L /\ L \in 1..L /\ i # L
    BY <1>5
  <2>2. frames[i].node \in Path
    BY <2>1, <1>5 DEF Path
  <2>3. frames[i].node # frames[L].node
    BY <2>1 DEF CandidateInv, Stacked, L
  <2> QED
    BY <1>2, <1>3, <1>5, <2>1, <2>2, <2>3 DEF FrameRecords
<1>11. /\ frames' # <<>>
       /\ \A i \in 1..L : frames'[i].node = frames[i].node
  BY <1>3, <1>5, <1>6, <1>9
<1>12. \A n \in ReviewNodes : Gapped(reviews', n) = Gapped(reviews, n)
  BY DEF Gapped, Entered, CandidateAssumption
<1>13. /\ \A n \in ReviewNodes : reviews'[n].status # reviews[n].status =>
            n = Child /\ reviews[n].status = "absent" /\ reviews'[n].status = "running"
       /\ reviews[Child].status \in {"absent", "running"}
  BY <1>2, <1>3 DEF Entered, InProgress, Review
<1>14. CandidateTypes'
  BY <1>9 DEF CandidateInv, CandidateTypes, Entered
<1>15. Stacked'
  <2>1. frames'[1].node = Anchor
    BY <1>5, <1>11, <1>1 DEF CandidateInv, Stacked
  <2>2. ASSUME NEW i \in 1..(L + 1), NEW j \in 1..(L + 1), frames'[i].node = frames'[j].node
        PROVE  i = j
    <3>1. \A k \in 1..L : frames'[k].node # Child
      <4> SUFFICES ASSUME NEW k \in 1..L PROVE frames'[k].node # Child
        OBVIOUS
      <4>1. frames[k].node \in Path
        BY <1>5 DEF Path
      <4> QED
        BY <4>1, <1>2, <1>11
    <3>2. frames'[L + 1].node = Child
      BY <1>7, <1>9
    <3>3. CASE i \in 1..L /\ j \in 1..L
      BY <2>2, <3>3, <1>11 DEF CandidateInv, Stacked, L
    <3>4. CASE i = L + 1 \/ j = L + 1
      BY <2>2, <3>1, <3>2, <3>4, <1>5
    <3> QED
      BY <3>3, <3>4, <1>5
  <2>3. ASSUME NEW i \in 1..L
        PROVE  frames'[i].pc = "returned" /\ frames'[i + 1].node \in Kids[frames'[i].node]
    <3>1. CASE i = L
      BY <3>1, <1>2, <1>6, <1>7, <1>9
    <3>2. CASE i # L
      <4>1. i \in 1..(L - 1) /\ i + 1 \in 1..L
        BY <3>2, <1>5
      <4>2. frames[i].pc = "returned" /\ frames[i + 1].node \in Kids[frames[i].node]
        BY <4>1 DEF CandidateInv, Stacked, L
      <4> QED
        BY <4>1, <4>2, <1>9, <1>11
    <3> QED
      BY <3>1, <3>2
  <2>4. ASSUME NEW i \in 1..(L + 1) PROVE InProgress(reviews'[frames'[i].node])
    <3>1. CASE i = L + 1
      BY <3>1, <1>7, <1>9 DEF Entered
    <3>2. CASE i = L
      BY <3>2, <1>6, <1>9 DEF Entered
    <3>3. CASE i # L /\ i # L + 1
      <4>1. i \in 1..(L - 1) /\ i \in 1..L
        BY <3>3, <1>5
      <4>2. frames[i].node \in Path
        BY <4>1, <1>5 DEF Path
      <4> QED
        BY <4>1, <4>2, <1>3, <1>9, <1>10 DEF Entered
    <3> QED
      BY <3>1, <3>2, <3>3
  <2>5. reviews'[Anchor].status # "absent"
    BY <1>1, <1>13 DEF CandidateInv, Stacked, CandidateAssumption
  <2>6. Len(frames') - 1 = L /\ 1..Len(frames') = 1..(L + 1)
    BY <1>5, <1>9
  <2> QED
    BY <2>1, <2>2, <2>3, <2>4, <2>5, <2>6, <1>9 DEF Stacked
<1>16. Blank'
  <2>1. \A n \in ReviewNodes : reviews'[n].status = "absent" => reviews'[n] = reviews[n]
    BY <1>3 DEF Entered, InProgress
  <2>2. reviews'[Anchor].control
    <3> SUFFICES ASSUME ~reviews'[Anchor].control PROVE FALSE
      OBVIOUS
    <3>1. ~reviews[Anchor].control
      BY DEF Entered, CandidateAssumption
    <3>2. \A n \in ReviewNodes \ {Anchor} : reviews[n].status = "absent"
      BY <3>1 DEF CandidateInv, Blank
    <3>3. reviews'[Here].control
      BY <3>2, <1>2 DEF Entered
    <3>4. Here # Anchor
      BY <3>3
    <3> QED
      BY <3>2, <3>4, <1>3 DEF InProgress, Review
  <2> QED
    BY <2>1, <2>2 DEF CandidateInv, Blank
<1>17. NodesHold'
  <2> SUFFICES ASSUME NEW n \in ReviewNodes
               PROVE  /\ RoleRefers(reviews'[n], n) /\ LeafKeeps(reviews'[n], n)
                      /\ CallsHold(reviews'[n], n, trail'.calls[n])
                      /\ reviews'[n].stop # "evidence"
                      /\ reviews'[n].status = "running" => InProgress(reviews'[n])
                      /\ n # Anchor /\ artifacts'[n] # 0 => artifacts'[n] = reviews'[n].completed
                      /\ n # Anchor /\ reviews'[n].semantic = "rejected" => reviews'[n].gap
                      /\ n # Anchor /\ (reviews'[n].gap \/ reviews'[n].stop = "candidate_repair")
                           => trail'.rejected # {}
                      /\ reviews'[n].role["semantic"].full.gaps \subseteq Gapped(reviews', n)
    BY DEF NodesHold
  <2>1. /\ RoleRefers(reviews[n], n) /\ LeafKeeps(reviews[n], n)
        /\ CallsHold(reviews[n], n, trail.calls[n])
        /\ reviews[n].stop # "evidence"
        /\ reviews[n].status = "running" => InProgress(reviews[n])
        /\ n # Anchor /\ artifacts[n] # 0 => artifacts[n] = reviews[n].completed
        /\ n # Anchor /\ reviews[n].semantic = "rejected" => reviews[n].gap
        /\ n # Anchor /\ (reviews[n].gap \/ reviews[n].stop = "candidate_repair")
             => trail.rejected # {}
        /\ reviews[n].role["semantic"].full.gaps \subseteq Gapped(reviews, n)
    BY DEF CandidateInv, NodesHold
  <2>2. /\ reviews'[n].role = reviews[n].role /\ reviews'[n].stop = reviews[n].stop
        /\ reviews'[n].gap = reviews[n].gap /\ reviews'[n].semantic = reviews[n].semantic
        /\ reviews'[n].completed = reviews[n].completed
    BY DEF Entered
  <2>3. LeafKeeps(reviews'[n], n)
    BY <2>1, <1>2 DEF LeafKeeps, Entered
  <2>4. reviews'[n].status = "running" => InProgress(reviews'[n])
    BY <2>1 DEF Entered
  <2>5. RoleRefers(reviews'[n], n)
    BY <2>1, <2>2 DEF RoleRefers
  <2>6. CallsHold(reviews'[n], n, trail'.calls[n])
    <3>1. /\ Ended(reviews[n], n) => Ended(reviews'[n], n)
          /\ reviews[n].status # "absent" => reviews'[n].status # "absent"
      BY <1>13 DEF Ended
    <3> QED
      BY <2>1, <2>2, <3>1, SameCalls
  <2> QED
    BY <2>1, <2>2, <2>3, <2>4, <2>5, <2>6, <1>12
<1>18. FramesHold'
  <2> SUFFICES ASSUME NEW i \in 1..(L + 1)
               PROVE  /\ FrameHolds(frames'[i], reviews'[frames'[i].node],
                                    trail'.calls[frames'[i].node],
                                    Gapped(reviews', frames'[i].node))
                      /\ RepairKnown(frames'[i], trail')
    BY <1>9 DEF FramesHold
  <2>1. CASE i = L
    <3>1. /\ frames'[i] = f /\ f.node = Here /\ trail' = trail /\ Gapped(reviews', Here) = Now
          /\ reviews'[Here].role = Review.role
      BY <2>1, <1>3, <1>6, <1>9, <1>12 DEF Now, Entered, Review
    <3>2. /\ FramePlaced(f) /\ PastFull(f, reviews'[Here], trail.calls[Here])
          /\ FrameEnds(f, reviews'[Here]) /\ AskedUnkept(f, reviews'[Here]) /\ RepairKnown(f, trail)
      BY <1>1, <1>2, <1>3, <1>4, <1>6
         DEF FramePlaced, PastFull, FrameEnds, AskedUnkept, ChildPlaces, EndPlaces,
             RepairKnown
    <3>3. RoundOpen(f, reviews'[Here])
      BY <1>1, <1>4, <1>6, <3>1 DEF RoundOpen, ChildPlaces
    <3>4. GapsSeen(f, reviews'[Here], Now)
      BY <1>1, <1>3, <1>4, <1>6, <3>1 DEF GapsSeen
    <3> QED
      BY <3>1, <3>2, <3>3, <3>4 DEF FrameHolds
  <2>2. CASE i = L + 1
    <3>1. frames'[i] = g /\ g.node = Child /\ trail' = trail
      BY <2>2, <1>7, <1>9
    <3>2. PastFull(g, reviews'[Child], trail.calls[Child])
      <4> SUFFICES ASSUME Kids[Child] = {}, NEW r \in Roles,
                          trail.calls[Child][r]["full"] = 1, reviews'[Child].role[r].full.state = "none"
                   PROVE  FALSE
        BY <1>7 DEF PastFull
      <4>1. reviews[Child].status = "absent"
        BY DEF Entered
      <4>2. FullOnce(reviews[Child], Child, trail.calls[Child], r)
        BY <1>2, <4>1 DEF CallsHold, Ended, CallsCounted
      <4> QED
        BY <1>2, <4>1, <4>2 DEF FullOnce, Entered
    <3>3. /\ FramePlaced(g) /\ RoundOpen(g, reviews'[Child])
          /\ FrameEnds(g, reviews'[Child]) /\ AskedUnkept(g, reviews'[Child])
          /\ GapsSeen(g, reviews'[Child], Gapped(reviews', Child)) /\ RepairKnown(g, trail)
      BY <1>7
         DEF FramePlaced, RoundOpen, FrameEnds, AskedUnkept, GapsSeen, ChildPlaces, EndPlaces,
                  RepairKnown
    <3> QED
      BY <3>1, <3>2, <3>3 DEF FrameHolds
  <2>3. CASE i # L /\ i # L + 1
    <3>1. i \in 1..(L - 1) /\ i \in 1..L
      BY <2>3, <1>5
    <3>2. /\ frames'[i] = frames[i] /\ reviews'[frames[i].node] = reviews[frames[i].node]
          /\ Gapped(reviews', frames[i].node) = Gapped(reviews, frames[i].node)
          /\ trail' = trail
      BY <3>1, <1>9, <1>10, <1>12 DEF Entered
    <3> QED
      BY <3>1, <3>2 DEF CandidateInv, FramesHold, L
  <2> QED
    BY <2>1, <2>2, <2>3
<1>19. CrossingOK'
  <2>1. ~AtBoundary'
    <3>1. DOMAIN reviews = ReviewNodes /\ DOMAIN reviews' = ReviewNodes
      BY DEF Entered, CandidateInv, CandidateTypes
    <3>2. ASSUME NEW n \in ReviewNodes PROVE ~Crossed(reviews'[n])
      <4>1. ~Crossed(reviews[n])
        BY <1>3, <3>1 DEF AtBoundary
      <4>2. /\ reviews'[n].security = reviews[n].security /\ reviews'[n].stop = reviews[n].stop
            /\ reviews'[n].status \in {reviews[n].status, "running"}
        BY <1>13 DEF Entered
      <4> QED
        BY <4>1, <4>2 DEF Crossed
    <3> QED
      BY <3>1, <3>2 DEF AtBoundary
  <2>2. frames'[Len(frames')] = g
    BY <1>5, <1>9
  <2> QED
    BY <2>1, <2>2, <1>3, <1>7, <1>11 DEF CrossingOK
<1>20. RejectedOK'
  <2>1. \A n \in ReviewNodes : /\ reviews'[n].status = "passed" <=> reviews[n].status = "passed"
                               /\ reviews[n].status = "failed" => reviews'[n].status = "failed"
                               /\ reviews'[n].gap = reviews[n].gap
    BY <1>13 DEF Entered
  <2>2. trail.rejected \subseteq ReviewNodes /\ Anchor \in ReviewNodes
    BY DEF CandidateInv, CandidateTypes, TrailRecords, CandidateAssumption
  <2> QED
    BY <2>1, <2>2, <1>12 DEF CandidateInv, RejectedOK
<1> QED
  BY <1>14, <1>15, <1>16, <1>17, <1>18, <1>19, <1>20 DEF CandidateInv

LEMMA ReviewChildKeeps ==
    ASSUME CandidateAssumption, CandidateInv, ReviewChild
    PROVE  CandidateInv'
<1>1. /\ In("children") /\ frames # <<>> /\ Top.pc = "children" /\ Top.pc \notin EndPlaces
      /\ UNCHANGED <<artifacts, moved, trail>>
  BY DEF ReviewChild, In, EndPlaces
<1>2. /\ Child \in ReviewNodes \ {Anchor} /\ Child # Here /\ Child \notin Path
      /\ reviews[Child].status = "absent" => reviews[Child] = NoReview
      /\ reviews[Child].status = "running" => InProgress(reviews[Child])
  BY <1>1, ChildIs DEF ChildPlaces
<1>3. /\ Here \in ReviewNodes /\ Review \in ReviewRecords /\ InProgress(Review)
      /\ \A n \in Path : InProgress(reviews[n]) /\ n \in ReviewNodes
      /\ reviews \in [ReviewNodes -> ReviewRecords] /\ Here \in Path
  BY <1>1, TopFacts DEF EndPlaces, CandidateInv, CandidateTypes
<1>4. CASE BlockedBy("budget") /\ UNCHANGED reviews
  BY <1>1, <1>4, BlockedKeeps DEF ReviewStops
<1>5. CASE frames' = WithTop([Top EXCEPT !.pc = "settled"]) /\ UNCHANGED reviews
  BY <1>1, <1>5, SettledKeeps
<1>6. CASE /\ reviews[Child].status = "running" /\ Kids[Child] # {}
           /\ frames' = Into(Child, "returned") /\ UNCHANGED reviews
  <2>1. Entered
    BY <1>2, <1>3, <1>6 DEF Entered, Review
  <2> QED
    BY <1>1, <1>6, <2>1, EnteredKeeps
<1>7. CASE /\ reviews[Child].status = "absent"
           /\ Saving([reviews EXCEPT ![Here].control = TRUE, ![Child] = RunningReview],
                     Into(Child, "returned"))
  <2> DEFINE rec == [Review EXCEPT !.control = TRUE]
             rs == [reviews EXCEPT ![Here].control = TRUE, ![Child] = RunningReview]
  <2>1. /\ rec \in ReviewRecords /\ InProgress(rec) /\ rec.control /\ rec.status = Review.status
        /\ rec.gap = Review.gap /\ rec.role = Review.role /\ rec.completed = Review.completed
        /\ rec.stop = Review.stop /\ rec.semantic = Review.semantic
        /\ rec.security = Review.security
    BY <1>3 DEF ReviewRecords, InProgress
  <2>2. /\ RunningReview \in ReviewRecords /\ InProgress(RunningReview)
        /\ RunningReview.gap = NoReview.gap /\ RunningReview.role = NoReview.role
        /\ RunningReview.completed = NoReview.completed /\ RunningReview.stop = NoReview.stop
        /\ RunningReview.semantic = NoReview.semantic
        /\ RunningReview.security = NoReview.security
        /\ RunningReview.control = NoReview.control
    <3>1. NoReview \in ReviewRecords
      BY <1>2, EnterIs
    <3>2. /\ NoReview.semantic = "not_run" /\ NoReview.security = "not_run"
          /\ NoReview.stop = "none"
      BY DEF NoReview
    <3>3. RunningReview = [NoReview EXCEPT !.status = "running"]
      BY DEF RunningReview
    <3> QED
      BY <3>1, <3>2, <3>3 DEF ReviewRecords, ReviewStatuses, InProgress
  <2>3. rs = [[reviews EXCEPT ![Here] = rec] EXCEPT ![Child] = RunningReview]
    BY <1>2, <1>3 DEF Review
  <2> HIDE DEF rec
  <2>4. /\ rs \in [ReviewNodes -> ReviewRecords] /\ rs[Here] = rec /\ rs[Child] = RunningReview
        /\ \A n \in ReviewNodes \ {Here, Child} : rs[n] = reviews[n]
    BY <1>2, <1>3, <2>1, <2>2, <2>3
  <2>5. Saving(rs, Into(Child, "returned"))
    BY <1>7
  <2> HIDE DEF rs
  <2>6. \A n \in Path : rs[n].semantic = "not_run"
    BY <1>2, <1>3, <2>1, <2>4 DEF InProgress
  <2>7. Stale \/ (~moved /\ reviews' = rs /\ frames' = Into(Child, "returned"))
    BY <1>1, <2>4, <2>5, <2>6, SavingIs
  <2>8. CASE Stale
    BY <1>1, <2>8, StaleKeeps
  <2>9. CASE reviews' = rs /\ frames' = Into(Child, "returned")
    <3>1. reviews'[Here] = rec /\ reviews'[Child] = RunningReview /\ reviews[Child] = NoReview
          /\ reviews[Here] = Review
      BY <1>2, <1>7, <2>4, <2>9 DEF Review
    <3>2. Entered
      <4>1. ASSUME NEW n \in ReviewNodes
            PROVE  /\ reviews'[n].gap = reviews[n].gap /\ reviews'[n].role = reviews[n].role
                   /\ reviews'[n].completed = reviews[n].completed
                   /\ reviews'[n].stop = reviews[n].stop
                   /\ reviews'[n].semantic = reviews[n].semantic
                   /\ reviews'[n].security = reviews[n].security
                   /\ reviews[n].control => reviews'[n].control
        BY <3>1, <2>1, <2>2, <2>4, <2>9
      <4> QED
        BY <3>1, <4>1, <1>7, <2>1, <2>2, <2>4, <2>9 DEF Entered
    <3> QED
      BY <1>1, <2>9, <3>2, EnteredKeeps
  <2> QED
    BY <2>7, <2>8, <2>9
<1> QED
  BY <1>4, <1>5, <1>6, <1>7 DEF ReviewChild, Present

(***************************************************************************)
(* The end of a gate.                                                      *)
(***************************************************************************)
Outcome == [Top.out EXCEPT !.control = Review.control, !.role = Kept, !.gap = Review.gap,
                           !.completed = Review.completed]
Rejects == Top.out.semantic = "rejected"

LEMMA OutcomeIs ==
    ASSUME CandidateAssumption, CandidateInv, In("finish")
    PROVE  /\ Accepted(Top.out) = Top.out
           /\ Outcome \in ReviewRecords
           /\ Outcome.control = Review.control /\ Outcome.role = Kept
           /\ Outcome.gap = Review.gap /\ Outcome.completed = Review.completed
           /\ Outcome.status = Top.out.status /\ Outcome.semantic = Top.out.semantic
           /\ Outcome.security = Top.out.security /\ Outcome.stop = Top.out.stop
           /\ Outcome.status \in {"passed", "failed", "blocked"}
           /\ Outcome.stop # "evidence" /\ Kept \in [Roles -> RoleRecords]
           /\ Rejects => Outcome.status = "failed"
           /\ Outcome.stop = "candidate_repair" => Rejects /\ trail.rejected # {}
           /\ Outcome.status = "passed" => /\ ~Rejects /\ Top.role = "security"
                                           /\ Now = {} \/ Answered(Review, Now)
           /\ RoleRefers(Outcome, Here)
           /\ Kept["semantic"].full = Review.role["semantic"].full
<1>1. frames # <<>> /\ Top.pc = "finish"
  BY DEF In
<1>2. /\ Top \in FrameRecords /\ Top = frames[Len(frames)] /\ Review \in ReviewRecords
      /\ RoleRefers(Review, Here) /\ Gaps(Here) = Now /\ (Covers(Here) <=> Answered(Review, Now))
  BY <1>1, TopFacts DEF Now
<1>3. FrameEnds(Top, Review) /\ GapsSeen(Top, Review, Now)
  BY <1>1, TopSeen
<1>4. RepairKnown(Top, trail)
  BY <1>1, <1>2, TopIsLast DEF CandidateInv, CandidateTypes, FramesHold
<1>5. Top.out \in ReviewRecords
  BY <1>2 DEF FrameRecords
<1>6. Accepted(Top.out) = Top.out
  BY <1>1, <1>2, <1>3 DEF Accepted, GapsSeen
<1>7. Kept \in [Roles -> RoleRecords]
      /\ \A r \in Roles : /\ Kept[r].full = Review.role[r].full
                          /\ Kept[r].refresh \subseteq Review.role[r].refresh
                          /\ Kept[r].composed.required \subseteq Review.role[r].composed.required
  <2>1. CASE Here = Anchor
    BY <1>2, <2>1 DEF Kept, ReviewRecords
  <2>2. CASE Here # Anchor
    <3>1. Kept = [r \in Roles |-> [NoRole EXCEPT !.full = Review.role[r].full]]
      BY <2>2 DEF Kept
    <3>2. NoRole \in RoleRecords /\ NoRole.refresh = {} /\ NoRole.composed.required = {}
      BY DEF NoRole, NoResult, NoFull, RoleRecords, ReviewResults, FullReviews
    <3>3. ASSUME NEW r \in Roles
          PROVE  /\ Kept[r] \in RoleRecords /\ Kept[r].full = Review.role[r].full
                 /\ Kept[r].refresh = {} /\ Kept[r].composed.required = {}
      <4>1. Review.role[r].full \in FullReviews
        BY <1>2 DEF ReviewRecords, RoleRecords
      <4>2. Kept[r] = [NoRole EXCEPT !.full = Review.role[r].full]
        BY <3>1
      <4> QED
        BY <3>2, <4>1, <4>2 DEF RoleRecords
    <3>4. Kept \in [Roles -> RoleRecords]
      BY <3>1, <3>3
    <3> QED
      BY <3>3, <3>4
  <2> QED
    BY <2>1, <2>2
<1>8. /\ Outcome \in ReviewRecords
      /\ Outcome.control = Review.control /\ Outcome.role = Kept
      /\ Outcome.gap = Review.gap /\ Outcome.completed = Review.completed
      /\ Outcome.status = Top.out.status /\ Outcome.semantic = Top.out.semantic
      /\ Outcome.security = Top.out.security /\ Outcome.stop = Top.out.stop
  BY <1>2, <1>5, <1>7 DEF Outcome, ReviewRecords
<1>9. /\ Outcome.status \in {"passed", "failed", "blocked"} /\ Outcome.stop # "evidence"
      /\ Rejects => Outcome.status = "failed"
      /\ Outcome.stop = "candidate_repair" => Rejects /\ trail.rejected # {}
  BY <1>1, <1>3, <1>4, <1>8 DEF FrameEnds, RepairKnown, EndPlaces, Rejects
<1>10. Outcome.status = "passed" => /\ ~Rejects /\ Top.role = "security"
                                    /\ Now = {} \/ Answered(Review, Now)
  BY <1>1, <1>3, <1>8, <1>9 DEF GapsSeen
<1>11. RoleRefers(Outcome, Here)
  BY <1>2, <1>7, <1>8 DEF RoleRefers
<1> QED
  BY <1>6, <1>7, <1>8, <1>9, <1>10, <1>11 DEF Roles

\* What the save leaves in the records: the outcome, and a gap in every
\* enclosing one if it is a rejection.
LEMMA LatchedIs ==
    ASSUME CandidateAssumption, CandidateInv, In("finish"),
           reviews' = Latched([reviews EXCEPT ![Here] = Outcome])
    PROVE  /\ reviews' \in [ReviewNodes -> ReviewRecords]
           /\ \A n \in ReviewNodes : LET r == IF n = Here THEN Outcome ELSE reviews[n] IN
                /\ reviews'[n] = r \/ (n \in Path \ {Anchor} /\ Rejects)
                /\ reviews'[n].status = r.status /\ reviews'[n].semantic = r.semantic
                /\ reviews'[n].security = r.security /\ reviews'[n].stop = r.stop
                /\ reviews'[n].role = r.role /\ reviews'[n].control = r.control
                /\ reviews'[n].completed = r.completed
                /\ reviews'[n].gap <=> (reviews[n].gap \/ (Rejects /\ n \in Path \ {Anchor}))
<1> DEFINE rs == [reviews EXCEPT ![Here] = Outcome]
<1>1. /\ frames # <<>> /\ Top.pc = "finish" /\ Here \in ReviewNodes
      /\ \A n \in Path : InProgress(reviews[n])
      /\ Outcome \in ReviewRecords /\ Outcome.semantic = Top.out.semantic
      /\ Outcome.gap = Review.gap
  BY OutcomeIs, TopFacts DEF In
<1>2. rs \in [ReviewNodes -> ReviewRecords]
  BY <1>1 DEF CandidateInv, CandidateTypes
<1>3. rs[Here] = Outcome /\ \A n \in ReviewNodes \ {Here} : rs[n] = reviews[n]
  BY <1>1 DEF CandidateInv, CandidateTypes
<1>4. reviews' = [n \in ReviewNodes |->
                    IF n \in Path \ {Anchor} /\ (rs[n].semantic = "rejected" \/ rs[Here].semantic = "rejected")
                    THEN [rs[n] EXCEPT !.gap = TRUE] ELSE rs[n]]
  BY DEF Latched
<1> HIDE DEF rs
<1>5. \A n \in Path \cap ReviewNodes : rs[n].semantic = "rejected" => Rejects
  BY <1>1, <1>3 DEF InProgress, Rejects
<1>6. rs[Here].semantic = "rejected" <=> Rejects
  BY <1>1, <1>3 DEF Rejects
<1>7. ASSUME NEW n \in ReviewNodes
      PROVE  reviews'[n] = IF n \in Path \ {Anchor} /\ Rejects THEN [rs[n] EXCEPT !.gap = TRUE] ELSE rs[n]
  BY <1>4, <1>5, <1>6
<1>8. ASSUME NEW n \in ReviewNodes
      PROVE  /\ reviews'[n] \in ReviewRecords
             /\ reviews'[n] = rs[n] \/ (n \in Path \ {Anchor} /\ Rejects)
             /\ reviews'[n].status = rs[n].status /\ reviews'[n].semantic = rs[n].semantic
             /\ reviews'[n].security = rs[n].security /\ reviews'[n].stop = rs[n].stop
             /\ reviews'[n].role = rs[n].role /\ reviews'[n].control = rs[n].control
             /\ reviews'[n].completed = rs[n].completed
             /\ reviews'[n].gap <=> (rs[n].gap \/ (Rejects /\ n \in Path \ {Anchor}))
  <2>1. rs[n] \in ReviewRecords
    BY <1>2
  <2>2. CASE n \in Path \ {Anchor} /\ Rejects
    <3>1. reviews'[n] = [rs[n] EXCEPT !.gap = TRUE]
      BY <1>7, <2>2
    <3> QED
      BY <2>1, <2>2, <3>1 DEF ReviewRecords
  <2>3. CASE ~(n \in Path \ {Anchor} /\ Rejects)
    BY <1>7, <2>1, <2>3
  <2> QED
    BY <2>2, <2>3
<1>9. \A n \in ReviewNodes : /\ rs[n] = IF n = Here THEN Outcome ELSE reviews[n]
                             /\ rs[n].gap = reviews[n].gap
  BY <1>1, <1>3 DEF Review
<1>10. reviews' \in [ReviewNodes -> ReviewRecords]
  BY <1>4, <1>8
<1>11. ASSUME NEW n \in ReviewNodes
       PROVE  LET r == IF n = Here THEN Outcome ELSE reviews[n] IN
                /\ reviews'[n] = r \/ (n \in Path \ {Anchor} /\ Rejects)
                /\ reviews'[n].status = r.status /\ reviews'[n].semantic = r.semantic
                /\ reviews'[n].security = r.security /\ reviews'[n].stop = r.stop
                /\ reviews'[n].role = r.role /\ reviews'[n].control = r.control
                /\ reviews'[n].completed = r.completed
                /\ reviews'[n].gap <=> (reviews[n].gap \/ (Rejects /\ n \in Path \ {Anchor}))
  <2> DEFINE r == IF n = Here THEN Outcome ELSE reviews[n]
  <2>1. rs[n] = r /\ rs[n].gap = reviews[n].gap
    BY <1>9
  <2> HIDE DEF r
  <2>2. /\ reviews'[n] = r \/ (n \in Path \ {Anchor} /\ Rejects)
        /\ reviews'[n].status = r.status /\ reviews'[n].semantic = r.semantic
        /\ reviews'[n].security = r.security /\ reviews'[n].stop = r.stop
        /\ reviews'[n].role = r.role /\ reviews'[n].control = r.control
        /\ reviews'[n].completed = r.completed
        /\ reviews'[n].gap <=> (reviews[n].gap \/ (Rejects /\ n \in Path \ {Anchor}))
    BY <1>8, <2>1
  <2> QED
    BY <2>2 DEF r
<1> QED
  BY <1>10, <1>11

LEMMA EndGateKeeps ==
    ASSUME CandidateAssumption, CandidateInv, In("finish"), ~Crossed(Top.out), EndGate
    PROVE  CandidateInv'
<1> DEFINE L == Len(frames)
           added == IF Rejects /\ Outcome.stop # "candidate_repair" THEN {Here} ELSE {}
           calls == IF Here = Anchor THEN trail.calls[Here] ELSE SpentCalls
<1>1. /\ frames # <<>> /\ Top.pc = "finish" /\ UNCHANGED <<artifacts, moved>>
      /\ Top = frames[L] /\ Top \in FrameRecords /\ Here \in ReviewNodes
      /\ Here \in Path /\ Path \subseteq ReviewNodes /\ Anchor \in Path /\ ~AtBoundary
      /\ \A n \in Path : InProgress(reviews[n])
      /\ Kids[Here] \cap Path = {} /\ Kids[Here] \subseteq ReviewNodes \ {Anchor}
      /\ Review.role["semantic"].full.gaps \subseteq Now /\ LeafKeeps(Review, Here)
      /\ CallsCounted(Review, Here, trail.calls[Here])
  BY TopFacts DEF In, EndGate, Now
<1>2. /\ frames \in Seq(FrameRecords) /\ L \in Nat \ {0} /\ DOMAIN frames = 1..L
      /\ \A i \in 1..L : frames[i] \in FrameRecords
      /\ trail \in TrailRecords /\ reviews \in [ReviewNodes -> ReviewRecords]
  BY <1>1, TopIsLast DEF CandidateInv, CandidateTypes
<1>4. /\ Outcome \in ReviewRecords /\ Outcome.control = Review.control /\ Outcome.role = Kept
      /\ Outcome.completed = Review.completed
      /\ Outcome.status \in {"passed", "failed", "blocked"}
      /\ Outcome.stop # "evidence"
      /\ Rejects => Outcome.status = "failed"
      /\ Outcome.stop = "candidate_repair" => Rejects /\ trail.rejected # {}
      /\ Outcome.status = "passed" => /\ ~Rejects /\ Top.role = "security"
                                      /\ Now = {} \/ Answered(Review, Now)
      /\ RoleRefers(Outcome, Here)
      /\ Kept["semantic"].full = Review.role["semantic"].full
      /\ Outcome.semantic = "rejected" <=> Rejects
      /\ ~Crossed(Outcome)
  BY OutcomeIs DEF Rejects, Crossed
<1>5. /\ Saving([reviews EXCEPT ![Here] = Outcome], Front(frames))
      /\ trail' = IF moved THEN trail
                  ELSE [trail EXCEPT !.rejected = IF Outcome.semantic = "rejected" /\ Outcome.stop # "candidate_repair"
                                                  THEN @ \cup {Here} ELSE @,
                                     !.basis[Here] = Top.basis,
                                     !.calls[Here] = IF Here = Anchor THEN @ ELSE SpentCalls]
  BY OutcomeIs DEF EndGate, Outcome
<1>6. CASE moved
  <2>1. Stale /\ trail' = trail
    BY <1>5, <1>6 DEF Saving, Stale
  <2>2. Abandons
    BY <1>1, <1>2, <2>1 DEF Abandons, Stale
  <2> QED
    BY <2>2, AbandonKeeps
<1>7. CASE ~moved
  <2>1. reviews' = Latched([reviews EXCEPT ![Here] = Outcome]) /\ frames' = Front(frames)
    BY <1>5, <1>7 DEF Saving
  <2>2. /\ frames' \in Seq(FrameRecords) /\ Len(frames') = L - 1
        /\ \A i \in 1..(L - 1) : frames'[i] = frames[i]
    BY <1>1, <1>2, <2>1, FrontIs
  <2>3. /\ reviews' \in [ReviewNodes -> ReviewRecords]
        /\ \A n \in ReviewNodes : LET r == IF n = Here THEN Outcome ELSE reviews[n] IN
             /\ reviews'[n] = r \/ (n \in Path \ {Anchor} /\ Rejects)
             /\ reviews'[n].status = r.status /\ reviews'[n].semantic = r.semantic
             /\ reviews'[n].security = r.security /\ reviews'[n].stop = r.stop
             /\ reviews'[n].role = r.role /\ reviews'[n].control = r.control
             /\ reviews'[n].completed = r.completed
             /\ reviews'[n].gap <=> (reviews[n].gap \/ (Rejects /\ n \in Path \ {Anchor}))
    BY <2>1, LatchedIs
  <2>4. /\ trail' \in TrailRecords /\ trail'.rejected = trail.rejected \cup added
        /\ trail'.basis = [trail.basis EXCEPT ![Here] = Top.basis]
        /\ trail'.calls = [trail.calls EXCEPT ![Here] = calls]
    <3>1. /\ calls \in [Roles -> [Kinds -> Nat]] /\ added \subseteq ReviewNodes
          /\ Top.basis \in BasisRecords
      BY <1>1, <1>2 DEF TrailRecords, FrameRecords, SpentCalls, Kinds
    <3> DEFINE b == [trail.basis EXCEPT ![Here] = Top.basis]
               cs == [trail.calls EXCEPT ![Here] = calls]
               js == trail.rejected \cup added
    <3>2. trail' = [trail EXCEPT !.rejected = js, !.basis = b, !.calls = cs]
      <4>1. (IF Outcome.semantic = "rejected" /\ Outcome.stop # "candidate_repair"
             THEN trail.rejected \cup {Here} ELSE trail.rejected) = js
        BY <1>4
      <4>2. trail' = [trail EXCEPT !.rejected = IF Outcome.semantic = "rejected" /\ Outcome.stop # "candidate_repair"
                                                  THEN @ \cup {Here} ELSE @,
                                   !.basis[Here] = Top.basis,
                                   !.calls[Here] = IF Here = Anchor THEN @ ELSE SpentCalls]
        BY <1>5, <1>7
      <4> HIDE DEF js
      <4> QED
        BY <4>1, <4>2, <1>1, <1>2 DEF TrailRecords
    <3>3. js \subseteq ReviewNodes /\ b \in [ReviewNodes -> BasisRecords]
          /\ cs \in [ReviewNodes -> [Roles -> [Kinds -> Nat]]]
      <4> HIDE DEF calls, added
      <4> QED
        BY <1>1, <1>2, <3>1 DEF TrailRecords
    <3> HIDE DEF b, cs, js
    <3>4. /\ trail' \in TrailRecords /\ trail'.rejected = js /\ trail'.basis = b
          /\ trail'.calls = cs
      BY <1>2, <3>2, <3>3 DEF TrailRecords
    <3> QED
      BY <3>4 DEF b, cs, js
  <2> HIDE DEF calls
  <2>5. /\ trail'.basis[Here] = Top.basis /\ trail'.calls[Here] = calls
        /\ \A n \in ReviewNodes \ {Here} : /\ trail'.basis[n] = trail.basis[n]
                                           /\ trail'.calls[n] = trail.calls[n]
    BY <1>1, <1>2, <2>4 DEF TrailRecords
  <2>6. \A i \in 1..(L - 1) : /\ i \in 1..L /\ frames[i].node \in ReviewNodes
                              /\ frames[i].node \in Path /\ frames[i].node # Here
                              /\ frames[i].pc = "returned"
    <3> SUFFICES ASSUME NEW i \in 1..(L - 1)
                 PROVE  /\ i \in 1..L /\ frames[i].node \in ReviewNodes
                        /\ frames[i].node \in Path /\ frames[i].node # Here
                        /\ frames[i].pc = "returned"
      OBVIOUS
    <3>0. L \in Nat \ {0}
      BY <1>2
    <3> HIDE DEF L
    <3>1. i \in 1..L /\ L \in 1..L /\ i # L
      BY <3>0
    <3> USE DEF L
    <3>2. frames[i].node \in Path
      BY <3>1, <1>2 DEF Path
    <3>3. frames[i].node # frames[L].node /\ frames[i].pc = "returned"
      BY <3>1 DEF CandidateInv, Stacked
    <3> QED
      BY <1>1, <3>1, <3>2, <3>3 DEF Here
  <2> HIDE DEF L
  <2>7. \A n \in ReviewNodes : Gapped(reviews, n) \subseteq Gapped(reviews', n)
    BY <2>3 DEF Gapped, CandidateAssumption
  <2>8. trail.rejected \subseteq trail'.rejected
        /\ (Rejects => trail'.rejected # {})
    BY <1>4, <2>4
  <2>9. /\ reviews'[Here].status = Outcome.status /\ reviews'[Here].stop = Outcome.stop
        /\ reviews'[Here].semantic = Outcome.semantic /\ reviews'[Here].role = Kept
        /\ reviews'[Here].control = Review.control
        /\ reviews'[Here].completed = Review.completed
        /\ reviews'[Here].gap <=> (Review.gap \/ (Rejects /\ Here # Anchor))
    <3>1. \A n \in ReviewNodes : n = Here =>
            /\ reviews'[n].status = Outcome.status /\ reviews'[n].semantic = Outcome.semantic
            /\ reviews'[n].stop = Outcome.stop
            /\ reviews'[n].role = Outcome.role /\ reviews'[n].control = Outcome.control
            /\ reviews'[n].completed = Outcome.completed
            /\ reviews'[n].gap <=> (reviews[n].gap \/ (Rejects /\ n \in Path \ {Anchor}))
      BY <2>3
    <3> QED
      BY <3>1, <1>1, <1>4 DEF Review
  <2>10. \A n \in ReviewNodes \ {Here} :
           /\ reviews'[n] = reviews[n] \/ (n \in Path \ {Anchor} /\ Rejects)
           /\ reviews'[n].status = reviews[n].status /\ reviews'[n].semantic = reviews[n].semantic
           /\ reviews'[n].security = reviews[n].security /\ reviews'[n].stop = reviews[n].stop
           /\ reviews'[n].role = reviews[n].role /\ reviews'[n].control = reviews[n].control
           /\ reviews'[n].completed = reviews[n].completed
           /\ reviews'[n].gap <=> (reviews[n].gap \/ (Rejects /\ n \in Path \ {Anchor}))
    BY <2>3
  <2>11. CandidateTypes'
    BY <1>1, <2>2, <2>3, <2>4 DEF CandidateInv, CandidateTypes
  <2>12. \A i \in 1..(L - 1) : InProgress(reviews'[frames[i].node])
    BY <1>1, <2>6, <2>10 DEF InProgress
  <2>13. Stacked'
    <3>1. \A i \in 1..((L - 1) - 1) :
            frames'[i].pc = "returned" /\ frames'[i + 1].node \in Kids[frames'[i].node]
      <4> SUFFICES ASSUME NEW i \in 1..((L - 1) - 1)
                   PROVE  frames'[i].pc = "returned" /\ frames'[i + 1].node \in Kids[frames'[i].node]
        OBVIOUS
      <4>1. i \in 1..(L - 1) /\ i + 1 \in 1..(L - 1)
        BY <1>2
      <4> QED
        BY <4>1, <2>2 DEF CandidateInv, Stacked, L
    <3>2. frames' # <<>> => 1 \in 1..(L - 1) /\ frames'[1] = frames[1] /\ frames[1].node = Anchor
      BY <1>1, <1>2, <2>2 DEF CandidateInv, Stacked
    <3>3. frames' # <<>> => reviews'[Anchor].status # "absent"
      BY <3>2, <2>12 DEF InProgress
    <3>4. \A i, j \in 1..(L - 1) : frames'[i].node = frames'[j].node => i = j
      BY <2>2, <2>6 DEF CandidateInv, Stacked, L
    <3> QED
      BY <2>2, <2>12, <3>1, <3>2, <3>3, <3>4 DEF Stacked
  <2>14. Blank'
    <3>1. ASSUME NEW n \in ReviewNodes, reviews'[n].status = "absent" PROVE reviews'[n] = NoReview
      <4>1. n # Here
        BY <3>1, <1>4, <2>9
      <4>2. reviews[n].status = "absent" /\ n \notin Path
        BY <3>1, <4>1, <1>1, <2>10 DEF InProgress
      <4>3. reviews'[n] = reviews[n]
        BY <4>1, <4>2, <2>10
      <4> QED
        BY <4>2, <4>3 DEF CandidateInv, Blank
    <3>2. ASSUME ~reviews'[Anchor].control, NEW n \in ReviewNodes \ {Anchor}
          PROVE  reviews'[n].status = "absent"
      <4>1. ~reviews[Anchor].control
        BY <3>2, <2>9, <2>10, <1>1 DEF Review
      <4>2. \A m \in ReviewNodes \ {Anchor} : reviews[m].status = "absent"
        BY <4>1 DEF CandidateInv, Blank
      <4>3. n # Here
        BY <4>2, <1>1 DEF InProgress
      <4> QED
        BY <4>2, <4>3, <2>10
    <3> QED
      BY <3>1, <3>2 DEF Blank
  <2>15. NodesHold'
    <3> SUFFICES ASSUME NEW n \in ReviewNodes
                 PROVE  /\ RoleRefers(reviews'[n], n) /\ LeafKeeps(reviews'[n], n)
                        /\ CallsHold(reviews'[n], n, trail'.calls[n])
                        /\ reviews'[n].stop # "evidence"
                        /\ reviews'[n].status = "running" => InProgress(reviews'[n])
                        /\ n # Anchor /\ artifacts'[n] # 0 => artifacts'[n] = reviews'[n].completed
                        /\ n # Anchor /\ reviews'[n].semantic = "rejected" => reviews'[n].gap
                        /\ n # Anchor /\ (reviews'[n].gap \/ reviews'[n].stop = "candidate_repair")
                             => trail'.rejected # {}
                        /\ reviews'[n].role["semantic"].full.gaps \subseteq Gapped(reviews', n)
      BY DEF NodesHold
    <3>1. /\ RoleRefers(reviews[n], n) /\ LeafKeeps(reviews[n], n)
          /\ CallsHold(reviews[n], n, trail.calls[n])
          /\ reviews[n].stop # "evidence"
          /\ reviews[n].status = "running" => InProgress(reviews[n])
          /\ n # Anchor /\ artifacts[n] # 0 => artifacts[n] = reviews[n].completed
          /\ n # Anchor /\ reviews[n].semantic = "rejected" => reviews[n].gap
          /\ n # Anchor /\ (reviews[n].gap \/ reviews[n].stop = "candidate_repair")
               => trail.rejected # {}
          /\ reviews[n].role["semantic"].full.gaps \subseteq Gapped(reviews, n)
      BY DEF CandidateInv, NodesHold
    <3>2. CASE n # Here
      <4>1. RoleRefers(reviews'[n], n) /\ LeafKeeps(reviews'[n], n)
        BY <3>1, <3>2, <2>10 DEF RoleRefers, LeafKeeps
      <4>2. CallsHold(reviews'[n], n, trail'.calls[n])
        <5>1. /\ reviews'[n].role = reviews[n].role /\ reviews'[n].status = reviews[n].status
              /\ trail'.calls[n] = trail.calls[n]
          BY <3>2, <2>5, <2>10
        <5>2. Ended(reviews[n], n) => Ended(reviews'[n], n)
          BY <5>1 DEF Ended
        <5> QED
          BY <3>1, <5>1, <5>2, SameCalls
      <4>3. reviews'[n].status = "running" => InProgress(reviews'[n])
        BY <3>1, <3>2, <2>10 DEF InProgress
      <4>4. /\ n # Anchor /\ (reviews'[n].gap \/ reviews'[n].stop = "candidate_repair")
                 => trail'.rejected # {}
            /\ reviews'[n].role["semantic"].full.gaps \subseteq Gapped(reviews', n)
        BY <3>1, <3>2, <2>7, <2>8, <2>10
      <4> QED
        BY <1>1, <3>1, <3>2, <4>1, <4>2, <4>3, <4>4, <2>10
    <3>3. CASE n = Here
      <4>1. RoleRefers(reviews'[n], n) /\ LeafKeeps(reviews'[n], n)
        BY <1>1, <1>4, <3>3, <2>9 DEF RoleRefers, LeafKeeps
      <4>2. CallsHold(reviews'[n], n, trail'.calls[n])
        <5>1. CASE Here = Anchor
          <6>1. trail'.calls[n] = trail.calls[n] /\ reviews'[n].role = reviews[n].role
            BY <5>1, <3>3, <2>5, <2>9 DEF calls, Kept, Review
          <6>2. ~Ended(reviews[n], n) /\ reviews'[n].status # "absent"
            BY <1>4, <2>9, <3>3, <5>1 DEF Ended
          <6> QED
            BY <3>1, <6>1, <6>2, SameCalls
        <5>2. CASE Here # Anchor
          <6>1. trail'.calls[n] = SpentCalls
            BY <5>2, <3>3, <2>5 DEF calls
          <6>2. \A r \in Roles : \A k \in Kinds : SpentCalls[r][k] <= 1
            BY DEF SpentCalls, Kinds
          <6>3. Ended(reviews'[n], n)
            BY <1>4, <2>9, <3>3, <5>2 DEF Ended
          <6> QED
            BY <6>1, <6>2, <6>3 DEF CallsHold, AtMostOnce, Kinds
        <5> QED
          BY <5>1, <5>2
      <4>3. reviews'[n].role["semantic"].full.gaps \subseteq Gapped(reviews', n)
        BY <1>1, <1>4, <3>3, <2>7, <2>9 DEF Now
      <4>4. n # Anchor /\ (reviews'[n].gap \/ reviews'[n].stop = "candidate_repair")
              => trail'.rejected # {}
        BY <1>4, <3>1, <3>3, <2>8, <2>9 DEF Review
      <4> QED
        BY <1>1, <1>4, <3>1, <3>3, <4>1, <4>2, <4>3, <4>4, <2>9 DEF Review
    <3> QED
      BY <3>2, <3>3
  <2>16. FramesHold'
    <3> SUFFICES ASSUME NEW i \in 1..(L - 1)
                 PROVE  /\ FrameHolds(frames[i], reviews'[frames[i].node],
                                      trail'.calls[frames[i].node],
                                      Gapped(reviews', frames[i].node))
                        /\ RepairKnown(frames[i], trail')
      BY <2>2 DEF FramesHold
    <3> DEFINE f == frames[i]
    <3>1. /\ FrameHolds(f, reviews[f.node], trail.calls[f.node], Gapped(reviews, f.node))
          /\ f.pc = "returned" /\ f.node \in ReviewNodes \ {Here}
      BY <2>6 DEF CandidateInv, FramesHold, L
    <3>2. reviews'[f.node].role = reviews[f.node].role /\ trail'.calls[f.node] = trail.calls[f.node]
      BY <3>1, <2>5, <2>10
    <3> HIDE DEF f
    <3>3. /\ FramePlaced(f) /\ RoundOpen(f, reviews'[f.node])
          /\ PastFull(f, reviews'[f.node], trail'.calls[f.node])
      BY <3>1, <3>2 DEF FrameHolds, RoundOpen, PastFull
    <3>4. FrameEnds(f, reviews'[f.node]) /\ AskedUnkept(f, reviews'[f.node]) /\ RepairKnown(f, trail')
      BY <3>1 DEF FrameEnds, AskedUnkept, RepairKnown, EndPlaces
    <3>5. GapsSeen(f, reviews'[f.node], Gapped(reviews', f.node))
      BY <3>1, <3>2 DEF FrameHolds, GapsSeen
    <3> QED
      BY <3>3, <3>4, <3>5 DEF FrameHolds, f
  <2>17. CrossingOK'
    <3>1. ~AtBoundary'
      <4>1. DOMAIN reviews' = ReviewNodes /\ DOMAIN reviews = ReviewNodes
        BY <1>2, <2>3
      <4>2. ASSUME NEW n \in ReviewNodes PROVE ~Crossed(reviews'[n])
        <5>1. CASE n = Here
          BY <5>1, <1>4, <2>3 DEF Crossed
        <5>2. CASE n # Here
          BY <5>2, <1>1, <4>1, <2>10 DEF Crossed, AtBoundary
        <5> QED
          BY <5>1, <5>2
      <4> QED
        BY <4>1, <4>2 DEF AtBoundary
    <3>2. CASE frames' = <<>>
      BY <3>1, <3>2 DEF CrossingOK
    <3>3. CASE frames' # <<>>
      <4>1. L - 1 \in 1..(L - 1)
        BY <3>3, <1>2, <2>2
      <4>2. frames'[Len(frames')].pc = "returned"
        BY <4>1, <2>2, <2>6
      <4> QED
        BY <3>1, <3>3, <4>2 DEF CrossingOK
    <3> QED
      BY <3>2, <3>3
  <2>18. RejectedOK'
    <3>1. trail.rejected \subseteq ReviewNodes
      BY <1>2 DEF TrailRecords
    <3>2. ASSUME NEW d \in trail'.rejected \ {Anchor}
          PROVE  reviews'[d].gap /\ reviews'[d].status = "failed"
      <4>1. CASE d \in trail.rejected
        <5>1. reviews[d].gap /\ reviews[d].status = "failed" /\ d \in ReviewNodes
          BY <3>1, <3>2, <4>1 DEF CandidateInv, RejectedOK
        <5>2. d # Here
          BY <5>1, <1>1 DEF InProgress
        <5> QED
          BY <5>1, <5>2, <2>10
      <4>2. CASE d \notin trail.rejected
        <5>1. d = Here /\ Rejects
          BY <3>2, <4>2, <2>4
        <5> QED
          BY <3>2, <5>1, <1>4, <2>9
      <4> QED
        BY <4>1, <4>2
    <3>3. Here # Anchor => L - 1 \in 1..(L - 1) /\ 1 \in 1..(L - 1)
      <4>1. L = 1 => Here = Anchor
        BY <1>1 DEF CandidateInv, Stacked, Here
      <4> QED
        BY <4>1, <1>2
    <3>4. trail'.rejected \ {Anchor} # {} => Gapped(reviews', Anchor) # {}
      <4>1. CASE trail.rejected \ {Anchor} # {}
        BY <4>1, <1>1, <2>7 DEF CandidateInv, RejectedOK
      <4>2. CASE Here # Anchor /\ Rejects
        <5>1. 2 \in 1..L /\ 1 + 1 = 2
          BY <3>3, <4>2, <1>2
        <5>2. frames[2].node \in Kids[frames[1].node] /\ frames[1].node = Anchor
          BY <3>3, <4>2, <5>1, <1>1 DEF CandidateInv, Stacked, L
        <5>3. frames[2].node \in Path /\ frames[2].node \in ReviewNodes \ {Anchor}
          BY <5>1, <5>2, <1>1, <1>2 DEF Path, CandidateAssumption
        <5>4. reviews'[frames[2].node].gap
          BY <5>3, <4>2, <2>3
        <5> QED
          BY <5>2, <5>4 DEF Gapped
      <4> QED
        BY <4>1, <4>2, <2>4
    <3>5. ASSUME NEW n \in ReviewNodes, reviews'[n].status = "passed",
                 IF n = Anchor THEN trail'.rejected \ {Anchor} # {} ELSE Kids[n] \cap trail'.rejected # {}
          PROVE  trail'.basis[n].full /\ trail'.basis[n].knows
      <4>1. CASE n = Here
        <5>1. ~Rejects /\ (Now = {} \/ Answered(Review, Now)) /\ Top.role = "security"
          BY <3>5, <4>1, <1>4, <2>9
        <5>2. trail'.rejected = trail.rejected
          BY <5>1, <2>4
        <5>3. Now # {}
          <6>1. CASE n = Anchor
            BY <3>5, <4>1, <5>2, <6>1 DEF CandidateInv, RejectedOK, Now
          <6>2. CASE n # Anchor
            <7>1. PICK d \in Kids[Here] : d \in trail.rejected
              BY <3>5, <4>1, <5>2, <6>2
            <7>2. reviews[d].gap
              BY <7>1, <1>1 DEF CandidateInv, RejectedOK
            <7> QED
              BY <7>1, <7>2 DEF Now, Gapped
          <6> QED
            BY <6>1, <6>2
        <5>4. Review.role["semantic"].full.gaps # {}
          BY <5>1, <5>3 DEF Answered
        <5>5. GapsSeen(Top, Review, Now)
          BY <1>1, TopSeen
        <5>6. Top.basis.full /\ Top.basis.knows
          BY <5>1, <5>4, <5>5 DEF GapsSeen
        <5> QED
          BY <4>1, <5>6, <2>5
      <4>2. CASE n # Here
        <5>1. reviews[n].status = "passed" /\ n \notin Path /\ n # Anchor
          BY <3>5, <4>2, <1>1, <2>10 DEF InProgress
        <5>2. Here \notin Kids[n] \/ Here \notin added
          <6> SUFFICES ASSUME Here \in Kids[n] PROVE FALSE
            OBVIOUS
          <6>1. Here # Anchor
            BY DEF CandidateAssumption
          <6>2. L - 1 \in 1..(L - 1) /\ (L - 1) + 1 = L
            BY <3>3, <6>1, <1>2
          <6>3. Here \in Kids[frames[L - 1].node] /\ frames[L - 1].node \in Path \cap ReviewNodes
            BY <6>2, <1>1, <2>6 DEF CandidateInv, Stacked, L, Here
          <6> QED
            BY <5>1, <6>3 DEF CandidateAssumption
        <5>3. Kids[n] \cap trail.rejected # {}
          BY <3>5, <5>1, <5>2, <2>4
        <5>4. trail.basis[n].full /\ trail.basis[n].knows
          BY <5>1, <5>3 DEF CandidateInv, RejectedOK
        <5> QED
          BY <4>2, <5>4, <2>5
      <4> QED
        BY <4>1, <4>2
    <3> QED
      BY <3>2, <3>4, <3>5 DEF RejectedOK
  <2> QED
    BY <2>11, <2>13, <2>14, <2>15, <2>16, <2>17, <2>18 DEF CandidateInv
<1> QED
  BY <1>6, <1>7

(***************************************************************************)
(* Boundaries.                                                             *)
(***************************************************************************)
LEMMA LatchKeeps ==
    ASSUME CandidateAssumption, CandidateInv, Latch
    PROVE  CandidateInv'
<1> DEFINE L == Len(frames)
           b == BoundaryOf(reviews[Anchor], Top.out)
           f == On("unwind")
<1>1. /\ frames # <<>> /\ Top.pc = "finish" /\ Crossed(Top.out)
      /\ UNCHANGED <<artifacts, moved, trail>>
      /\ reviews' = [reviews EXCEPT ![Anchor] = b]
      /\ frames' = IF Here = Anchor THEN <<>> ELSE WithTop(f)
  BY DEF Latch, In, LatchAnchor, Go
<1>2. /\ Top \in FrameRecords /\ Top = frames[L] /\ Here \in ReviewNodes /\ Anchor \in ReviewNodes
      /\ \A n \in Path : InProgress(reviews[n]) /\ Anchor \in Path /\ ~AtBoundary
      /\ frames \in Seq(FrameRecords) /\ L \in Nat \ {0} /\ DOMAIN frames = 1..L
      /\ \A i \in 1..L : frames[i] \in FrameRecords
      /\ reviews \in [ReviewNodes -> ReviewRecords]
  BY <1>1, TopFacts, TopIsLast DEF CandidateInv, CandidateTypes, CandidateAssumption
<1>3. /\ PastFull(Top, Review, trail.calls[Here]) /\ FrameEnds(Top, Review)
      /\ GapsSeen(Top, Review, Now)
  BY <1>1, TopSeen
<1>4. Top.out \in ReviewRecords /\ Top.out.stop # "evidence"
  BY <1>1, <1>2, <1>3 DEF FrameRecords, FrameEnds, EndPlaces
<1>5. InProgress(reviews[Anchor]) /\ reviews[Anchor] \in ReviewRecords
  <2>1. InProgress(reviews[Anchor])
    BY <1>1, TopFacts
  <2>2. reviews[Anchor] \in ReviewRecords
    BY DEF CandidateInv, CandidateTypes, CandidateAssumption
  <2> QED
    BY <2>1, <2>2
<1>6. /\ b \in ReviewRecords /\ b.status = "blocked" /\ b.stop = Top.out.stop
      /\ b.security = Top.out.security /\ b.semantic = reviews[Anchor].semantic
      /\ b.role = reviews[Anchor].role /\ b.control = reviews[Anchor].control
      /\ b.gap = reviews[Anchor].gap /\ b.completed = reviews[Anchor].completed
  BY <1>4, <1>5 DEF BoundaryOf, ReviewRecords, ReviewStatuses
<1>7. Crossed(b)
  BY <1>1, <1>6 DEF Crossed
<1> HIDE DEF b
<1>8. /\ reviews' \in [ReviewNodes -> ReviewRecords] /\ reviews'[Anchor] = b
      /\ \A n \in ReviewNodes \ {Anchor} : reviews'[n] = reviews[n]
  BY <1>1, <1>2, <1>6
<1>9. \A n \in ReviewNodes : /\ reviews'[n].role = reviews[n].role
                             /\ reviews'[n].control = reviews[n].control
                             /\ reviews'[n].gap = reviews[n].gap
                             /\ reviews'[n].completed = reviews[n].completed
                             /\ reviews'[n].semantic = reviews[n].semantic
  BY <1>6, <1>8
<1>10. \A n \in ReviewNodes : Gapped(reviews', n) = Gapped(reviews, n)
  BY <1>9 DEF Gapped, CandidateAssumption
<1>11. Blank'
  BY <1>2, <1>6, <1>8 DEF CandidateInv, Blank
<1>12. NodesHold'
  <2> SUFFICES ASSUME NEW n \in ReviewNodes
               PROVE  /\ RoleRefers(reviews'[n], n) /\ LeafKeeps(reviews'[n], n)
                      /\ CallsHold(reviews'[n], n, trail'.calls[n])
                      /\ reviews'[n].stop # "evidence"
                      /\ reviews'[n].status = "running" => InProgress(reviews'[n])
                      /\ n # Anchor /\ artifacts'[n] # 0 => artifacts'[n] = reviews'[n].completed
                      /\ n # Anchor /\ reviews'[n].semantic = "rejected" => reviews'[n].gap
                      /\ n # Anchor /\ (reviews'[n].gap \/ reviews'[n].stop = "candidate_repair")
                           => trail'.rejected # {}
                      /\ reviews'[n].role["semantic"].full.gaps \subseteq Gapped(reviews', n)
    BY DEF NodesHold
  <2>1. /\ RoleRefers(reviews[n], n) /\ LeafKeeps(reviews[n], n)
        /\ CallsHold(reviews[n], n, trail.calls[n])
        /\ reviews[n].stop # "evidence"
        /\ reviews[n].status = "running" => InProgress(reviews[n])
        /\ n # Anchor /\ artifacts[n] # 0 => artifacts[n] = reviews[n].completed
        /\ n # Anchor /\ reviews[n].semantic = "rejected" => reviews[n].gap
        /\ n # Anchor /\ (reviews[n].gap \/ reviews[n].stop = "candidate_repair")
             => trail.rejected # {}
        /\ reviews[n].role["semantic"].full.gaps \subseteq Gapped(reviews, n)
    BY DEF CandidateInv, NodesHold
  <2>2. CASE n # Anchor
    BY <1>1, <1>8, <1>10, <2>1, <2>2
  <2>3. CASE n = Anchor
    <3>1. RoleRefers(reviews'[n], n) /\ LeafKeeps(reviews'[n], n)
      BY <1>9, <2>1 DEF RoleRefers, LeafKeeps
    <3>2. CallsHold(reviews'[n], n, trail'.calls[n])
      <4>1. /\ reviews'[n].role = reviews[n].role /\ trail'.calls[n] = trail.calls[n]
            /\ ~Ended(reviews[n], n) /\ reviews'[n].status # "absent"
        BY <1>1, <1>6, <1>8, <1>9, <2>3 DEF Ended
      <4> QED
        BY <2>1, <4>1, SameCalls
    <3> QED
      BY <1>4, <1>6, <1>8, <1>9, <1>10, <2>1, <2>3, <3>1, <3>2
  <2> QED
    BY <2>2, <2>3
<1>13. RejectedOK'
  <2>1. \A n \in ReviewNodes : /\ reviews'[n].status = "passed" => reviews[n].status = "passed"
                               /\ n # Anchor => reviews'[n].status = reviews[n].status
    BY <1>6, <1>8
  <2>2. trail.rejected \subseteq ReviewNodes
    BY DEF CandidateInv, CandidateTypes, TrailRecords
  <2> QED
    BY <1>1, <1>2, <1>9, <1>10, <2>1, <2>2 DEF CandidateInv, RejectedOK
<1>14. CASE Here = Anchor
  <2>1. frames' = <<>>
    BY <1>1, <1>14
  <2>2. CandidateTypes' /\ Stacked' /\ FramesHold' /\ CrossingOK'
    <3>1. CandidateTypes'
      <4>1. UNCHANGED <<artifacts, moved, trail>>
        BY <1>1
      <4> QED
        BY <4>1, <1>8, <2>1 DEF CandidateInv, CandidateTypes
    <3>2. Stacked' /\ FramesHold'
      BY <2>1 DEF Stacked, FramesHold
    <3>3. CrossingOK'
      BY <1>7, <1>8, <2>1 DEF CrossingOK
    <3> QED
      BY <3>1, <3>2, <3>3
  <2> QED
    BY <2>2, <1>11, <1>12, <1>13 DEF CandidateInv
<1>15. CASE Here # Anchor
  <2>1. /\ f \in FrameRecords /\ f.node = Here /\ f.pc = "unwind" /\ f.role = Top.role
        /\ f.basis = Top.basis /\ f.out = Top.out /\ Top.node = Here
    BY <1>1, OnIs DEF GatePlaces, EndPlaces, Here
  <2> HIDE DEF f
  <2>2. /\ frames' \in Seq(FrameRecords) /\ Len(frames') = L /\ frames'[L] = f
        /\ \A i \in 1..(L - 1) : frames'[i] = frames[i]
    <3>1. /\ WithTop(f) \in Seq(FrameRecords) /\ Len(WithTop(f)) = Len(frames)
          /\ WithTop(f)[Len(frames)] = f
          /\ \A i \in 1..(Len(frames) - 1) : WithTop(f)[i] = frames[i]
      BY <1>1, <1>2, <2>1, WithTopIs
    <3> QED
      BY <1>1, <1>15, <3>1
  <2>3. L # 1 /\ frames' # <<>> /\ frames[1].node = Anchor
    BY <1>1, <1>2, <1>15, <2>2 DEF CandidateInv, Stacked, Here
  <2> HIDE DEF L
  <2>4. \A i \in 1..L : frames'[i].node = frames[i].node
    BY <1>2, <2>1, <2>2
  <2>5. \A i \in 2..L : frames[i].node \in ReviewNodes \ {Anchor} /\ frames[i].node \in Path
    <3> SUFFICES ASSUME NEW i \in 2..L
                 PROVE  frames[i].node \in ReviewNodes \ {Anchor} /\ frames[i].node \in Path
      OBVIOUS
    <3>1. i \in 1..L /\ 1 \in 1..L /\ i # 1
      BY <1>2
    <3>2. frames[i].node # frames[1].node
      BY <3>1 DEF CandidateInv, Stacked, L
    <3> QED
      BY <1>2, <2>3, <3>1, <3>2 DEF Path, FrameRecords
  <2>6. Stacked'
    <3>1. frames'[1].node = Anchor /\ 1 \in 1..L
      BY <1>2, <2>3, <2>4
    <3>2. \A i, j \in 1..L : frames'[i].node = frames'[j].node => i = j
      BY <2>4 DEF CandidateInv, Stacked, L
    <3>3. \A i \in 1..(L - 1) :
            frames'[i].pc = "returned" /\ frames'[i + 1].node \in Kids[frames'[i].node]
      <4> SUFFICES ASSUME NEW i \in 1..(L - 1)
                   PROVE  frames'[i].pc = "returned" /\ frames'[i + 1].node \in Kids[frames'[i].node]
        OBVIOUS
      <4>1. i + 1 \in 1..L /\ i \in 1..L
        BY <1>2
      <4> QED
        BY <4>1, <2>2, <2>4 DEF CandidateInv, Stacked, L
    <3>4. \A i \in 2..L : InProgress(reviews'[frames'[i].node])
      <4> SUFFICES ASSUME NEW i \in 2..L PROVE InProgress(reviews'[frames'[i].node])
        OBVIOUS
      <4>1. i \in 1..L
        BY <1>2
      <4> QED
        BY <4>1, <1>2, <1>8, <2>4, <2>5
    <3>5. \A i \in 1..L : i > 1 => i \in 2..L
      BY <1>2
    <3>6. frames'[Len(frames')].pc = "unwind" /\ reviews'[Anchor].status # "absent"
      BY <1>6, <1>8, <2>1, <2>2
    <3> QED
      BY <2>2, <3>1, <3>2, <3>3, <3>4, <3>5, <3>6 DEF Stacked
  <2>7. FramesHold'
    <3> SUFFICES ASSUME NEW i \in 1..L
                 PROVE  /\ FrameHolds(frames'[i], reviews'[frames'[i].node],
                                      trail'.calls[frames'[i].node],
                                      Gapped(reviews', frames'[i].node))
                        /\ RepairKnown(frames'[i], trail')
      BY <2>2 DEF FramesHold
    <3>1. /\ FrameHolds(frames[i], reviews[frames[i].node], trail.calls[frames[i].node],
                        Gapped(reviews, frames[i].node))
          /\ RepairKnown(frames[i], trail) /\ frames[i].node \in ReviewNodes
      BY <1>2 DEF CandidateInv, FramesHold, L, FrameRecords
    <3>2. CASE i = L
      <4>1. /\ frames'[i] = f /\ reviews'[Here] = Review /\ Gapped(reviews', Here) = Now
            /\ trail' = trail /\ frames[i] = Top
        BY <1>1, <1>2, <1>8, <1>10, <1>15, <2>2, <3>2 DEF Review, Now
      <4>2. FramePlaced(f) /\ RoundOpen(f, Review) /\ AskedUnkept(f, Review)
        BY <2>1 DEF FramePlaced, RoundOpen, AskedUnkept, ChildPlaces
      <4>3. PastFull(f, Review, trail.calls[Here])
        BY <1>1, <1>3, <2>1 DEF PastFull
      <4>4. FrameEnds(f, Review) /\ RepairKnown(f, trail)
        BY <1>1, <1>3, <2>1, <3>1, <4>1 DEF FrameEnds, RepairKnown, EndPlaces
      <4>5. GapsSeen(f, Review, Now)
        BY <1>1, <1>3, <2>1 DEF GapsSeen
      <4> QED
        BY <2>1, <4>1, <4>2, <4>3, <4>4, <4>5 DEF FrameHolds
    <3>3. CASE i # L
      <4>1. i \in 1..(L - 1)
        BY <1>2, <3>3
      <4> DEFINE g == frames[i]
      <4>2. frames'[i] = g /\ g.pc = "returned" /\ trail' = trail
        BY <1>1, <2>2, <4>1 DEF CandidateInv, Stacked, L
      <4>3. reviews'[g.node].role = reviews[g.node].role
            /\ Gapped(reviews', g.node) = Gapped(reviews, g.node)
        BY <1>9, <1>10, <3>1
      <4> HIDE DEF g
      <4>4. FrameHolds(g, reviews'[g.node], trail.calls[g.node], Gapped(reviews', g.node))
        <5>1. FrameHolds(g, reviews[g.node], trail.calls[g.node], Gapped(reviews, g.node))
          BY <3>1 DEF g
        <5>2. /\ FramePlaced(g) /\ RoundOpen(g, reviews'[g.node])
              /\ PastFull(g, reviews'[g.node], trail.calls[g.node])
          BY <4>3, <5>1 DEF FrameHolds, RoundOpen, PastFull
        <5>3. FrameEnds(g, reviews'[g.node]) /\ AskedUnkept(g, reviews'[g.node])
          BY <4>2 DEF FrameEnds, AskedUnkept, EndPlaces
        <5>4. GapsSeen(g, reviews'[g.node], Gapped(reviews', g.node))
          BY <4>2, <4>3, <5>1 DEF FrameHolds, GapsSeen, Answered
        <5> QED
          BY <5>2, <5>3, <5>4 DEF FrameHolds
      <4> QED
        BY <3>1, <4>2, <4>4 DEF g
    <3> QED
      BY <3>2, <3>3
  <2>8. CrossingOK'
    BY <1>1, <1>7, <1>8, <2>1, <2>2, <2>3 DEF CrossingOK
  <2>9. CandidateTypes'
    BY <1>1, <1>8, <2>2 DEF CandidateInv, CandidateTypes
  <2> QED
    BY <2>6, <2>7, <2>8, <2>9, <1>11, <1>12, <1>13 DEF CandidateInv
<1> QED
  BY <1>14, <1>15

LEMMA UnwindKeeps ==
    ASSUME CandidateAssumption, CandidateInv, Unwind
    PROVE  CandidateInv'
<1> DEFINE out == [Top.out EXCEPT !.control = Review.control, !.role = Review.role]
<1>1. /\ frames # <<>> /\ Top.pc = "unwind" /\ UNCHANGED <<artifacts, moved, trail>>
      /\ frames' = <<>>
      /\ reviews' = [n \in ReviewNodes |->
                       IF n = Here THEN out
                       ELSE IF n \in Path THEN BoundaryOf(reviews[n], Top.out) ELSE reviews[n]]
  BY DEF Unwind, In
<1>2. /\ Top \in FrameRecords /\ Top = frames[Len(frames)] /\ Here \in ReviewNodes
      /\ Here \in Path /\ Anchor \in Path /\ Path \subseteq ReviewNodes
      /\ Review \in ReviewRecords /\ Len(frames) \in Nat \ {0} /\ DOMAIN frames = 1..Len(frames)
      /\ reviews \in [ReviewNodes -> ReviewRecords]
  BY <1>1, TopFacts, TopIsLast DEF CandidateInv, CandidateTypes
<1>3. FrameEnds(Top, Review)
  BY <1>1, TopSeen
<1>4. Crossed(reviews[Anchor]) /\ Crossed(Top.out)
  BY <1>1, <1>2 DEF CandidateInv, CrossingOK
<1>5. /\ Top.out \in ReviewRecords /\ Top.out.stop \notin {"evidence", "candidate_repair"}
      /\ Top.out.semantic # "rejected" /\ Top.out.status \in {"failed", "blocked"}
      /\ Top.out.completed = Review.completed /\ Top.out.gap = Review.gap
  BY <1>1, <1>2, <1>3, <1>4 DEF FrameRecords, FrameEnds, EndPlaces, Crossed
<1>6. \A n \in Path \ {Anchor} : InProgress(reviews[n])
  <2> SUFFICES ASSUME NEW n \in Path \ {Anchor} PROVE InProgress(reviews[n])
    OBVIOUS
  <2>1. PICK i \in 1..Len(frames) : n = frames[i].node
    BY <1>2 DEF Path
  <2>2. i > 1
    BY <1>1, <1>2, <2>1 DEF CandidateInv, Stacked
  <2> QED
    BY <2>1, <2>2 DEF CandidateInv, Stacked
<1>7. /\ out \in ReviewRecords /\ out.status = Top.out.status /\ out.stop = Top.out.stop
      /\ out.semantic = Top.out.semantic /\ out.security = Top.out.security
      /\ out.role = Review.role /\ out.control = Review.control
      /\ out.gap = Review.gap /\ out.completed = Review.completed
  BY <1>2, <1>5 DEF ReviewRecords
<1> HIDE DEF out
<1>8. ASSUME NEW n \in ReviewNodes
      PROVE  LET b == BoundaryOf(reviews[n], Top.out)
             IN  /\ b \in ReviewRecords /\ b.status = "blocked" /\ b.stop = Top.out.stop
                 /\ b.security = Top.out.security /\ b.semantic = reviews[n].semantic
                 /\ b.role = reviews[n].role /\ b.control = reviews[n].control
                 /\ b.gap = reviews[n].gap /\ b.completed = reviews[n].completed
  BY <1>2, <1>5 DEF BoundaryOf, ReviewRecords, ReviewStatuses
<1>9. ASSUME NEW n \in ReviewNodes
      PROVE  /\ reviews'[n] \in ReviewRecords
             /\ reviews'[n].role = reviews[n].role /\ reviews'[n].control = reviews[n].control
             /\ reviews'[n].gap = reviews[n].gap /\ reviews'[n].completed = reviews[n].completed
             /\ n \in Path => /\ reviews'[n].status \in {"failed", "blocked"}
                              /\ reviews'[n].stop = Top.out.stop
                              /\ reviews'[n].security = Top.out.security
                              /\ n # Anchor => reviews'[n].semantic # "rejected"
             /\ n \notin Path => reviews'[n] = reviews[n]
  <2>1. CASE n = Here
    <3>1. reviews'[n] = out
      BY <1>1, <2>1
    <3> QED
      BY <1>2, <1>5, <1>7, <2>1, <3>1 DEF Review
  <2>2. CASE n # Here /\ n \in Path
    <3> DEFINE b == BoundaryOf(reviews[n], Top.out)
    <3>1. reviews'[n] = b
      BY <1>1, <2>2
    <3>2. /\ b \in ReviewRecords /\ b.status = "blocked" /\ b.stop = Top.out.stop
          /\ b.security = Top.out.security /\ b.semantic = reviews[n].semantic
          /\ b.role = reviews[n].role /\ b.control = reviews[n].control
          /\ b.gap = reviews[n].gap /\ b.completed = reviews[n].completed
      BY <1>8
    <3> HIDE DEF b
    <3> QED
      BY <1>6, <2>2, <3>1, <3>2 DEF InProgress
  <2>3. CASE n \notin Path
    BY <1>1, <1>2, <2>3
  <2> QED
    BY <2>1, <2>2, <2>3
<1>10. reviews' \in [ReviewNodes -> ReviewRecords]
  BY <1>1, <1>9
<1>11. \A n \in ReviewNodes : Gapped(reviews', n) = Gapped(reviews, n)
  BY <1>9 DEF Gapped, CandidateAssumption
<1>12. CandidateTypes' /\ Stacked' /\ FramesHold'
  BY <1>1, <1>10 DEF CandidateInv, CandidateTypes, Stacked, FramesHold
<1>13. Blank'
  <2>1. ASSUME NEW n \in ReviewNodes, reviews'[n].status = "absent" PROVE reviews'[n] = NoReview
    BY <1>9, <2>1 DEF CandidateInv, Blank
  <2>2. ASSUME ~reviews'[Anchor].control, NEW n \in ReviewNodes \ {Anchor}
        PROVE  reviews'[n].status = "absent"
    <3>1. reviews[n].status = "absent"
      BY <1>2, <1>9, <2>2 DEF CandidateInv, Blank
    <3>2. n \notin Path
      BY <1>6, <3>1 DEF InProgress
    <3> QED
      BY <1>9, <3>1, <3>2
  <2> QED
    BY <2>1, <2>2 DEF Blank
<1>14. NodesHold'
  <2> SUFFICES ASSUME NEW n \in ReviewNodes
               PROVE  /\ RoleRefers(reviews'[n], n) /\ LeafKeeps(reviews'[n], n)
                      /\ CallsHold(reviews'[n], n, trail'.calls[n])
                      /\ reviews'[n].stop # "evidence"
                      /\ reviews'[n].status = "running" => InProgress(reviews'[n])
                      /\ n # Anchor /\ artifacts'[n] # 0 => artifacts'[n] = reviews'[n].completed
                      /\ n # Anchor /\ reviews'[n].semantic = "rejected" => reviews'[n].gap
                      /\ n # Anchor /\ (reviews'[n].gap \/ reviews'[n].stop = "candidate_repair")
                           => trail'.rejected # {}
                      /\ reviews'[n].role["semantic"].full.gaps \subseteq Gapped(reviews', n)
    BY DEF NodesHold
  <2>1. /\ RoleRefers(reviews[n], n) /\ LeafKeeps(reviews[n], n)
        /\ CallsHold(reviews[n], n, trail.calls[n])
        /\ reviews[n].stop # "evidence"
        /\ reviews[n].status = "running" => InProgress(reviews[n])
        /\ n # Anchor /\ artifacts[n] # 0 => artifacts[n] = reviews[n].completed
        /\ n # Anchor /\ reviews[n].semantic = "rejected" => reviews[n].gap
        /\ n # Anchor /\ (reviews[n].gap \/ reviews[n].stop = "candidate_repair")
             => trail.rejected # {}
        /\ reviews[n].role["semantic"].full.gaps \subseteq Gapped(reviews, n)
    BY DEF CandidateInv, NodesHold
  <2>2. RoleRefers(reviews'[n], n) /\ LeafKeeps(reviews'[n], n)
    BY <1>9, <2>1 DEF RoleRefers, LeafKeeps
  <2>3. CallsHold(reviews'[n], n, trail'.calls[n])
    <3>1. /\ reviews[n].status # "absent" => reviews'[n].status # "absent"
          /\ Ended(reviews[n], n) => Ended(reviews'[n], n)
          /\ reviews'[n].role = reviews[n].role /\ trail'.calls[n] = trail.calls[n]
      BY <1>1, <1>9 DEF Ended
    <3> QED
      BY <2>1, <3>1, SameCalls
  <2>4. CASE n \in Path
    BY <1>1, <1>5, <1>9, <1>11, <2>1, <2>2, <2>3, <2>4
  <2>5. CASE n \notin Path
    BY <1>1, <1>9, <1>11, <2>1, <2>2, <2>3, <2>5
  <2> QED
    BY <2>4, <2>5
<1>15. CrossingOK'
  <2>1. Crossed(reviews'[Anchor])
    BY <1>2, <1>4, <1>9 DEF Crossed
  <2> QED
    BY <1>1, <2>1 DEF CrossingOK
<1>16. RejectedOK'
  <2>1. \A n \in ReviewNodes : /\ reviews'[n].status = "passed" => reviews[n].status = "passed"
                               /\ n # Anchor /\ reviews[n].status = "failed" =>
                                    reviews'[n].status = "failed"
    BY <1>6, <1>9 DEF InProgress
  <2>2. trail.rejected \subseteq ReviewNodes
    BY DEF CandidateInv, CandidateTypes, TrailRecords
  <2> QED
    BY <1>1, <1>2, <1>9, <1>11, <2>1, <2>2 DEF CandidateInv, RejectedOK
<1> QED
  BY <1>12, <1>13, <1>14, <1>15, <1>16 DEF CandidateInv

(***************************************************************************)
(* Saves that are refused.                                                 *)
(***************************************************************************)
LEMMA PopIs ==
    ASSUME frames \in Seq(FrameRecords), Len(frames) - 1 \in Nat \ {0}, NEW f \in FrameRecords
    PROVE  LET s == Append(Front(Front(frames)), f)
           IN  /\ s \in Seq(FrameRecords) /\ Len(s) = Len(frames) - 1
               /\ s[Len(frames) - 1] = f
               /\ \A i \in 1..(Len(frames) - 2) : s[i] = frames[i]
               /\ Last(Front(frames)) = frames[Len(frames) - 1]
<1> DEFINE K == Len(frames) - 1
           t == Front(frames)
           u == Front(t)
<1>1. K \in Nat \ {0} /\ K - 1 \in Nat /\ K = (K - 1) + 1 /\ Len(frames) - 2 = K - 1
      /\ frames # <<>>
  <2>1. ASSUME NEW n \in Nat, n - 1 \in Nat \ {0}
        PROVE  /\ (n - 1) - 1 \in Nat /\ n - 1 = ((n - 1) - 1) + 1
               /\ n - 2 = (n - 1) - 1 /\ n # 0
    BY <2>1
  <2>2. Len(frames) \in Nat /\ (frames = <<>> => Len(frames) = 0)
    OBVIOUS
  <2> QED
    BY <2>1, <2>2
<1>2. t \in Seq(FrameRecords) /\ Len(t) = K /\ \A i \in 1..K : t[i] = frames[i]
  BY <1>1, FrontIs
<1> HIDE DEF t, K
<1>3. /\ u \in Seq(FrameRecords) /\ Len(u) = K - 1
      /\ \A i \in 1..(K - 1) : u[i] = t[i]
  BY <1>1, <1>2, AllButLast DEF Front
<1>4. \A i \in 1..(K - 1) : u[i] = frames[i]
  BY <1>1, <1>2, <1>3
<1>5. Last(t) = frames[K]
  BY <1>1, <1>2 DEF Last
<1> HIDE DEF u
<1>6. /\ Append(u, f) \in Seq(FrameRecords) /\ Len(Append(u, f)) = K
      /\ Append(u, f)[K] = f /\ \A i \in 1..(K - 1) : Append(u, f)[i] = frames[i]
  BY <1>1, <1>3, <1>4
<1> QED
  BY <1>1, <1>5, <1>6 DEF u, t, K

\* A child that cannot save ends the gate of its parent, which has seen nothing.
LEMMA ChildUnsavedKeeps ==
    ASSUME CandidateAssumption, CandidateInv, ChildUnsaved
    PROVE  CandidateInv'
<1> DEFINE L == Len(frames)
           parent == frames[L - 1]
           p == parent.node
           out == [reviews[p] EXCEPT !.status = "blocked", !.stop = "retry"]
           f == [parent EXCEPT !.pc = "finish", !.todo = {}, !.then = "compose", !.out = out]
           refused == Faulted.refused \/ (In("finish") /\ Crossed(Top.out))
<1>1. /\ frames # <<>> /\ Here # Anchor /\ Top.pc # "unwind"
      /\ UNCHANGED <<reviews, artifacts, moved>>
      /\ trail' = [Faulted EXCEPT !.refused = refused]
  BY DEF ChildUnsaved, In
<1>2. /\ frames \in Seq(FrameRecords) /\ L \in Nat \ {0} /\ Top = frames[L]
      /\ \A i \in 1..L : frames[i] \in FrameRecords
      /\ reviews \in [ReviewNodes -> ReviewRecords] /\ trail \in TrailRecords
      /\ ~AtBoundary /\ Here \in ReviewNodes
  BY <1>1, TopFacts, TopIsLast DEF CandidateInv, CandidateTypes
<1>3. L # 1
  BY <1>1, <1>2 DEF CandidateInv, Stacked, Here
<1>4. /\ L - 1 \in Nat \ {0} /\ L - 1 \in 1..L /\ (L - 1) + 1 = L /\ L - 1 \in 1..(L - 1)
      /\ 1 \in 1..(L - 1)
      /\ \A i \in 1..(L - 1) : i \in 1..L /\ (i \in 1..(L - 2) \/ i = L - 1)
  <2>1. ASSUME NEW n \in Nat \ {0}, n # 1
        PROVE  /\ n - 1 \in Nat \ {0} /\ n - 1 \in 1..n /\ (n - 1) + 1 = n
               /\ n - 1 \in 1..(n - 1) /\ 1 \in 1..(n - 1)
               /\ \A i \in 1..(n - 1) : i \in 1..n /\ (i \in 1..(n - 2) \/ i = n - 1)
    BY <2>1
  <2> HIDE DEF L
  <2> QED
    BY <1>2, <1>3, <2>1
<1>5. /\ parent \in FrameRecords /\ p \in ReviewNodes /\ InProgress(reviews[p])
      /\ parent.pc = "returned" /\ Here \in Kids[p] /\ reviews[p] \in ReviewRecords
  <2>1. parent \in FrameRecords /\ p \in ReviewNodes
    BY <1>2, <1>4 DEF FrameRecords
  <2>2. parent.pc = "returned" /\ Here \in Kids[p]
    BY <1>2, <1>4 DEF CandidateInv, Stacked, Here
  <2>3. InProgress(reviews[p])
    BY <1>1, <1>2, <1>4 DEF CandidateInv, Stacked
  <2> QED
    BY <1>2, <2>1, <2>2, <2>3
<1>6. /\ out \in ReviewRecords /\ out.status = "blocked" /\ out.stop = "retry"
      /\ out.semantic = "not_run" /\ out.gap = reviews[p].gap
      /\ out.completed = reviews[p].completed
  BY <1>5 DEF ReviewRecords, ReviewStatuses, ReviewStops, InProgress
<1> HIDE DEF out
<1>7. /\ f \in FrameRecords /\ f.node = p /\ f.pc = "finish" /\ f.role = parent.role
      /\ f.basis = parent.basis /\ f.out = out
  BY <1>5, <1>6 DEF FrameRecords, GatePlaces, EndPlaces
<1>8. frames' = Append(Front(Front(frames)), f)
  BY <1>2, <1>4, <1>5, PopIs DEF ChildUnsaved, f, out
<1> HIDE DEF f
<1>9. /\ frames' \in Seq(FrameRecords) /\ Len(frames') = L - 1 /\ frames'[L - 1] = f
      /\ \A i \in 1..(L - 2) : frames'[i] = frames[i]
      /\ frames' # <<>>
  BY <1>2, <1>4, <1>7, <1>8, PopIs
<1>10. /\ trail' \in TrailRecords /\ trail'.rejected = trail.rejected
       /\ trail'.basis = trail.basis /\ trail'.calls = trail.calls
  <2>1. refused \in BOOLEAN
    <3>1. Faulted.refused \in BOOLEAN
      BY <1>2, FaultedIs DEF TrailRecords
    <3>2. (In("finish") /\ Crossed(Top.out)) \in BOOLEAN
      BY Zenon DEF In, Crossed
    <3> QED
      BY <3>1, <3>2
  <2> HIDE DEF refused
  <2> QED
    BY <1>1, <1>2, <2>1, FaultedIs DEF TrailRecords
<1>11. \A i \in 1..(L - 1) : /\ i \in 1..L /\ (i \in 1..(L - 2) \/ i = L - 1)
                              /\ frames'[i].node = frames[i].node
  <2> SUFFICES ASSUME NEW i \in 1..(L - 1)
               PROVE  /\ i \in 1..L /\ (i \in 1..(L - 2) \/ i = L - 1)
                      /\ frames'[i].node = frames[i].node
    OBVIOUS
  <2>1. i \in 1..L /\ (i \in 1..(L - 2) \/ i = L - 1)
    BY <1>4
  <2> QED
    BY <1>7, <1>9, <2>1
<1>12. CandidateTypes'
  BY <1>1, <1>9, <1>10 DEF CandidateInv, CandidateTypes
<1>13. Stacked'
  <2>1. frames'[1].node = Anchor
    BY <1>1, <1>4, <1>11 DEF CandidateInv, Stacked
  <2>2. \A i, j \in 1..(L - 1) : frames'[i].node = frames'[j].node => i = j
    BY <1>11 DEF CandidateInv, Stacked
  <2>3. \A i \in 1..(L - 1 - 1) :
          frames'[i].pc = "returned" /\ frames'[i + 1].node \in Kids[frames'[i].node]
    <3> SUFFICES ASSUME NEW i \in 1..(L - 1 - 1)
                 PROVE frames'[i].pc = "returned" /\ frames'[i + 1].node \in Kids[frames'[i].node]
      OBVIOUS
    <3>1. i + 1 \in 1..(L - 1) /\ i \in 1..(L - 1) /\ i \in 1..(L - 2)
      <4>1. ASSUME NEW n \in Nat \ {0}, NEW j \in 1..(n - 1 - 1)
            PROVE  j + 1 \in 1..(n - 1) /\ j \in 1..(n - 1) /\ j \in 1..(n - 2)
        OBVIOUS
      <4> HIDE DEF L
      <4> QED
        BY <1>2, <4>1
    <3>2. frames'[i] = frames[i] /\ frames'[i + 1].node = frames[i + 1].node
      BY <1>9, <1>11, <3>1
    <3> QED
      BY <3>1, <3>2 DEF CandidateInv, Stacked
  <2>4. \A i \in 1..(L - 1) : InProgress(reviews'[frames'[i].node])
    BY <1>1, <1>2, <1>11 DEF CandidateInv, Stacked
  <2>5. reviews'[Anchor].status # "absent"
    BY <1>1 DEF CandidateInv, Stacked
  <2> QED
    BY <1>9, <2>1, <2>2, <2>3, <2>4, <2>5 DEF Stacked
<1>14. Blank' /\ NodesHold' /\ RejectedOK'
  <2>1. Blank'
    BY <1>1 DEF CandidateInv, Blank
  <2>2. NodesHold'
    BY <1>1, <1>10 DEF CandidateInv, NodesHold
  <2>3. RejectedOK'
    BY <1>1, <1>10 DEF CandidateInv, RejectedOK
  <2> QED
    BY <2>1, <2>2, <2>3
<1>15. FramesHold'
  <2> SUFFICES ASSUME NEW i \in 1..(L - 1)
               PROVE  /\ FrameHolds(frames'[i], reviews[frames'[i].node],
                                    trail.calls[frames'[i].node],
                                    Gapped(reviews, frames'[i].node))
                      /\ RepairKnown(frames'[i], trail')
    BY <1>1, <1>9, <1>10 DEF FramesHold
  <2>1. CASE i \in 1..(L - 2)
    BY <1>9, <1>10, <1>11, <2>1 DEF CandidateInv, FramesHold, RepairKnown
  <2>2. CASE i = L - 1
    <3>1. GapsSeen(parent, reviews[p], Gapped(reviews, p))
      BY <1>4 DEF CandidateInv, FramesHold, FrameHolds
    <3>2. FramePlaced(f) /\ RoundOpen(f, reviews[p]) /\ PastFull(f, reviews[p], trail.calls[p])
          /\ AskedUnkept(f, reviews[p])
      BY <1>5, <1>7 DEF FramePlaced, RoundOpen, PastFull, AskedUnkept, ChildPlaces
    <3>3. FrameEnds(f, reviews[p]) /\ RepairKnown(f, trail')
      BY <1>6, <1>7 DEF FrameEnds, RepairKnown
    <3>4. GapsSeen(f, reviews[p], Gapped(reviews, p))
      BY <1>6, <1>7, <3>1 DEF GapsSeen
    <3> QED
      BY <1>7, <1>9, <2>2, <3>2, <3>3, <3>4 DEF FrameHolds
  <2> QED
    BY <1>11, <2>1, <2>2
<1>16. CrossingOK'
  BY <1>1, <1>2, <1>7, <1>9 DEF CrossingOK, AtBoundary
<1> QED
  BY <1>12, <1>13, <1>14, <1>15, <1>16 DEF CandidateInv

\* The verified node's attempt is given up.
LEMMA AnchorUnsavedKeeps ==
    ASSUME CandidateAssumption, CandidateInv, AnchorUnsaved
    PROVE  CandidateInv'
<1> DEFINE refused == Faulted.refused \/ Crossed(Top.out)
<1>1. /\ frames # <<>> /\ frames' = <<>> /\ Top.pc = "finish" /\ Here = Anchor
      /\ UNCHANGED <<artifacts, moved>> /\ trail' = [Faulted EXCEPT !.refused = refused]
      /\ \E status \in {"running", "stale"} :
           reviews' = [reviews EXCEPT ![Anchor].status = status]
  BY DEF AnchorUnsaved, In
<1>2. trail \in TrailRecords /\ reviews \in [ReviewNodes -> ReviewRecords]
      /\ Anchor \in ReviewNodes
  BY DEF CandidateInv, CandidateTypes, CandidateAssumption
<1>3. /\ trail' \in TrailRecords /\ trail'.rejected = trail.rejected
      /\ trail'.basis = trail.basis /\ trail'.calls = trail.calls
  <2>1. refused \in BOOLEAN
    <3>1. Faulted.refused \in BOOLEAN
      BY <1>2, FaultedIs DEF TrailRecords
    <3>2. Crossed(Top.out) \in BOOLEAN
      BY Zenon DEF Crossed
    <3> QED
      BY <3>1, <3>2
  <2> HIDE DEF refused
  <2> QED
    BY <1>1, <1>2, <2>1, FaultedIs DEF TrailRecords
<1>4. InProgress(Review) /\ Review = reviews[Anchor]
  BY <1>1, TopFacts DEF Review
<1>5. [reviews EXCEPT ![Anchor].status = "running"] = reviews
  <2>1. [reviews[Anchor] EXCEPT !.status = "running"] = reviews[Anchor]
    BY <1>2, <1>4 DEF ReviewRecords, InProgress
  <2> QED
    BY <1>2, <2>1
<1>6. reviews' = reviews \/ reviews' = [reviews EXCEPT ![Anchor].status = "stale"]
  BY <1>1, <1>5
<1> QED
  BY <1>1, <1>3, <1>6, AbandonKeeps DEF Abandons

(***************************************************************************)
(* Commands, kills and changes.                                            *)
(***************************************************************************)
LEMMA KillKeeps ==
    ASSUME CandidateAssumption, CandidateInv, Kill
    PROVE  CandidateInv'
<1>1. /\ frames # <<>> /\ frames' = <<>> /\ UNCHANGED <<reviews, artifacts, moved>>
      /\ trail' = [Faulted EXCEPT !.crossed = AtBoundary] /\ trail \in TrailRecords
  BY DEF Kill, CandidateInv, CandidateTypes
<1> DEFINE b == AtBoundary
<1>2. b \in BOOLEAN
  BY Zenon DEF AtBoundary
<1>3. trail' = [Faulted EXCEPT !.crossed = b]
  BY <1>1
<1> HIDE DEF b
<1>4. /\ trail' \in TrailRecords /\ trail'.rejected = trail.rejected
      /\ trail'.basis = trail.basis /\ trail'.calls = trail.calls
  <2>1. /\ Faulted \in TrailRecords /\ Faulted.rejected = trail.rejected
        /\ Faulted.basis = trail.basis /\ Faulted.calls = trail.calls
    BY <1>1, FaultedIs
  <2> QED
    BY <1>2, <1>3, <2>1 DEF TrailRecords
<1> QED
  BY <1>1, <1>4, AbandonKeeps DEF Abandons

LEMMA InterruptKeeps ==
    ASSUME CandidateAssumption, CandidateInv, Interrupt
    PROVE  CandidateInv'
<1>1. /\ frames # <<>> /\ frames' = <<>> /\ UNCHANGED <<artifacts, moved>>
      /\ trail' = Faulted /\ Top.pc \notin EndPlaces /\ Top.pc # "unwind"
      /\ reviews' = IF moved THEN reviews ELSE [reviews EXCEPT ![Anchor].status = "interrupted"]
  BY DEF Interrupt, Asking, In, EndPlaces
<1>2. trail \in TrailRecords
  BY DEF CandidateInv, CandidateTypes
<1>3. /\ trail' \in TrailRecords /\ trail'.rejected = trail.rejected
      /\ trail'.basis = trail.basis /\ trail'.calls = trail.calls
  BY <1>1, <1>2, FaultedIs
<1>4. Abandons
  BY <1>1, <1>3 DEF Abandons
<1> QED
  BY <1>4, AbandonKeeps

LEMMA MoveKeeps ==
    ASSUME CandidateAssumption, CandidateInv, Move
    PROVE  CandidateInv'
<1>1. /\ UNCHANGED <<reviews, frames, artifacts>> /\ moved' = TRUE
      /\ trail' = Faulted /\ trail \in TrailRecords
  BY DEF Move, CandidateInv, CandidateTypes
<1>2. /\ trail' \in TrailRecords /\ trail'.rejected = trail.rejected
      /\ trail'.basis = trail.basis /\ trail'.calls = trail.calls
  BY <1>1, FaultedIs
<1>3. CandidateTypes' /\ Stacked' /\ Blank'
  BY <1>1, <1>2 DEF CandidateInv, CandidateTypes, Stacked, Blank
<1>4. NodesHold'
  BY <1>1, <1>2 DEF CandidateInv, NodesHold
<1>5. FramesHold'
  BY <1>1, <1>2 DEF CandidateInv, FramesHold, RepairKnown
<1>6. CrossingOK'
  BY <1>1, <1>2 DEF CandidateInv, CrossingOK, AtBoundary
<1>7. RejectedOK'
  BY <1>1, <1>2 DEF CandidateInv, RejectedOK
<1> QED
  BY <1>3, <1>4, <1>5, <1>6, <1>7 DEF CandidateInv

\* A new attempt keeps what the earlier ones reserved and accepted.
LEMMA StartKeeps ==
    ASSUME CandidateAssumption, CandidateInv, Start
    PROVE  CandidateInv'
<1> DEFINE r == [reviews[Anchor] EXCEPT !.status = "running", !.semantic = "not_run",
                                        !.security = "not_run", !.stop = "none", !.local = FALSE]
           f == Enter(Anchor)
<1>1. /\ frames = <<>> /\ ~moved /\ ~AtBoundary /\ frames' = <<f>>
      /\ trail' = [trail EXCEPT !.sessions = @ + 1, !.crossed = FALSE, !.refused = FALSE]
      /\ UNCHANGED <<artifacts, moved>>
      /\ Anchor \in ReviewNodes /\ trail \in TrailRecords
      /\ reviews \in [ReviewNodes -> ReviewRecords]
  BY DEF Start, CandidateAssumption, CandidateInv, CandidateTypes
<1>2. reviews' = [reviews EXCEPT ![Anchor] = r]
  BY <1>1 DEF Start
<1>3. /\ r \in ReviewRecords /\ InProgress(r) /\ r.role = reviews[Anchor].role
      /\ r.control = reviews[Anchor].control /\ r.gap = reviews[Anchor].gap
      /\ r.completed = reviews[Anchor].completed
  <2>1. reviews[Anchor] \in ReviewRecords
    BY <1>1
  <2> QED
    BY <2>1 DEF ReviewRecords, ReviewStatuses, ReviewVerdicts, ReviewStops, InProgress
<1> HIDE DEF r
<1>4. /\ reviews' \in [ReviewNodes -> ReviewRecords] /\ reviews'[Anchor] = r
      /\ \A n \in ReviewNodes \ {Anchor} : reviews'[n] = reviews[n]
  BY <1>1, <1>2, <1>3
<1>5. \A n \in ReviewNodes : /\ reviews'[n].role = reviews[n].role
                             /\ reviews'[n].control = reviews[n].control
                             /\ reviews'[n].gap = reviews[n].gap
  BY <1>3, <1>4
<1>6. \A n \in ReviewNodes : Gapped(reviews', n) = Gapped(reviews, n)
  BY <1>5 DEF Gapped, CandidateAssumption
<1>7. /\ f \in FrameRecords /\ f.node = Anchor /\ f.pc = "review" /\ f.role = "semantic"
  BY <1>1, EnterIs
<1> HIDE DEF f
<1>8. /\ frames' \in Seq(FrameRecords) /\ Len(frames') = 1 /\ frames'[1] = f /\ frames' # <<>>
  BY <1>1, <1>7
<1>9. /\ trail' \in TrailRecords /\ trail'.rejected = trail.rejected
      /\ trail'.basis = trail.basis /\ trail'.calls = trail.calls
  <2> DEFINE s == trail.sessions + 1
  <2>1. s \in Nat
    BY <1>1 DEF TrailRecords
  <2>2. trail' = [trail EXCEPT !.sessions = s, !.crossed = FALSE, !.refused = FALSE]
    BY <1>1
  <2> HIDE DEF s
  <2> QED
    BY <1>1, <2>1, <2>2 DEF TrailRecords
<1>11. CandidateTypes'
  BY <1>1, <1>4, <1>8, <1>9 DEF CandidateInv, CandidateTypes
<1>12. Stacked'
  BY <1>3, <1>4, <1>7, <1>8 DEF Stacked, InProgress
<1>13. Blank'
  BY <1>1, <1>3, <1>4 DEF CandidateInv, Blank, InProgress
<1>14. NodesHold'
  <2> SUFFICES ASSUME NEW n \in ReviewNodes
               PROVE  /\ RoleRefers(reviews'[n], n) /\ LeafKeeps(reviews'[n], n)
                      /\ CallsHold(reviews'[n], n, trail'.calls[n])
                      /\ reviews'[n].stop # "evidence"
                      /\ reviews'[n].status = "running" => InProgress(reviews'[n])
                      /\ n # Anchor /\ artifacts'[n] # 0 => artifacts'[n] = reviews'[n].completed
                      /\ n # Anchor /\ reviews'[n].semantic = "rejected" => reviews'[n].gap
                      /\ n # Anchor /\ (reviews'[n].gap \/ reviews'[n].stop = "candidate_repair")
                           => trail'.rejected # {}
                      /\ reviews'[n].role["semantic"].full.gaps \subseteq Gapped(reviews', n)
    BY DEF NodesHold
  <2>1. /\ RoleRefers(reviews[n], n) /\ LeafKeeps(reviews[n], n)
        /\ CallsHold(reviews[n], n, trail.calls[n])
        /\ reviews[n].stop # "evidence"
        /\ reviews[n].status = "running" => InProgress(reviews[n])
        /\ n # Anchor /\ artifacts[n] # 0 => artifacts[n] = reviews[n].completed
        /\ n # Anchor /\ reviews[n].semantic = "rejected" => reviews[n].gap
        /\ n # Anchor /\ (reviews[n].gap \/ reviews[n].stop = "candidate_repair")
             => trail.rejected # {}
        /\ reviews[n].role["semantic"].full.gaps \subseteq Gapped(reviews, n)
    BY DEF CandidateInv, NodesHold
  <2>2. CASE n # Anchor
    BY <1>1, <1>4, <1>6, <1>9, <2>1, <2>2
  <2>3. CASE n = Anchor
    <3>1. RoleRefers(reviews'[n], n) /\ LeafKeeps(reviews'[n], n)
      BY <1>5, <2>1 DEF RoleRefers, LeafKeeps
    <3>2. CallsHold(reviews'[n], n, trail'.calls[n])
      <4>1. /\ reviews'[n].role = reviews[n].role /\ trail'.calls[n] = trail.calls[n]
            /\ ~Ended(reviews[n], n) /\ reviews'[n].status # "absent"
        BY <1>3, <1>4, <1>5, <1>9, <2>3 DEF Ended, InProgress
      <4> QED
        BY <2>1, <4>1, SameCalls
    <3> QED
      BY <1>3, <1>4, <1>5, <1>6, <2>1, <2>3, <3>1, <3>2 DEF InProgress
  <2> QED
    BY <2>2, <2>3
<1>15. FramesHold'
  <2>1. FrameHolds(f, reviews'[Anchor], trail'.calls[Anchor], Gapped(reviews', Anchor))
        /\ RepairKnown(f, trail')
    BY <1>7
       DEF FrameHolds, FramePlaced, RoundOpen, PastFull, FrameEnds, GapsSeen, AskedUnkept,
                RepairKnown, ChildPlaces, EndPlaces
  <2> QED
    BY <1>7, <1>8, <2>1 DEF FramesHold
<1>16. CrossingOK'
  <2>1. ~AtBoundary'
    BY <1>1, <1>3, <1>4 DEF AtBoundary, Crossed, InProgress
  <2> QED
    BY <2>1, <1>7, <1>8 DEF CrossingOK
<1>17. RejectedOK'
  <2>1. \A n \in ReviewNodes : /\ reviews'[n].status = "passed" => reviews[n].status = "passed"
                               /\ n # Anchor => reviews'[n].status = reviews[n].status
    BY <1>3, <1>4 DEF InProgress
  <2>2. trail.rejected \subseteq ReviewNodes
    BY <1>1 DEF TrailRecords
  <2> QED
    BY <1>1, <1>5, <1>6, <1>9, <2>1, <2>2 DEF CandidateInv, RejectedOK
<1> QED
  BY <1>11, <1>12, <1>13, <1>14, <1>15, <1>16, <1>17 DEF CandidateInv

\* A gate at which nothing has happened.
LEMMA FreshHolds ==
    ASSUME CandidateAssumption, NEW n \in ReviewNodes
    PROVE  /\ NoReview \in ReviewRecords /\ NoCalls \in [Roles -> [Kinds -> Nat]]
           /\ RoleRefers(NoReview, n) /\ LeafKeeps(NoReview, n)
           /\ CallsHold(NoReview, n, NoCalls)
           /\ NoReview.status = "absent" /\ NoReview.stop = "none" /\ ~NoReview.gap
           /\ NoReview.semantic = "not_run" /\ ~NoReview.control
           /\ NoReview.role["semantic"].full.gaps = {}
           /\ ~Crossed(NoReview)
<1>1. \A r \in Roles : NoReview.role[r] = NoRole
  BY DEF NoReview
<1>2. NoRole.refresh = {} /\ NoRole.composed.required = {} /\ NoRole.full.gaps = {}
  BY DEF NoRole, NoResult, NoFull
<1>3. RoleRefers(NoReview, n) /\ NoReview.role["semantic"].full.gaps = {}
  BY <1>1, <1>2 DEF RoleRefers, Roles
<1>4. NoCalls \in [Roles -> [Kinds -> Nat]] /\ \A r \in Roles, k \in Kinds : NoCalls[r][k] = 0
  BY DEF NoCalls, Kinds
<1>5. CallsHold(NoReview, n, NoCalls)
  <2>1. \A r \in Roles : NoCalls[r]["composed"] = 0 /\ NoCalls[r]["again"] = 0 /\ NoCalls[r]["full"] = 0
    BY <1>4 DEF Kinds
  <2> QED
    BY <2>1 DEF CallsHold, AtMostOnce, CallsCounted, ComposedOnce, AgainOnce, FullOnce
<1>6. /\ NoReview.status = "absent" /\ NoReview.stop = "none" /\ ~NoReview.gap
      /\ NoReview.semantic = "not_run" /\ ~NoReview.control
  BY DEF NoReview
<1> QED
  BY <1>3, <1>4, <1>5, <1>6, EnterIs DEF LeafKeeps, Crossed

LEMMA FreshTrail ==
    /\ NoTrail \in TrailRecords /\ NoTrail.rejected = {}
    /\ ~NoTrail.crossed /\ NoTrail.began = 0 /\ NoTrail.sessions = 0
    /\ \A n \in ReviewNodes : NoTrail.calls[n] = NoCalls
<1>1. NoBasis \in BasisRecords
  BY DEF NoBasis, BasisRecords
<1>2. NoCalls \in [Roles -> [Kinds -> Nat]]
  BY DEF NoCalls, Kinds
<1> DEFINE b == [n \in ReviewNodes |-> NoBasis]
           c == [n \in ReviewNodes |-> NoCalls]
<1>3. b \in [ReviewNodes -> BasisRecords] /\ c \in [ReviewNodes -> [Roles -> [Kinds -> Nat]]]
      /\ \A n \in ReviewNodes : c[n] = NoCalls
  BY <1>1, <1>2
<1>4. NoTrail = [rejected |-> {}, basis |-> b, calls |-> c, compact |-> {},
                 crossed |-> FALSE, refused |-> FALSE, began |-> 0, sessions |-> 0, faults |-> 0]
  BY DEF NoTrail
<1> HIDE DEF b, c
<1> QED
  BY <1>3, <1>4 DEF TrailRecords

LEMMA NewGateKeeps ==
    ASSUME CandidateAssumption, CandidateInv, NewGate
    PROVE  CandidateInv'
<1>1. /\ frames' = <<>> /\ reviews' = [n \in ReviewNodes |-> NoReview]
      /\ artifacts' = [n \in ReviewNodes |-> 0] /\ moved' = FALSE
      /\ Anchor \in ReviewNodes
      /\ \E compact \in SUBSET Composers :
           trail' = [NoTrail EXCEPT !.sessions = trail.sessions, !.began = trail.sessions,
                                    !.faults = trail.faults, !.compact = compact]
  BY DEF NewGate, CandidateAssumption
<1>2. trail.sessions \in Nat /\ trail.faults \in Nat
  BY DEF CandidateInv, CandidateTypes, TrailRecords
<1>3. /\ trail' \in TrailRecords /\ trail'.rejected = {}
      /\ \A n \in ReviewNodes : trail'.calls[n] = NoCalls
  <2>1. PICK compact \in SUBSET ReviewNodes :
          trail' = [NoTrail EXCEPT !.sessions = trail.sessions, !.began = trail.sessions,
                                   !.faults = trail.faults, !.compact = compact]
    BY <1>1 DEF Composers
  <2> QED
    BY <1>2, <2>1, FreshTrail DEF TrailRecords
<1>4. \A n \in ReviewNodes : reviews'[n] = NoReview /\ artifacts'[n] = 0
  BY <1>1
<1>5. CandidateTypes'
  <2>1. reviews' \in [ReviewNodes -> ReviewRecords] /\ artifacts' \in [ReviewNodes -> Nat]
    BY <1>1, FreshHolds
  <2>2. frames' \in Seq(FrameRecords) /\ moved' \in BOOLEAN
    <3>1. frames' = <<>> /\ moved' = FALSE
      BY <1>1
    <3>2. <<>> \in Seq(FrameRecords)
      BY EmptySeq
    <3> QED
      BY <3>1, <3>2, Zenon
  <2> QED
    BY <1>3, <2>1, <2>2 DEF CandidateTypes
<1>6. Stacked' /\ FramesHold'
  BY <1>1 DEF Stacked, FramesHold
<1>7. Blank'
  BY <1>1, <1>4, FreshHolds DEF Blank
<1>8. NodesHold'
  BY <1>3, <1>4, FreshHolds DEF NodesHold
<1>9. CrossingOK'
  BY <1>1, <1>4, FreshHolds DEF CrossingOK, AtBoundary
<1>10. RejectedOK'
  BY <1>1, <1>3, <1>4, FreshHolds DEF RejectedOK
<1> QED
  BY <1>5, <1>6, <1>7, <1>8, <1>9, <1>10 DEF CandidateInv

LEMMA CandidateFirst ==
    ASSUME CandidateAssumption, Init
    PROVE  CandidateInv
<1>1. /\ frames = <<>> /\ reviews = [n \in ReviewNodes |-> NoReview]
      /\ artifacts = [n \in ReviewNodes |-> 0] /\ moved = FALSE /\ Anchor \in ReviewNodes
      /\ \E compact \in SUBSET Composers : trail = [NoTrail EXCEPT !.compact = compact]
  BY DEF Init, CandidateAssumption
<1>3. /\ trail \in TrailRecords /\ trail.rejected = {}
      /\ \A n \in ReviewNodes : trail.calls[n] = NoCalls
  <2>1. PICK compact \in SUBSET ReviewNodes : trail = [NoTrail EXCEPT !.compact = compact]
    BY <1>1 DEF Composers
  <2> QED
    BY <2>1, FreshTrail DEF TrailRecords
<1>4. \A n \in ReviewNodes : reviews[n] = NoReview /\ artifacts[n] = 0
  BY <1>1
<1>5. CandidateTypes
  <2>1. reviews \in [ReviewNodes -> ReviewRecords] /\ artifacts \in [ReviewNodes -> Nat]
    BY <1>1, FreshHolds
  <2>2. frames \in Seq(FrameRecords) /\ moved \in BOOLEAN
    <3>1. frames = <<>> /\ moved = FALSE
      BY <1>1
    <3>2. <<>> \in Seq(FrameRecords)
      BY EmptySeq
    <3> QED
      BY <3>1, <3>2, Zenon
  <2> QED
    BY <1>3, <2>1, <2>2 DEF CandidateTypes
<1>6. Stacked /\ FramesHold
  BY <1>1 DEF Stacked, FramesHold
<1>7. Blank
  BY <1>1, <1>4, FreshHolds DEF Blank
<1>8. NodesHold
  BY <1>3, <1>4, FreshHolds DEF NodesHold
<1>9. CrossingOK
  BY <1>1, <1>4, FreshHolds DEF CrossingOK, AtBoundary
<1>10. RejectedOK
  BY <1>1, <1>3, <1>4, FreshHolds DEF RejectedOK
<1> QED
  BY <1>5, <1>6, <1>7, <1>8, <1>9, <1>10 DEF CandidateInv

LEMMA CandidateSame ==
    ASSUME CandidateInv, UNCHANGED candidateVars
    PROVE  CandidateInv'
<1>1. UNCHANGED <<reviews, frames, artifacts, moved, trail>>
  BY DEF candidateVars
<1>2. CandidateTypes' /\ Stacked' /\ Blank'
  BY <1>1 DEF CandidateInv, CandidateTypes, Stacked, Blank
<1>3. NodesHold'
  BY <1>1 DEF CandidateInv, NodesHold
<1>4. FramesHold'
  BY <1>1 DEF CandidateInv, FramesHold
<1>5. CrossingOK' /\ RejectedOK'
  BY <1>1 DEF CandidateInv, CrossingOK, RejectedOK, AtBoundary
<1> QED
  BY <1>2, <1>3, <1>4, <1>5 DEF CandidateInv

LEMMA CandidateStep ==
    ASSUME CandidateAssumption, CandidateInv, [Next]_candidateVars
    PROVE  CandidateInv'
<1>1. CASE Start \/ NewGate \/ Kill \/ Interrupt \/ Move
  BY <1>1, StartKeeps, NewGateKeeps, KillKeeps, InterruptKeeps, MoveKeeps
<1>2. CASE Gate
  <2>1. CASE BeginRole \/ Compose \/ Ask \/ Reassess \/ ReviewChild \/ ChildReviewed
    BY <2>1, BeginRoleKeeps, ComposeKeeps, AskKeeps, ReassessKeeps, ReviewChildKeeps,
       ChildReviewedKeeps
  <2>2. CASE FullReview \/ FullAnswer \/ ReviewFails \/ Cross \/ ReserveCompletion \/ Publish
    BY <2>2, FullReviewKeeps, FullAnswerKeeps, ReviewFailsKeeps, CrossKeeps,
       ReserveCompletionKeeps, PublishKeeps
  <2>3. CASE \/ In("finish") /\ ~Crossed(Top.out) /\ EndGate
             \/ Latch \/ Unwind \/ ChildUnsaved \/ AnchorUnsaved
    BY <2>3, EndGateKeeps, LatchKeeps, UnwindKeeps, ChildUnsavedKeeps, AnchorUnsavedKeeps
  <2> QED
    BY <1>2, <2>1, <2>2, <2>3 DEF Gate
<1>3. CASE UNCHANGED candidateVars
  BY <1>3, CandidateSame
<1> QED
  BY <1>1, <1>2, <1>3 DEF Next

(***************************************************************************)
(* What a step of a gate leaves of the trail, the control of the verified  *)
(* node, and its place.                                                    *)
(***************************************************************************)
\* The steps that neither begin nor end a gate or a command.
Works ==
    \/ BeginRole \/ Compose \/ Ask \/ Reassess
    \/ ReviewChild \/ ChildReviewed
    \/ FullReview \/ FullAnswer \/ ReviewFails
    \/ ReserveCompletion \/ Publish

SameTrail ==
    /\ trail'.crossed = trail.crossed /\ trail'.refused = trail.refused
    /\ trail'.sessions = trail.sessions /\ trail'.began = trail.began
SameOpen ==
    \A n \in ReviewNodes, role \in Roles :
        trail'.calls[n][role]["open"] = trail.calls[n][role]["open"]

LEMMA CallingIs ==
    ASSUME CandidateAssumption, CandidateInv, frames # <<>>, NEW kind \in Kinds
    PROVE  /\ Called(kind).crossed = trail.crossed /\ Called(kind).refused = trail.refused
           /\ Called(kind).sessions = trail.sessions /\ Called(kind).began = trail.began
           /\ \A n \in ReviewNodes, role \in Roles :
                Called(kind).calls[n][role]["open"] =
                    IF kind = "open" /\ n = Here /\ role = Top.role
                    THEN trail.calls[n][role]["open"] + 1 ELSE trail.calls[n][role]["open"]
<1> DEFINE c == [trail.calls[Here] EXCEPT ![Top.role][kind] = @ + 1]
<1>1. /\ c[Top.role][kind] = trail.calls[Here][Top.role][kind] + 1
      /\ \A k \in Kinds \ {kind} : c[Top.role][k] = trail.calls[Here][Top.role][k]
      /\ \A r \in Roles \ {Top.role} : c[r] = trail.calls[Here][r]
      /\ Called(kind).crossed = trail.crossed /\ Called(kind).refused = trail.refused
      /\ Called(kind).sessions = trail.sessions /\ Called(kind).began = trail.began
      /\ Called(kind).calls = [trail.calls EXCEPT ![Here] = c]
  BY CountedIs DEF Called
<1> HIDE DEF c
<1>2. /\ Here \in ReviewNodes /\ Top.role \in Roles
      /\ trail.calls \in [ReviewNodes -> [Roles -> [Kinds -> Nat]]]
  BY TopFacts, TopSeen DEF CandidateInv, CandidateTypes, TrailRecords
<1>3. \A n \in ReviewNodes : Called(kind).calls[n] = IF n = Here THEN c ELSE trail.calls[n]
  BY <1>1, <1>2
<1>4. ASSUME NEW n \in ReviewNodes, NEW role \in Roles
      PROVE  Called(kind).calls[n][role]["open"] =
                 IF kind = "open" /\ n = Here /\ role = Top.role
                 THEN trail.calls[n][role]["open"] + 1 ELSE trail.calls[n][role]["open"]
  <2>1. CASE n = Here /\ role = Top.role
    BY <1>1, <1>3, <2>1 DEF Kinds
  <2>2. CASE n = Here /\ role # Top.role
    BY <1>1, <1>3, <2>2
  <2>3. CASE n # Here
    BY <1>3, <2>3
  <2> QED
    BY <2>1, <2>2, <2>3
<1> QED
  BY <1>1, <1>4

LEMMA WorksTrail ==
    ASSUME CandidateAssumption, CandidateInv, Works
    PROVE  /\ frames # <<>> /\ Top.pc \notin EndPlaces
           /\ SameTrail
           /\ \/ SameOpen
              \/ /\ FullReview /\ Here = Anchor /\ Role.full.state = "none"
                 /\ ~Review.control /\ trail' = Called("open")
<1>1. frames # <<>> /\ Top.pc \notin EndPlaces
  BY DEF Works, BeginRole, Compose, Ask, Reassess, ReviewChild, ChildReviewed, FullReview,
         FullAnswer, ReviewFails, ReserveCompletion, Publish, In, EndPlaces
<1>2. trail \in TrailRecords
  BY DEF CandidateInv, CandidateTypes
<1>3. CASE trail' = trail
  BY <1>1, <1>3 DEF SameTrail, SameOpen
<1>4. CASE trail' = Faulted
  BY <1>1, <1>2, <1>4, FaultedIs DEF SameTrail, SameOpen
<1>5. ASSUME NEW kind \in {"composed", "again", "full"}, trail' = Called(kind)
      PROVE  SameTrail /\ SameOpen
  BY <1>1, <1>5, CallingIs DEF SameTrail, SameOpen, Kinds
<1>6. CASE /\ FullReview /\ Here = Anchor /\ Role.full.state = "none"
           /\ ~Review.control /\ trail' = Called("open")
  BY <1>1, <1>6, CallingIs DEF SameTrail, Kinds
<1>7. \/ trail' = trail \/ trail' = Faulted
      \/ \E kind \in {"composed", "again", "full"} : trail' = Called(kind)
      \/ /\ FullReview /\ Here = Anchor /\ Role.full.state = "none"
         /\ ~Review.control /\ trail' = Called("open")
  <2>1. CASE BeginRole \/ ReviewChild \/ ChildReviewed \/ FullAnswer \/ ReserveCompletion
    BY <2>1 DEF BeginRole, ReviewChild, ChildReviewed, FullAnswer, ReserveCompletion
  <2>2. CASE Compose
    BY <2>2 DEF Compose, UseAccepted, NoPacket, Reserving
  <2>3. CASE Ask \/ ReviewFails \/ Publish
    BY <2>3 DEF Ask, ReviewFails, Publish
  <2>4. CASE Reassess
    BY <2>4 DEF Reassess, Reserving
  <2>5. CASE FullReview
    BY <2>5 DEF FullReview, Reserving
  <2> QED
    BY <2>1, <2>2, <2>3, <2>4, <2>5 DEF Works
<1> QED
  BY <1>1, <1>3, <1>4, <1>5, <1>6, <1>7

(***************************************************************************)
(* Boundaries that were crossed.  A gate at work has seen none that was    *)
(* not refused; past its work the boundary is in the outcome of the        *)
(* innermost gate, and then on the record of the verified node.            *)
(***************************************************************************)
CrossingHeld ==
    trail.crossed =>
        \/ trail.refused
        \/ frames = <<>> /\ Crossed(reviews[Anchor])
        \/ frames # <<>> /\ Top.pc \in EndPlaces /\ Crossed(Top.out)

\* What was not on its way stays refused, and what is refused now stays so.
LEMMA CrossingGoesOn ==
    ASSUME CrossingHeld, frames # <<>>,
           trail'.crossed = trail.crossed,
           trail.refused \/ (Top.pc \in EndPlaces /\ Crossed(Top.out)) => trail'.refused
    PROVE  CrossingHeld'
BY DEF CrossingHeld

LEMMA CrossingFirst ==
    ASSUME CandidateAssumption, Init
    PROVE  CrossingHeld
<1>1. PICK compact \in SUBSET ReviewNodes : trail = [NoTrail EXCEPT !.compact = compact]
  BY DEF Init, Composers
<1> QED
  BY <1>1 DEF CrossingHeld, NoTrail

LEMMA CrossingStep ==
    ASSUME CandidateAssumption, CandidateInv, CandidateInv', CrossingHeld, [Next]_candidateVars
    PROVE  CrossingHeld'
<1>1. trail \in TrailRecords /\ reviews \in [ReviewNodes -> ReviewRecords]
      /\ Anchor \in ReviewNodes
  BY DEF CandidateInv, CandidateTypes, CandidateAssumption
<1>2. CASE Works
  BY <1>2, WorksTrail, CrossingGoesOn DEF SameTrail
<1>3. CASE Start \/ NewGate
  <2>1. ~trail'.crossed
    <3>1. CASE Start
      BY <1>1, <3>1 DEF Start, TrailRecords
    <3>2. CASE NewGate
      BY <3>2 DEF NewGate, NoTrail
    <3> QED
      BY <1>3, <3>1, <3>2
  <2> QED
    BY <2>1 DEF CrossingHeld
<1>4. CASE Cross
  <2>1. PICK out \in ReviewRecords :
          Crossed(out) /\ frames' = WithTop([On("finish") EXCEPT !.out = out])
    <3>1. frames # <<>> /\ Top.pc \notin EndPlaces
      BY <1>4 DEF Cross, Asking, In, EndPlaces
    <3>2. Review \in ReviewRecords /\ InProgress(Review)
      BY <3>1, TopFacts DEF EndPlaces
    <3>3. ASSUME NEW out, Finish(out), out \in ReviewRecords, Crossed(out)
          PROVE  \E o \in ReviewRecords :
                   Crossed(o) /\ frames' = WithTop([On("finish") EXCEPT !.out = o])
      BY <3>3 DEF Finish
    <3>4. LET out == [Review EXCEPT !.status = "blocked", !.stop = "boundary"]
          IN  out \in ReviewRecords /\ Crossed(out)
      BY <3>2 DEF Crossed, ReviewRecords, ReviewStatuses, ReviewStops
    <3>5. LET out == [Review EXCEPT !.status = "failed", !.semantic = "approved",
                                    !.security = "rejected", !.stop = "repair"]
          IN  out \in ReviewRecords /\ Crossed(out)
      BY <3>2 DEF Crossed, ReviewRecords, ReviewStatuses, ReviewStops, ReviewVerdicts
    <3>6. \/ Finish([Review EXCEPT !.status = "blocked", !.stop = "boundary"])
          \/ Finish([Review EXCEPT !.status = "failed", !.semantic = "approved",
                                   !.security = "rejected", !.stop = "repair"])
      BY <1>4 DEF Cross
    <3> QED
      BY <3>3, <3>4, <3>5, <3>6
  <2> DEFINE f == [On("finish") EXCEPT !.out = out]
  <2>2. frames # <<>> /\ f \in FrameRecords /\ f.pc = "finish" /\ f.out = out
    <3>1. frames # <<>>
      BY <1>4 DEF Cross, Asking, In
    <3> QED
      BY <3>1, FinishIs
  <2>3. frames' # <<>> /\ Top' = f
    BY <2>1, <2>2, NewTop
  <2> QED
    BY <2>1, <2>2, <2>3 DEF CrossingHeld, EndPlaces
<1>5. CASE Latch
  <2>1. /\ frames # <<>> /\ Crossed(Top.out) /\ Top.out \in ReviewRecords
        /\ reviews'[Anchor] = BoundaryOf(reviews[Anchor], Top.out)
        /\ frames' = IF Here = Anchor THEN <<>> ELSE WithTop(On("unwind"))
    <3>1. frames # <<>>
      BY <1>5 DEF Latch, In
    <3> QED
      BY <1>1, <1>5, <3>1, TopFacts DEF Latch, LatchAnchor, Go, FrameRecords
  <2>2. CASE Here = Anchor
    <3>1. Crossed(reviews'[Anchor])
      BY <1>1, <2>1 DEF BoundaryOf, Crossed, ReviewRecords
    <3> QED
      BY <2>1, <2>2, <3>1 DEF CrossingHeld
  <2>3. CASE Here # Anchor
    <3>1. /\ On("unwind") \in FrameRecords /\ On("unwind").pc = "unwind"
          /\ On("unwind").out = Top.out
      BY <2>1, OnIs DEF GatePlaces, EndPlaces
    <3>2. frames' # <<>> /\ Top' = On("unwind")
      BY <2>1, <2>3, <3>1, NewTop
    <3> QED
      BY <2>1, <3>1, <3>2 DEF CrossingHeld, EndPlaces
  <2> QED
    BY <2>2, <2>3
<1>6. CASE Unwind
  <2>1. /\ frames # <<>> /\ Top.pc = "unwind" /\ frames' = <<>>
        /\ Here \in ReviewNodes /\ Top.out \in ReviewRecords /\ Crossed(Top.out)
    <3>1. frames # <<>> /\ Top.pc = "unwind" /\ frames' = <<>>
      BY <1>6 DEF Unwind, In
    <3> QED
      BY <3>1, TopFacts DEF CandidateInv, CrossingOK, FrameRecords
  <2>2. Crossed(reviews'[Here])
    <3>1. reviews'[Here] = [Top.out EXCEPT !.control = Review.control, !.role = Review.role]
      BY <1>6, <2>1 DEF Unwind
    <3> QED
      BY <2>1, <3>1 DEF Crossed, ReviewRecords
  <2>3. AtBoundary'
    <3>1. DOMAIN reviews' = ReviewNodes
      BY DEF CandidateInv, CandidateTypes
    <3> QED
      BY <2>1, <2>2, <3>1, Zenon DEF AtBoundary
  <2>4. Crossed(reviews[Anchor])'
    BY <2>1, <2>3 DEF CandidateInv, CrossingOK
  <2> QED
    BY <2>1, <2>4 DEF CrossingHeld
<1>7. CASE In("finish") /\ ~Crossed(Top.out) /\ EndGate
  <2>1. trail'.crossed = trail.crossed /\ trail'.refused = trail.refused
    BY <1>1, <1>7 DEF EndGate, TrailRecords
  <2> QED
    BY <1>7, <2>1, CrossingGoesOn DEF In
<1>8. CASE ChildUnsaved \/ AnchorUnsaved
  <2>1. frames # <<>> /\ Top.pc # "unwind"
    BY <1>8 DEF ChildUnsaved, AnchorUnsaved, In
  <2>2. trail'.crossed = trail.crossed
        /\ (trail.refused \/ (Top.pc = "finish" /\ Crossed(Top.out)) => trail'.refused)
    <3>1. CASE ChildUnsaved
      <4> DEFINE refused == Faulted.refused \/ (In("finish") /\ Crossed(Top.out))
      <4>1. trail' = [Faulted EXCEPT !.refused = refused]
        BY <3>1 DEF ChildUnsaved
      <4>2. trail.refused \/ (Top.pc = "finish" /\ Crossed(Top.out)) => refused
        BY <1>1, <2>1, FaultedIs DEF In
      <4> HIDE DEF refused
      <4> QED
        BY <1>1, <4>1, <4>2, FaultedIs DEF TrailRecords
    <3>2. CASE AnchorUnsaved
      <4> DEFINE refused == Faulted.refused \/ Crossed(Top.out)
      <4>1. trail' = [Faulted EXCEPT !.refused = refused]
        BY <3>2 DEF AnchorUnsaved
      <4>2. trail.refused \/ (Top.pc = "finish" /\ Crossed(Top.out)) => refused
        BY <1>1, FaultedIs
      <4> HIDE DEF refused
      <4> QED
        BY <1>1, <4>1, <4>2, FaultedIs DEF TrailRecords
    <3> QED
      BY <1>8, <3>1, <3>2
  <2> QED
    BY <2>1, <2>2, CrossingGoesOn DEF EndPlaces
<1>9. CASE Kill
  <2> DEFINE b == AtBoundary
  <2>1. frames # <<>> /\ frames' = <<>> /\ reviews' = reviews
        /\ trail' = [Faulted EXCEPT !.crossed = b]
    BY <1>9 DEF Kill
  <2>2. b => Crossed(reviews[Anchor])
    BY <2>1 DEF CandidateInv, CrossingOK
  <2> HIDE DEF b
  <2>3. trail'.crossed = b
    BY <1>1, <2>1, FaultedIs DEF TrailRecords
  <2> QED
    BY <2>1, <2>2, <2>3 DEF CrossingHeld
<1>10. CASE Interrupt
  <2>1. frames # <<>> /\ Top.pc \notin EndPlaces /\ trail' = Faulted
    BY <1>10 DEF Interrupt, Asking, In, EndPlaces
  <2> QED
    BY <1>1, <2>1, FaultedIs, CrossingGoesOn
<1>11. CASE Move
  <2>1. UNCHANGED <<reviews, frames>> /\ trail' = Faulted
    BY <1>11 DEF Move
  <2> QED
    BY <1>1, <2>1, FaultedIs DEF CrossingHeld, Top
<1>12. CASE UNCHANGED candidateVars
  BY <1>12 DEF candidateVars, CrossingHeld, Top
<1> QED
  BY <1>2, <1>3, <1>4, <1>5, <1>6, <1>7, <1>8, <1>9, <1>10, <1>11, <1>12 DEF Next, Gate, Works

(***************************************************************************)
(* The full reviews that are not reserved.  The verified node composes     *)
(* without control only while nothing is below it, so that its gate is the *)
(* innermost; and there each command passes the review once.               *)
(***************************************************************************)
\* The place of the gate is past the unreserved review of the role.
PastOpen(f, role) ==
    \/ f.pc \in {"publish"} \cup EndPlaces
    \/ f.role = role /\ f.pc = "ask_full"
    \/ role = "semantic" /\ f.role = "security"
Onward(f, g) == \A role \in Roles : PastOpen(f, role) => PastOpen(g, role)

Commands == trail.sessions - trail.began
Asked(role) == trail.calls[Anchor][role]["open"]
OpenCounted ==
    /\ trail.began <= trail.sessions
    /\ \A n \in ReviewNodes, role \in Roles :
         trail.calls[n][role]["open"] <= IF n = Anchor THEN Commands ELSE 0
    /\ frames # <<>> /\ ~reviews[Anchor].control =>
         \A role \in Roles : PastOpen(Top, role) \/ Asked(role) < Commands

LEMMA AnyTop ==
    ASSUME CandidateInv, frames # <<>>, NEW f, frames' = WithTop(f)
    PROVE  frames' # <<>> /\ Top' = f
<1> DEFINE S == FrameRecords \cup {f}
           s == Front(frames)
<1>1. s \in Seq(FrameRecords)
  BY FrontIs DEF CandidateInv, CandidateTypes
<1>2. s \in Seq(S) /\ f \in S
  BY <1>1
<1> HIDE DEF S, s
<1>3. Append(s, f) # <<>> /\ Len(Append(s, f)) = Len(s) + 1 /\ Append(s, f)[Len(s) + 1] = f
  BY <1>2
<1>4. frames' = Append(s, f)
  BY DEF WithTop, s
<1>5. Top' = frames'[Len(frames')]
  BY DEF Top, Last
<1> QED
  BY <1>3, <1>4, <1>5

\* Without control the innermost gate is that of the verified node.
LEMMA AloneAtAnchor ==
    ASSUME CandidateAssumption, CandidateInv, frames # <<>>, ~reviews[Anchor].control
    PROVE  /\ Here = Anchor /\ Review = reviews[Anchor]
           /\ \A c \in Kids[Anchor] : reviews[c] = NoReview
           /\ Gaps(Anchor) = {}
<1>1. Here \in ReviewNodes /\ Anchor \in ReviewNodes /\ Kids[Anchor] \subseteq ReviewNodes \ {Anchor}
  BY TopFacts DEF CandidateAssumption
<1>2. \A n \in ReviewNodes \ {Anchor} : reviews[n] = NoReview
  BY DEF CandidateInv, Blank
<1>3. \A c \in Kids[Anchor] : reviews[c] = NoReview
  BY <1>1, <1>2
<1>4. Here = Anchor
  <2>1. CASE Len(frames) = 1
    BY <2>1, TopFacts DEF CandidateInv, Stacked, Here
  <2>2. CASE Len(frames) # 1
    <3>1. Len(frames) \in 1..Len(frames) /\ Len(frames) > 1
      BY <2>2, TopIsLast DEF CandidateInv, CandidateTypes
    <3>2. InProgress(Review)
      BY <3>1, TopFacts DEF CandidateInv, Stacked, Review, Here
    <3> QED
      BY <1>1, <1>2, <3>2 DEF InProgress, NoReview, Review
  <2> QED
    BY <2>1, <2>2
<1>5. Gaps(Anchor) = {}
  BY <1>3 DEF Gaps, NoReview
<1> QED
  BY <1>3, <1>4, <1>5 DEF Review

\* What a gate saves keeps the control that the verified node has.
LEMMA SavingControl ==
    ASSUME CandidateAssumption, CandidateInv, NEW rs, NEW next, Saving(rs, next),
           rs[Anchor].control \/ (moved /\ reviews[Anchor].control)
    PROVE  reviews'[Anchor].control \/ (frames' = <<>> /\ ~reviews[Anchor].control)
<1>1. Anchor \in ReviewNodes /\ reviews[Anchor] \in ReviewRecords
      /\ reviews \in [ReviewNodes -> ReviewRecords]
  BY DEF CandidateInv, CandidateTypes, CandidateAssumption
<1>2. CASE moved
  <2>1. reviews' = [reviews EXCEPT ![Anchor].status = "stale"] /\ frames' = <<>>
    BY <1>2 DEF Saving
  <2> QED
    BY <1>1, <2>1 DEF ReviewRecords
<1>3. CASE ~moved
  <2>1. reviews' = Latched(rs)
    BY <1>3 DEF Saving
  <2>2. Latched(rs)[Anchor] = rs[Anchor]
    BY <1>1 DEF Latched
  <2> QED
    BY <1>3, <2>1, <2>2
<1> QED
  BY <1>2, <1>3

\* No step of a gate takes the verified node's control away.
LEMMA ControlStays ==
    ASSUME CandidateAssumption, CandidateInv, reviews[Anchor].control,
           Gate \/ Kill \/ Interrupt \/ Move
    PROVE  reviews'[Anchor].control
<1>1. Anchor \in ReviewNodes /\ reviews[Anchor] \in ReviewRecords
      /\ reviews \in [ReviewNodes -> ReviewRecords]
  BY DEF CandidateInv, CandidateTypes, CandidateAssumption
<1>2. ASSUME NEW rs, NEW next, Saving(rs, next), rs[Anchor].control PROVE reviews'[Anchor].control
  BY <1>2, SavingControl
<1>3. ASSUME NEW status, reviews' = [reviews EXCEPT ![Anchor].status = status]
      PROVE  reviews'[Anchor].control
  BY <1>1, <1>3 DEF ReviewRecords
<1>4. CASE UNCHANGED reviews
  BY <1>4
<1>5. ASSUME frames # <<>>, Top.pc # "unwind"
      PROVE  /\ Here \in ReviewNodes /\ Review \in ReviewRecords /\ Role \in RoleRecords
             /\ Top.role \in Roles /\ Review = reviews[Here]
  BY <1>5, TopFacts, TopSeen DEF Review
<1>6. ASSUME NEW role, NEW pc, frames # <<>>, Top.pc # "unwind", SaveRole(role, pc)
      PROVE  reviews'[Anchor].control
  <2> DEFINE rs == [reviews EXCEPT ![Here].control = @ \/ Here \in trail.compact,
                                   ![Here].role[Top.role] = role]
  <2>1. Saving(rs, WithTop(On(pc)))
    BY <1>6 DEF SaveRole
  <2>2. rs[Anchor].control
    BY <1>1, <1>5, <1>6 DEF ReviewRecords
  <2> QED
    BY <1>2, <2>1, <2>2
<1>7. CASE BeginRole
  <2> USE <1>1
  <2>1. frames # <<>> /\ Top.pc = "review"
    BY <1>7 DEF BeginRole, In
  <2>2. ASSUME NEW large,
               Saving([reviews EXCEPT ![Here].control = TRUE,
                                      ![Here].role[Top.role] =
                                          [Role EXCEPT !.attempted = TRUE, !.refresh = large]],
                      WithTop([Top EXCEPT !.pc = "children", !.todo = large, !.then = "compose"]))
        PROVE  reviews'[Anchor].control
    <3> DEFINE rs == [reviews EXCEPT ![Here].control = TRUE,
                                     ![Here].role[Top.role] =
                                         [Role EXCEPT !.attempted = TRUE, !.refresh = large]]
    <3>1. rs[Anchor].control
      BY <1>5, <2>1 DEF ReviewRecords
    <3> QED
      BY <1>2, <2>2, <3>1
  <2> QED
    BY <1>4, <1>7, <2>2 DEF BeginRole
<1>8. CASE Compose \/ Ask \/ Reassess
  <2>1. frames # <<>> /\ Top.pc # "unwind"
    BY <1>8 DEF Compose, Ask, Reassess, In
  <2>2. UNCHANGED reviews \/ \E role, pc : SaveRole(role, pc)
    BY <1>8 DEF Compose, Ask, Reassess, UseAccepted, NoPacket
  <2> QED
    BY <1>4, <1>6, <2>1, <2>2
<1>9. CASE ReviewChild
  <2>1. frames # <<>> /\ Top.pc = "children"
    BY <1>9 DEF ReviewChild, In
  <2>2. Child \in ReviewNodes \ {Anchor}
    <3>1. Top.todo # {} /\ Top.todo \subseteq Kids[Here] /\ Kids[Here] \subseteq ReviewNodes \ {Anchor}
      BY <2>1, TopSeen, TopFacts DEF FramePlaced, ChildPlaces, Here
    <3> QED
      BY <3>1 DEF Child
  <2>3. CASE Saving([reviews EXCEPT ![Here].control = TRUE, ![Child] = RunningReview],
                    Into(Child, "returned"))
    <3> DEFINE rs == [reviews EXCEPT ![Here].control = TRUE, ![Child] = RunningReview]
    <3>1. rs[Anchor].control
      BY <1>1, <1>5, <2>1, <2>2 DEF ReviewRecords
    <3> QED
      BY <1>2, <2>3, <3>1
  <2> QED
    BY <1>4, <1>9, <2>3 DEF ReviewChild
<1>10. CASE FullReview
  <2>1. frames # <<>> /\ Top.pc = "full"
    BY <1>10 DEF FullReview, In
  <2> USE <1>1, <1>5, <2>1
  <2>2. CASE Saving([reviews EXCEPT ![Here].role[Top.role].full.state = "reserved"],
                    WithTop(On("ask_full")))
    <3> DEFINE rs == [reviews EXCEPT ![Here].role[Top.role].full.state = "reserved"]
    <3>1. rs[Anchor].control
      BY DEF ReviewRecords
    <3> QED
      BY <1>2, <2>2, <3>1
  <2>3. CASE Saving([reviews EXCEPT ![Here].control = TRUE,
                                    ![Here].role["semantic"].attempted = TRUE], frames)
    <3> DEFINE rs == [reviews EXCEPT ![Here].control = TRUE,
                                     ![Here].role["semantic"].attempted = TRUE]
    <3>1. rs[Anchor].control
      BY DEF ReviewRecords
    <3> QED
      BY <1>2, <2>3, <3>1
  <2> QED
    BY <1>4, <1>10, <2>2, <2>3 DEF FullReview
<1>11. CASE FullAnswer
  <2>1. frames # <<>> /\ Top.pc = "ask_full"
    BY <1>11 DEF FullAnswer, In
  <2>2. ASSUME NEW full, NEW next,
               Saving([reviews EXCEPT ![Here].role[Top.role].full = full], next)
        PROVE  reviews'[Anchor].control
    <3> DEFINE rs == [reviews EXCEPT ![Here].role[Top.role].full = full]
    <3>1. rs[Anchor].control
      BY <1>1, <1>5, <2>1 DEF ReviewRecords
    <3> QED
      BY <1>2, <2>2, <3>1
  <2> QED
    BY <1>4, <1>11, <2>2 DEF FullAnswer
<1>12. CASE ReserveCompletion
  <2>1. frames # <<>> /\ Top.pc = "publish"
    BY <1>12 DEF ReserveCompletion, In
  <2> DEFINE rs == [reviews EXCEPT ![Here].completed = trail.sessions]
  <2>2. rs[Anchor].control
    BY <1>1, <1>5, <2>1 DEF ReviewRecords
  <2>3. Saving(rs, frames)
    BY <1>12 DEF ReserveCompletion
  <2> QED
    BY <1>2, <2>2, <2>3
<1>13. CASE ChildReviewed \/ ReviewFails \/ Publish \/ Cross \/ ChildUnsaved \/ Kill \/ Move
  BY <1>4, <1>13 DEF ChildReviewed, ReviewFails, Publish, Cross, ChildUnsaved, Kill, Move
<1>14. CASE AnchorUnsaved \/ Interrupt
  BY <1>3, <1>4, <1>14 DEF AnchorUnsaved, Interrupt
<1>15. CASE EndGate
  <2>1. frames # <<>> /\ Top.pc = "finish"
    BY <1>15 DEF EndGate, In
  <2> DEFINE rs == [reviews EXCEPT ![Here] =
                      [Accepted(Top.out) EXCEPT !.control = Review.control, !.role = Kept,
                                                !.gap = Review.gap, !.completed = Review.completed]]
  <2>2. Saving(rs, Front(frames))
    BY <1>15 DEF EndGate
  <2>3. rs[Anchor].control
    <3>1. Accepted(Top.out) \in ReviewRecords
      BY <2>1, TopFacts DEF Accepted, FrameRecords, ReviewRecords, ReviewStatuses, ReviewStops
    <3> QED
      BY <1>1, <1>5, <2>1, <3>1 DEF ReviewRecords
  <2> QED
    BY <1>2, <2>2, <2>3
<1>16. CASE Latch
  BY <1>1, <1>16 DEF Latch, LatchAnchor, BoundaryOf, ReviewRecords
<1>17. CASE Unwind
  <2>1. frames # <<>> /\ Top.pc = "unwind"
    BY <1>17 DEF Unwind, In
  <2>2. Anchor \in Path /\ Top.out \in ReviewRecords /\ Here \in ReviewNodes
    BY <2>1, TopFacts DEF FrameRecords
  <2> QED
    BY <1>1, <1>17, <2>2 DEF Unwind, BoundaryOf, Review, ReviewRecords
<1> QED
  BY <1>7, <1>8, <1>9, <1>10, <1>11, <1>12, <1>13, <1>14, <1>15, <1>16, <1>17 DEF Gate

\* Where the gate of a verified node without control goes on: it ends, it gets
\* control, or it stays past every review it was past.
GoesOnward ==
    \/ frames' = <<>>
    \/ reviews'[Anchor].control
    \/ \E f : frames' = WithTop(f) /\ Onward(Top, f)

LEMMA OnwardIs ==
    ASSUME NEW f, NEW g,
           \/ g.pc \in {"publish"} \cup EndPlaces
           \/ /\ f.pc \notin {"publish", "ask_full"} \cup EndPlaces
              /\ g.role \in {f.role, "security"}
           \/ f.pc = "ask_full" /\ f.role = "semantic" /\ g.role = "security"
    PROVE  Onward(f, g)
BY DEF Onward, PastOpen, Roles, EndPlaces

LEMMA GateGoesOn ==
    ASSUME CandidateAssumption, CandidateInv, frames # <<>>, ~reviews[Anchor].control, Gate
    PROVE  GoesOnward
<1>1. /\ Here = Anchor /\ Review = reviews[Anchor] /\ Gaps(Here) = {}
      /\ \A c \in Kids[Here] : reviews[c] = NoReview
  BY AloneAtAnchor
<1>2. Top \in FrameRecords /\ Top.role \in Roles
  BY TopFacts, TopSeen
<1>3. ASSUME NEW f, frames' = WithTop(f),
             \/ f.pc \in {"publish"} \cup EndPlaces
             \/ /\ Top.pc \notin {"publish", "ask_full"} \cup EndPlaces
                /\ f.role \in {Top.role, "security"}
             \/ Top.pc = "ask_full" /\ Top.role = "semantic" /\ f.role = "security"
      PROVE  GoesOnward
  BY <1>3, OnwardIs DEF GoesOnward
<1>4. ASSUME NEW pc, Go(pc), Top.pc \notin {"publish", "ask_full"} \cup EndPlaces
      PROVE  GoesOnward
  <2>1. On(pc).role = Top.role
    BY <1>2 DEF On, FrameRecords
  <2> QED
    BY <1>3, <1>4, <2>1 DEF Go
<1>5. ASSUME NEW out, Finish(out) PROVE GoesOnward
  <2> DEFINE f == [On("finish") EXCEPT !.out = out]
  <2>1. f.pc = "finish"
    BY <1>2 DEF On, FrameRecords
  <2> QED
    BY <1>3, <1>5, <2>1 DEF Finish, EndPlaces
<1>6. ASSUME NEW stop, BlockedBy(stop) PROVE GoesOnward
  BY <1>5, <1>6 DEF BlockedBy
<1>7. ASSUME NEW full, frames' = Approve(full), Top.pc \notin {"publish"} \cup EndPlaces
      PROVE  GoesOnward
  <2> DEFINE pc == IF Top.role = "semantic" THEN "review" ELSE "publish"
             basis == IF Top.role = "semantic"
                      THEN [full |-> full, knows |-> trail.rejected # {}] ELSE Top.basis
             f == [On(pc) EXCEPT !.basis = basis, !.role = "security"]
  <2>1. frames' = WithTop(f)
    BY <1>7 DEF Approve
  <2>2. f.role = "security" /\ f.pc = pc
    <3> HIDE DEF pc, basis
    <3> QED
      BY <1>2 DEF On, FrameRecords
  <2>3. CASE Top.role = "semantic"
    BY <1>3, <1>7, <2>1, <2>2, <2>3
  <2>4. CASE Top.role # "semantic"
    BY <1>3, <2>1, <2>2, <2>4
  <2> QED
    BY <2>3, <2>4
<1>8. ASSUME NEW stop, NEW local, frames' = Reject(stop, local) PROVE GoesOnward
  BY <1>5, <1>8 DEF Reject, Finish
<1>9. ASSUME NEW pc, NEW todo, NEW then,
             frames' = WithTop([Top EXCEPT !.pc = pc, !.todo = todo, !.then = then]),
             Top.pc \notin {"publish", "ask_full"} \cup EndPlaces
      PROVE  GoesOnward
  <2> DEFINE f == [Top EXCEPT !.pc = pc, !.todo = todo, !.then = then]
  <2>1. f.role = Top.role
    BY <1>2 DEF FrameRecords
  <2> QED
    BY <1>3, <1>9, <2>1
<1>10. ASSUME NEW rs, NEW next, Saving(rs, next), frames' = next => GoesOnward
       PROVE  GoesOnward
  BY <1>10 DEF Saving, GoesOnward
<1>11. ASSUME NEW role, NEW pc, SaveRole(role, pc), Top.pc \notin {"publish", "ask_full"} \cup EndPlaces
       PROVE  GoesOnward
  <2>1. frames' = WithTop(On(pc)) => GoesOnward
    BY <1>4, <1>11 DEF Go
  <2> QED
    BY <1>10, <1>11, <2>1 DEF SaveRole
<1>12. CASE BeginRole
  <2>1. Top.pc = "review"
    BY <1>12 DEF BeginRole, In
  <2>2. ASSUME NEW rs, NEW large,
               Saving(rs, WithTop([Top EXCEPT !.pc = "children", !.todo = large, !.then = "compose"]))
        PROVE  GoesOnward
    BY <1>9, <1>10, <2>1, <2>2 DEF EndPlaces
  <2> QED
    BY <1>4, <1>9, <1>12, <2>1, <2>2 DEF BeginRole, EndPlaces
<1>13. CASE Compose
  <2>1. Top.pc = "compose"
    BY <1>13 DEF Compose, In
  <2>2. CASE UseAccepted
    <3>1. CASE frames' = Settle
      BY <1>4, <1>9, <2>1, <3>1 DEF Settle, Go, EndPlaces
    <3> QED
      BY <1>7, <1>8, <2>1, <2>2, <3>1 DEF UseAccepted, EndPlaces
  <2> QED
    BY <1>4, <1>11, <1>13, <2>1, <2>2 DEF Compose, NoPacket, EndPlaces
<1>14. CASE Ask
  <2>1. Top.pc \in {"ask", "again"}
    BY <1>14 DEF Ask, In
  <2> QED
    BY <1>4, <1>8, <1>11, <1>14, <2>1 DEF Ask, EndPlaces
<1>15. CASE Reassess
  <2>1. Top.pc = "reassess"
    BY <1>15 DEF Reassess, In
  <2> QED
    BY <1>4, <1>11, <1>15, <2>1 DEF Reassess, EndPlaces
<1>16. CASE ReviewChild
  <2>1. Top.pc = "children" /\ Child \in Kids[Here]
    <3>1. frames # <<>> /\ Top.pc = "children"
      BY <1>16 DEF ReviewChild, In
    <3>2. Top.todo # {} /\ Top.todo \subseteq Kids[Here]
      BY <3>1, TopSeen DEF FramePlaced, ChildPlaces, Here
    <3> QED
      BY <3>1, <3>2 DEF Child
  <2>2. ~Present(Child)
    BY <1>1, <2>1 DEF Present, NoReview
  <2>3. CASE Saving([reviews EXCEPT ![Here].control = TRUE, ![Child] = RunningReview],
                    Into(Child, "returned"))
    <3> DEFINE rs == [reviews EXCEPT ![Here].control = TRUE, ![Child] = RunningReview]
    <3>1. rs[Anchor].control
      <4>1. /\ Anchor \in ReviewNodes /\ Child # Anchor
            /\ reviews \in [ReviewNodes -> ReviewRecords]
        BY <1>1, <2>1 DEF CandidateInv, CandidateTypes, CandidateAssumption
      <4> QED
        BY <1>1, <4>1 DEF ReviewRecords
    <3> QED
      BY <2>3, <3>1, SavingControl DEF GoesOnward
  <2> QED
    BY <1>6, <1>16, <2>2, <2>3 DEF ReviewChild
<1>17. CASE ChildReviewed
  <2>1. frames # <<>> /\ Top.pc \in {"returned", "settled"}
    BY <1>17 DEF ChildReviewed, In
  <2>2. Child \in Kids[Here]
    <3>1. Top.todo # {} /\ Top.todo \subseteq Kids[Here]
      BY <2>1, TopSeen DEF FramePlaced, ChildPlaces, Here
    <3> QED
      BY <3>1 DEF Child
  <2>3. reviews[Child].status # "passed"
    BY <1>1, <2>2 DEF NoReview
  <2> QED
    BY <1>1, <1>4, <1>5, <1>6, <1>17, <2>1, <2>3 DEF ChildReviewed, EndPlaces
<1>18. CASE FullReview
  <2>1. Top.pc = "full"
    BY <1>18 DEF FullReview, In
  <2>2. ~Review.control /\ ~(Here # Anchor /\ Kids[Here] # {})
    BY <1>1
  <2> QED
    BY <1>4, <1>6, <1>7, <1>8, <1>18, <2>1, <2>2 DEF FullReview, EndPlaces
<1>19. CASE FullAnswer
  <2>1. Top.pc = "ask_full"
    BY <1>19 DEF FullAnswer, In
  <2>2. PICK full, stop, local :
          \/ frames' = Approve(full) \/ frames' = Reject(stop, local)
          \/ \E rs : Saving(rs, Approve(full)) \/ Saving(rs, Reject(stop, local))
    BY <1>19 DEF FullAnswer
  <2>3. frames' = Approve(full) \/ frames' = Reject(stop, local) => GoesOnward
    BY <1>7, <1>8, <2>1 DEF EndPlaces
  <2> QED
    BY <1>10, <2>2, <2>3
<1>20. CASE ReviewFails \/ Cross
  BY <1>5, <1>6, <1>20 DEF ReviewFails, Cross
<1>21. CASE Publish
  BY <1>5, <1>6, <1>21 DEF Publish
<1>22. CASE ReserveCompletion \/ ChildUnsaved
  BY <1>1, <1>22 DEF ReserveCompletion, ChildUnsaved
<1>23. CASE EndGate
  <2>1. Len(frames) = 1
    <3>1. 1 \in 1..Len(frames) /\ Len(frames) \in 1..Len(frames) /\ frames[1].node = Anchor
      BY TopIsLast DEF CandidateInv, CandidateTypes, Stacked
    <3>2. frames[Len(frames)].node = frames[1].node
      BY <1>1, <3>1, TopFacts DEF Here
    <3> QED
      BY <3>1, <3>2 DEF CandidateInv, Stacked
  <2>2. Front(frames) = <<>>
    <3>1. Front(frames) \in Seq(FrameRecords) /\ Len(Front(frames)) = 0
      BY <2>1, FrontIs DEF CandidateInv, CandidateTypes
    <3> QED
      BY <3>1, EmptySeq
  <2>3. frames' = <<>>
    BY <1>23, <2>2 DEF EndGate, Saving
  <2> QED
    BY <2>3 DEF GoesOnward
<1>24. CASE Latch \/ Unwind \/ AnchorUnsaved
  BY <1>1, <1>24 DEF Latch, Unwind, AnchorUnsaved, GoesOnward
<1> QED
  BY <1>12, <1>13, <1>14, <1>15, <1>16, <1>17, <1>18, <1>19, <1>20, <1>21, <1>22, <1>23, <1>24
  DEF Gate

\* Nothing is counted that was not, and the gate goes on.
LEMMA OpenKept ==
    ASSUME CandidateInv, CandidateInv', OpenCounted,
           trail'.sessions = trail.sessions, trail'.began = trail.began,
           \A n \in ReviewNodes, role \in Roles :
               trail'.calls[n][role]["open"] <= trail.calls[n][role]["open"],
           frames' # <<>> => \/ reviews'[Anchor].control
                             \/ frames # <<>> /\ ~reviews[Anchor].control /\ Onward(Top, Top'),
           Anchor \in ReviewNodes
    PROVE  OpenCounted'
<1>1. /\ trail.sessions \in Nat /\ trail.began \in Nat /\ trail'.sessions \in Nat
      /\ trail'.began \in Nat
      /\ \A n \in ReviewNodes, role \in Roles : /\ trail.calls[n][role]["open"] \in Nat
                                                /\ trail'.calls[n][role]["open"] \in Nat
  BY DEF CandidateInv, CandidateTypes, TrailRecords, Kinds
<1>2. Commands' = Commands /\ Commands \in Int
  BY <1>1 DEF Commands
<1>3. (trail.began <= trail.sessions)'
  BY DEF OpenCounted
<1>4. ASSUME NEW n \in ReviewNodes, NEW role \in Roles
      PROVE  trail'.calls[n][role]["open"] <= IF n = Anchor THEN Commands ELSE 0
  <2>1. trail.calls[n][role]["open"] <= IF n = Anchor THEN Commands ELSE 0
    BY DEF OpenCounted
  <2> QED
    BY <1>1, <1>2, <2>1
<1>5. ASSUME frames' # <<>>, ~reviews'[Anchor].control, NEW role \in Roles
      PROVE  (PastOpen(Top, role) \/ Asked(role) < Commands)'
  <2>1. frames # <<>> /\ ~reviews[Anchor].control /\ Onward(Top, Top')
    BY <1>5
  <2>2. PastOpen(Top, role) \/ Asked(role) < Commands
    BY <2>1 DEF OpenCounted
  <2>3. CASE PastOpen(Top, role)
    <3>1. PastOpen(Top', role)
      BY <2>1, <2>3 DEF Onward
    <3> QED
      BY <3>1 DEF PastOpen
  <2>4. CASE Asked(role) < Commands
    BY <1>1, <1>2, <2>4 DEF Asked
  <2> QED
    BY <2>2, <2>3, <2>4
<1> QED
  BY <1>2, <1>3, <1>4, <1>5 DEF OpenCounted

LEMMA OpenFirst ==
    ASSUME CandidateAssumption, Init
    PROVE  OpenCounted
<1>1. PICK compact \in SUBSET ReviewNodes : trail = [NoTrail EXCEPT !.compact = compact]
  BY DEF Init, Composers
<1>2. /\ trail.began = 0 /\ trail.sessions = 0
      /\ \A n \in ReviewNodes : trail.calls[n] = NoCalls
  BY <1>1, FreshTrail DEF TrailRecords
<1>3. frames = <<>>
  BY DEF Init
<1> QED
  BY <1>2, <1>3 DEF OpenCounted, Commands, NoCalls

LEMMA OpenStep ==
    ASSUME CandidateAssumption, CandidateInv, CandidateInv', OpenCounted, [Next]_candidateVars
    PROVE  OpenCounted'
<1>1. /\ trail \in TrailRecords /\ Anchor \in ReviewNodes
      /\ \A n \in ReviewNodes, role \in Roles : trail.calls[n][role]["open"] \in Nat
  BY DEF CandidateInv, CandidateTypes, CandidateAssumption, TrailRecords, Kinds
<1>2. ASSUME frames # <<>>, Gate, frames' # <<>>
      PROVE  \/ reviews'[Anchor].control
             \/ frames # <<>> /\ ~reviews[Anchor].control /\ Onward(Top, Top')
  <2>1. CASE reviews[Anchor].control
    BY <1>2, <2>1, ControlStays
  <2>2. CASE ~reviews[Anchor].control
    <3>1. reviews'[Anchor].control \/ \E f : frames' = WithTop(f) /\ Onward(Top, f)
      BY <1>2, <2>2, GateGoesOn DEF GoesOnward
    <3> QED
      BY <1>2, <2>2, <3>1, AnyTop
  <2> QED
    BY <2>1, <2>2
<1>3. ASSUME Works, SameOpen PROVE OpenCounted'
  <2>1. frames # <<>> /\ SameTrail
    BY <1>3, WorksTrail
  <2>2. Gate
    BY <1>3 DEF Works, Gate
  <2> QED
    BY <1>1, <1>2, <1>3, <2>1, <2>2, OpenKept DEF SameTrail, SameOpen
<1>4. ASSUME Works, FullReview, Here = Anchor, Role.full.state = "none", ~Review.control,
             trail' = Called("open")
      PROVE  OpenCounted'
  <2> DEFINE asked(n, role) == trail.calls[n][role]["open"]
  <2>1. /\ frames # <<>> /\ Top.pc = "full" /\ ~reviews[Anchor].control /\ Top.role \in Roles
        /\ Top \in FrameRecords
    BY <1>4, TopSeen, TopFacts DEF FullReview, In, Review
  <2>2. /\ trail'.sessions = trail.sessions /\ trail'.began = trail.began
        /\ \A n \in ReviewNodes, role \in Roles :
             asked(n, role)' = IF n = Anchor /\ role = Top.role
                               THEN asked(n, role) + 1 ELSE asked(n, role)
    BY <1>4, <2>1, CallingIs DEF Kinds
  <2>3. frames' = WithTop(On("ask_full"))
    BY <1>4 DEF FullReview, Go
  <2>4. Top' = On("ask_full") /\ On("ask_full").pc = "ask_full" /\ On("ask_full").role = Top.role
    <3>1. Top' = On("ask_full")
      BY <2>1, <2>3, AnyTop
    <3> QED
      BY <2>1, <3>1 DEF On, FrameRecords
  <2>5. /\ trail.sessions \in Nat /\ trail.began \in Nat
        /\ Commands' = Commands /\ Commands \in Int
    BY <1>1, <2>2 DEF TrailRecords, Commands
  <2>6. ASSUME NEW role \in Roles
        PROVE  PastOpen(Top, role) \/ asked(Anchor, role) < Commands
    BY <2>1 DEF OpenCounted, Asked
  <2>7. ~PastOpen(Top, Top.role)
    BY <2>1 DEF PastOpen, EndPlaces
  <2>8. ASSUME NEW n \in ReviewNodes, NEW role \in Roles
        PROVE  asked(n, role)' <= IF n = Anchor THEN Commands ELSE 0
    <3>1. asked(n, role) <= IF n = Anchor THEN Commands ELSE 0
      BY DEF OpenCounted
    <3>2. CASE n = Anchor /\ role = Top.role
      <4>1. asked(Anchor, role) < Commands
        BY <2>6, <2>7, <3>2
      <4>2. asked(n, role) \in Nat
        BY <1>1
      <4>3. asked(n, role)' = asked(n, role) + 1
        BY <2>2, <3>2
      <4> HIDE DEF asked
      <4> QED
        BY <2>5, <3>2, <4>1, <4>2, <4>3
    <3> QED
      BY <2>2, <3>1, <3>2
  <2>9. ASSUME NEW role \in Roles
        PROVE  PastOpen(Top', role) \/ asked(Anchor, role)' < Commands
    <3>1. CASE role = Top.role
      BY <2>4, <3>1 DEF PastOpen
    <3>2. CASE role # Top.role /\ PastOpen(Top, role)
      BY <2>1, <2>4, <3>2 DEF PastOpen, EndPlaces
    <3>3. CASE role # Top.role /\ asked(Anchor, role) < Commands
      BY <1>1, <2>2, <3>3
    <3> QED
      BY <2>6, <3>1, <3>2, <3>3
  <2>10. (\A n \in ReviewNodes, role \in Roles :
            trail.calls[n][role]["open"] <= IF n = Anchor THEN Commands ELSE 0)'
    BY <2>5, <2>8
  <2>11. (\A role \in Roles : PastOpen(Top, role) \/ Asked(role) < Commands)'
    BY <2>5, <2>9 DEF PastOpen, Asked
  <2> QED
    BY <2>2, <2>10, <2>11 DEF OpenCounted
<1>5. CASE Works
  BY <1>3, <1>4, <1>5, WorksTrail
<1>6. CASE Start
  <2>1. /\ frames = <<>> /\ trail'.sessions = trail.sessions + 1 /\ trail'.began = trail.began
        /\ trail'.calls = trail.calls
    BY <1>1, <1>6 DEF Start, TrailRecords
  <2>2. Commands' = Commands + 1 /\ Commands \in Nat
    BY <1>1, <2>1 DEF Commands, TrailRecords, OpenCounted
  <2>3. ASSUME NEW n \in ReviewNodes, NEW role \in Roles
        PROVE  /\ trail'.calls[n][role]["open"] <= IF n = Anchor THEN Commands' ELSE 0
               /\ n = Anchor => trail'.calls[n][role]["open"] < Commands'
    <3>1. trail.calls[n][role]["open"] <= IF n = Anchor THEN Commands ELSE 0
      BY DEF OpenCounted
    <3> QED
      BY <1>1, <2>1, <2>2, <3>1
  <2>4. (trail.began <= trail.sessions)'
    BY <1>1, <2>1 DEF OpenCounted, TrailRecords
  <2> QED
    BY <1>1, <2>3, <2>4 DEF OpenCounted, Asked
<1>7. CASE NewGate
  <2>1. PICK compact \in SUBSET ReviewNodes :
          trail' = [NoTrail EXCEPT !.sessions = trail.sessions, !.began = trail.sessions,
                                   !.faults = trail.faults, !.compact = compact]
    BY <1>7 DEF NewGate, Composers
  <2>2. /\ trail'.sessions = trail.sessions /\ trail'.began = trail.sessions
        /\ \A n \in ReviewNodes : trail'.calls[n] = NoCalls
    BY <2>1, FreshTrail DEF TrailRecords
  <2>3. frames' = <<>>
    BY <1>7 DEF NewGate
  <2>4. trail.sessions \in Nat
    BY <1>1 DEF TrailRecords
  <2> QED
    BY <2>2, <2>3, <2>4 DEF OpenCounted, Commands, NoCalls
<1>8. CASE Cross
  <2>1. frames # <<>> /\ Gate
    BY <1>8 DEF Cross, Asking, In, Gate
  <2>2. /\ trail'.sessions = trail.sessions /\ trail'.began = trail.began
        /\ trail'.calls = trail.calls
    <3>1. CASE trail' = [Faulted EXCEPT !.crossed = TRUE]
      BY <1>1, <3>1, FaultedIs DEF TrailRecords
    <3>2. CASE trail' = [trail EXCEPT !.crossed = TRUE]
      BY <1>1, <3>2 DEF TrailRecords
    <3> QED
      BY <1>8, <3>1, <3>2 DEF Cross
  <2> QED
    BY <1>1, <1>2, <2>1, <2>2, OpenKept
<1>9. CASE Latch \/ Unwind
  <2>1. frames # <<>> /\ Gate /\ trail' = trail
    BY <1>9 DEF Latch, Unwind, In, Gate
  <2> QED
    BY <1>1, <1>2, <2>1, OpenKept
<1>10. CASE In("finish") /\ ~Crossed(Top.out) /\ EndGate
  <2>1. frames # <<>> /\ Gate
    BY <1>10 DEF In, Gate
  <2> DEFINE out == [Accepted(Top.out) EXCEPT !.control = Review.control, !.role = Kept,
                                              !.gap = Review.gap, !.completed = Review.completed]
             rejected == IF out.semantic = "rejected" /\ out.stop # "candidate_repair"
                         THEN trail.rejected \cup {Here} ELSE trail.rejected
             calls == IF Here = Anchor THEN trail.calls[Here] ELSE SpentCalls
  <2>2. \/ trail' = trail
        \/ trail' = [trail EXCEPT !.rejected = rejected, !.basis[Here] = Top.basis,
                                  !.calls[Here] = calls]
    BY <1>10 DEF EndGate
  <2>3. calls = trail.calls[Here] \/ \A role \in Roles : calls[role]["open"] = 0
    BY DEF SpentCalls
  <2> HIDE DEF rejected, calls
  <2>4. /\ trail'.sessions = trail.sessions /\ trail'.began = trail.began
        /\ trail'.calls = trail.calls \/ trail'.calls = [trail.calls EXCEPT ![Here] = calls]
    BY <1>1, <2>2 DEF TrailRecords
  <2>5. ASSUME NEW n \in ReviewNodes, NEW role \in Roles
        PROVE  trail'.calls[n][role]["open"] <= trail.calls[n][role]["open"]
    <3>1. trail'.calls[n] = trail.calls[n] \/ (n = Here /\ trail'.calls[n] = calls)
      BY <1>1, <2>4 DEF TrailRecords
    <3> QED
      BY <1>1, <2>3, <3>1
  <2> QED
    BY <1>1, <1>2, <2>1, <2>4, <2>5, OpenKept
<1>11. CASE ChildUnsaved \/ AnchorUnsaved
  <2>1. frames # <<>> /\ Gate
    BY <1>11 DEF ChildUnsaved, AnchorUnsaved, In, Gate
  <2>2. /\ trail'.sessions = trail.sessions /\ trail'.began = trail.began
        /\ trail'.calls = trail.calls
    <3>1. PICK refused : trail' = [Faulted EXCEPT !.refused = refused]
      BY <1>11 DEF ChildUnsaved, AnchorUnsaved
    <3> QED
      BY <1>1, <3>1, FaultedIs DEF TrailRecords
  <2> QED
    BY <1>1, <1>2, <2>1, <2>2, OpenKept
<1>12. CASE Kill \/ Interrupt
  <2>1. frames' = <<>>
    BY <1>12 DEF Kill, Interrupt
  <2>2. /\ trail'.sessions = trail.sessions /\ trail'.began = trail.began
        /\ trail'.calls = trail.calls
    <3>1. trail' = Faulted \/ \E crossed : trail' = [Faulted EXCEPT !.crossed = crossed]
      BY <1>12 DEF Kill, Interrupt
    <3> QED
      BY <1>1, <3>1, FaultedIs DEF TrailRecords
  <2> QED
    BY <1>1, <2>1, <2>2, OpenKept
<1>13. CASE Move \/ UNCHANGED candidateVars
  <2>1. UNCHANGED <<reviews, frames>>
    BY <1>13 DEF Move, candidateVars
  <2>2. /\ trail'.sessions = trail.sessions /\ trail'.began = trail.began
        /\ trail'.calls = trail.calls
    BY <1>1, <1>13, FaultedIs DEF Move, candidateVars
  <2>3. Onward(Top, Top')
    BY <2>1 DEF Onward, Top
  <2> QED
    BY <1>1, <2>1, <2>2, <2>3, OpenKept
<1> QED
  BY <1>5, <1>6, <1>7, <1>8, <1>9, <1>10, <1>11, <1>12, <1>13 DEF Next, Gate, Works

(***************************************************************************)
(* What the invariant says.                                                *)
(***************************************************************************)
LEMMA CandidateReviewed ==
    ASSUME CandidateAssumption, CandidateInv
    PROVE  RejectionsAreReviewed
<1> SUFFICES ASSUME NEW n \in DOMAIN reviews, Reverified(n), Covered(n) \cap trail.rejected # {}
             PROVE  \E by \in {n, Anchor} : /\ reviews[by].status = "passed"
                                            /\ trail.basis[by].full /\ trail.basis[by].knows
  BY DEF RejectionsAreReviewed
<1>1. DOMAIN reviews = ReviewNodes /\ Anchor \in ReviewNodes
  BY DEF CandidateInv, CandidateTypes, CandidateAssumption
<1>2. PICK d \in Covered(n) : d \in trail.rejected
  OBVIOUS
<1>3. d \in ReviewNodes \ {Anchor} /\ (n = Anchor \/ d = n \/ d \in Kids[n])
  BY <1>1, <1>2 DEF Covered
<1>4. reviews[d].status = "failed" /\ trail.rejected \ {Anchor} # {}
  BY <1>2, <1>3 DEF CandidateInv, RejectedOK
<1>5. CASE reviews[Anchor].status = "passed"
  BY <1>1, <1>4, <1>5 DEF CandidateInv, RejectedOK
<1>6. CASE reviews[Anchor].status # "passed"
  <2>1. reviews[n].status = "passed" /\ n # Anchor /\ d # n
    BY <1>4, <1>6 DEF Reverified
  <2>2. Kids[n] \cap trail.rejected # {}
    BY <1>2, <1>3, <2>1
  <2> QED
    BY <1>1, <2>1, <2>2 DEF CandidateInv, RejectedOK
<1> QED
  BY <1>5, <1>6

LEMMA CandidateAsked ==
    ASSUME CandidateInv, OpenCounted
    PROVE  AskedOncePerGate
<1>1. DOMAIN reviews = ReviewNodes
  BY DEF CandidateInv, CandidateTypes
<1>2. ASSUME NEW n \in ReviewNodes PROVE AtMostOnce(trail.calls[n])
  <2>1. CallsHold(reviews[n], n, trail.calls[n])
    BY DEF CandidateInv, NodesHold
  <2> QED
    BY <2>1 DEF CallsHold, CallsCounted, AtMostOnce, ComposedOnce, AgainOnce, FullOnce
<1> QED
  BY <1>1, <1>2 DEF AtMostOnce, AskedOncePerGate, OpenCounted, Commands

LEMMA CandidateReproducible ==
    ASSUME CandidateInv
    PROVE  EvidenceIsReproducible
<1>1. DOMAIN reviews = ReviewNodes
  BY DEF CandidateInv, CandidateTypes
<1> QED
  BY <1>1 DEF CandidateInv, NodesHold, EvidenceIsReproducible

(***************************************************************************)
(* The theorems.                                                           *)
(***************************************************************************)
\* The inductive invariant holds of every behaviour.
THEOREM CandidateInvariant == CandidateAssumption => (Spec => []CandidateInv)
<1> SUFFICES ASSUME CandidateAssumption PROVE Spec => []CandidateInv
  OBVIOUS
<1>1. Init => CandidateInv
  BY CandidateFirst
<1>2. CandidateInv /\ [Next]_candidateVars => CandidateInv'
  BY CandidateStep
<1> QED
  BY <1>1, <1>2, PTL DEF Spec

\* A node counts as reviewed at a candidate only if every rejection recorded for
\* it or below it was answered by a full review that knew of it, its own or the
\* verified node's (semantic_gap_ids, replace_at).
THEOREM CandidateRejections == CandidateAssumption => (Spec => []RejectionsAreReviewed)
<1> SUFFICES ASSUME CandidateAssumption PROVE Spec => []RejectionsAreReviewed
  OBVIOUS
<1>1. CandidateInv => RejectionsAreReviewed
  BY CandidateReviewed
<1> QED
  BY <1>1, CandidateInvariant, PTL

\* At one gate no reviewer is asked twice to compose, to reassess or to review a
\* node in full, however often the command is killed, refused the lock and given
\* again; only the full review of the verified node, as long as its record keeps
\* no control to reserve it in, is repeated, once in a command
\* (MAX_NODE_PROVIDER_CALLS, _bounded_full_review).
THEOREM CandidateAskedOnce == CandidateAssumption => (Spec => []AskedOncePerGate)
<1> SUFFICES ASSUME CandidateAssumption PROVE Spec => []AskedOncePerGate
  OBVIOUS
<1>1. Init => CandidateInv /\ OpenCounted
  BY CandidateFirst, OpenFirst
<1>2. CandidateInv /\ OpenCounted /\ [Next]_candidateVars => CandidateInv' /\ OpenCounted'
  BY CandidateStep, OpenStep
<1>3. CandidateInv /\ OpenCounted => AskedOncePerGate
  BY CandidateAsked
<1> QED
  BY <1>1, <1>2, <1>3, PTL DEF Spec

\* A boundary that the command saw crossed, at any depth, is on the verified
\* node's record when the command ends, whatever moved meanwhile, unless the lock
\* of the progress refused the very save of it (_persist_candidate_boundary,
\* _persist_terminal_if_current).
THEOREM CandidateCrossingLatched == CandidateAssumption => (Spec => []CrossingIsLatched)
<1> SUFFICES ASSUME CandidateAssumption PROVE Spec => []CrossingIsLatched
  OBVIOUS
<1>1. Init => CandidateInv /\ CrossingHeld
  BY CandidateFirst, CrossingFirst
<1>2. CandidateInv /\ CrossingHeld /\ [Next]_candidateVars => CandidateInv' /\ CrossingHeld'
  BY CandidateStep, CrossingStep
<1>3. CrossingHeld => CrossingIsLatched
  BY DEF CrossingHeld, CrossingIsLatched
<1> QED
  BY <1>1, <1>2, <1>3, PTL DEF Spec

\* No gate is stopped by its own evidence file: a pass cut short is published
\* again as it was (store_checkpoint_evidence).
THEOREM CandidateEvidence == CandidateAssumption => (Spec => []EvidenceIsReproducible)
<1> SUFFICES ASSUME CandidateAssumption PROVE Spec => []EvidenceIsReproducible
  OBVIOUS
<1>1. CandidateInv => EvidenceIsReproducible
  BY CandidateReproducible
<1> QED
  BY <1>1, CandidateInvariant, PTL
=============================================================================
