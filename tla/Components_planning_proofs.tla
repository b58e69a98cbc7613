---------------------------- MODULE Components_planning_proofs ----------------------------
(***************************************************************************)
(* Planning a delivery among the components.  Preparing a tree: what is    *)
(* assembled was approved by every review of it, no question is asked too  *)
(* often, and none is corrected twice.  Authoring a plan: what the         *)
(* commands report of the plans they write is what is on disk.  Amending a *)
(* plan: it can always be delivered further, and keeps what it promised.   *)
(***************************************************************************)
EXTENDS Components, FiniteSetTheorems, WellFoundedInduction, TLAPS

(***************************************************************************)
(* Authoring a plan.  The invariant follows a draft from the author to the *)
(* files: every correction keeps what was authored, what is written was    *)
(* verified as it is, and until a command ends the files it found can be   *)
(* told from what is left to restore.                                      *)
(***************************************************************************)
GapRecords ==
    [id : ConstraintIds \cup ObligationIds \cup {Authoring!None}, units : SUBSET Units,
     omitted : BOOLEAN]

VerificationRecords ==
    [constraints : SUBSET Authoring!Requirements(ConstraintIds),
     obligations : SUBSET Authoring!Requirements(ObligationIds),
     text : Nat, constraintGap : GapRecords, obligationGap : GapRecords, literals : BOOLEAN,
     contracts : BOOLEAN, paths : BOOLEAN, stop : BOOLEAN, unavailable : BOOLEAN,
     given : BOOLEAN]

AuthoringPlaces ==
    {"idle", "author", "verify", "constraints", "obligations", "recover", "gate", "write", "undo"}

WorkRecords ==
    [pc : AuthoringPlaces, draft : Authoring!DraftRecords, verification : VerificationRecords,
     round : Nat, attempt : Nat, left : Seq(Authoring!Targets), undone : BOOLEAN]

AuthoringReports ==
    [outcome : {Authoring!None, "ready", "blocked", "killed"}, draft : Authoring!DraftRecords,
     verification : VerificationRecords, undone : BOOLEAN]

AuthoringTypes ==
    /\ files \in [Authoring!Targets -> Nat] /\ original \in [Authoring!Targets -> Nat]
    /\ work \in WorkRecords /\ authored \in Authoring!DraftRecords
    /\ report \in AuthoringReports /\ prepares \in Nat

\* Every requirement is still there, with at least the units it had.
Kept(before, after) == \A r \in before : \E q \in after : q.id = r.id /\ r.units \subseteq q.units

NothingDropped ==
    work.pc \notin {"idle", "author"} =>
        /\ Kept(authored.constraints, work.draft.constraints)
        /\ Kept(authored.obligations, work.draft.obligations)

\* A draft that is not stopped reaches the writer with the verification of itself.
VerifiedAsItIs ==
    /\ work.pc = "gate" /\ ~work.draft.stop /\ ~work.verification.unavailable =>
         work.verification.text = work.draft.text
    /\ work.pc = "write" => Authoring!Publishable
       /\ work.verification.text = work.draft.text

\* Until it writes, a command has changed no file; while it restores them, each
\* file is as it was, or is one of those left, unless one was given up.
BackedUp ==
    /\ work.pc \in AuthoringPlaces \ {"idle", "write", "undo"} => files = original
    /\ work.pc = "undo" /\ work.undone =>
         \A t \in Authoring!Targets :
            files[t] = original[t] \/ \E i \in 1..Len(work.left) : work.left[i] = t
    /\ work.pc # "idle" => report.outcome = Authoring!None

AuthoringInv ==
    /\ AuthoringTypes /\ NothingDropped /\ VerifiedAsItIs /\ BackedUp
    /\ Authoring!ReportIsTrue

LEMMA AuthoringConstants == Authoring!AuthoringAssumption
BY ComponentConstants

LEMMA KeptSame == ASSUME NEW s PROVE Kept(s, s)
BY DEF Kept

LEMMA KeptOn ==
    ASSUME NEW a, NEW b, NEW c, Kept(a, b), Kept(b, c)
    PROVE  Kept(a, c)
BY DEF Kept

\* What the host accepts as a correction keeps every requirement.
LEMMA RepairKeeps ==
    ASSUME NEW ids, NEW before \in SUBSET Authoring!Requirements(ids), NEW after,
           NEW gap, Authoring!IsRepair(before, after, gap)
    PROVE  Kept(before, after)
<1> SUFFICES ASSUME NEW r \in before
             PROVE  \E q \in after : q.id = r.id /\ r.units \subseteq q.units
  BY DEF Kept
<1>1. Authoring!Extended(r, gap) \in after
  BY DEF Authoring!IsRepair
<1>2. r \in [id : ids, units : SUBSET Units \ {{}}]
  BY DEF Authoring!Requirements
<1>3. [r EXCEPT !.units = @ \cup gap.units].id = r.id
      /\ r.units \subseteq [r EXCEPT !.units = @ \cup gap.units].units
  BY <1>2
<1>4. /\ Authoring!Extended(r, gap).id = r.id
      /\ r.units \subseteq Authoring!Extended(r, gap).units
  BY <1>3 DEF Authoring!Extended
<1> QED
  BY <1>1, <1>4

LEMMA NoGapIsGap == Authoring!NoGap \in GapRecords
BY DEF Authoring!NoGap, GapRecords

LEMMA GapsAreGaps ==
    ASSUME NEW ids \in {ConstraintIds, ObligationIds},
           NEW requirements \in SUBSET Authoring!Requirements(ids)
    PROVE  Authoring!Gaps(requirements, ids) \subseteq GapRecords
<1>1. Authoring!Named(requirements) \subseteq ids
  BY DEF Authoring!Named, Authoring!Requirements
<1>2. [id : ids \ Authoring!Named(requirements), units : SUBSET Units \ {{}},
           omitted : {TRUE}]
        \subseteq GapRecords
  BY DEF GapRecords
<1>3. [id : Authoring!Named(requirements), units : SUBSET Units \ {{}},
           omitted : {FALSE}]
        \subseteq GapRecords
  BY <1>1 DEF GapRecords
<1> QED
  BY <1>2, <1>3, NoGapIsGap DEF Authoring!Gaps

LEMMA DraftFields ==
    ASSUME NEW d \in Authoring!DraftRecords
    PROVE  /\ d.constraints \in SUBSET Authoring!Requirements(ConstraintIds)
           /\ d.obligations \in SUBSET Authoring!Requirements(ObligationIds)
           /\ d.text \in Nat /\ d.stop \in BOOLEAN
BY DEF Authoring!DraftRecords

\* A readable verification is one of the draft it was given.
LEMMA VerificationFits ==
    ASSUME NEW d \in Authoring!DraftRecords, NEW v \in Authoring!Verifications(d)
    PROVE  /\ v \in VerificationRecords
           /\ v.text = d.text /\ v.unavailable = FALSE
<1>1. v \in [constraints : {d.constraints}, obligations : {d.obligations},
           text : {d.text},
             constraintGap : Authoring!Gaps(d.constraints, ConstraintIds),
             obligationGap : Authoring!Gaps(d.obligations, ObligationIds),
             literals : BOOLEAN, contracts : BOOLEAN, paths : BOOLEAN,
             stop : BOOLEAN, unavailable : {FALSE}, given : {TRUE}]
  BY DEF Authoring!Verifications
<1>2. /\ Authoring!Gaps(d.constraints, ConstraintIds) \subseteq GapRecords
      /\ Authoring!Gaps(d.obligations, ObligationIds) \subseteq GapRecords
  BY DraftFields, GapsAreGaps
<1> QED
  BY <1>1, <1>2, DraftFields DEF VerificationRecords

LEMMA NoneVerified ==
    /\ Authoring!NoVerification \in VerificationRecords
       /\ Authoring!NoDraft \in Authoring!DraftRecords
    /\ Authoring!NoVerification.unavailable = FALSE
BY NoGapIsGap DEF Authoring!NoVerification, Authoring!NoDraft, VerificationRecords,
   Authoring!DraftRecords

LEMMA WorkFields ==
    ASSUME work \in WorkRecords
    PROVE  /\ work.draft \in Authoring!DraftRecords
              /\ work.verification \in VerificationRecords
           /\ work.left \in Seq(Authoring!Targets) /\ work.undone \in BOOLEAN
           /\ work.pc \in AuthoringPlaces
BY DEF WorkRecords

LEMMA IdleWork ==
    /\ Authoring!Idle \in WorkRecords /\ Authoring!Idle.pc = "idle"
    /\ Authoring!NoReport \in AuthoringReports
       /\ Authoring!NoReport.outcome = Authoring!None
BY NoneVerified
   DEF Authoring!Idle, WorkRecords, AuthoringPlaces, Authoring!NoReport,
       AuthoringReports

\* plan.yaml and the unit tasks are written, and restored, one by one; none is
\* left out.
LEMMA OrderOfTargets ==
    /\ Authoring!Order \in Seq(Authoring!Targets)
    /\ \A t \in Authoring!Targets : \E i \in 1..Len(Authoring!Order) : Authoring!Order[i] = t
<1> DEFINE T == Authoring!Targets
           n == Cardinality(T)
           Ordered(s) == s[1] = "plan" /\ \A i, j \in DOMAIN s : s[i] = s[j] => i = j
<1>1. IsFiniteSet(T) /\ "plan" \in T
  <2>1. IsFiniteSet({"plan"}) /\ IsFiniteSet(Units)
    BY AuthoringConstants, FS_Singleton
       DEF Authoring!AuthoringAssumption, Authoring!IsFiniteSet, IsFiniteSet
  <2>2. IsFiniteSet({"plan"} \cup Units)
    BY <2>1, FS_Union
  <2> QED
    BY <2>2 DEF Authoring!Targets
<1> HIDE DEF T
<1>2. n \in Nat /\ ExistsBijection(1..n, T)
  BY <1>1, FS_CardinalityType
<1> HIDE DEF n
<1>3. PICK f \in Bijection(1..n, T) : TRUE
  BY <1>2 DEF ExistsBijection
<1>4. /\ f \in [1..n -> T] /\ \A i, j \in 1..n : f[i] = f[j] => i = j
      /\ \A t \in T : \E i \in 1..n : f[i] = t
  BY <1>3 DEF Bijection, Injection, Surjection, IsInjective
<1>5. PICK k \in 1..n : f[k] = "plan"
  BY <1>1, <1>4
<1> DEFINE g == [i \in 1..n |-> IF i = 1 THEN "plan" ELSE IF i = k THEN f[1] ELSE f[i]]
<1>6. 1 \in 1..n
  BY <1>2, <1>5
<1>7. g \in [1..n -> T] /\ Ordered(g)
  BY <1>1, <1>4, <1>5, <1>6
<1>8. \E s \in [1..n -> T] : Ordered(s)
  BY <1>7
<1> HIDE DEF Ordered
<1>9. Authoring!Order = CHOOSE s \in [1..n -> T] : Ordered(s)
  BY DEF Authoring!Order, Authoring!Cardinality, Cardinality, Ordered, T, n
<1>10. Authoring!Order \in [1..n -> T] /\ Ordered(Authoring!Order)
  BY <1>8, <1>9
<1>11. Authoring!Order \in Injection(1..n, T)
  BY <1>10 DEF Injection, IsInjective, Ordered
<1>12. Cardinality(1..n) = n
  BY <1>2, <1>6, FS_Interval
<1>13. Authoring!Order \in Surjection(1..n, T)
  BY <1>1, <1>11, <1>12, FS_Injection DEF n
<1>14. Authoring!Order \in Seq(T) /\ Len(Authoring!Order) = n
  BY <1>2, <1>10
<1> QED
  BY <1>13, <1>14 DEF Surjection, T

LEMMA RestoredTargets ==
    /\ Authoring!Restored \in Seq(Authoring!Targets)
    /\ \A t \in Authoring!Targets :
         \E i \in 1..Len(Authoring!Restored) : Authoring!Restored[i] = t
<1> DEFINE n == Len(Authoring!Order)
<1>1. n \in Nat /\ DOMAIN Authoring!Order = 1..n
  BY OrderOfTargets
<1>2. Authoring!Restored = [i \in 1..n |-> Authoring!Order[n + 1 - i]]
  BY <1>1 DEF Authoring!Restored
<1>3. Authoring!Order \in [1..n -> Authoring!Targets]
  BY OrderOfTargets
<1>4. \A t \in Authoring!Targets : \E i \in 1..n : Authoring!Order[i] = t
  BY OrderOfTargets
<1> HIDE DEF n
<1>5. \A i \in 1..n : n + 1 - i \in 1..n /\ n + 1 - (n + 1 - i) = i
  BY <1>1
<1>6. Authoring!Restored \in [1..n -> Authoring!Targets]
  BY <1>2, <1>3, <1>5
<1>7. Authoring!Restored \in Seq(Authoring!Targets) /\ Len(Authoring!Restored) = n
  BY <1>1, <1>6
<1>8. \A i \in 1..n : Authoring!Restored[n + 1 - i] = Authoring!Order[i]
  BY <1>2, <1>5
<1> SUFFICES ASSUME NEW t \in Authoring!Targets
             PROVE  \E i \in 1..n : Authoring!Restored[i] = t
  BY <1>7
<1>9. PICK i \in 1..n : Authoring!Order[i] = t
  BY <1>4
<1>10. n + 1 - i \in 1..n /\ Authoring!Restored[n + 1 - i] = t
  BY <1>5, <1>8, <1>9
<1> QED
  BY <1>10

\* A command that ends without having published anything reports what is so.
LEMMA AuthoringEnds ==
    ASSUME AuthoringInv, NEW outcome \in {"blocked", "killed"}, Authoring!End(outcome),
           outcome = "blocked" /\ work.undone => files = original,
           UNCHANGED <<files, original, authored, prepares>>
    PROVE  AuthoringInv'
<1>1. /\ files \in [Authoring!Targets -> Nat] /\ original \in [Authoring!Targets -> Nat]
      /\ work \in WorkRecords /\ authored \in Authoring!DraftRecords
      /\ report \in AuthoringReports /\ prepares \in Nat
  BY DEF AuthoringInv, AuthoringTypes
<1>2. /\ work.draft \in Authoring!DraftRecords
         /\ work.verification \in VerificationRecords
      /\ work.left \in Seq(Authoring!Targets) /\ work.undone \in BOOLEAN
  BY <1>1, WorkFields
<1>3. /\ files' = files /\ original' = original /\ authored' = authored
         /\ prepares' = prepares
      /\ work' = Authoring!Idle /\ work' \in WorkRecords /\ work'.pc = "idle"
  BY IdleWork DEF Authoring!End
<1>4. /\ report' \in AuthoringReports /\ report'.outcome = outcome
         /\ report'.outcome # "ready"
      /\ report'.undone = work.undone
  BY <1>2 DEF Authoring!End, AuthoringReports
<1>5. AuthoringTypes'
  BY <1>1, <1>2, <1>3, <1>4 DEF AuthoringTypes
<1>6. NothingDropped'
  BY <1>1, <1>2, <1>3, <1>4 DEF AuthoringInv, NothingDropped
<1>7. VerifiedAsItIs'
  BY <1>1, <1>2, <1>3, <1>4 DEF AuthoringInv, VerifiedAsItIs
<1>8. BackedUp'
  BY <1>1, <1>2, <1>3, <1>4 DEF AuthoringInv, BackedUp, AuthoringPlaces
<1>9. Authoring!ReportIsTrue'
  BY <1>1, <1>2, <1>3, <1>4
     DEF Authoring!ReportIsTrue, Authoring!PublishedIsVerified,
         Authoring!BlockedKeepsFiles, Authoring!None
<1> QED
  BY <1>5, <1>6, <1>7, <1>8, <1>9 DEF AuthoringInv

LEMMA Authoring_AuthorFails ==
    ASSUME AuthoringInv, Authoring!AuthorFails
    PROVE  AuthoringInv'
<1>1. files = original
  BY DEF AuthoringInv, BackedUp, AuthoringPlaces, Authoring!AuthorFails
<1> QED
  BY <1>1, AuthoringEnds DEF Authoring!AuthorFails

LEMMA Authoring_VerifyFails ==
    ASSUME AuthoringInv, Authoring!VerifyFails
    PROVE  AuthoringInv'
<1>1. files = original
  BY DEF AuthoringInv, BackedUp, AuthoringPlaces, Authoring!VerifyFails
<1> QED
  BY <1>1, AuthoringEnds DEF Authoring!VerifyFails

LEMMA Authoring_CorrectionFails ==
    ASSUME AuthoringInv, Authoring!CorrectionFails
    PROVE  AuthoringInv'
<1>1. files = original
  BY DEF AuthoringInv, BackedUp, AuthoringPlaces, Authoring!CorrectionFails
<1> QED
  BY <1>1, AuthoringEnds DEF Authoring!CorrectionFails

LEMMA Authoring_GateBlocks ==
    ASSUME AuthoringInv, Authoring!GateBlocks
    PROVE  AuthoringInv'
<1>1. files = original
  BY DEF AuthoringInv, BackedUp, AuthoringPlaces, Authoring!GateBlocks
<1> QED
  BY <1>1, AuthoringEnds DEF Authoring!GateBlocks

LEMMA Authoring_Kill ==
    ASSUME AuthoringInv, Authoring!Kill
    PROVE  AuthoringInv'
BY AuthoringEnds DEF Authoring!Kill

LEMMA Authoring_Undone ==
    ASSUME AuthoringInv, Authoring!Undone
    PROVE  AuthoringInv'
<1>1. work.undone => files = original
  <2> SUFFICES ASSUME work.undone PROVE files = original
    OBVIOUS
  <2>1. /\ files \in [Authoring!Targets -> Nat]
           /\ original \in [Authoring!Targets -> Nat]
        /\ Len(work.left) = 0
    BY DEF AuthoringInv, AuthoringTypes, Authoring!Undone
  <2>2. \A t \in Authoring!Targets : files[t] = original[t]
    BY <2>1 DEF AuthoringInv, BackedUp, Authoring!Undone
  <2> QED
    BY <2>1, <2>2
<1> QED
  BY <1>1, AuthoringEnds DEF Authoring!Undone

LEMMA Authoring_Start ==
    ASSUME AuthoringInv, NEW force \in BOOLEAN, Authoring!Start(force)
    PROVE  AuthoringInv'
<1>1. /\ files \in [Authoring!Targets -> Nat] /\ original \in [Authoring!Targets -> Nat]
      /\ work \in WorkRecords /\ authored \in Authoring!DraftRecords
      /\ report \in AuthoringReports /\ prepares \in Nat
  BY DEF AuthoringInv, AuthoringTypes
<1>2. /\ work.draft \in Authoring!DraftRecords
         /\ work.verification \in VerificationRecords
      /\ work.left \in Seq(Authoring!Targets) /\ work.undone \in BOOLEAN
  BY <1>1, WorkFields
<1>3. /\ files' = files /\ original' = files /\ authored' = Authoring!NoDraft
      /\ report' = Authoring!NoReport /\ prepares' = prepares + 1
      /\ work' = [Authoring!Idle EXCEPT !.pc = "author", !.round = 1]
  BY DEF Authoring!Start
<1>4. work' \in WorkRecords /\ work'.pc = "author"
  BY <1>3, IdleWork DEF WorkRecords, AuthoringPlaces
<1>5. prepares' \in Nat /\ authored' \in Authoring!DraftRecords
  BY <1>1, <1>3, NoneVerified
<1>6. AuthoringTypes'
  BY <1>1, <1>3, <1>4, <1>5, IdleWork DEF AuthoringTypes
<1>7. NothingDropped'
  BY <1>1, <1>3, <1>4, <1>5, IdleWork DEF AuthoringInv, NothingDropped
<1>8. VerifiedAsItIs'
  BY <1>1, <1>3, <1>4, <1>5, IdleWork DEF AuthoringInv, VerifiedAsItIs
<1>9. BackedUp'
  BY <1>1, <1>3, <1>4, <1>5, IdleWork DEF AuthoringInv, BackedUp, AuthoringPlaces
<1>10. Authoring!ReportIsTrue'
  BY <1>1, <1>3, <1>4, <1>5, IdleWork
     DEF Authoring!ReportIsTrue, Authoring!PublishedIsVerified,
         Authoring!BlockedKeepsFiles, Authoring!None
<1> QED
  BY <1>6, <1>7, <1>8, <1>9, <1>10 DEF AuthoringInv

LEMMA Authoring_AuthorCorrected ==
    ASSUME AuthoringInv, Authoring!AuthorCorrected
    PROVE  AuthoringInv'
<1>1. /\ files \in [Authoring!Targets -> Nat] /\ original \in [Authoring!Targets -> Nat]
      /\ work \in WorkRecords /\ authored \in Authoring!DraftRecords
      /\ report \in AuthoringReports /\ prepares \in Nat
  BY DEF AuthoringInv, AuthoringTypes
<1>2. /\ work.draft \in Authoring!DraftRecords
         /\ work.verification \in VerificationRecords
      /\ work.left \in Seq(Authoring!Targets) /\ work.undone \in BOOLEAN
  BY <1>1, WorkFields
<1>3. /\ report' = report /\ prepares' = prepares /\ files' = files
         /\ original' = original
      /\ authored' = authored /\ work.pc = "author" /\ report.outcome = Authoring!None
      /\ work' = [work EXCEPT !.round = 2]
  BY DEF AuthoringInv, BackedUp, Authoring!AuthorCorrected, Authoring!Go
<1>4. /\ work' \in WorkRecords /\ work'.pc = "author" 
  BY <1>1, <1>2, <1>3 DEF WorkRecords, AuthoringPlaces
<1>5. AuthoringTypes'
  BY <1>1, <1>2, <1>3, <1>4 DEF AuthoringTypes
<1>6. NothingDropped'
  BY <1>1, <1>2, <1>3, <1>4 DEF AuthoringInv, NothingDropped
<1>7. VerifiedAsItIs'
  BY <1>1, <1>2, <1>3, <1>4 DEF AuthoringInv, VerifiedAsItIs
<1>8. BackedUp'
  BY <1>1, <1>2, <1>3, <1>4 DEF AuthoringInv, BackedUp, AuthoringPlaces
<1>9. Authoring!ReportIsTrue'
  BY <1>1, <1>2, <1>3, <1>4
     DEF Authoring!ReportIsTrue, Authoring!PublishedIsVerified,
         Authoring!BlockedKeepsFiles, Authoring!None
<1> QED
  BY <1>5, <1>6, <1>7, <1>8, <1>9 DEF AuthoringInv

LEMMA Authoring_VerifyMalformed ==
    ASSUME AuthoringInv, Authoring!VerifyMalformed
    PROVE  AuthoringInv'
<1>1. /\ files \in [Authoring!Targets -> Nat] /\ original \in [Authoring!Targets -> Nat]
      /\ work \in WorkRecords /\ authored \in Authoring!DraftRecords
      /\ report \in AuthoringReports /\ prepares \in Nat
  BY DEF AuthoringInv, AuthoringTypes
<1>2. /\ work.draft \in Authoring!DraftRecords
         /\ work.verification \in VerificationRecords
      /\ work.left \in Seq(Authoring!Targets) /\ work.undone \in BOOLEAN
  BY <1>1, WorkFields
<1>3. /\ report' = report /\ prepares' = prepares /\ files' = files
         /\ original' = original
      /\ authored' = authored /\ work.pc = "verify" /\ report.outcome = Authoring!None
      /\ work' = [work EXCEPT !.attempt = 2]
  BY DEF AuthoringInv, BackedUp, Authoring!VerifyMalformed, Authoring!Go
<1>4. /\ work' \in WorkRecords /\ work'.pc = "verify" /\ work'.draft = work.draft
  BY <1>1, <1>2, <1>3 DEF WorkRecords, AuthoringPlaces
<1>5. AuthoringTypes'
  BY <1>1, <1>2, <1>3, <1>4 DEF AuthoringTypes
<1>6. NothingDropped'
  BY <1>1, <1>2, <1>3, <1>4 DEF AuthoringInv, NothingDropped
<1>7. VerifiedAsItIs'
  BY <1>1, <1>2, <1>3, <1>4 DEF AuthoringInv, VerifiedAsItIs
<1>8. BackedUp'
  BY <1>1, <1>2, <1>3, <1>4 DEF AuthoringInv, BackedUp, AuthoringPlaces
<1>9. Authoring!ReportIsTrue'
  BY <1>1, <1>2, <1>3, <1>4
     DEF Authoring!ReportIsTrue, Authoring!PublishedIsVerified,
         Authoring!BlockedKeepsFiles, Authoring!None
<1> QED
  BY <1>5, <1>6, <1>7, <1>8, <1>9 DEF AuthoringInv

LEMMA Authoring_Authored ==
    ASSUME AuthoringInv, Authoring!Authored
    PROVE  AuthoringInv'
<1>1. /\ files \in [Authoring!Targets -> Nat] /\ original \in [Authoring!Targets -> Nat]
      /\ work \in WorkRecords /\ authored \in Authoring!DraftRecords
      /\ report \in AuthoringReports /\ prepares \in Nat
  BY DEF AuthoringInv, AuthoringTypes
<1>2. /\ work.draft \in Authoring!DraftRecords
         /\ work.verification \in VerificationRecords
      /\ work.left \in Seq(Authoring!Targets) /\ work.undone \in BOOLEAN
  BY <1>1, WorkFields
<1>3. PICK draft \in Drafts :
        /\ authored' = draft
        /\ work' = [work EXCEPT !.draft = draft, !.round = 1, !.attempt = 1,
                                !.pc = IF draft.stop THEN "gate" ELSE "verify"]
  BY DEF Authoring!Authored
<1>4. draft \in Authoring!DraftRecords
  BY AuthoringConstants DEF Authoring!AuthoringAssumption
<1>5. /\ report' = report /\ prepares' = prepares /\ files' = files
         /\ original' = original
      /\ report.outcome = Authoring!None /\ files = original
  BY DEF AuthoringInv, BackedUp, Authoring!Authored, AuthoringPlaces
<1>6. /\ work' \in WorkRecords /\ work'.draft = draft
      /\ work'.pc = IF draft.stop THEN "gate" ELSE "verify"
  BY <1>1, <1>3, <1>4 DEF WorkRecords, AuthoringPlaces
<1>7. AuthoringTypes'
  BY <1>1, <1>3, <1>4, <1>5, <1>6, KeptSame DEF AuthoringTypes
<1>8. NothingDropped'
  BY <1>1, <1>3, <1>4, <1>5, <1>6, KeptSame DEF AuthoringInv, NothingDropped
<1>9. VerifiedAsItIs'
  BY <1>1, <1>3, <1>4, <1>5, <1>6, KeptSame DEF AuthoringInv, VerifiedAsItIs
<1>10. BackedUp'
  BY <1>1, <1>3, <1>4, <1>5, <1>6, KeptSame DEF AuthoringInv, BackedUp, AuthoringPlaces
<1>11. Authoring!ReportIsTrue'
  BY <1>1, <1>3, <1>4, <1>5, <1>6, KeptSame
     DEF Authoring!ReportIsTrue, Authoring!PublishedIsVerified,
         Authoring!BlockedKeepsFiles, Authoring!None
<1> QED
  BY <1>7, <1>8, <1>9, <1>10, <1>11 DEF AuthoringInv

LEMMA Authoring_Verified ==
    ASSUME AuthoringInv, Authoring!Verified
    PROVE  AuthoringInv'
<1>1. /\ files \in [Authoring!Targets -> Nat] /\ original \in [Authoring!Targets -> Nat]
      /\ work \in WorkRecords /\ authored \in Authoring!DraftRecords
      /\ report \in AuthoringReports /\ prepares \in Nat
  BY DEF AuthoringInv, AuthoringTypes
<1>2. /\ work.draft \in Authoring!DraftRecords
         /\ work.verification \in VerificationRecords
      /\ work.left \in Seq(Authoring!Targets) /\ work.undone \in BOOLEAN
  BY <1>1, WorkFields
<1>3. /\ report' = report /\ prepares' = prepares /\ files' = files
         /\ original' = original
      /\ authored' = authored /\ work.pc = "verify" /\ report.outcome = Authoring!None
      /\ files = original
      /\ Kept(authored.constraints, work.draft.constraints)
      /\ Kept(authored.obligations, work.draft.obligations)
  BY DEF AuthoringInv, BackedUp, NothingDropped, AuthoringPlaces, Authoring!Verified,
     Authoring!Go
<1>4. PICK v \in Authoring!Verifications(work.draft) : work' = Authoring!Decide(v)
  BY DEF Authoring!Verified
<1>5. v \in VerificationRecords /\ v.text = work.draft.text
  BY <1>2, VerificationFits
<1> DEFINE literal == [work.draft EXCEPT !.text = @ + 1]
<1>6. /\ literal \in Authoring!DraftRecords
         /\ literal.constraints = work.draft.constraints
      /\ literal.obligations = work.draft.obligations
  BY <1>2 DEF Authoring!DraftRecords
<1>7. PICK draft \in {work.draft, literal}, pc \in {"gate", "recover", "constraints"} :
        /\ work' = [work EXCEPT !.verification = v, !.attempt = 1, !.pc = pc,
                !.draft = draft]
        /\ pc = "gate" => draft = work.draft
  BY <1>4 DEF Authoring!Decide, Authoring!WithLiterals
<1> HIDE DEF literal
<1>8. draft \in Authoring!DraftRecords
  BY <1>2, <1>6, <1>7
<1>9. /\ work' \in WorkRecords /\ work'.draft = draft /\ work'.verification = v
         /\ work'.pc = pc
  BY <1>1, <1>5, <1>7, <1>8 DEF WorkRecords, AuthoringPlaces
<1>10. AuthoringTypes'
  BY <1>1, <1>3, <1>5, <1>6, <1>7, <1>9 DEF AuthoringTypes
<1>11. NothingDropped'
  BY <1>1, <1>3, <1>5, <1>6, <1>7, <1>9 DEF AuthoringInv, NothingDropped
<1>12. VerifiedAsItIs'
  BY <1>1, <1>3, <1>5, <1>6, <1>7, <1>9 DEF AuthoringInv, VerifiedAsItIs
<1>13. BackedUp'
  BY <1>1, <1>3, <1>5, <1>6, <1>7, <1>9 DEF AuthoringInv, BackedUp, AuthoringPlaces
<1>14. Authoring!ReportIsTrue'
  BY <1>1, <1>3, <1>5, <1>6, <1>7, <1>9
     DEF Authoring!ReportIsTrue, Authoring!PublishedIsVerified,
         Authoring!BlockedKeepsFiles, Authoring!None
<1> QED
  BY <1>10, <1>11, <1>12, <1>13, <1>14 DEF AuthoringInv

LEMMA Authoring_RepairConstraints ==
    ASSUME AuthoringInv, Authoring!RepairConstraints
    PROVE  AuthoringInv'
<1>1. /\ files \in [Authoring!Targets -> Nat] /\ original \in [Authoring!Targets -> Nat]
      /\ work \in WorkRecords /\ authored \in Authoring!DraftRecords
      /\ report \in AuthoringReports /\ prepares \in Nat
  BY DEF AuthoringInv, AuthoringTypes
<1>2. /\ work.draft \in Authoring!DraftRecords
         /\ work.verification \in VerificationRecords
      /\ work.left \in Seq(Authoring!Targets) /\ work.undone \in BOOLEAN
  BY <1>1, WorkFields
<1>3. /\ report' = report /\ prepares' = prepares /\ files' = files
         /\ original' = original
      /\ authored' = authored /\ work.pc = "constraints"
         /\ report.outcome = Authoring!None
      /\ files = original
      /\ Kept(authored.constraints, work.draft.constraints)
      /\ Kept(authored.obligations, work.draft.obligations)
  BY DEF AuthoringInv, BackedUp, NothingDropped, AuthoringPlaces,
     Authoring!RepairConstraints, Authoring!Go
<1>4. PICK after \in SUBSET Authoring!Requirements(ConstraintIds), stop1 \in BOOLEAN,
           pc \in {"gate", "obligations"} :
        /\ work' = [work EXCEPT !.draft = [@ EXCEPT !.constraints = after,
                !.stop = stop1], !.pc = pc]
        /\ Kept(work.draft.constraints, after)
        /\ pc = "gate" => stop1
  <2>1. CASE work.verification.constraintGap = Authoring!NoGap
    <3>1. work' = [work EXCEPT !.pc = "obligations"]
      BY <2>1 DEF Authoring!RepairConstraints, Authoring!Go
    <3> DEFINE same == [work.draft EXCEPT !.constraints = work.draft.constraints,
                                          !.stop = work.draft.stop]
    <3>2. same = work.draft
      BY <1>2 DEF Authoring!DraftRecords
    <3>3. work' = [work EXCEPT !.draft = same, !.pc = "obligations"]
      BY <1>1, <3>1, <3>2 DEF WorkRecords
    <3> QED
      BY <1>2, <3>3, DraftFields, KeptSame
  <2>2. CASE work.verification.constraintGap # Authoring!NoGap
    <3>1. PICK after \in Authoring!Proposed(ConstraintIds), stop1 \in BOOLEAN :
            /\ Authoring!IsRepair(work.draft.constraints, after,
                    work.verification.constraintGap)
            /\ work' = [work EXCEPT !.draft.constraints = after, !.draft.stop = stop1,
                                    !.pc = IF stop1 THEN "gate" ELSE "obligations"]
      BY <2>2 DEF Authoring!RepairConstraints
    <3>2. after \in SUBSET Authoring!Requirements(ConstraintIds)
      BY DEF Authoring!Proposed
    <3>3. Kept(work.draft.constraints, after)
      BY <1>2, <3>1, DraftFields, RepairKeeps
    <3>4. work' = [work EXCEPT !.draft = [@ EXCEPT !.constraints = after,
               !.stop = stop1],
                               !.pc = IF stop1 THEN "gate" ELSE "obligations"]
      BY <1>1, <3>1 DEF WorkRecords
    <3> QED
      BY <3>2, <3>3, <3>4
  <2> QED
    BY <2>1, <2>2
<1> DEFINE draft == [work.draft EXCEPT !.constraints = after, !.stop = stop1]
<1>5. /\ draft \in Authoring!DraftRecords /\ draft.constraints = after
         /\ draft.stop = stop1
      /\ draft.obligations = work.draft.obligations
  BY <1>2 DEF Authoring!DraftRecords
<1>6. work' = [work EXCEPT !.draft = draft, !.pc = pc]
  BY <1>4
<1> HIDE DEF draft
<1>7. /\ work' \in WorkRecords /\ work'.draft = draft /\ work'.pc = pc
  BY <1>1, <1>5, <1>6 DEF WorkRecords, AuthoringPlaces
<1>8. Kept(authored.constraints, after)
  BY <1>3, <1>4, KeptOn
<1>9. AuthoringTypes'
  BY <1>1, <1>3, <1>4, <1>5, <1>7, <1>8 DEF AuthoringTypes
<1>10. NothingDropped'
  BY <1>1, <1>3, <1>4, <1>5, <1>7, <1>8 DEF AuthoringInv, NothingDropped
<1>11. VerifiedAsItIs'
  BY <1>1, <1>3, <1>4, <1>5, <1>7, <1>8 DEF AuthoringInv, VerifiedAsItIs
<1>12. BackedUp'
  BY <1>1, <1>3, <1>4, <1>5, <1>7, <1>8 DEF AuthoringInv, BackedUp, AuthoringPlaces
<1>13. Authoring!ReportIsTrue'
  BY <1>1, <1>3, <1>4, <1>5, <1>7, <1>8
     DEF Authoring!ReportIsTrue, Authoring!PublishedIsVerified,
         Authoring!BlockedKeepsFiles, Authoring!None
<1> QED
  BY <1>9, <1>10, <1>11, <1>12, <1>13 DEF AuthoringInv

LEMMA Authoring_RepairObligations ==
    ASSUME AuthoringInv, Authoring!RepairObligations
    PROVE  AuthoringInv'
<1>1. /\ files \in [Authoring!Targets -> Nat] /\ original \in [Authoring!Targets -> Nat]
      /\ work \in WorkRecords /\ authored \in Authoring!DraftRecords
      /\ report \in AuthoringReports /\ prepares \in Nat
  BY DEF AuthoringInv, AuthoringTypes
<1>2. /\ work.draft \in Authoring!DraftRecords
         /\ work.verification \in VerificationRecords
      /\ work.left \in Seq(Authoring!Targets) /\ work.undone \in BOOLEAN
  BY <1>1, WorkFields
<1>3. /\ report' = report /\ prepares' = prepares /\ files' = files
         /\ original' = original
      /\ authored' = authored /\ work.pc = "obligations"
         /\ report.outcome = Authoring!None
      /\ files = original
      /\ Kept(authored.constraints, work.draft.constraints)
      /\ Kept(authored.obligations, work.draft.obligations)
  BY DEF AuthoringInv, BackedUp, NothingDropped, AuthoringPlaces,
     Authoring!RepairObligations, Authoring!Go
<1>4. PICK after \in SUBSET Authoring!Requirements(ObligationIds) :
        /\ work' = [work EXCEPT !.draft.obligations = after, !.round = 2,
                !.pc = "verify"]
        /\ Kept(work.draft.obligations, after)
  <2>1. PICK after \in IF work.verification.obligationGap = Authoring!NoGap
                       THEN {work.draft.obligations} ELSE Authoring!Proposed(ObligationIds) :
          /\ Authoring!IsRepair(work.draft.obligations, after,
                  work.verification.obligationGap)
          /\ work' = [work EXCEPT !.draft.obligations = after, !.round = 2,
                  !.pc = "verify"]
    BY DEF Authoring!RepairObligations
  <2>2. after \in SUBSET Authoring!Requirements(ObligationIds)
    BY <1>2, <2>1, DraftFields DEF Authoring!Proposed
  <2>3. Kept(work.draft.obligations, after)
    BY <1>2, <2>1, DraftFields, RepairKeeps
  <2> QED
    BY <2>1, <2>2, <2>3
<1> DEFINE draft == [work.draft EXCEPT !.obligations = after]
<1>5. /\ draft \in Authoring!DraftRecords /\ draft.obligations = after
      /\ draft.constraints = work.draft.constraints
  BY <1>2 DEF Authoring!DraftRecords
<1>6. work' = [work EXCEPT !.draft = draft, !.round = 2, !.pc = "verify"]
  BY <1>1, <1>4 DEF WorkRecords
<1> HIDE DEF draft
<1>7. /\ work' \in WorkRecords /\ work'.draft = draft /\ work'.pc = "verify"
  BY <1>1, <1>5, <1>6 DEF WorkRecords, AuthoringPlaces
<1>8. Kept(authored.obligations, after)
  BY <1>3, <1>4, KeptOn
<1>9. AuthoringTypes'
  BY <1>1, <1>3, <1>5, <1>7, <1>8 DEF AuthoringTypes
<1>10. NothingDropped'
  BY <1>1, <1>3, <1>5, <1>7, <1>8 DEF AuthoringInv, NothingDropped
<1>11. VerifiedAsItIs'
  BY <1>1, <1>3, <1>5, <1>7, <1>8 DEF AuthoringInv, VerifiedAsItIs
<1>12. BackedUp'
  BY <1>1, <1>3, <1>5, <1>7, <1>8 DEF AuthoringInv, BackedUp, AuthoringPlaces
<1>13. Authoring!ReportIsTrue'
  BY <1>1, <1>3, <1>5, <1>7, <1>8
     DEF Authoring!ReportIsTrue, Authoring!PublishedIsVerified,
         Authoring!BlockedKeepsFiles, Authoring!None
<1> QED
  BY <1>9, <1>10, <1>11, <1>12, <1>13 DEF AuthoringInv

LEMMA Authoring_ContextUnavailable ==
    ASSUME AuthoringInv, Authoring!ContextUnavailable
    PROVE  AuthoringInv'
<1>1. /\ files \in [Authoring!Targets -> Nat] /\ original \in [Authoring!Targets -> Nat]
      /\ work \in WorkRecords /\ authored \in Authoring!DraftRecords
      /\ report \in AuthoringReports /\ prepares \in Nat
  BY DEF AuthoringInv, AuthoringTypes
<1>2. /\ work.draft \in Authoring!DraftRecords
         /\ work.verification \in VerificationRecords
      /\ work.left \in Seq(Authoring!Targets) /\ work.undone \in BOOLEAN
  BY <1>1, WorkFields
<1>3. /\ report' = report /\ prepares' = prepares /\ files' = files
         /\ original' = original
      /\ authored' = authored /\ work.pc = "recover" /\ report.outcome = Authoring!None
      /\ files = original
      /\ Kept(authored.constraints, work.draft.constraints)
      /\ Kept(authored.obligations, work.draft.obligations)
  BY DEF AuthoringInv, BackedUp, NothingDropped, AuthoringPlaces,
     Authoring!ContextUnavailable, Authoring!Go
<1> DEFINE v == [work.verification EXCEPT !.unavailable = TRUE]
<1>4. v \in VerificationRecords /\ v.unavailable
  BY <1>2 DEF VerificationRecords
<1>5. work' = [work EXCEPT !.verification = v, !.pc = "gate"]
  BY <1>1 DEF WorkRecords, Authoring!ContextUnavailable
<1> HIDE DEF v
<1>6. /\ work' \in WorkRecords /\ work'.draft = work.draft /\ work'.verification = v
      /\ work'.pc = "gate"
  BY <1>1, <1>4, <1>5 DEF WorkRecords, AuthoringPlaces
<1>7. AuthoringTypes'
  BY <1>1, <1>3, <1>4, <1>6 DEF AuthoringTypes
<1>8. NothingDropped'
  BY <1>1, <1>3, <1>4, <1>6 DEF AuthoringInv, NothingDropped
<1>9. VerifiedAsItIs'
  BY <1>1, <1>3, <1>4, <1>6 DEF AuthoringInv, VerifiedAsItIs
<1>10. BackedUp'
  BY <1>1, <1>3, <1>4, <1>6 DEF AuthoringInv, BackedUp, AuthoringPlaces
<1>11. Authoring!ReportIsTrue'
  BY <1>1, <1>3, <1>4, <1>6
     DEF Authoring!ReportIsTrue, Authoring!PublishedIsVerified,
         Authoring!BlockedKeepsFiles, Authoring!None
<1> QED
  BY <1>7, <1>8, <1>9, <1>10, <1>11 DEF AuthoringInv

LEMMA Authoring_Recover ==
    ASSUME AuthoringInv, Authoring!Recover
    PROVE  AuthoringInv'
<1>1. /\ files \in [Authoring!Targets -> Nat] /\ original \in [Authoring!Targets -> Nat]
      /\ work \in WorkRecords /\ authored \in Authoring!DraftRecords
      /\ report \in AuthoringReports /\ prepares \in Nat
  BY DEF AuthoringInv, AuthoringTypes
<1>2. /\ work.draft \in Authoring!DraftRecords
         /\ work.verification \in VerificationRecords
      /\ work.left \in Seq(Authoring!Targets) /\ work.undone \in BOOLEAN
  BY <1>1, WorkFields
<1>3. /\ report' = report /\ prepares' = prepares /\ files' = files
         /\ original' = original
      /\ authored' = authored /\ work.pc = "recover" /\ report.outcome = Authoring!None
      /\ files = original
      /\ Kept(authored.constraints, work.draft.constraints)
      /\ Kept(authored.obligations, work.draft.obligations)
  BY DEF AuthoringInv, BackedUp, NothingDropped, AuthoringPlaces, Authoring!Recover,
     Authoring!Go
<1>4. PICK constraints \in Authoring!Proposed(ConstraintIds),
           obligations \in Authoring!Proposed(ObligationIds) :
        /\ Authoring!IsRepair(work.draft.constraints, constraints,
                work.verification.constraintGap)
        /\ Authoring!IsRepair(work.draft.obligations, obligations,
                work.verification.obligationGap)
        /\ work' = [work EXCEPT !.draft.constraints = constraints,
                                !.draft.obligations = obligations,
                                !.draft.text = @ + 1, !.round = 2, !.pc = "verify"]
  BY DEF Authoring!Recover
<1>5. /\ constraints \in SUBSET Authoring!Requirements(ConstraintIds)
      /\ obligations \in SUBSET Authoring!Requirements(ObligationIds)
  BY DEF Authoring!Proposed
<1>6. Kept(authored.constraints, constraints) /\ Kept(authored.obligations, obligations)
  <2>1. /\ Kept(work.draft.constraints, constraints)
        /\ Kept(work.draft.obligations, obligations)
    BY <1>2, <1>4, DraftFields, RepairKeeps
  <2> QED
    BY <1>3, <2>1, KeptOn
<1> DEFINE draft == [work.draft EXCEPT !.constraints = constraints,
                                       !.obligations = obligations, !.text = @ + 1]
<1>7. /\ draft \in Authoring!DraftRecords /\ draft.constraints = constraints
      /\ draft.obligations = obligations
  <2>1. work.draft.text + 1 \in Nat
    BY <1>2, DraftFields
  <2> QED
    BY <1>2, <1>5, <2>1 DEF Authoring!DraftRecords
<1>8. work' = [work EXCEPT !.draft = draft, !.round = 2, !.pc = "verify"]
  BY <1>1, <1>4 DEF WorkRecords
<1> HIDE DEF draft
<1>9. /\ work' \in WorkRecords /\ work'.draft = draft /\ work'.pc = "verify"
  BY <1>1, <1>7, <1>8 DEF WorkRecords, AuthoringPlaces
<1>10. AuthoringTypes'
  BY <1>1, <1>3, <1>6, <1>7, <1>9 DEF AuthoringTypes
<1>11. NothingDropped'
  BY <1>1, <1>3, <1>6, <1>7, <1>9 DEF AuthoringInv, NothingDropped
<1>12. VerifiedAsItIs'
  BY <1>1, <1>3, <1>6, <1>7, <1>9 DEF AuthoringInv, VerifiedAsItIs
<1>13. BackedUp'
  BY <1>1, <1>3, <1>6, <1>7, <1>9 DEF AuthoringInv, BackedUp, AuthoringPlaces
<1>14. Authoring!ReportIsTrue'
  BY <1>1, <1>3, <1>6, <1>7, <1>9
     DEF Authoring!ReportIsTrue, Authoring!PublishedIsVerified,
         Authoring!BlockedKeepsFiles, Authoring!None
<1> QED
  BY <1>10, <1>11, <1>12, <1>13, <1>14 DEF AuthoringInv

LEMMA Authoring_RecoverStop ==
    ASSUME AuthoringInv, Authoring!RecoverStop
    PROVE  AuthoringInv'
<1>1. /\ files \in [Authoring!Targets -> Nat] /\ original \in [Authoring!Targets -> Nat]
      /\ work \in WorkRecords /\ authored \in Authoring!DraftRecords
      /\ report \in AuthoringReports /\ prepares \in Nat
  BY DEF AuthoringInv, AuthoringTypes
<1>2. /\ work.draft \in Authoring!DraftRecords
         /\ work.verification \in VerificationRecords
      /\ work.left \in Seq(Authoring!Targets) /\ work.undone \in BOOLEAN
  BY <1>1, WorkFields
<1>3. /\ report' = report /\ prepares' = prepares /\ files' = files
         /\ original' = original
      /\ authored' = authored /\ work.pc = "recover" /\ report.outcome = Authoring!None
      /\ files = original
      /\ Kept(authored.constraints, work.draft.constraints)
      /\ Kept(authored.obligations, work.draft.obligations)
  BY DEF AuthoringInv, BackedUp, NothingDropped, AuthoringPlaces,
     Authoring!RecoverStop, Authoring!Go
<1> DEFINE draft == [work.draft EXCEPT !.stop = TRUE]
<1>4. /\ draft \in Authoring!DraftRecords /\ draft.constraints = work.draft.constraints
      /\ draft.obligations = work.draft.obligations /\ draft.stop
  BY <1>2 DEF Authoring!DraftRecords
<1>5. work' = [work EXCEPT !.draft = draft, !.pc = "gate",
                           !.verification = Authoring!NoVerification]
  BY <1>1 DEF WorkRecords, Authoring!RecoverStop
<1> HIDE DEF draft
<1>6. /\ work' \in WorkRecords /\ work'.draft = draft /\ work'.pc = "gate"
  BY <1>1, <1>4, <1>5, NoneVerified DEF WorkRecords, AuthoringPlaces
<1>7. AuthoringTypes'
  BY <1>1, <1>3, <1>4, <1>6 DEF AuthoringTypes
<1>8. NothingDropped'
  BY <1>1, <1>3, <1>4, <1>6 DEF AuthoringInv, NothingDropped
<1>9. VerifiedAsItIs'
  BY <1>1, <1>3, <1>4, <1>6 DEF AuthoringInv, VerifiedAsItIs
<1>10. BackedUp'
  BY <1>1, <1>3, <1>4, <1>6 DEF AuthoringInv, BackedUp, AuthoringPlaces
<1>11. Authoring!ReportIsTrue'
  BY <1>1, <1>3, <1>4, <1>6
     DEF Authoring!ReportIsTrue, Authoring!PublishedIsVerified,
         Authoring!BlockedKeepsFiles, Authoring!None
<1> QED
  BY <1>7, <1>8, <1>9, <1>10, <1>11 DEF AuthoringInv

LEMMA Authoring_GatePasses ==
    ASSUME AuthoringInv, Authoring!GatePasses
    PROVE  AuthoringInv'
<1>1. /\ files \in [Authoring!Targets -> Nat] /\ original \in [Authoring!Targets -> Nat]
      /\ work \in WorkRecords /\ authored \in Authoring!DraftRecords
      /\ report \in AuthoringReports /\ prepares \in Nat
  BY DEF AuthoringInv, AuthoringTypes
<1>2. /\ work.draft \in Authoring!DraftRecords
         /\ work.verification \in VerificationRecords
      /\ work.left \in Seq(Authoring!Targets) /\ work.undone \in BOOLEAN
  BY <1>1, WorkFields
<1>3. /\ report' = report /\ prepares' = prepares /\ files' = files
         /\ original' = original
      /\ authored' = authored /\ work.pc = "gate" /\ report.outcome = Authoring!None
      /\ files = original
      /\ Kept(authored.constraints, work.draft.constraints)
      /\ Kept(authored.obligations, work.draft.obligations)
  BY DEF AuthoringInv, BackedUp, NothingDropped, AuthoringPlaces, Authoring!GatePasses,
     Authoring!Go
<1>4. /\ work.verification.text = work.draft.text /\ Authoring!Publishable
      /\ work' = [work EXCEPT !.pc = "write", !.left = Authoring!Order]
  BY DEF AuthoringInv, VerifiedAsItIs, Authoring!GatePasses, Authoring!Publishable
<1>5. /\ work' \in WorkRecords /\ work'.draft = work.draft
         /\ work'.verification = work.verification
      /\ work'.pc = "write"
  BY <1>1, <1>4, OrderOfTargets DEF WorkRecords, AuthoringPlaces
<1>6. Authoring!Publishable'
  BY <1>4, <1>5 DEF Authoring!Publishable
<1>7. AuthoringTypes'
  BY <1>1, <1>3, <1>4, <1>5, <1>6 DEF AuthoringTypes
<1>8. NothingDropped'
  BY <1>1, <1>3, <1>4, <1>5, <1>6 DEF AuthoringInv, NothingDropped
<1>9. VerifiedAsItIs'
  BY <1>1, <1>3, <1>4, <1>5, <1>6 DEF AuthoringInv, VerifiedAsItIs
<1>10. BackedUp'
  BY <1>1, <1>3, <1>4, <1>5, <1>6 DEF AuthoringInv, BackedUp, AuthoringPlaces
<1>11. Authoring!ReportIsTrue'
  BY <1>1, <1>3, <1>4, <1>5, <1>6
     DEF Authoring!ReportIsTrue, Authoring!PublishedIsVerified,
         Authoring!BlockedKeepsFiles, Authoring!None
<1> QED
  BY <1>7, <1>8, <1>9, <1>10, <1>11 DEF AuthoringInv

LEMMA Authoring_WriteTarget ==
    ASSUME AuthoringInv, Authoring!WriteTarget
    PROVE  AuthoringInv'
<1>1. /\ files \in [Authoring!Targets -> Nat] /\ original \in [Authoring!Targets -> Nat]
      /\ work \in WorkRecords /\ authored \in Authoring!DraftRecords
      /\ report \in AuthoringReports /\ prepares \in Nat
  BY DEF AuthoringInv, AuthoringTypes
<1>2. /\ work.draft \in Authoring!DraftRecords
         /\ work.verification \in VerificationRecords
      /\ work.left \in Seq(Authoring!Targets) /\ work.undone \in BOOLEAN
  BY <1>1, WorkFields
<1>3. /\ report' = report /\ prepares' = prepares /\ original' = original
      /\ authored' = authored /\ work.pc = "write" /\ report.outcome = Authoring!None
      /\ work.verification.text = work.draft.text /\ Authoring!Publishable
      /\ Kept(authored.constraints, work.draft.constraints)
      /\ Kept(authored.obligations, work.draft.obligations)
  BY DEF AuthoringInv, BackedUp, NothingDropped, VerifiedAsItIs, Authoring!WriteTarget
<1>4. /\ files' = [files EXCEPT ![Head(work.left)] = prepares] /\ work.left # <<>>
      /\ work' = [work EXCEPT !.left = Tail(@)]
  BY DEF Authoring!WriteTarget, Authoring!ThisCommand
<1>5. files' \in [Authoring!Targets -> Nat]
  BY <1>1, <1>4
<1>6. Tail(work.left) \in Seq(Authoring!Targets)
  BY <1>2, <1>4
<1>7. /\ work' \in WorkRecords /\ work'.draft = work.draft
         /\ work'.verification = work.verification
      /\ work'.pc = "write"
  BY <1>1, <1>3, <1>4, <1>6 DEF WorkRecords
<1>8. Authoring!Publishable'
  BY <1>3, <1>7 DEF Authoring!Publishable
<1>9. AuthoringTypes'
  BY <1>1, <1>3, <1>5, <1>7, <1>8 DEF AuthoringTypes
<1>10. NothingDropped'
  BY <1>1, <1>3, <1>5, <1>7, <1>8 DEF AuthoringInv, NothingDropped
<1>11. VerifiedAsItIs'
  BY <1>1, <1>3, <1>5, <1>7, <1>8 DEF AuthoringInv, VerifiedAsItIs
<1>12. BackedUp'
  BY <1>1, <1>3, <1>5, <1>7, <1>8 DEF AuthoringInv, BackedUp, AuthoringPlaces
<1>13. Authoring!ReportIsTrue'
  BY <1>1, <1>3, <1>5, <1>7, <1>8
     DEF Authoring!ReportIsTrue, Authoring!PublishedIsVerified,
         Authoring!BlockedKeepsFiles, Authoring!None
<1> QED
  BY <1>9, <1>10, <1>11, <1>12, <1>13 DEF AuthoringInv

LEMMA Authoring_WriteFails ==
    ASSUME AuthoringInv, Authoring!WriteFails
    PROVE  AuthoringInv'
<1>1. /\ files \in [Authoring!Targets -> Nat] /\ original \in [Authoring!Targets -> Nat]
      /\ work \in WorkRecords /\ authored \in Authoring!DraftRecords
      /\ report \in AuthoringReports /\ prepares \in Nat
  BY DEF AuthoringInv, AuthoringTypes
<1>2. /\ work.draft \in Authoring!DraftRecords
         /\ work.verification \in VerificationRecords
      /\ work.left \in Seq(Authoring!Targets) /\ work.undone \in BOOLEAN
  BY <1>1, WorkFields
<1>3. /\ report' = report /\ prepares' = prepares /\ original' = original
      /\ authored' = authored /\ work.pc = "write" /\ report.outcome = Authoring!None
      /\ work.verification.text = work.draft.text /\ Authoring!Publishable
      /\ Kept(authored.constraints, work.draft.constraints)
      /\ Kept(authored.obligations, work.draft.obligations)
  BY DEF AuthoringInv, BackedUp, NothingDropped, VerifiedAsItIs, Authoring!WriteFails
<1>4. /\ files' = [files EXCEPT ![Head(work.left)] = Authoring!Torn]
      /\ work' = [work EXCEPT !.pc = "undo", !.left = Authoring!Restored]
  BY DEF Authoring!WriteFails
<1>5. files' \in [Authoring!Targets -> Nat]
  BY <1>1, <1>4 DEF Authoring!Torn
<1>6. /\ work' \in WorkRecords /\ work'.draft = work.draft /\ work'.pc = "undo"
      /\ work'.left = Authoring!Restored
  BY <1>1, <1>4, RestoredTargets DEF WorkRecords, AuthoringPlaces
<1>7. \A t \in Authoring!Targets : \E i \in 1..Len(work'.left) : work'.left[i] = t
  BY <1>6, RestoredTargets
<1>8. AuthoringTypes'
  BY <1>1, <1>3, <1>5, <1>6, <1>7 DEF AuthoringTypes
<1>9. NothingDropped'
  BY <1>1, <1>3, <1>5, <1>6, <1>7 DEF AuthoringInv, NothingDropped
<1>10. VerifiedAsItIs'
  BY <1>1, <1>3, <1>5, <1>6, <1>7 DEF AuthoringInv, VerifiedAsItIs
<1>11. BackedUp'
  BY <1>1, <1>3, <1>5, <1>6, <1>7 DEF AuthoringInv, BackedUp, AuthoringPlaces
<1>12. Authoring!ReportIsTrue'
  BY <1>1, <1>3, <1>5, <1>6, <1>7
     DEF Authoring!ReportIsTrue, Authoring!PublishedIsVerified,
         Authoring!BlockedKeepsFiles, Authoring!None
<1> QED
  BY <1>8, <1>9, <1>10, <1>11, <1>12 DEF AuthoringInv

LEMMA Authoring_Validated ==
    ASSUME AuthoringInv, Authoring!Validated
    PROVE  AuthoringInv'
<1>1. /\ files \in [Authoring!Targets -> Nat] /\ original \in [Authoring!Targets -> Nat]
      /\ work \in WorkRecords /\ authored \in Authoring!DraftRecords
      /\ report \in AuthoringReports /\ prepares \in Nat
  BY DEF AuthoringInv, AuthoringTypes
<1>2. /\ work.draft \in Authoring!DraftRecords
         /\ work.verification \in VerificationRecords
      /\ work.left \in Seq(Authoring!Targets) /\ work.undone \in BOOLEAN
  BY <1>1, WorkFields
<1>3. /\ prepares' = prepares /\ original' = original /\ files' = files
      /\ authored' = authored /\ work.pc = "write" /\ report.outcome = Authoring!None
      /\ work.verification.text = work.draft.text /\ Authoring!Publishable
      /\ Kept(authored.constraints, work.draft.constraints)
      /\ Kept(authored.obligations, work.draft.obligations)
  BY DEF AuthoringInv, BackedUp, NothingDropped, VerifiedAsItIs, Authoring!Validated
<1>4. CASE Authoring!End("ready")
  <2>1. work' \in WorkRecords /\ work'.pc = "idle"
    BY <1>4, IdleWork DEF Authoring!End
  <2>2. /\ report' \in AuthoringReports /\ report'.outcome = "ready"
        /\ report'.draft = work.draft /\ report'.verification = work.verification
    BY <1>2, <1>4 DEF Authoring!End, AuthoringReports
  <2>3. Authoring!PublishedIsVerified'
    BY <1>3, <2>2
       DEF Authoring!PublishedIsVerified, Authoring!Publishable, Authoring!Complete,
         Kept
  <2>4. AuthoringTypes' /\ Authoring!ReportIsTrue'
    BY <1>1, <1>3, <2>1, <2>2, <2>3
       DEF AuthoringTypes, Authoring!ReportIsTrue, Authoring!BlockedKeepsFiles
  <2>5. NothingDropped' /\ VerifiedAsItIs' /\ BackedUp'
    BY <2>1 DEF NothingDropped, VerifiedAsItIs, BackedUp
  <2> QED
    BY <2>4, <2>5 DEF AuthoringInv
<1>5. CASE work' = [work EXCEPT !.pc = "undo", !.left = Authoring!Restored]
           /\ UNCHANGED report
  <2>1. /\ work' \in WorkRecords /\ work'.draft = work.draft /\ work'.pc = "undo"
        /\ work'.left = Authoring!Restored
    BY <1>1, <1>5, RestoredTargets DEF WorkRecords, AuthoringPlaces
  <2>2. \A t \in Authoring!Targets : \E i \in 1..Len(work'.left) : work'.left[i] = t
    BY <2>1, RestoredTargets
  <2>3. AuthoringTypes' /\ Authoring!ReportIsTrue'
    BY <1>1, <1>3, <1>5, <2>1 DEF AuthoringTypes, Authoring!ReportIsTrue,
       Authoring!PublishedIsVerified, Authoring!BlockedKeepsFiles, Authoring!None
  <2>4. NothingDropped' /\ VerifiedAsItIs' /\ BackedUp'
    BY <1>3, <1>5, <2>1, <2>2
       DEF NothingDropped, VerifiedAsItIs, BackedUp, AuthoringPlaces
  <2> QED
    BY <2>3, <2>4 DEF AuthoringInv
<1> QED
  BY <1>4, <1>5 DEF Authoring!Validated

LEMMA Authoring_UndoTarget ==
    ASSUME AuthoringInv, Authoring!UndoTarget
    PROVE  AuthoringInv'
<1>1. /\ files \in [Authoring!Targets -> Nat] /\ original \in [Authoring!Targets -> Nat]
      /\ work \in WorkRecords /\ authored \in Authoring!DraftRecords
      /\ report \in AuthoringReports /\ prepares \in Nat
  BY DEF AuthoringInv, AuthoringTypes
<1>2. /\ work.draft \in Authoring!DraftRecords
         /\ work.verification \in VerificationRecords
      /\ work.left \in Seq(Authoring!Targets) /\ work.undone \in BOOLEAN
  BY <1>1, WorkFields
<1>3. /\ report' = report /\ prepares' = prepares /\ original' = original
      /\ authored' = authored /\ work.pc = "undo" /\ report.outcome = Authoring!None
      /\ Kept(authored.constraints, work.draft.constraints)
      /\ Kept(authored.obligations, work.draft.obligations)
      /\ work.undone => \A t \in Authoring!Targets :
           files[t] = original[t] \/ \E i \in 1..Len(work.left) : work.left[i] = t
      /\ work.left # <<>>
  BY DEF AuthoringInv, BackedUp, NothingDropped, Authoring!UndoTarget
<1> DEFINE first == Head(work.left)
           rest == Tail(work.left)
<1>4. /\ first \in Authoring!Targets /\ rest \in Seq(Authoring!Targets)
      /\ \A i \in 1..Len(work.left) : work.left[i] = first \/ \E j \in 1..Len(rest) : rest[j] = work.left[i]
  <2>1. Len(work.left) \in Nat /\ Len(work.left) >= 1 /\ Len(rest) = Len(work.left) - 1
    BY <1>2, <1>3
  <2>2. \A j \in 1..Len(rest) : rest[j] = work.left[j + 1]
    BY <1>2, <1>3, <2>1
  <2>3. first = work.left[1] /\ first \in Authoring!Targets
        /\ rest \in Seq(Authoring!Targets)
    BY <1>2, <1>3, <2>1
  <2>4. ASSUME NEW i \in 1..Len(work.left), i # 1
        PROVE  i - 1 \in 1..Len(rest) /\ rest[i - 1] = work.left[i]
    <3>1. i - 1 \in 1..Len(rest) /\ (i - 1) + 1 = i
      BY <2>1, <2>4
    <3> QED
      BY <2>2, <3>1
  <2> QED
    BY <2>3, <2>4
<1>5. \/ files' = [files EXCEPT ![first] = original[first]]
         /\ work' = [work EXCEPT !.left = rest]
      \/ files' = files /\ work' = [work EXCEPT !.left = rest, !.undone = FALSE]
  BY DEF Authoring!UndoTarget
<1> HIDE DEF first, rest
<1>6. /\ work' \in WorkRecords /\ work'.draft = work.draft /\ work'.pc = "undo"
      /\ work'.left = rest
      /\ work'.undone => work.undone
         /\ files' = [files EXCEPT ![first] = original[first]]
  BY <1>1, <1>3, <1>4, <1>5 DEF WorkRecords
<1>7. files' \in [Authoring!Targets -> Nat]
  BY <1>1, <1>4, <1>5
<1>8. work'.undone => \A t \in Authoring!Targets :
        files'[t] = original[t] \/ \E i \in 1..Len(rest) : rest[i] = t
  <2> SUFFICES ASSUME work'.undone, NEW t \in Authoring!Targets, t # first
               PROVE  files[t] = original[t] \/ \E i \in 1..Len(rest) : rest[i] = t
    BY <1>1, <1>4, <1>6
  <2>1. CASE \E i \in 1..Len(work.left) : work.left[i] = t
    BY <1>4, <2>1
  <2> QED
    BY <1>3, <1>6, <2>1
<1>9. AuthoringTypes'
  BY <1>1, <1>3, <1>6, <1>7, <1>8 DEF AuthoringTypes
<1>10. NothingDropped'
  BY <1>1, <1>3, <1>6, <1>7, <1>8 DEF AuthoringInv, NothingDropped
<1>11. VerifiedAsItIs'
  BY <1>1, <1>3, <1>6, <1>7, <1>8 DEF AuthoringInv, VerifiedAsItIs
<1>12. BackedUp'
  BY <1>1, <1>3, <1>6, <1>7, <1>8 DEF AuthoringInv, BackedUp, AuthoringPlaces
<1>13. Authoring!ReportIsTrue'
  BY <1>1, <1>3, <1>6, <1>7, <1>8
     DEF Authoring!ReportIsTrue, Authoring!PublishedIsVerified,
         Authoring!BlockedKeepsFiles, Authoring!None
<1> QED
  BY <1>9, <1>10, <1>11, <1>12, <1>13 DEF AuthoringInv

LEMMA AuthoringStep == AuthoringInv /\ [Next]_vars => AuthoringInv'
<1> SUFFICES ASSUME AuthoringInv, [Next]_vars PROVE AuthoringInv'
  OBVIOUS
<1>1. Authoring!Next \/ UNCHANGED Authoring!authoringVars
  BY DEF Next, vars, Amend, RunChild, RunAgent, KeepAlive, Prepare, AuthorPlan,
     UseWorktree,
         ReviewCandidate, ShapePlan, AnswerQuestions, authoringVars, Authoring!authoringVars
<1>2. CASE Authoring!Next
  BY <1>2, Authoring_AuthorFails, Authoring_VerifyFails, Authoring_CorrectionFails,
     Authoring_GateBlocks, Authoring_Kill, Authoring_Undone, Authoring_Start,
     Authoring_AuthorCorrected, Authoring_VerifyMalformed, Authoring_Authored,
     Authoring_Verified, Authoring_RepairConstraints, Authoring_RepairObligations,
     Authoring_ContextUnavailable, Authoring_Recover, Authoring_RecoverStop,
     Authoring_GatePasses, Authoring_WriteTarget, Authoring_WriteFails,
     Authoring_Validated, Authoring_UndoTarget DEF Authoring!Next
<1>3. CASE UNCHANGED Authoring!authoringVars
  BY <1>3
     DEF Authoring!authoringVars, AuthoringInv, AuthoringTypes, NothingDropped,
         VerifiedAsItIs, BackedUp, Authoring!Publishable, Authoring!ReportIsTrue,
         Authoring!PublishedIsVerified, Authoring!BlockedKeepsFiles
<1> QED
  BY <1>1, <1>2, <1>3

LEMMA AuthoringInit == Init => AuthoringInv
<1> SUFFICES ASSUME Authoring!Init PROVE AuthoringInv
  BY DEF Init
<1>1. /\ files \in [Authoring!Targets -> Nat] /\ original = files /\ prepares = 0
      /\ work = Authoring!Idle /\ report = Authoring!NoReport
         /\ authored = Authoring!NoDraft
  BY DEF Authoring!Init, Authoring!Absent
<1> QED
  BY <1>1, IdleWork, NoneVerified
     DEF AuthoringInv, AuthoringTypes, NothingDropped, VerifiedAsItIs, BackedUp,
       Authoring!ReportIsTrue, Authoring!PublishedIsVerified,
       Authoring!BlockedKeepsFiles, AuthoringPlaces, Authoring!None

LEMMA AuthoringInvariant == Spec => []AuthoringInv
BY AuthoringInit, AuthoringStep, PTL DEF Spec

\* What a prepare command reports is what is on disk: a plan reported ready was
\* verified as it was written and lost no requirement of the author's, and a
\* blocked command that could restore every file left them as it found them; for
\* any units, requirements, answers of the models and failing writes.
THEOREM AuthoringReportsTruth == Spec => []ReportIsTrue
<1>1. AuthoringInv => ReportIsTrue
  BY DEF AuthoringInv, ReportIsTrue
<1> QED
  BY <1>1, AuthoringInvariant, PTL

(***************************************************************************)
(* Preparing a tree.  The saved answers decide every walk: a question is   *)
(* asked because of answers that are saved already, and it is answered     *)
(* once, so two reviews of the same proposal are the same question.  The   *)
(* invariant says of each question on file which answers it was asked      *)
(* because of, and the same of the frames of the command in progress.      *)
(***************************************************************************)
Nodes == {Preparing!Root, Preparing!Child}
NodeTexts == {Preparing!None, "task"} \cup Proposals[Preparing!Root] \cup Proposals[Preparing!Child]
Feedbacks == {Preparing!None, "draft", "local_review", "integration_review"}
Stages == {"author", "local_review", "integration_review"}

QuestionRecords ==
    [node : Nodes, stage : Stages, contract : NodeTexts, context : BOOLEAN,
     proposal : NodeTexts, feedback : Feedbacks, protocol : BOOLEAN, child : NodeTexts]

FrameRecords ==
    [node : Nodes, contract : NodeTexts, attempt : {1, 2}, feedback : Feedbacks,
     previous : NodeTexts, context : BOOLEAN, retrieved : BOOLEAN, proposal : NodeTexts,
     correction : Feedbacks, stage : Stages, protocol : BOOLEAN, child : NodeTexts]

LeafRecords ==
    [node : Nodes, contract : NodeTexts, context : BOOLEAN, proposal : NodeTexts,
     child : NodeTexts]

\* What can be answered to a question about a node at a stage.
AnswersAt(node, stage) ==
    IF stage = "author" THEN Proposals[node] \cup {"context", "unusable", "stop"}
    ELSE {"approved", "revise", "malformed", "mismatch", "stop"}

AnswerWords ==
    {Preparing!None} \cup UNION {AnswersAt(node, stage) : node \in Nodes, stage \in Stages}

CallRecords ==
    [question : QuestionRecords, status : {"reserved", "received", "accepted"},
     answer : AnswerWords]

ControlRecords ==
    [terminal : {"absent", Preparing!None, "prerequisite_stop", "readonly_violation",
                 "hierarchy_authority_changed"},
     calls : Seq(CallRecords), contexts : SUBSET Nodes]

Stacks ==
    {<<>>} \cup {<<f>> : f \in FrameRecords} \cup {<<f, g>> : f \in FrameRecords, g \in FrameRecords}

Exchanging == {"call", "answered", "received", "written"}
WalkRecords ==
    [pc : {"idle", "select", "ask", "use", "assemble"} \cup Exchanging, stack : Stacks,
     index : Nat, answer : AnswerWords,
     tree : SUBSET LeafRecords]

\* The answers that are saved, each with its question.
Sayings(calls) ==
    {<<calls[i].question, calls[i].answer>> :
        i \in {j \in 1..Len(calls) : calls[j].status # "reserved"}}

QuestionOf(f) ==
    IF f.stage = "author" THEN Preparing!AuthorQuestion(f) ELSE Preparing!ReviewQuestion(f)

TopOf(w) == w.stack[Len(w.stack)]

(* Why a question is asked, in terms of the answers S that are saved.      *)
FirstQuestion(node, k, context) ==
    [node |-> node, stage |-> "author", contract |-> k, context |-> context,
     proposal |-> Preparing!None, feedback |-> Preparing!None, protocol |-> FALSE,
     child |-> Preparing!None]

FirstReview(node, k, context, text, protocol) ==
    [node |-> node, stage |-> "local_review", contract |-> k, context |-> context,
     proposal |-> text, feedback |-> Preparing!None, protocol |-> protocol,
     child |-> Preparing!None]

\* The first proposal for a node was this one, made with these files.
FirstProposal(S, node, k, context, text) ==
    /\ text \in Proposals[node]
    /\ <<FirstQuestion(node, k, context), text>> \in S
    /\ context => <<FirstQuestion(node, k, FALSE), "context">> \in S

\* The first proposal was rejected with this feedback.
FirstRejection(S, node, k, context, text, feedback) ==
    /\ feedback # Preparing!None
    /\ feedback = "draft" <=> text \in Defective
    /\ feedback = "local_review" =>
         \E r \in BOOLEAN : <<FirstReview(node, k, context, text, r), "revise">> \in S
    /\ feedback = "integration_review" =>
         \E r \in BOOLEAN : <<FirstReview(node, k, context, text, r), "approved">> \in S

\* An author is asked with files when it asked for them, and once more for what
\* a review found, with the files it had.
WhyAuthor(S, q) ==
    /\ ~q.protocol /\ q.child = Preparing!None
    /\ q.feedback = Preparing!None =>
         /\ q.proposal = Preparing!None
         /\ q.context => <<[q EXCEPT !.context = FALSE], "context">> \in S
    /\ q.feedback # Preparing!None =>
         \E c \in BOOLEAN :
            /\ FirstProposal(S, q.node, q.contract, c, q.proposal)
            /\ FirstRejection(S, q.node, q.contract, c, q.proposal, q.feedback)
            /\ c => q.context
            /\ q.context /\ ~c => <<[q EXCEPT !.context = FALSE], "context">> \in S

\* A question with a format error follows a malformed answer; a review without
\* feedback is of the first proposal, one with feedback of another.
WellAsked(S, q) ==
    /\ q.stage = "author" => WhyAuthor(S, q)
    /\ q.protocol => <<[q EXCEPT !.protocol = FALSE], "malformed">> \in S
    /\ q.stage # "author" /\ q.feedback = Preparing!None =>
         \E c \in BOOLEAN : FirstProposal(S, q.node, q.contract, c, q.proposal)
    /\ q.stage # "author" /\ q.feedback # Preparing!None =>
         \E c \in BOOLEAN, text \in NodeTexts :
            /\ text # q.proposal
            /\ FirstProposal(S, q.node, q.contract, c, text)
            /\ FirstRejection(S, q.node, q.contract, c, text, q.feedback)

\* A review at this stage approved what the leaf says.
ApprovedAt(S, leaf, stage) ==
    \E q \in QuestionRecords :
        /\ q.stage = stage /\ <<q, "approved">> \in S
        /\ Preparing!Leaf(q) =
             IF stage = "local_review" THEN [leaf EXCEPT !.child = Preparing!None] ELSE leaf

AcceptedLeaf(S, leaf) ==
    /\ ApprovedAt(S, leaf, "local_review")
    /\ leaf.node = Preparing!Root => ApprovedAt(S, leaf, "integration_review")

(* The parts of the invariant.                                             *)
\* An answered question is not asked again.
LedgerOK(calls) ==
    /\ \A i \in 1..Len(calls) :
        /\ calls[i].status = "reserved" <=> calls[i].answer = Preparing!None
        /\ calls[i].status # "reserved" =>
             calls[i].answer \in AnswersAt(calls[i].question.node, calls[i].question.stage)
        /\ WellAsked(Sayings(calls), calls[i].question)
    /\ \A i, j \in 1..Len(calls) :
        calls[i].status # "reserved" /\ i < j => calls[i].question # calls[j].question

\* The local review approved the proposal, at the first attempt without feedback.
PassedLocally(S, f) ==
    /\ f.proposal \notin Defective
    /\ ApprovedAt(S, Preparing!Leaf(f), "local_review")
    /\ f.attempt = 1 =>
         \E r \in BOOLEAN :
            <<FirstReview(f.node, f.contract, f.context, f.proposal, r), "approved">> \in S

\* The attempt of a frame, and what it is reviewed for, follow from the answers.
FrameOK(S, f) ==
    /\ WhyAuthor(S, Preparing!AuthorQuestion(f))
    /\ f.attempt = 1 =>
        /\ f.feedback = Preparing!None /\ f.previous = Preparing!None
        /\ f.context => <<FirstQuestion(f.node, f.contract, FALSE), "context">> \in S
    /\ f.attempt = 2 =>
         \E c \in BOOLEAN : /\ FirstProposal(S, f.node, f.contract, c, f.previous)
                            /\ FirstRejection(S, f.node, f.contract, c, f.previous,
                                    f.feedback)
    /\ f.stage = "author" => ~f.protocol
    /\ f.stage # "author" =>
        /\ f.proposal \in Proposals[f.node]
        /\ f.correction = Preparing!CorrectionFeedback(f)
        /\ f.attempt = 1 => FirstProposal(S, f.node, f.contract, f.context, f.proposal)
        /\ f.protocol =>
             <<[Preparing!ReviewQuestion(f) EXCEPT !.protocol = FALSE], "malformed">> \in S
    /\ f.stage # "integration_review" => f.child = Preparing!None
    /\ f.stage = "integration_review" => f.node = Preparing!Root /\ PassedLocally(S, f)

StackOK(S, w) ==
    /\ \A i \in 1..Len(w.stack) : FrameOK(S, w.stack[i])
    /\ w.stack # <<>> => w.stack[1].node = Preparing!Root
    /\ Len(w.stack) = 2 =>
        /\ w.stack[2].node = Preparing!Child /\ w.stack[2].stage # "integration_review"
        /\ w.stack[1].stage = "local_review" /\ PassedLocally(S, w.stack[1])

WalkOK(calls, w) ==
    /\ w.stack = <<>> <=> w.pc \in {"idle", "select"}
    /\ StackOK(Sayings(calls), w)
    /\ \A leaf \in w.tree : AcceptedLeaf(Sayings(calls), leaf)
    /\ w.pc \in Exchanging =>
        /\ w.index = Len(calls) /\ w.index # 0
        /\ calls[w.index].question = QuestionOf(TopOf(w))
    /\ w.pc \in {"call", "answered"} => calls[w.index].status = "reserved"
    /\ w.pc \in {"received", "written"} =>
        /\ calls[w.index].status # "reserved" /\ calls[w.index].answer = w.answer
    /\ w.pc = "answered" => w.answer \in AnswersAt(TopOf(w).node, TopOf(w).stage)
    /\ w.pc = "use" => <<QuestionOf(TopOf(w)), w.answer>> \in Sayings(calls)

\* What the provider was sent is on file, the second time twice.
Posed(calls, q) == \E i \in 1..Len(calls) : calls[i].question = q
PosedTwice(calls, q) ==
    \E i, j \in 1..Len(calls) : i < j /\ calls[i].question = q /\ calls[j].question = q

AskedOK(calls, requests, w) ==
    /\ \A a \in requests : Posed(calls, a[1]) /\ (a[2] = 2 => PosedTwice(calls, a[1]))
    /\ w.pc = "call" =>
         \A a \in requests : a[1] = QuestionOf(TopOf(w)) => a[2] = 1 /\ PosedTwice(calls, a[1])

\* A command in progress has a control file.
ControlExists(c, w) ==
    /\ w.pc # "idle" => c.terminal # "absent"
    /\ c.terminal = "absent" => c = Preparing!NoControl

PreparationInv ==
    /\ control \in ControlRecords /\ walk \in WalkRecords
    /\ source \in BOOLEAN
    /\ asked \in SUBSET (QuestionRecords \X {1, 2})
    /\ LedgerOK(control.calls) /\ WalkOK(control.calls, walk)
    /\ AskedOK(control.calls, asked, walk) /\ ControlExists(control, walk)
    /\ \A t \in trees : \A leaf \in t : AcceptedLeaf(Sayings(control.calls), leaf)

LEMMA PreparationConstants == Preparing!PreparationAssumption
BY ComponentConstants

\* An answer that is saved was given once, to a question asked for a reason.
Saved(S) ==
    /\ \A q, a, b : <<q, a>> \in S /\ <<q, b>> \in S => a = b
    /\ \A q, a : <<q, a>> \in S => q \in QuestionRecords /\ WellAsked(S, q)

LEMMA SayingsAreSaved ==
    ASSUME NEW calls \in Seq(CallRecords), LedgerOK(calls)
    PROVE  Saved(Sayings(calls))
<1>1. ASSUME NEW q, NEW a, <<q, a>> \in Sayings(calls)
      PROVE  \E i \in 1..Len(calls) :
                calls[i].status # "reserved" /\ calls[i].question = q /\ calls[i].answer = a
  BY <1>1 DEF Sayings
<1>2. \A i \in 1..Len(calls) : calls[i] \in CallRecords
  OBVIOUS
<1>3. ASSUME NEW q, NEW a, NEW b, <<q, a>> \in Sayings(calls), <<q,
                  b>> \in Sayings(calls)
      PROVE  a = b
  <2>1. PICK i \in 1..Len(calls) :
                calls[i].status # "reserved" /\ calls[i].question = q /\ calls[i].answer = a
    BY <1>1, <1>3
  <2>2. PICK j \in 1..Len(calls) :
                calls[j].status # "reserved" /\ calls[j].question = q /\ calls[j].answer = b
    BY <1>1, <1>3
  <2>3. i = j
    BY <2>1, <2>2 DEF LedgerOK
  <2> QED
    BY <2>1, <2>2, <2>3
<1>4. ASSUME NEW q, NEW a, <<q, a>> \in Sayings(calls)
      PROVE  q \in QuestionRecords /\ WellAsked(Sayings(calls), q)
  BY <1>1, <1>2, <1>4 DEF LedgerOK, CallRecords
<1> QED
  BY <1>3, <1>4 DEF Saved

(* What was asked for a reason still is when more is saved.                *)
LEMMA FirstPersists ==
    ASSUME NEW S, NEW T, S \subseteq T, NEW node, NEW k, NEW c, NEW text
    PROVE  /\ FirstProposal(S, node, k, c, text) => FirstProposal(T, node, k, c, text)
           /\ \A feedback : FirstRejection(S, node, k, c, text, feedback) =>
                FirstRejection(T, node, k, c, text, feedback)
BY DEF FirstProposal, FirstRejection

LEMMA AuthorPersists ==
    ASSUME NEW S, NEW T, S \subseteq T, NEW q, WhyAuthor(S, q)
    PROVE  WhyAuthor(T, q)
<1>1. CASE q.feedback = Preparing!None
  BY <1>1 DEF WhyAuthor
<1>2. CASE q.feedback # Preparing!None
  <2>1. PICK c \in BOOLEAN :
            /\ FirstProposal(S, q.node, q.contract, c, q.proposal)
            /\ FirstRejection(S, q.node, q.contract, c, q.proposal, q.feedback)
            /\ c => q.context
            /\ q.context /\ ~c => <<[q EXCEPT !.context = FALSE], "context">> \in S
    BY <1>2 DEF WhyAuthor
  <2>2. /\ FirstProposal(T, q.node, q.contract, c, q.proposal)
        /\ FirstRejection(T, q.node, q.contract, c, q.proposal, q.feedback)
    BY <2>1, FirstPersists
  <2> QED
    BY <1>2, <2>1, <2>2 DEF WhyAuthor
<1> QED
  BY <1>1, <1>2

LEMMA AskedPersists ==
    ASSUME NEW S, NEW T, S \subseteq T, NEW q, WellAsked(S, q)
    PROVE  WellAsked(T, q)
BY FirstPersists, AuthorPersists DEF WellAsked

LEMMA ApprovedPersists ==
    ASSUME NEW S, NEW T, S \subseteq T, NEW leaf
    PROVE  /\ \A stage : ApprovedAt(S, leaf, stage) => ApprovedAt(T, leaf, stage)
           /\ AcceptedLeaf(S, leaf) => AcceptedLeaf(T, leaf)
BY DEF ApprovedAt, AcceptedLeaf

LEMMA PassedPersists ==
    ASSUME NEW S, NEW T, S \subseteq T, NEW f, PassedLocally(S, f)
    PROVE  PassedLocally(T, f)
BY ApprovedPersists DEF PassedLocally

LEMMA FramePersists ==
    ASSUME NEW S, NEW T, S \subseteq T, NEW f, FrameOK(S, f)
    PROVE  FrameOK(T, f)
<1>1. f.attempt = 1
      /\ f.context => <<FirstQuestion(f.node, f.contract, FALSE), "context">> \in T
  BY DEF FrameOK
<1>2. f.attempt = 2 =>
         \E c \in BOOLEAN : /\ FirstProposal(T, f.node, f.contract, c, f.previous)
                            /\ FirstRejection(T, f.node, f.contract, c, f.previous,
                                    f.feedback)
  BY FirstPersists DEF FrameOK
<1>3. f.stage # "author" /\ f.attempt = 1 =>
        FirstProposal(T, f.node, f.contract, f.context, f.proposal)
  BY FirstPersists DEF FrameOK
<1>4. f.stage = "integration_review" => PassedLocally(T, f)
  BY PassedPersists DEF FrameOK
<1>5. WhyAuthor(T, Preparing!AuthorQuestion(f))
  BY AuthorPersists DEF FrameOK
<1> QED
  BY <1>1, <1>2, <1>3, <1>4, <1>5 DEF FrameOK

LEMMA StackPersists ==
    ASSUME NEW S, NEW T, S \subseteq T, NEW w, StackOK(S, w)
    PROVE  StackOK(T, w)
BY FramePersists, PassedPersists DEF StackOK

(* No proposal gets a second opinion.                                      *)
LEMMA OneFirstProposal ==
    ASSUME NEW S, Saved(S), NEW node \in Nodes, NEW k, NEW c \in BOOLEAN, NEW d \in BOOLEAN,
           NEW a, NEW b, FirstProposal(S, node, k, c, a), FirstProposal(S, node, k, d, b)
    PROVE  c = d /\ a = b
<1>1. a # "context" /\ b # "context"
  BY PreparationConstants
     DEF Preparing!PreparationAssumption, Nodes, FirstProposal
<1>2. c = d
  <2>1. CASE c /\ ~d
    BY <1>1, <2>1 DEF FirstProposal, Saved
  <2>2. CASE ~c /\ d
    BY <1>1, <2>2 DEF FirstProposal, Saved
  <2> QED
    BY <2>1, <2>2
<1> QED
  BY <1>2 DEF FirstProposal, Saved

\* Two questions that differ in the format error only: one answer is none.
LEMMA OneProtocol ==
    ASSUME NEW S, Saved(S), NEW q, NEW r, NEW a, NEW b,
           <<q, a>> \in S, <<r, b>> \in S, a # "malformed", b # "malformed",
           [q EXCEPT !.protocol = FALSE] = [r EXCEPT !.protocol = FALSE]
    PROVE  a = b
<1>1. q \in QuestionRecords /\ r \in QuestionRecords /\ WellAsked(S, q)
      /\ WellAsked(S, r)
  BY DEF Saved
<1>2. ASSUME NEW x \in QuestionRecords, NEW y \in QuestionRecords, NEW d,
             WellAsked(S, x), <<y, d>> \in S, d # "malformed", x.protocol,
             [x EXCEPT !.protocol = FALSE] = [y EXCEPT !.protocol = FALSE]
      PROVE  y.protocol
  <2> SUFFICES ASSUME ~y.protocol PROVE FALSE
    OBVIOUS
  <2>1. [y EXCEPT !.protocol = FALSE] = y
    BY DEF QuestionRecords
  <2>2. <<y, "malformed">> \in S
    BY <1>2, <2>1 DEF WellAsked
  <2> QED
    BY <1>2, <2>2 DEF Saved
<1>3. q.protocol = r.protocol
  BY <1>1, <1>2 DEF QuestionRecords
<1>4. q = r
  <2>1. q = [[q EXCEPT !.protocol = FALSE] EXCEPT !.protocol = q.protocol]
    BY <1>1 DEF QuestionRecords
  <2>2. r = [[r EXCEPT !.protocol = FALSE] EXCEPT !.protocol = r.protocol]
    BY <1>1 DEF QuestionRecords
  <2> QED
    BY <1>3, <2>1, <2>2
<1> QED
  BY <1>4 DEF Saved

LEMMA OneFirstReview ==
    ASSUME NEW S, Saved(S), NEW node, NEW k, NEW c, NEW text, NEW r, NEW s, NEW a, NEW b,
           <<FirstReview(node, k, c, text, r), a>> \in S, a # "malformed",
           <<FirstReview(node, k, c, text, s), b>> \in S, b # "malformed"
    PROVE  a = b
<1> DEFINE q == FirstReview(node, k, c, text, r)
           p == FirstReview(node, k, c, text, s)
<1>1. q \in QuestionRecords /\ p \in QuestionRecords
  BY DEF Saved
<1>2. /\ q.node = p.node /\ q.stage = p.stage /\ q.contract = p.contract
      /\ q.context = p.context /\ q.proposal = p.proposal /\ q.feedback = p.feedback
      /\ q.child = p.child
  BY DEF FirstReview
<1> HIDE DEF q, p
<1>3. [q EXCEPT !.protocol = FALSE] = [p EXCEPT !.protocol = FALSE]
  BY <1>1, <1>2 DEF QuestionRecords
<1>4. <<q, a>> \in S /\ <<p, b>> \in S
  BY DEF q, p
<1> QED
  BY <1>3, <1>4, OneProtocol

\* A first proposal is rejected for one reason.
LEMMA OneFirstRejection ==
    ASSUME NEW S, Saved(S), NEW node, NEW k, NEW c, NEW text,
           NEW f \in Feedbacks, FirstRejection(S, node, k, c, text, f),
           NEW g \in Feedbacks, FirstRejection(S, node, k, c, text, g)
    PROVE  f = g
<1>1. ~(f = "local_review" /\ g = "integration_review")
  BY OneFirstReview DEF FirstRejection
<1>2. ~(g = "local_review" /\ f = "integration_review")
  BY OneFirstReview DEF FirstRejection
<1> QED
  BY <1>1, <1>2 DEF Feedbacks, FirstRejection

LEMMA OneOpinion ==
    ASSUME NEW S, Saved(S), NEW q, NEW r, NEW a, NEW b,
           <<q, a>> \in S, <<r, b>> \in S, a # "malformed", b # "malformed",
           q.stage = r.stage, q.stage # "author", Preparing!Leaf(q) = Preparing!Leaf(r)
    PROVE  a = b
<1>1. q \in QuestionRecords /\ r \in QuestionRecords /\ WellAsked(S, q)
      /\ WellAsked(S, r)
  BY DEF Saved
<1>2. /\ q.node = r.node /\ q.contract = r.contract /\ q.context = r.context
      /\ q.proposal = r.proposal /\ q.child = r.child
  BY DEF Preparing!Leaf
<1>3. q.node \in Nodes /\ q.feedback \in Feedbacks /\ r.feedback \in Feedbacks
  BY <1>1 DEF QuestionRecords
<1>4. q.feedback = r.feedback
  <2>1. ASSUME NEW x \in QuestionRecords, NEW y \in QuestionRecords,
               WellAsked(S, x), WellAsked(S, y), x.stage # "author", y.stage # "author",
               x.node = y.node, x.contract = y.contract, x.proposal = y.proposal,
               x.feedback = Preparing!None
        PROVE  y.feedback = Preparing!None
    <3> SUFFICES ASSUME y.feedback # Preparing!None PROVE FALSE
      OBVIOUS
    <3>1. PICK c \in BOOLEAN : FirstProposal(S, x.node, x.contract, c, x.proposal)
      BY <2>1 DEF WellAsked
    <3>2. PICK d \in BOOLEAN, text \in NodeTexts :
            text # y.proposal /\ FirstProposal(S, y.node, y.contract, d, text)
      BY <2>1 DEF WellAsked
    <3>3. x.node \in Nodes
      BY <2>1 DEF QuestionRecords
    <3> QED
      BY <2>1, <3>1, <3>2, <3>3, OneFirstProposal
  <2>2. CASE q.feedback = Preparing!None \/ r.feedback = Preparing!None
    BY <1>1, <1>2, <2>1, <2>2
  <2>3. CASE q.feedback # Preparing!None /\ r.feedback # Preparing!None
    <3>1. PICK c \in BOOLEAN, text \in NodeTexts :
            /\ FirstProposal(S, q.node, q.contract, c, text)
            /\ FirstRejection(S, q.node, q.contract, c, text, q.feedback)
      BY <1>1, <2>3 DEF WellAsked
    <3>2. PICK d \in BOOLEAN, other \in NodeTexts :
            /\ FirstProposal(S, r.node, r.contract, d, other)
            /\ FirstRejection(S, r.node, r.contract, d, other, r.feedback)
      BY <1>1, <2>3 DEF WellAsked
    <3>3. c = d /\ text = other
      BY <1>2, <1>3, <3>1, <3>2, OneFirstProposal
    <3> QED
      BY <1>2, <1>3, <3>1, <3>2, <3>3, OneFirstRejection
  <2> QED
    BY <2>2, <2>3
<1>5. [q EXCEPT !.protocol = FALSE] = [r EXCEPT !.protocol = FALSE]
  BY <1>1, <1>2, <1>4 DEF QuestionRecords
<1> QED
  BY <1>5, OneProtocol

\* An author proposes once at first, and once more for what a review found.
LEMMA OneProposal ==
    ASSUME NEW S, Saved(S), NEW q, NEW r, NEW a, NEW b, <<q, a>> \in S, <<r, b>> \in S,
           q.stage = "author", r.stage = "author", q.node = r.node, q.contract = r.contract,
           q.feedback = Preparing!None <=> r.feedback = Preparing!None,
           a # "context", b # "context"
    PROVE  q = r
<1>1. q \in QuestionRecords /\ r \in QuestionRecords /\ WhyAuthor(S, q) /\ WhyAuthor(S, r)
  BY DEF Saved, WellAsked
<1>2. q.protocol = r.protocol /\ q.child = r.child
  BY <1>1 DEF WhyAuthor, QuestionRecords
<1>3. ASSUME NEW x \in QuestionRecords, NEW y \in QuestionRecords, NEW d, <<y, d>> \in S,
             d # "context", x.context, ~y.context,
             [x EXCEPT !.context = FALSE] = [y EXCEPT !.context = FALSE],
             <<[x EXCEPT !.context = FALSE], "context">> \in S
      PROVE  FALSE
  <2>1. [y EXCEPT !.context = FALSE] = y
    BY <1>3 DEF QuestionRecords
  <2> QED
    BY <1>3, <2>1 DEF Saved
<1>4. q.proposal = r.proposal /\ q.feedback = r.feedback
      => [q EXCEPT !.context = FALSE] = [r EXCEPT !.context = FALSE]
  BY <1>1, <1>2 DEF QuestionRecords
<1>5. q.proposal = r.proposal /\ q.feedback = r.feedback /\ q.context = r.context => q = r
  BY <1>1, <1>2 DEF QuestionRecords
<1>6. q.context \in BOOLEAN /\ r.context \in BOOLEAN /\ q.node \in Nodes
      /\ q.feedback \in Feedbacks /\ r.feedback \in Feedbacks
  BY <1>1 DEF QuestionRecords
<1>7. CASE q.feedback = Preparing!None
  <2>1. /\ q.proposal = r.proposal /\ q.feedback = r.feedback
        /\ q.context => <<[q EXCEPT !.context = FALSE], "context">> \in S
        /\ r.context => <<[r EXCEPT !.context = FALSE], "context">> \in S
    BY <1>1, <1>7 DEF WhyAuthor
  <2>2. ~(q.context /\ ~r.context)
    BY <1>1, <1>3, <1>4, <2>1
  <2>3. ~(r.context /\ ~q.context)
    BY <1>1, <1>3, <1>4, <2>1
  <2> QED
    BY <1>5, <1>6, <2>1, <2>2, <2>3
<1>8. CASE q.feedback # Preparing!None
  <2>1. PICK c \in BOOLEAN :
            /\ FirstProposal(S, q.node, q.contract, c, q.proposal)
            /\ FirstRejection(S, q.node, q.contract, c, q.proposal, q.feedback)
            /\ c => q.context
            /\ q.context /\ ~c => <<[q EXCEPT !.context = FALSE], "context">> \in S
    BY <1>1, <1>8 DEF WhyAuthor
  <2>2. PICK d \in BOOLEAN :
            /\ FirstProposal(S, r.node, r.contract, d, r.proposal)
            /\ FirstRejection(S, r.node, r.contract, d, r.proposal, r.feedback)
            /\ d => r.context
            /\ r.context /\ ~d => <<[r EXCEPT !.context = FALSE], "context">> \in S
    BY <1>1, <1>8 DEF WhyAuthor
  <2>3. c = d /\ q.proposal = r.proposal
    BY <1>6, <2>1, <2>2, OneFirstProposal
  <2>4. q.feedback = r.feedback
    BY <1>6, <2>1, <2>2, <2>3, OneFirstRejection
  <2>5. CASE c
    BY <1>5, <1>6, <2>1, <2>2, <2>3, <2>4, <2>5
  <2>6. CASE ~c
    <3>1. ~(q.context /\ ~r.context)
      BY <1>1, <1>3, <1>4, <2>1, <2>3, <2>4, <2>6
    <3>2. ~(r.context /\ ~q.context)
      BY <1>1, <1>3, <1>4, <2>2, <2>3, <2>4, <2>6
    <3> QED
      BY <1>5, <1>6, <2>3, <2>4, <3>1, <3>2
  <2> QED
    BY <2>5, <2>6
<1> QED
  BY <1>7, <1>8

(* What a frame asks.                                                      *)
LEMMA FrameAsks ==
    ASSUME NEW f \in FrameRecords
    PROVE  /\ QuestionOf(f) \in QuestionRecords
           /\ \A S : FrameOK(S, f) => WellAsked(S, QuestionOf(f))
<1>1. QuestionOf(f) \in QuestionRecords
  BY DEF FrameRecords, QuestionOf, QuestionRecords, Preparing!AuthorQuestion,
         Preparing!ReviewQuestion, NodeTexts, Feedbacks, Stages
<1>2. ASSUME NEW S, FrameOK(S, f), f.stage = "author" PROVE WellAsked(S, QuestionOf(f))
  <2> DEFINE q == Preparing!AuthorQuestion(f)
  <2>1. q.stage = "author" /\ q.protocol = FALSE /\ WhyAuthor(S, q)
    BY <1>2 DEF Preparing!AuthorQuestion, FrameOK
  <2> HIDE DEF q
  <2>2. WellAsked(S, q)
    BY <2>1 DEF WellAsked
  <2> QED
    BY <1>2, <2>2 DEF QuestionOf, q
<1>3. ASSUME NEW S, FrameOK(S, f), f.stage # "author" PROVE WellAsked(S, QuestionOf(f))
  <2> DEFINE q == Preparing!ReviewQuestion(f)
  <2>1. /\ q.node = f.node /\ q.stage = f.stage /\ q.contract = f.contract
        /\ q.proposal = f.proposal /\ q.feedback = f.correction
           /\ q.protocol = f.protocol
    BY DEF Preparing!ReviewQuestion
  <2>2. q.protocol => <<[q EXCEPT !.protocol = FALSE], "malformed">> \in S
    BY <1>3, <2>1 DEF FrameOK
  <2>3. f.correction = IF f.feedback # Preparing!None /\ f.proposal # f.previous
                       THEN f.feedback ELSE Preparing!None
    BY <1>3 DEF FrameOK, Preparing!CorrectionFeedback
  <2> HIDE DEF q
  <2>4. ASSUME f.attempt = 1 PROVE WellAsked(S, q)
    <3>1. q.feedback = Preparing!None
      BY <1>3, <2>1, <2>3, <2>4 DEF FrameOK
    <3>2. FirstProposal(S, q.node, q.contract, f.context, q.proposal)
          /\ f.context \in BOOLEAN
      BY <1>3, <2>1, <2>4 DEF FrameOK, FrameRecords
    <3> QED
      BY <1>3, <2>1, <2>2, <3>1, <3>2 DEF WellAsked
  <2>5. ASSUME f.attempt = 2 PROVE WellAsked(S, q)
    <3>1. PICK c \in BOOLEAN :
            /\ FirstProposal(S, f.node, f.contract, c, f.previous)
            /\ FirstRejection(S, f.node, f.contract, c, f.previous, f.feedback)
      BY <1>3, <2>5 DEF FrameOK
    <3>2. f.previous \in NodeTexts /\ f.feedback # Preparing!None
      BY <3>1 DEF FrameRecords, FirstRejection
    <3> QED
      BY <1>3, <2>1, <2>2, <2>3, <3>1, <3>2 DEF WellAsked
  <2>6. WellAsked(S, q)
    BY <2>4, <2>5 DEF FrameRecords
  <2> QED
    BY <1>3, <2>6 DEF QuestionOf, q
<1> QED
  BY <1>1, <1>2, <1>3

(* Changes of the calls on file.                                           *)
\* The same questions, answered with the same: a status may become accepted.
Alike(calls, others) ==
    /\ Len(calls) = Len(others)
    /\ \A i \in 1..Len(calls) :
        /\ calls[i].question = others[i].question /\ calls[i].answer = others[i].answer
        /\ calls[i].status = "reserved" <=> others[i].status = "reserved"

LEMMA AlikeSayings ==
    ASSUME NEW calls, NEW others, Alike(calls, others)
    PROVE  /\ Sayings(others) = Sayings(calls)
           /\ LedgerOK(calls) => LedgerOK(others)
           /\ \A q : /\ Posed(calls, q) => Posed(others, q)
                     /\ PosedTwice(calls, q) => PosedTwice(others, q)
<1>1. Sayings(others) = Sayings(calls)
  BY DEF Alike, Sayings
<1>2. LedgerOK(calls) => LedgerOK(others)
  BY <1>1 DEF Alike, LedgerOK
<1>3. ASSUME NEW q
      PROVE  /\ Posed(calls, q) => Posed(others, q)
             /\ PosedTwice(calls, q) => PosedTwice(others, q)
  BY DEF Alike, Posed, PosedTwice
<1> QED
  BY <1>1, <1>2, <1>3

LEMMA AlikeSelf == \A calls : Alike(calls, calls)
BY DEF Alike

LEMMA SeqPut ==
    ASSUME NEW S, NEW s \in Seq(S), NEW i \in 1..Len(s), NEW x \in S
    PROVE  /\ [s EXCEPT ![i] = x] \in Seq(S)
           /\ Len([s EXCEPT ![i] = x]) = Len(s)
           /\ [s EXCEPT ![i] = x][i] = x
           /\ \A j \in 1..Len(s) : j # i => [s EXCEPT ![i] = x][j] = s[j]
<1>1. s \in [1..Len(s) -> S] /\ Len(s) \in Nat
  OBVIOUS
<1>2. [s EXCEPT ![i] = x] \in [1..Len(s) -> S]
  BY <1>1
<1>3. [s EXCEPT ![i] = x] \in Seq(S) /\ Len([s EXCEPT ![i] = x]) = Len(s)
  BY <1>1, <1>2
<1> QED
  BY <1>1, <1>3

\* What Replay and Accept save.
LEMMA Accepting ==
    ASSUME NEW calls \in Seq(CallRecords), NEW i \in 1..Len(calls),
           calls[i].status # "reserved"
    PROVE  /\ [calls EXCEPT ![i].status = "accepted"] \in Seq(CallRecords)
           /\ Alike(calls, [calls EXCEPT ![i].status = "accepted"])
<1> DEFINE x == [calls[i] EXCEPT !.status = "accepted"]
<1>1. calls[i] \in CallRecords
  OBVIOUS
<1>2. /\ x \in CallRecords /\ x.question = calls[i].question
         /\ x.answer = calls[i].answer
      /\ x.status = "accepted"
  BY <1>1 DEF CallRecords
<1>3. [calls EXCEPT ![i].status = "accepted"] = [calls EXCEPT ![i] = x]
  OBVIOUS
<1> HIDE DEF x
<1> QED
  BY <1>2, <1>3, SeqPut DEF Alike

\* What SaveReceived saves: one more answer, to the last question.
WithAnswer(calls, i, answer) ==
    [calls EXCEPT ![i].status = "received", ![i].answer = answer]

LEMMA Receiving ==
    ASSUME NEW calls \in Seq(CallRecords), LedgerOK(calls), NEW i \in 1..Len(calls), i = Len(calls),
           calls[i].status = "reserved", NEW answer,
           answer \in AnswersAt(calls[i].question.node, calls[i].question.stage)
    PROVE  /\ WithAnswer(calls, i, answer) \in Seq(CallRecords)
           /\ LedgerOK(WithAnswer(calls, i, answer))
           /\ Len(WithAnswer(calls, i, answer)) = Len(calls)
           /\ WithAnswer(calls, i, answer)[i].question = calls[i].question
           /\ WithAnswer(calls, i, answer)[i].status = "received"
           /\ WithAnswer(calls, i, answer)[i].answer = answer
           /\ Sayings(calls) \subseteq Sayings(WithAnswer(calls, i, answer))
           /\ \A q : /\ Posed(calls, q) => Posed(WithAnswer(calls, i, answer), q)
                     /\ PosedTwice(calls, q) => PosedTwice(WithAnswer(calls, i,
                             answer), q)
<1> DEFINE x == [calls[i] EXCEPT !.status = "received", !.answer = answer]
           others == [calls EXCEPT ![i] = x]
<1>1. calls[i] \in CallRecords /\ calls[i].question.node \in Nodes
      /\ calls[i].question.stage \in Stages
  <2>1. calls[i] \in CallRecords
    OBVIOUS
  <2>2. calls[i].question \in QuestionRecords
    BY <2>1 DEF CallRecords
  <2> QED
    BY <2>1, <2>2 DEF QuestionRecords
<1>2. answer \in AnswerWords /\ answer # Preparing!None
  <2>1. answer \in AnswerWords
    BY <1>1 DEF AnswerWords
  <2>2. CASE calls[i].question.stage = "author"
    BY <1>1, <2>1, <2>2, PreparationConstants
       DEF AnswersAt, Preparing!None, Preparing!PreparationAssumption, Nodes
  <2>3. CASE calls[i].question.stage # "author"
    BY <2>1, <2>3 DEF AnswersAt, Preparing!None
  <2> QED
    BY <2>2, <2>3
<1>3. /\ x \in CallRecords /\ x.question = calls[i].question /\ x.answer = answer
      /\ x.status = "received"
  BY <1>1, <1>2 DEF CallRecords
<1>4. WithAnswer(calls, i, answer) = others
  BY DEF WithAnswer
<1> HIDE DEF x
<1>5. /\ others \in Seq(CallRecords) /\ Len(others) = Len(calls) /\ others[i] = x
      /\ \A j \in 1..Len(calls) : j # i => others[j] = calls[j]
  BY <1>3, SeqPut
<1> HIDE DEF others
<1>6. \A j \in 1..Len(calls) : others[j].question = calls[j].question
  BY <1>3, <1>5
<1>7. Sayings(calls) \subseteq Sayings(others)
  <2> SUFFICES ASSUME NEW j \in 1..Len(calls), calls[j].status # "reserved"
               PROVE  <<calls[j].question, calls[j].answer>> \in Sayings(others)
    BY DEF Sayings
  <2>1. j # i /\ others[j] = calls[j]
    BY <1>5
  <2> QED
    BY <1>5, <2>1 DEF Sayings
<1>8. LedgerOK(others)
  <2>1. ASSUME NEW j \in 1..Len(others)
        PROVE  WellAsked(Sayings(others), others[j].question)
    BY <1>5, <1>6, <1>7, AskedPersists DEF LedgerOK
  <2>2. ASSUME NEW j \in 1..Len(others)
        PROVE  /\ others[j].status = "reserved" <=> others[j].answer = Preparing!None
               /\ others[j].status # "reserved" =>
                    others[j].answer \in AnswersAt(others[j].question.node, others[j].question.stage)
    <3>1. CASE j = i
      BY <1>2, <1>3, <1>5, <3>1
    <3>2. CASE j # i
      BY <1>5, <3>2 DEF LedgerOK
    <3> QED
      BY <3>1, <3>2
  <2>3. ASSUME NEW j \in 1..Len(others), NEW k \in 1..Len(others),
               others[j].status # "reserved", j < k
        PROVE  others[j].question # others[k].question
    <3>1. j # i
      BY <1>5, <2>3
    <3> QED
      BY <1>5, <1>6, <2>3, <3>1 DEF LedgerOK
  <2> QED
    BY <2>1, <2>2, <2>3 DEF LedgerOK
<1>9. \A q : /\ Posed(calls, q) => Posed(others, q)
             /\ PosedTwice(calls, q) => PosedTwice(others, q)
  BY <1>5, <1>6 DEF Posed, PosedTwice
<1> QED
  BY <1>3, <1>4, <1>5, <1>7, <1>8, <1>9

\* What Reserve saves: one more question, which has a reason and no answer.
WithQuestion(calls, q) ==
    Append(calls, [question |-> q, status |-> "reserved", answer |-> Preparing!None])

LEMMA Reserving ==
    ASSUME NEW calls \in Seq(CallRecords), LedgerOK(calls), NEW q \in QuestionRecords,
           WellAsked(Sayings(calls), q),
           \A i \in 1..Len(calls) : calls[i].question = q => calls[i].status = "reserved"
    PROVE  /\ WithQuestion(calls, q) \in Seq(CallRecords)
           /\ LedgerOK(WithQuestion(calls, q))
           /\ Len(WithQuestion(calls, q)) = Len(calls) + 1
           /\ WithQuestion(calls, q)[Len(calls) + 1].question = q
           /\ WithQuestion(calls, q)[Len(calls) + 1].status = "reserved"
           /\ Sayings(calls) \subseteq Sayings(WithQuestion(calls, q))
           /\ \A p : /\ Posed(calls, p) => Posed(WithQuestion(calls, q), p)
                     /\ PosedTwice(calls, p) => PosedTwice(WithQuestion(calls, q), p)
           /\ Posed(calls, q) => PosedTwice(WithQuestion(calls, q), q)
<1> DEFINE x == [question |-> q, status |-> "reserved", answer |-> Preparing!None]
           others == Append(calls, x)
           n == Len(calls) + 1
<1>1. /\ x \in CallRecords /\ x.question = q /\ x.answer = Preparing!None
      /\ x.status = "reserved"
  BY DEF CallRecords, AnswerWords
<1> HIDE DEF x
<1>2. /\ others \in Seq(CallRecords) /\ Len(others) = n /\ others[n] = x
      /\ \A j \in 1..Len(calls) : others[j] = calls[j]
      /\ Len(calls) \in Nat
  BY <1>1
<1> HIDE DEF others
<1>3. \A j \in 1..Len(others) : j # n => j \in 1..Len(calls) /\ others[j] = calls[j]
  BY <1>2
<1>4. 1..Len(calls) \subseteq 1..Len(others) /\ n \in 1..Len(others)
  BY <1>2
<1>5. Sayings(calls) \subseteq Sayings(others)
  BY <1>2, <1>4 DEF Sayings
<1>6. LedgerOK(others)
  <2>1. ASSUME NEW j \in 1..Len(others)
        PROVE  WellAsked(Sayings(others), others[j].question)
    BY <1>1, <1>2, <1>3, <1>5, AskedPersists DEF LedgerOK
  <2>2. ASSUME NEW j \in 1..Len(others)
        PROVE  /\ others[j].status = "reserved" <=> others[j].answer = Preparing!None
               /\ others[j].status # "reserved" =>
                    others[j].answer \in AnswersAt(others[j].question.node, others[j].question.stage)
    BY <1>1, <1>2, <1>3 DEF LedgerOK
  <2>3. ASSUME NEW j \in 1..Len(others), NEW k \in 1..Len(others),
               others[j].status # "reserved", j < k
        PROVE  others[j].question # others[k].question
    <3>1. j # n /\ others[j] = calls[j] /\ j \in 1..Len(calls)
      BY <1>1, <1>2, <1>3, <2>3
    <3>2. CASE k = n
      BY <1>1, <1>2, <2>3, <3>1, <3>2
    <3>3. CASE k # n
      BY <1>3, <2>3, <3>1, <3>3 DEF LedgerOK
    <3> QED
      BY <3>2, <3>3
  <2> QED
    BY <2>1, <2>2, <2>3 DEF LedgerOK
<1>7. \A p : /\ Posed(calls, p) => Posed(others, p)
             /\ PosedTwice(calls, p) => PosedTwice(others, p)
  BY <1>2, <1>4 DEF Posed, PosedTwice
<1>8. Posed(calls, q) => PosedTwice(others, q)
  <2> SUFFICES ASSUME NEW i \in 1..Len(calls), calls[i].question = q
               PROVE  PosedTwice(others, q)
    BY DEF Posed
  <2>1. i < n /\ others[i].question = q /\ others[n].question = q
        /\ i \in 1..Len(others)
    BY <1>1, <1>2, <1>4
  <2> QED
    BY <1>4, <2>1 DEF PosedTwice
<1>9. WithQuestion(calls, q) = others
  BY DEF WithQuestion, others, x
<1> QED
  BY <1>1, <1>2, <1>5, <1>6, <1>7, <1>8, <1>9

\* Two calls are not one.
LEMMA AtMostOne ==
    ASSUME NEW n \in Nat, NEW S \in SUBSET (1..n), Preparing!Cardinality(S) < 2,
           NEW i \in S, NEW j \in S
    PROVE  i = j
<1>1. Preparing!Cardinality(S) = Cardinality(S)
  BY DEF Preparing!Cardinality, Cardinality
<1>2. IsFiniteSet(S)
  <2>1. IsFiniteSet(1..n)
    BY FS_Interval
  <2> QED
    BY <2>1, FS_Subset
<1>3. IsFiniteSet({i}) /\ Cardinality({i}) = 1
  BY FS_Singleton
<1>4. i # j => Cardinality({i} \cup {j}) = 2
  BY <1>3, FS_AddElement
<1>5. IsFiniteSet({i} \cup {j}) /\ Cardinality({i} \cup {j}) <= Cardinality(S)
  BY <1>2, FS_Subset
<1>6. Cardinality(S) \in Nat
  BY <1>2, FS_CardinalityType
<1> QED
  BY <1>1, <1>4, <1>5, <1>6

(* The walk.                                                               *)
LEMMA TopFrame ==
    ASSUME NEW w \in WalkRecords, w.stack # <<>>
    PROVE  /\ TopOf(w) \in FrameRecords /\ Len(w.stack) \in {1, 2}
           /\ TopOf(w) = w.stack[Len(w.stack)]
           /\ \A S : StackOK(S, w) => FrameOK(S, TopOf(w))
           /\ \A S : StackOK(S, w) =>
                /\ Len(w.stack) = 1 <=> TopOf(w).node = Preparing!Root
                /\ Len(w.stack) = 2 <=> TopOf(w).node = Preparing!Child
<1>1. w.stack \in Stacks
  BY DEF WalkRecords
<1>2. CASE \E f \in FrameRecords : w.stack = <<f>>
  BY <1>2 DEF TopOf, StackOK, Preparing!Root, Preparing!Child
<1>3. CASE \E f \in FrameRecords, g \in FrameRecords : w.stack = <<f, g>>
  BY <1>3 DEF TopOf, StackOK, Preparing!Root, Preparing!Child
<1> QED
  BY <1>1, <1>2, <1>3 DEF Stacks

\* Replacing the frame on top by one of the same node.
LEMMA ReplacingTop ==
    ASSUME NEW w \in WalkRecords, w.stack # <<>>, NEW S, StackOK(S, w),
           NEW f \in FrameRecords, FrameOK(S, f), f.node = TopOf(w).node,
           f.node = Preparing!Child => f.stage # "integration_review"
    PROVE  \A v : v.stack = [w.stack EXCEPT ![Len(w.stack)] = f] =>
             /\ v.stack \in Stacks /\ v.stack # <<>> /\ StackOK(S, v) /\ TopOf(v) = f
<1> SUFFICES ASSUME NEW v, v.stack = [w.stack EXCEPT ![Len(w.stack)] = f]
             PROVE  v.stack \in Stacks /\ v.stack # <<>> /\ StackOK(S, v)
                    /\ TopOf(v) = f
  OBVIOUS
<1>1. w.stack \in Stacks
  BY DEF WalkRecords
<1>2. ASSUME NEW g \in FrameRecords, w.stack = <<g>>
      PROVE  v.stack \in Stacks /\ v.stack # <<>> /\ StackOK(S, v) /\ TopOf(v) = f
  <2>1. v.stack = <<f>>
    BY <1>2
  <2>2. Len(v.stack) = 1 /\ v.stack[1] = f /\ v.stack # <<>> /\ TopOf(w) = g
    BY <1>2, <2>1 DEF TopOf
  <2>3. f.node = Preparing!Root
    BY <1>2, <2>2 DEF StackOK
  <2> QED
    BY <2>1, <2>2, <2>3 DEF Stacks, StackOK, TopOf
<1>3. ASSUME NEW g \in FrameRecords, NEW h \in FrameRecords, w.stack = <<g, h>>
      PROVE  v.stack \in Stacks /\ v.stack # <<>> /\ StackOK(S, v) /\ TopOf(v) = f
  <2>1. v.stack = <<g, f>>
    BY <1>3
  <2>2. /\ Len(v.stack) = 2 /\ v.stack[1] = g /\ v.stack[2] = f /\ v.stack # <<>>
        /\ TopOf(w) = h /\ Len(w.stack) = 2 /\ w.stack[1] = g /\ w.stack[2] = h
    BY <1>3, <2>1 DEF TopOf
  <2>3. f.node = Preparing!Child
    BY <2>2 DEF StackOK
  <2> QED
    BY <2>1, <2>2, <2>3 DEF Stacks, StackOK, TopOf
<1> QED
  BY <1>1, <1>2, <1>3 DEF Stacks

LEMMA IdleWalk ==
    /\ Preparing!Idle \in WalkRecords /\ Preparing!Idle.pc = "idle"
    /\ \A calls : WalkOK(calls, Preparing!Idle)
<1>1. Preparing!Idle.stack = <<>> /\ Preparing!Idle.tree = {}
      /\ Preparing!Idle.pc = "idle"
  BY DEF Preparing!Idle
<1>2. Preparing!Idle \in WalkRecords
  BY DEF Preparing!Idle, WalkRecords, Stacks, AnswerWords
<1> QED
  BY <1>1, <1>2 DEF WalkOK, StackOK, Exchanging

\* A step that leaves the questions and answers as they are.
LEMMA PreparationGoes ==
    ASSUME PreparationInv, control' \in ControlRecords, Alike(control.calls, control'.calls),
           asked' = asked, source' \in BOOLEAN,
           trees' \subseteq trees \cup {walk.tree},
           walk' \in WalkRecords, walk'.pc # "call", WalkOK(control.calls, walk'),
           walk'.pc \notin Exchanging \/ control'.calls = control.calls,
           ControlExists(control', walk')
    PROVE  PreparationInv'
<1>1. /\ Sayings(control'.calls) = Sayings(control.calls) /\ LedgerOK(control'.calls)
      /\ \A q : /\ Posed(control.calls, q) => Posed(control'.calls, q)
                /\ PosedTwice(control.calls, q) => PosedTwice(control'.calls, q)
  BY AlikeSayings DEF PreparationInv
<1>2. WalkOK(control'.calls, walk')
  <2>1. CASE control'.calls = control.calls
    BY <2>1
  <2>2. CASE walk'.pc \notin Exchanging
    BY <1>1, <2>2 DEF WalkOK, Exchanging
  <2> QED
    BY <2>1, <2>2
<1>3. AskedOK(control'.calls, asked', walk')
  BY <1>1 DEF PreparationInv, AskedOK
<1>4. \A t \in trees' : \A leaf \in t : AcceptedLeaf(Sayings(control'.calls), leaf)
  BY <1>1 DEF PreparationInv, WalkOK
<1> QED
  BY <1>1, <1>2, <1>3, <1>4 DEF PreparationInv

\* The command ends.
LEMMA PreparationEnds ==
    ASSUME PreparationInv, control' \in ControlRecords, Alike(control.calls, control'.calls),
           asked' = asked, source' \in BOOLEAN,
           trees' \subseteq trees \cup {walk.tree}, walk' = Preparing!Idle,
           control'.terminal = "absent" => control' = Preparing!NoControl
    PROVE  PreparationInv'
<1>1. /\ walk' \in WalkRecords /\ walk'.pc = "idle" /\ WalkOK(control.calls, walk')
      /\ walk'.pc \notin Exchanging
  BY IdleWalk DEF Exchanging
<1>2. ControlExists(control', walk')
  BY <1>1 DEF ControlExists
<1> QED
  BY <1>1, <1>2, PreparationGoes DEF Exchanging

\* The command fails and the files stay as they are.
LEMMA PreparationFails ==
    ASSUME PreparationInv, control' = control, asked' = asked,
           source' \in BOOLEAN, trees' \subseteq trees \cup {walk.tree}, Preparing!Fail
    PROVE  PreparationInv'
<1>1. /\ control.terminal = "absent" => control = Preparing!NoControl
      /\ control \in ControlRecords
  BY DEF PreparationInv, ControlExists
<1>2. Alike(control.calls, control'.calls)
  BY AlikeSelf
<1> QED
  BY <1>1, <1>2, PreparationEnds DEF Preparing!Fail

LEMMA Preparing_Refuse ==
    ASSUME PreparationInv, Preparing!Refuse
    PROVE  PreparationInv'
BY PreparationFails DEF Preparing!Refuse, PreparationInv

LEMMA Preparing_TooLarge ==
    ASSUME PreparationInv, Preparing!TooLarge
    PROVE  PreparationInv'
BY PreparationFails DEF Preparing!TooLarge, PreparationInv

LEMMA Preparing_UseUnusable ==
    ASSUME PreparationInv, Preparing!UseUnusable
    PROVE  PreparationInv'
BY PreparationFails DEF Preparing!UseUnusable, PreparationInv

LEMMA Preparing_Assemble ==
    ASSUME PreparationInv, Preparing!Assemble
    PROVE  PreparationInv'
BY PreparationFails DEF Preparing!Assemble, PreparationInv

LEMMA Preparing_Kill ==
    ASSUME PreparationInv, Preparing!Kill
    PROVE  PreparationInv'
BY PreparationFails DEF Preparing!Kill, PreparationInv

LEMMA Preparing_SourceChanges ==
    ASSUME PreparationInv, Preparing!SourceChanges
    PROVE  PreparationInv'
BY DEF Preparing!SourceChanges, PreparationInv

LEMMA Preparing_UseMismatch ==
    ASSUME PreparationInv, Preparing!UseMismatch
    PROVE  PreparationInv'
<1>1. /\ control \in ControlRecords
      /\ control' = [control EXCEPT !.terminal = "hierarchy_authority_changed"]
      /\ source' \in BOOLEAN /\ asked' = asked /\ trees' = trees
      /\ walk' = Preparing!Idle
  BY DEF PreparationInv, Preparing!UseMismatch, Preparing!Fail
<1>2. /\ control' \in ControlRecords /\ control'.calls = control.calls
      /\ control'.terminal = "hierarchy_authority_changed"
  BY <1>1 DEF ControlRecords
<1> QED
  BY <1>1, <1>2, AlikeSelf, PreparationEnds DEF Preparing!None

LEMMA Preparing_Open ==
    ASSUME PreparationInv, Preparing!Open
    PROVE  PreparationInv'
<1>1. /\ control \in ControlRecords /\ walk.pc = "idle"
      /\ control' = IF control = Preparing!NoControl THEN Preparing!Empty ELSE control
      /\ source' \in BOOLEAN /\ asked' = asked /\ trees' = trees
      /\ walk' = [Preparing!Idle EXCEPT !.pc = "select"]
      /\ control.terminal \in {Preparing!None, "absent"}
  BY DEF PreparationInv, Preparing!Open
<1>2. control.terminal = "absent" => control = Preparing!NoControl
  BY <1>1 DEF PreparationInv, ControlExists
<1>3. Preparing!Empty.terminal = Preparing!None /\ Preparing!Empty.calls = <<>>
      /\ Preparing!NoControl.calls = <<>> /\ Preparing!Empty \in ControlRecords
      /\ Preparing!NoControl.terminal = "absent"
  BY DEF Preparing!Empty, Preparing!NoControl, ControlRecords
<1>4. /\ control' \in ControlRecords /\ control'.calls = control.calls
      /\ control'.terminal = Preparing!None
  BY <1>1, <1>2, <1>3
<1>5. /\ walk' \in WalkRecords /\ walk'.pc = "select" /\ walk'.stack = <<>>
         /\ walk'.tree = {}
  BY <1>1, IdleWalk DEF Preparing!Idle, WalkRecords, Stacks, AnswerWords
<1>6. WalkOK(control.calls, walk') /\ walk'.pc \notin Exchanging
  BY <1>5 DEF WalkOK, StackOK, Exchanging
<1>7. ControlExists(control', walk')
  BY <1>1, <1>2, <1>4 DEF ControlExists, Preparing!None
<1> QED
  BY <1>1, <1>4, <1>5, <1>6, <1>7, AlikeSelf, PreparationGoes

LEMMA NewFrame ==
    ASSUME NEW node \in Nodes, NEW k \in NodeTexts
    PROVE  /\ Preparing!Frame(node, k) \in FrameRecords
           /\ Preparing!Frame(node, k).node = node
           /\ Preparing!Frame(node, k).stage = "author"
           /\ \A S : FrameOK(S, Preparing!Frame(node, k))
<1>1. Preparing!Frame(node, k) \in FrameRecords
  BY DEF Preparing!Frame, FrameRecords, Feedbacks, Stages, NodeTexts
<1>2. /\ Preparing!Frame(node, k).node = node
         /\ Preparing!Frame(node, k).stage = "author"
      /\ Preparing!Frame(node, k).attempt = 1 /\ ~Preparing!Frame(node, k).protocol
      /\ Preparing!Frame(node, k).feedback = Preparing!None
      /\ Preparing!Frame(node, k).previous = Preparing!None
      /\ Preparing!Frame(node, k).child = Preparing!None
         /\ ~Preparing!Frame(node, k).context
  BY DEF Preparing!Frame
<1>3. ASSUME NEW S PROVE WhyAuthor(S, Preparing!AuthorQuestion(Preparing!Frame(node, k)))
  BY <1>2 DEF Preparing!AuthorQuestion, WhyAuthor
<1> QED
  BY <1>1, <1>2, <1>3 DEF FrameOK

\* Frames with the same attempt and files put the same question to the author.
LEMMA SameAuthor ==
    ASSUME NEW f, NEW g, g.node = f.node, g.contract = f.contract, g.context = f.context,
           g.previous = f.previous, g.feedback = f.feedback
    PROVE  Preparing!AuthorQuestion(g) = Preparing!AuthorQuestion(f)
BY DEF Preparing!AuthorQuestion

LEMMA Preparing_Select ==
    ASSUME PreparationInv, Preparing!Select
    PROVE  PreparationInv'
<1> DEFINE f == Preparing!Frame(Preparing!Root, "task")
<1>1. /\ control' = control /\ control \in ControlRecords
      /\ source' \in BOOLEAN /\ asked' = asked /\ trees' = trees
      /\ walk.pc = "select" /\ walk \in WalkRecords
      /\ walk' = [walk EXCEPT !.pc = "ask", !.stack = <<f>>]
      /\ ControlExists(control, walk) /\ WalkOK(control.calls, walk)
  BY DEF PreparationInv, Preparing!Select
<1>2. f \in FrameRecords /\ f.node = Preparing!Root /\ \A S : FrameOK(S, f)
  BY NewFrame DEF Nodes, NodeTexts
<1> HIDE DEF f
<1>3. /\ walk' \in WalkRecords /\ walk'.pc = "ask" /\ walk'.stack = <<f>>
      /\ walk'.tree = walk.tree
  <2>1. <<f>> \in Stacks
    BY <1>2 DEF Stacks
  <2> QED
    BY <1>1, <2>1 DEF WalkRecords
<1>4. StackOK(Sayings(control.calls), walk') /\ walk'.stack # <<>>
  BY <1>2, <1>3 DEF StackOK
<1>5. WalkOK(control.calls, walk') /\ walk'.pc \notin Exchanging
  BY <1>1, <1>3, <1>4 DEF WalkOK, Exchanging
<1>6. ControlExists(control', walk')
  BY <1>1, <1>3 DEF ControlExists
<1> QED
  BY <1>1, <1>3, <1>5, <1>6, AlikeSelf, PreparationGoes

\* The facts about a command that has a question which its steps use.
LEMMA Walking ==
    ASSUME PreparationInv, walk.stack # <<>>
    PROVE  /\ control \in ControlRecords /\ walk \in WalkRecords
           /\ control.calls \in Seq(CallRecords) /\ Len(control.calls) \in Nat
           /\ LedgerOK(control.calls) /\ Saved(Sayings(control.calls))
           /\ WalkOK(control.calls, walk) /\ StackOK(Sayings(control.calls), walk)
           /\ Preparing!Top = TopOf(walk) /\ TopOf(walk) \in FrameRecords
           /\ Preparing!Question = QuestionOf(TopOf(walk))
           /\ FrameOK(Sayings(control.calls), TopOf(walk))
           /\ QuestionOf(TopOf(walk)) \in QuestionRecords
           /\ WellAsked(Sayings(control.calls), QuestionOf(TopOf(walk)))
<1>1. /\ control \in ControlRecords /\ walk \in WalkRecords /\ LedgerOK(control.calls)
      /\ WalkOK(control.calls, walk) /\ StackOK(Sayings(control.calls), walk)
  BY DEF PreparationInv, WalkOK
<1>2. control.calls \in Seq(CallRecords) /\ Len(control.calls) \in Nat
  BY <1>1 DEF ControlRecords
<1>3. Preparing!Top = TopOf(walk)
  BY DEF Preparing!Top, TopOf
<1>4. Preparing!Question = QuestionOf(TopOf(walk))
  BY <1>3 DEF Preparing!Question, QuestionOf
<1> QED
  BY <1>1, <1>2, <1>3, <1>4, SayingsAreSaved, TopFrame, FrameAsks

\* Every place but these two has a frame.
LEMMA HasFrame ==
    ASSUME PreparationInv, walk.pc \notin {"idle", "select"}
    PROVE  walk.stack # <<>>
BY DEF PreparationInv, WalkOK

\* What is used was answered to the question of the frame on top.
LEMMA Using ==
    ASSUME PreparationInv, walk.pc = "use"
    PROVE  /\ walk.stack # <<>>
           /\ <<QuestionOf(TopOf(walk)), walk.answer>> \in Sayings(control.calls)
           /\ walk.answer \in AnswersAt(TopOf(walk).node, TopOf(walk).stage)
<1>1. walk.stack # <<>>
  BY HasFrame DEF PreparationInv, ControlExists
<1>2. <<QuestionOf(TopOf(walk)), walk.answer>> \in Sayings(control.calls)
  BY DEF PreparationInv, WalkOK
<1>3. PICK i \in 1..Len(control.calls) :
        /\ control.calls[i].status # "reserved"
        /\ control.calls[i].question = QuestionOf(TopOf(walk))
        /\ control.calls[i].answer = walk.answer
  BY <1>2 DEF Sayings
<1>4. /\ QuestionOf(TopOf(walk)).node = TopOf(walk).node
      /\ QuestionOf(TopOf(walk)).stage = TopOf(walk).stage
  BY DEF QuestionOf, Preparing!AuthorQuestion, Preparing!ReviewQuestion
<1>5. LedgerOK(control.calls)
  BY DEF PreparationInv
<1> QED
  BY <1>1, <1>2, <1>3, <1>4, <1>5 DEF LedgerOK

\* The command goes on with another frame of the same node.
LEMMA GoingOn ==
    ASSUME PreparationInv, walk.pc = "use", NEW f \in FrameRecords,
           FrameOK(Sayings(control.calls), f), f.node = TopOf(walk).node,
           f.node = Preparing!Child => f.stage # "integration_review",
           Preparing!GoWith("ask", f),
           control' \in ControlRecords, control'.calls = control.calls,
           control'.terminal = control.terminal,
           asked' = asked, source' = source, trees' = trees
    PROVE  PreparationInv'
<1>1. walk.stack # <<>> /\ walk \in WalkRecords /\ WalkOK(control.calls, walk)
  BY Using, Walking
<1>2. walk' = [walk EXCEPT !.pc = "ask",
           !.stack = [walk.stack EXCEPT ![Len(walk.stack)] = f],
                           !.index = 0, !.answer = Preparing!None]
  BY DEF Preparing!GoWith, Preparing!WithTop
<1>3. /\ walk'.stack = [walk.stack EXCEPT ![Len(walk.stack)] = f] /\ walk'.pc = "ask"
      /\ walk'.tree = walk.tree
  BY <1>1, <1>2 DEF WalkRecords
<1>4. /\ walk'.stack \in Stacks /\ walk'.stack # <<>>
      /\ StackOK(Sayings(control.calls), walk')
  BY <1>1, <1>3, ReplacingTop DEF WalkOK
<1>5. walk' \in WalkRecords
  <2>1. [walk.stack EXCEPT ![Len(walk.stack)] = f] \in Stacks
    BY <1>3, <1>4
  <2>2. Preparing!None \in AnswerWords
    BY DEF AnswerWords
  <2> QED
    BY <1>1, <1>2, <2>1, <2>2 DEF WalkRecords
<1>6. WalkOK(control.calls, walk') /\ walk'.pc \notin Exchanging
  BY <1>1, <1>3, <1>4 DEF WalkOK, Exchanging
<1>7. ControlExists(control', walk')
      /\ source' \in BOOLEAN
  BY <1>1, <1>3 DEF PreparationInv, ControlExists, Preparing!NoControl
<1> QED
  BY <1>3, <1>5, <1>6, <1>7, AlikeSelf, PreparationGoes

LEMMA Preparing_UseContext ==
    ASSUME PreparationInv, Preparing!UseContext
    PROVE  PreparationInv'
<1> DEFINE f == TopOf(walk)
           g == [f EXCEPT !.context = TRUE, !.retrieved = TRUE]
           S == Sayings(control.calls)
<1>1. /\ walk.pc = "use" /\ f.stage = "author" /\ walk.answer = "context"
      /\ asked' = asked /\ source' = source /\ trees' = trees
      /\ source \in BOOLEAN
      /\ \/ Preparing!Fail /\ control' = control
         \/ /\ control' = [control EXCEPT !.contexts = @ \cup {f.node}]
            /\ Preparing!GoWith("ask", g)
  BY Using, Walking DEF Preparing!UseContext, PreparationInv
<1>2. /\ control \in ControlRecords /\ f \in FrameRecords /\ FrameOK(S, f)
      /\ <<QuestionOf(f), "context">> \in S
  BY <1>1, Using, Walking
<1>3. CASE Preparing!Fail /\ control' = control
  BY <1>1, <1>3, PreparationFails
<1>4. CASE /\ control' = [control EXCEPT !.contexts = @ \cup {f.node}]
           /\ Preparing!GoWith("ask", g)
  <2>1. /\ control' \in ControlRecords /\ control'.calls = control.calls
        /\ control'.terminal = control.terminal
    BY <1>2, <1>4 DEF ControlRecords, FrameRecords
  <2>2. /\ g \in FrameRecords /\ g.node = f.node /\ g.stage = "author"
           /\ g.contract = f.contract
        /\ g.attempt = f.attempt /\ g.feedback = f.feedback /\ g.previous = f.previous
        /\ g.protocol = f.protocol /\ g.child = f.child /\ g.context = TRUE
    BY <1>1, <1>2 DEF FrameRecords
  <2>3. f.attempt = 1 => <<FirstQuestion(f.node, f.contract, FALSE), "context">> \in S
    <3> SUFFICES ASSUME f.attempt = 1
                 PROVE <<FirstQuestion(f.node, f.contract, FALSE), "context">> \in S
      OBVIOUS
    <3>1. CASE f.context
      BY <1>2, <3>1 DEF FrameOK
    <3>2. CASE ~f.context
      <4>1. f.context = FALSE
        BY <1>2, <3>2 DEF FrameRecords
      <4>2. QuestionOf(f) = FirstQuestion(f.node, f.contract, FALSE)
        BY <1>1, <1>2, <4>1
           DEF QuestionOf, Preparing!AuthorQuestion, FirstQuestion, FrameOK
      <4> QED
        BY <1>2, <4>2
    <3> QED
      BY <3>1, <3>2
  <2>5. WhyAuthor(S, Preparing!AuthorQuestion(g))
    <3> DEFINE q == Preparing!AuthorQuestion(f)
               p == Preparing!AuthorQuestion(g)
    <3>1. WhyAuthor(S, q) /\ <<q, "context">> \in S
      BY <1>1, <1>2 DEF FrameOK, QuestionOf
    <3> HIDE DEF f, g, S
    <3>6. q \in QuestionRecords /\ p \in QuestionRecords
      <4>1. ASSUME NEW h \in FrameRecords
            PROVE  Preparing!AuthorQuestion(h) \in QuestionRecords
        BY DEF Preparing!AuthorQuestion, FrameRecords, QuestionRecords, Stages, NodeTexts
      <4> QED
        BY <1>2, <2>2, <4>1
    <3>7. /\ p.node = q.node /\ p.contract = q.contract /\ p.context = TRUE
          /\ p.proposal = q.proposal /\ p.feedback = q.feedback /\ p.protocol = q.protocol
          /\ p.child = q.child /\ p.stage = q.stage
      BY <2>2 DEF Preparing!AuthorQuestion
    <3> HIDE DEF p, q
    <3>2. [p EXCEPT !.context = FALSE] = [q EXCEPT !.context = FALSE]
      BY <3>6, <3>7 DEF QuestionRecords
    <3>3. ~q.context => [q EXCEPT !.context = FALSE] = q
      BY <3>6 DEF QuestionRecords
    <3>4. ASSUME q.feedback = Preparing!None PROVE WhyAuthor(S, p)
      BY <3>1, <3>2, <3>3, <3>4, <3>7 DEF WhyAuthor
    <3>5. ASSUME q.feedback # Preparing!None PROVE WhyAuthor(S, p)
      <4>1. PICK c \in BOOLEAN :
              /\ FirstProposal(S, q.node, q.contract, c, q.proposal)
              /\ FirstRejection(S, q.node, q.contract, c, q.proposal, q.feedback)
              /\ c => q.context
              /\ q.context /\ ~c => <<[q EXCEPT !.context = FALSE], "context">> \in S
        BY <3>1, <3>5 DEF WhyAuthor
      <4>2. ~c => <<[p EXCEPT !.context = FALSE], "context">> \in S
        BY <3>1, <3>2, <3>3, <4>1
      <4>3. /\ FirstProposal(S, p.node, p.contract, c, p.proposal)
            /\ FirstRejection(S, p.node, p.contract, c, p.proposal, p.feedback)
        BY <3>7, <4>1
      <4> QED
        BY <3>1, <3>5, <3>7, <4>2, <4>3 DEF WhyAuthor
    <3> QED
      BY <3>4, <3>5 DEF p
  <2> HIDE DEF g, S
  <2>4. FrameOK(S, g)
    BY <1>1, <1>2, <2>2, <2>3, <2>5 DEF FrameOK
  <2> QED
    BY <1>1, <1>4, <2>1, <2>2, <2>4, GoingOn DEF S
<1> QED
  BY <1>1, <1>3, <1>4

LEMMA Preparing_UseProposal ==
    ASSUME PreparationInv, Preparing!UseProposal
    PROVE  PreparationInv'
<1> DEFINE f == TopOf(walk)
           S == Sayings(control.calls)
           g == [f EXCEPT !.proposal = walk.answer]
           h == [g EXCEPT !.stage = "local_review",
                          !.correction = Preparing!CorrectionFeedback(g)]
<1>1. /\ walk.pc = "use" /\ f.stage = "author" /\ walk.answer \in Proposals[f.node]
      /\ asked' = asked /\ source' = source /\ trees' = trees
      /\ source \in BOOLEAN /\ control' = control
      /\ Preparing!Fail \/ Preparing!GoWith("ask", h)
  BY Using, Walking DEF Preparing!UseProposal, PreparationInv
<1>2. /\ control \in ControlRecords /\ f \in FrameRecords /\ FrameOK(S, f)
      /\ <<QuestionOf(f), walk.answer>> \in S
  BY <1>1, Using, Walking
<1>3. CASE Preparing!Fail
  BY <1>1, <1>3, PreparationFails
<1>4. CASE Preparing!GoWith("ask", h)
  <2>1. walk.answer \in NodeTexts
    BY <1>1, <1>2 DEF NodeTexts, FrameRecords, Nodes
  <2>2. /\ g \in FrameRecords /\ g.feedback = f.feedback /\ g.previous = f.previous
        /\ g.proposal = walk.answer
    BY <1>2, <2>1 DEF FrameRecords
  <2>3. /\ Preparing!CorrectionFeedback(g) = IF f.feedback # Preparing!None
           /\ walk.answer # f.previous
                                             THEN f.feedback ELSE Preparing!None
        /\ Preparing!CorrectionFeedback(g) \in Feedbacks
    BY <1>2, <2>2 DEF Preparing!CorrectionFeedback, FrameRecords, Feedbacks
  <2>4. /\ h \in FrameRecords /\ h.node = f.node /\ h.stage = "local_review"
        /\ h.contract = f.contract /\ h.proposal = walk.answer /\ h.context = f.context
        /\ h.attempt = f.attempt /\ h.feedback = f.feedback /\ h.previous = f.previous
        /\ h.protocol = f.protocol /\ h.child = f.child
        /\ h.correction = Preparing!CorrectionFeedback(g)
    BY <1>2, <2>1, <2>3 DEF FrameRecords, Stages
  <2>5. h.correction = Preparing!CorrectionFeedback(h)
    BY <2>3, <2>4 DEF Preparing!CorrectionFeedback
  <2>6. f.attempt = 1 => FirstProposal(S, f.node, f.contract, f.context, walk.answer)
    <3> SUFFICES ASSUME f.attempt = 1
                 PROVE  FirstProposal(S, f.node, f.contract, f.context, walk.answer)
      OBVIOUS
    <3>1. QuestionOf(f) = FirstQuestion(f.node, f.contract, f.context)
      BY <1>1, <1>2 DEF QuestionOf, Preparing!AuthorQuestion, FirstQuestion, FrameOK
    <3> QED
      BY <1>1, <1>2, <3>1 DEF FirstProposal, FrameOK
  <2> HIDE DEF g, h, S
  <2>7. ~h.protocol /\ h.child = Preparing!None
    BY <1>1, <1>2, <2>4 DEF FrameOK
  <2>9. Preparing!AuthorQuestion(h) = Preparing!AuthorQuestion(f)
    BY <2>4, SameAuthor
  <2>8. FrameOK(S, h)
    BY <1>1, <1>2, <2>4, <2>5, <2>6, <2>7, <2>9 DEF FrameOK
  <2> QED
    BY <1>1, <1>2, <1>4, <2>4, <2>8, GoingOn DEF S
<1> QED
  BY <1>1, <1>3, <1>4

LEMMA Preparing_UseMalformed ==
    ASSUME PreparationInv, Preparing!UseMalformed
    PROVE  PreparationInv'
<1> DEFINE f == TopOf(walk)
           S == Sayings(control.calls)
           g == [f EXCEPT !.protocol = TRUE]
<1>1. /\ walk.pc = "use" /\ walk.answer = "malformed"
      /\ asked' = asked /\ source' = source /\ trees' = trees
      /\ source \in BOOLEAN /\ control' = control
      /\ \/ Preparing!Fail
         \/ ~f.protocol /\ Preparing!GoWith("ask", g)
  BY Using, Walking DEF Preparing!UseMalformed, PreparationInv
<1>2. /\ control \in ControlRecords /\ f \in FrameRecords /\ FrameOK(S, f)
      /\ <<QuestionOf(f), "malformed">> \in S
      /\ "malformed" \in AnswersAt(f.node, f.stage)
      /\ walk \in WalkRecords /\ walk.stack # <<>> /\ StackOK(S, walk)
  BY <1>1, Using, Walking
<1>3. CASE Preparing!Fail
  BY <1>1, <1>3, PreparationFails
<1>4. CASE ~f.protocol /\ Preparing!GoWith("ask", g)
  <2>1. f.stage # "author"
    BY <1>2, PreparationConstants
       DEF AnswersAt, FrameRecords, Nodes, Preparing!PreparationAssumption
  <2>2. /\ g \in FrameRecords /\ g.node = f.node /\ g.stage = f.stage
           /\ g.contract = f.contract
        /\ g.attempt = f.attempt /\ g.feedback = f.feedback /\ g.previous = f.previous
        /\ g.protocol = TRUE /\ g.child = f.child /\ g.proposal = f.proposal
        /\ g.context = f.context /\ g.correction = f.correction
    BY <1>2 DEF FrameRecords
  <2>3. f.protocol = FALSE
    BY <1>2, <1>4 DEF FrameRecords
  <2>4. [Preparing!ReviewQuestion(g) EXCEPT !.protocol = FALSE] = Preparing!ReviewQuestion(f)
    <3> DEFINE p == Preparing!ReviewQuestion(g)
               q == Preparing!ReviewQuestion(f)
    <3>1. p \in QuestionRecords /\ q \in QuestionRecords
      BY <1>2, <2>1, <2>2, FrameAsks DEF QuestionOf
    <3>2. /\ p.node = q.node /\ p.stage = q.stage /\ p.contract = q.contract
          /\ p.context = q.context /\ p.proposal = q.proposal /\ p.feedback = q.feedback
          /\ p.child = q.child /\ q.protocol = FALSE
      BY <2>2, <2>3 DEF Preparing!ReviewQuestion
    <3> HIDE DEF p, q
    <3>3. [p EXCEPT !.protocol = FALSE] = q
      BY <3>1, <3>2 DEF QuestionRecords
    <3> QED
      BY <3>3 DEF p, q
  <2>5. Preparing!CorrectionFeedback(g) = Preparing!CorrectionFeedback(f)
    BY <2>2 DEF Preparing!CorrectionFeedback
  <2>6. Preparing!Leaf(g) = Preparing!Leaf(f)
    BY <2>2 DEF Preparing!Leaf
  <2>7. PassedLocally(S, f) => PassedLocally(S, g)
    BY <2>2, <2>6 DEF PassedLocally
  <2>8. <<Preparing!ReviewQuestion(f), "malformed">> \in S
    BY <1>2, <2>1 DEF QuestionOf
  <2> HIDE DEF g, S
  <2>11. Preparing!AuthorQuestion(g) = Preparing!AuthorQuestion(f)
    BY <2>2, SameAuthor
  <2>9. FrameOK(S, g)
    BY <1>2, <2>1, <2>2, <2>4, <2>5, <2>7, <2>8, <2>11 DEF FrameOK
  <2>10. g.node = Preparing!Child => g.stage # "integration_review"
    BY <1>2, <2>2 DEF FrameOK, Preparing!Root, Preparing!Child
  <2> QED
    BY <1>1, <1>2, <1>4, <2>2, <2>9, <2>10, GoingOn DEF S
<1> QED
  BY <1>1, <1>3, <1>4

LEMMA Preparing_UseRejection ==
    ASSUME PreparationInv, Preparing!UseRejection
    PROVE  PreparationInv'
<1> DEFINE f == TopOf(walk)
           S == Sayings(control.calls)
           fb == IF f.proposal \in Defective THEN "draft" ELSE f.stage
           g == Preparing!NextAttempt(f, fb)
<1>1. /\ walk.pc = "use" /\ walk.answer \in {"approved", "revise"}
      /\ asked' = asked /\ source' = source /\ trees' = trees
      /\ source \in BOOLEAN /\ control' = control
      /\ Preparing!Rejected(f)
      /\ \/ Preparing!Fail
         \/ f.attempt = 1 /\ Preparing!GoWith("ask", g)
  BY Using, Walking DEF Preparing!UseRejection, PreparationInv, Preparing!Correct
<1>2. /\ control \in ControlRecords /\ f \in FrameRecords /\ FrameOK(S, f)
      /\ <<QuestionOf(f), walk.answer>> \in S
      /\ walk.answer \in AnswersAt(f.node, f.stage)
  BY <1>1, Using, Walking
<1>3. CASE Preparing!Fail
  BY <1>1, <1>3, PreparationFails
<1>4. CASE f.attempt = 1 /\ Preparing!GoWith("ask", g)
  <2>1. f.stage # "author"
    BY <1>1, <1>2, PreparationConstants
       DEF AnswersAt, FrameRecords, Nodes, Preparing!PreparationAssumption
  <2>2. fb \in Feedbacks /\ fb # Preparing!None
        /\ (fb = "draft" <=> f.proposal \in Defective)
    BY <1>2, <2>1 DEF FrameRecords, Feedbacks, Stages, Preparing!None
  <2>3. fb = "local_review" =>
          \E r \in BOOLEAN :
             <<FirstReview(f.node, f.contract, f.context, f.proposal, r), "revise">> \in S
    <3> SUFFICES ASSUME fb = "local_review"
                 PROVE  /\ f.protocol \in BOOLEAN
                        /\ <<FirstReview(f.node, f.contract, f.context, f.proposal,
                                f.protocol),
                             "revise">> \in S
      OBVIOUS
    <3>1. f.stage = "local_review" /\ f.proposal \notin Defective
      BY <2>1, <2>2
    <3>2. walk.answer = "revise"
      BY <1>1, <3>1 DEF Preparing!Rejected
    <3>3. f.correction = Preparing!None /\ f.child = Preparing!None
      BY <1>2, <1>4, <3>1 DEF FrameOK, Preparing!CorrectionFeedback
    <3>4. QuestionOf(f) = FirstReview(f.node, f.contract, f.context, f.proposal,
               f.protocol)
      BY <3>1, <3>3 DEF QuestionOf, Preparing!ReviewQuestion, FirstReview
    <3> QED
      BY <1>2, <3>2, <3>4 DEF FrameRecords
  <2>4. fb = "integration_review" =>
          \E r \in BOOLEAN :
             <<FirstReview(f.node, f.contract, f.context, f.proposal, r), "approved">> \in S
    BY <1>2, <1>4, <2>2 DEF FrameOK, PassedLocally
  <2>5. FirstRejection(S, f.node, f.contract, f.context, f.proposal, fb)
    BY <2>2, <2>3, <2>4 DEF FirstRejection
  <2>6. FirstProposal(S, f.node, f.contract, f.context, f.proposal)
    BY <1>2, <1>4, <2>1 DEF FrameOK
  <2> HIDE DEF fb
  <2>7. /\ g \in FrameRecords /\ g.node = f.node /\ g.stage = "author" /\ g.attempt = 2
        /\ g.contract = f.contract /\ g.feedback = fb /\ g.previous = f.proposal
        /\ g.protocol = FALSE /\ g.child = Preparing!None /\ g.context = f.context
    BY <1>2, <2>2 DEF Preparing!NextAttempt, FrameRecords, Feedbacks, Stages, NodeTexts
  <2> HIDE DEF g, S
  <2>8. f.context \in BOOLEAN
    BY <1>2 DEF FrameRecords
  <2>10. WhyAuthor(S, Preparing!AuthorQuestion(g))
    <3> DEFINE q == Preparing!AuthorQuestion(g)
    <3>1. /\ q.node = f.node /\ q.contract = f.contract /\ q.context = f.context
          /\ q.proposal = f.proposal /\ q.feedback = fb /\ q.protocol = FALSE
          /\ q.child = Preparing!None
      BY <2>7 DEF Preparing!AuthorQuestion
    <3> HIDE DEF f, q
    <3>2. /\ FirstProposal(S, q.node, q.contract, f.context, q.proposal)
          /\ FirstRejection(S, q.node, q.contract, f.context, q.proposal, q.feedback)
      BY <2>5, <2>6, <3>1
    <3>3. q.feedback # Preparing!None
      BY <2>2, <3>1
    <3>4. WhyAuthor(S, q)
      BY <2>8, <3>1, <3>2, <3>3 DEF WhyAuthor
    <3> QED
      BY <3>4 DEF q
  <2>9. FrameOK(S, g)
    BY <2>5, <2>6, <2>7, <2>8, <2>10 DEF FrameOK
  <2> QED
    BY <1>1, <1>2, <1>4, <2>7, <2>9, GoingOn DEF S
<1> QED
  BY <1>1, <1>3, <1>4

\* The review of the frame on top approved it.
LEMMA Approving ==
    ASSUME PreparationInv, Preparing!UseApproval
    PROVE  LET f == TopOf(walk)
               S == Sayings(control.calls)
           IN /\ f.stage # "author" /\ walk.answer = "approved"
              /\ <<Preparing!ReviewQuestion(f), "approved">> \in S
              /\ Preparing!ReviewQuestion(f) \in QuestionRecords
              /\ Preparing!Leaf(Preparing!ReviewQuestion(f)) = Preparing!Leaf(f)
              /\ ApprovedAt(S, Preparing!Leaf(f), f.stage)
              /\ f.stage = "local_review" => PassedLocally(S, f)
<1> DEFINE f == TopOf(walk)
           S == Sayings(control.calls)
           q == Preparing!ReviewQuestion(f)
<1>1. walk.pc = "use" /\ walk.answer \in {"approved", "revise"}
      /\ ~Preparing!Rejected(f)
  BY Using, Walking DEF Preparing!UseApproval
<1>2. /\ f \in FrameRecords /\ FrameOK(S, f) /\ <<QuestionOf(f), walk.answer>> \in S
      /\ walk.answer \in AnswersAt(f.node, f.stage)
  BY <1>1, Using, Walking
<1>3. f.stage # "author"
  BY <1>1, <1>2, PreparationConstants
     DEF AnswersAt, FrameRecords, Nodes, Preparing!PreparationAssumption
<1>4. walk.answer = "approved"
      /\ (f.stage = "local_review" => f.proposal \notin Defective)
  BY <1>1 DEF Preparing!Rejected
<1>5. q \in QuestionRecords /\ <<q, "approved">> \in S
  BY <1>2, <1>3, <1>4, FrameAsks DEF QuestionOf
<1>6. Preparing!Leaf(q) = Preparing!Leaf(f) /\ q.stage = f.stage
  BY DEF Preparing!ReviewQuestion, Preparing!Leaf
<1>7. f.stage = "local_review" =>
        [Preparing!Leaf(f) EXCEPT !.child = Preparing!None] = Preparing!Leaf(f)
  BY <1>2 DEF FrameOK, Preparing!Leaf
<1>8. ApprovedAt(S, Preparing!Leaf(f), f.stage)
  BY <1>5, <1>6, <1>7 DEF ApprovedAt
<1>9. ASSUME f.stage = "local_review" PROVE PassedLocally(S, f)
  <2>1. ASSUME f.attempt = 1
        PROVE  /\ f.protocol \in BOOLEAN
               /\ <<FirstReview(f.node, f.contract, f.context, f.proposal, f.protocol),
                    "approved">> \in S
    <3>1. f.correction = Preparing!None /\ f.child = Preparing!None
      BY <1>2, <1>9, <2>1 DEF FrameOK, Preparing!CorrectionFeedback
    <3>2. q = FirstReview(f.node, f.contract, f.context, f.proposal, f.protocol)
      BY <1>9, <3>1 DEF Preparing!ReviewQuestion, FirstReview
    <3> QED
      BY <1>2, <1>5, <3>2 DEF FrameRecords
  <2> QED
    BY <1>4, <1>8, <1>9, <2>1 DEF PassedLocally
<1> QED
  BY <1>3, <1>4, <1>5, <1>6, <1>8, <1>9

LEMMA SameSequence ==
    ASSUME NEW S, NEW t \in Seq(S), NEW u \in Seq(S), Len(t) = Len(u),
           \A i \in 1..Len(t) : t[i] = u[i]
    PROVE  t = u
<1>1. t \in [1..Len(t) -> S]
  OBVIOUS
<1>2. u \in [1..Len(u) -> S]
  OBVIOUS
<1>3. u \in [1..Len(t) -> S]
  BY <1>2
<1> QED
  BY <1>1, <1>3

Pushed(s, x) == Append(s, x)

LEMMA Pushing ==
    ASSUME NEW S, NEW s \in Seq(S), NEW x \in S
    PROVE  /\ Pushed(s, x) \in Seq(S) /\ Len(Pushed(s, x)) = Len(s) + 1
           /\ Pushed(s, x)[Len(s) + 1] = x
           /\ \A i \in 1..Len(s) : Pushed(s, x)[i] = s[i]
BY DEF Pushed

LEMMA PushedFrame ==
    ASSUME NEW f \in FrameRecords, NEW g \in FrameRecords
    PROVE  Pushed(<<f>>, g) = <<f, g>>
<1> DEFINE s == <<f>>
           t == Pushed(s, g)
           u == <<f, g>>
<1>1. s \in Seq(FrameRecords)
  OBVIOUS
<1>2. Len(s) = 1 /\ s[1] = f
  OBVIOUS
<1>3. u \in Seq(FrameRecords)
  OBVIOUS
<1>4. Len(u) = 2 /\ u[1] = f /\ u[2] = g
  OBVIOUS
<1> HIDE DEF s
<1>5. t \in Seq(FrameRecords)
  BY <1>1, Pushing
<1>6. Len(t) = Len(s) + 1 /\ t[Len(s) + 1] = g /\ \A i \in 1..Len(s) : t[i] = s[i]
  BY <1>1, Pushing
<1> HIDE DEF t, u
<1>7. Len(t) = 2 /\ t[1] = f /\ t[2] = g
  BY <1>2, <1>6
<1>8. Len(t) = Len(u) /\ \A i \in 1..Len(t) : t[i] = u[i]
  BY <1>4, <1>7
<1>9. t = u
  BY <1>3, <1>5, <1>8, SameSequence
<1> QED
  BY <1>9 DEF t, u, s

LEMMA Preparing_UseApproval ==
    ASSUME PreparationInv, Preparing!UseApproval
    PROVE  PreparationInv'
<1> DEFINE f == TopOf(walk)
           S == Sayings(control.calls)
<1>1. /\ walk.pc = "use" /\ control' = control
      /\ asked' = asked /\ source' = source /\ trees' = trees
      /\ source \in BOOLEAN
  BY DEF Preparing!UseApproval, PreparationInv
<1>2. /\ control \in ControlRecords /\ f \in FrameRecords /\ FrameOK(S, f)
      /\ walk \in WalkRecords /\ walk.stack # <<>> /\ StackOK(S, walk)
      /\ WalkOK(control.calls, walk) /\ Preparing!Top = f
         /\ ControlExists(control, walk)
  BY <1>1, Using, Walking DEF PreparationInv
<1>3. /\ f.stage # "author" /\ ApprovedAt(S, Preparing!Leaf(f), f.stage)
      /\ f.stage = "local_review" => PassedLocally(S, f)
  BY Approving
<1>4. Preparing!None \in AnswerWords /\ f.proposal \in NodeTexts /\ 0 \in Nat
  BY <1>2 DEF AnswerWords, FrameRecords
<1>5. ASSUME walk' \in WalkRecords, walk'.stack # <<>>, walk'.pc \in {"ask",
                  "assemble"},
             StackOK(S, walk'), \A leaf \in walk'.tree : AcceptedLeaf(S, leaf)
      PROVE  PreparationInv'
  <2>1. WalkOK(control.calls, walk') /\ walk'.pc \notin Exchanging
    BY <1>5 DEF WalkOK, Exchanging
  <2>2. ControlExists(control', walk')
    BY <1>1, <1>2, <1>5 DEF ControlExists
  <2> QED
    BY <1>1, <1>2, <1>5, <2>1, <2>2, AlikeSelf, PreparationGoes
<1>6. ASSUME f.node = Preparing!Root, f.stage = "local_review",
             walk' = [walk EXCEPT !.pc = "ask", !.answer = Preparing!None, !.index = 0,
                                  !.stack = Append(@, Preparing!Frame(Preparing!Child, f.proposal))]
      PROVE  PreparationInv'
  <2> DEFINE g == Preparing!Frame(Preparing!Child, f.proposal)
  <2>1. /\ g \in FrameRecords /\ g.node = Preparing!Child /\ g.stage = "author"
           /\ FrameOK(S, g)
    BY <1>4, NewFrame DEF Nodes
  <2> HIDE DEF g
  <2>2. walk.stack \in Stacks /\ Len(walk.stack) = 1 /\ walk.stack[1] = f
    BY <1>2, <1>6, TopFrame DEF WalkRecords, TopOf
  <2>3. walk.stack = <<f>>
    BY <1>2, <2>2 DEF Stacks
  <2>4. Append(walk.stack, g) = <<f, g>> /\ <<f, g>> \in Stacks
    <3>1. <<f, g>> \in Stacks
      BY <1>2, <2>1 DEF Stacks
    <3>2. Append(<<f>>, g) = <<f, g>>
      BY <1>2, <2>1, PushedFrame DEF Pushed
    <3> QED
      BY <2>3, <3>1, <3>2
  <2>5. /\ walk' \in WalkRecords /\ walk'.stack = <<f, g>> /\ walk'.pc = "ask"
        /\ walk'.tree = walk.tree
    BY <1>2, <1>4, <1>6, <2>4 DEF WalkRecords, g
  <2>6. StackOK(S, walk') /\ walk'.stack # <<>>
    <3> DEFINE v == walk'
    <3>1. v.stack # <<>> /\ Len(v.stack) = 2 /\ v.stack[1] = f /\ v.stack[2] = g
      BY <2>5
    <3>2. PassedLocally(S, f)
      BY <1>3, <1>6
    <3>3. g.stage # "integration_review"
      BY <2>1
    <3> HIDE DEF v, S, f
    <3>4. \A i \in 1..Len(v.stack) : FrameOK(S, v.stack[i])
      BY <1>2, <2>1, <3>1
    <3>5. StackOK(S, v)
      BY <1>6, <2>1, <3>1, <3>2, <3>3, <3>4 DEF StackOK
    <3> QED
      BY <3>1, <3>5 DEF v
  <2> QED
    BY <1>2, <1>5, <2>5, <2>6 DEF WalkOK
<1>7. ASSUME f.node = Preparing!Child,
             walk' = [walk EXCEPT !.pc = "ask", !.answer = Preparing!None, !.index = 0,
                !.tree = {Preparing!Leaf(f)},
                !.stack = <<[walk.stack[1] EXCEPT !.stage = "integration_review",
                                !.protocol = FALSE, !.child = f.proposal]>>]
      PROVE  PreparationInv'
  <2> DEFINE r == walk.stack[1]
             g == [r EXCEPT !.stage = "integration_review", !.protocol = FALSE,
                            !.child = f.proposal]
  <2>1. walk.stack \in Stacks /\ Len(walk.stack) = 2 /\ walk.stack[2] = f
    BY <1>2, <1>7, TopFrame DEF WalkRecords, TopOf
  <2>2. /\ r \in FrameRecords /\ FrameOK(S, r) /\ r.node = Preparing!Root
        /\ r.stage = "local_review" /\ PassedLocally(S, r)
        /\ f.stage # "integration_review"
    BY <1>2, <2>1 DEF Stacks, StackOK
  <2>3. f.stage = "local_review"
    BY <1>2, <1>3, <2>2 DEF FrameRecords, Stages
  <2>4. /\ g \in FrameRecords /\ g.node = r.node /\ g.stage = "integration_review"
        /\ g.contract = r.contract /\ g.attempt = r.attempt /\ g.feedback = r.feedback
        /\ g.previous = r.previous /\ g.context = r.context /\ g.proposal = r.proposal
        /\ g.correction = r.correction /\ g.protocol = FALSE /\ g.child = f.proposal
    BY <1>4, <2>2 DEF FrameRecords, Stages
  <2> HIDE DEF r, g
  <2>5. PassedLocally(S, g)
    <3>1. [Preparing!Leaf(g) EXCEPT !.child = Preparing!None]
            = [Preparing!Leaf(r) EXCEPT !.child = Preparing!None]
      BY <2>4 DEF Preparing!Leaf
    <3>2. ApprovedAt(S, Preparing!Leaf(g), "local_review")
      BY <2>2, <3>1 DEF PassedLocally, ApprovedAt
    <3> QED
      BY <2>2, <2>4, <3>2 DEF PassedLocally
  <2>6. Preparing!CorrectionFeedback(g) = Preparing!CorrectionFeedback(r)
    BY <2>4 DEF Preparing!CorrectionFeedback
  <2>12. Preparing!AuthorQuestion(g) = Preparing!AuthorQuestion(r)
    BY <2>4, SameAuthor
  <2>7. FrameOK(S, g)
    BY <2>2, <2>4, <2>5, <2>6, <2>12 DEF FrameOK
  <2>8. <<g>> \in Stacks /\ Preparing!Leaf(f) \in LeafRecords
    BY <1>2, <2>4 DEF Stacks, Preparing!Leaf, LeafRecords, FrameRecords
  <2>9. /\ walk' \in WalkRecords /\ walk'.stack = <<g>> /\ walk'.pc = "ask"
        /\ walk'.tree = {Preparing!Leaf(f)}
    BY <1>2, <1>4, <1>7, <2>8 DEF WalkRecords, g, r
  <2>10. StackOK(S, walk') /\ walk'.stack # <<>>
    BY <2>2, <2>4, <2>7, <2>9 DEF StackOK
  <2>11. AcceptedLeaf(S, Preparing!Leaf(f))
    BY <1>3, <1>7, <2>3
       DEF AcceptedLeaf, Preparing!Leaf, Preparing!Root, Preparing!Child
  <2> QED
    BY <1>5, <2>9, <2>10, <2>11
<1>8. ASSUME f.node = Preparing!Root, f.stage = "integration_review",
             walk' = [walk EXCEPT !.pc = "assemble", !.tree = @ \cup {Preparing!Leaf(f)}]
      PROVE  PreparationInv'
  <2>1. Preparing!Leaf(f) \in LeafRecords
    BY <1>2 DEF Preparing!Leaf, LeafRecords, FrameRecords
  <2>2. /\ walk' \in WalkRecords /\ walk'.stack = walk.stack /\ walk'.pc = "assemble"
        /\ walk'.tree = walk.tree \cup {Preparing!Leaf(f)}
    BY <1>2, <1>8, <2>1 DEF WalkRecords
  <2>3. AcceptedLeaf(S, Preparing!Leaf(f))
    BY <1>2, <1>3, <1>8 DEF AcceptedLeaf, FrameOK, PassedLocally
  <2>4. StackOK(S, walk')
    BY <1>2, <2>2 DEF StackOK
  <2> QED
    BY <1>2, <1>5, <2>2, <2>3, <2>4 DEF WalkOK
<1> QED
  BY <1>2, <1>6, <1>7, <1>8 DEF Preparing!UseApproval

(* The exchanges.                                                          *)
\* A step that puts a question or an answer on file.
LEMMA PreparationSaves ==
    ASSUME PreparationInv, control' \in ControlRecords, LedgerOK(control'.calls),
           Sayings(control.calls) \subseteq Sayings(control'.calls),
           \A q : /\ Posed(control.calls, q) => Posed(control'.calls, q)
                  /\ PosedTwice(control.calls, q) => PosedTwice(control'.calls, q),
           asked' = asked, source' \in BOOLEAN, trees' = trees,
           walk' \in WalkRecords, WalkOK(control'.calls, walk'),
           walk'.pc = "call" =>
             \A a \in asked : a[1] = QuestionOf(TopOf(walk')) =>
                a[2] = 1 /\ PosedTwice(control'.calls, a[1]),
           ControlExists(control', walk')
    PROVE  PreparationInv'
<1>1. AskedOK(control'.calls, asked', walk')
  BY DEF PreparationInv, AskedOK
<1>2. \A t \in trees' : \A leaf \in t : AcceptedLeaf(Sayings(control'.calls), leaf)
  BY ApprovedPersists DEF PreparationInv
<1> QED
  BY <1>1, <1>2 DEF PreparationInv

\* A step that sends the question which is reserved.
LEMMA PreparationAsks ==
    ASSUME PreparationInv, walk.pc = "call", Preparing!Ask,
           control' \in ControlRecords, control'.calls = control.calls,
           source' \in BOOLEAN, trees' = trees,
           walk' \in WalkRecords, walk'.pc # "call", WalkOK(control.calls, walk'),
           ControlExists(control', walk')
    PROVE  PreparationInv'
<1> DEFINE q == QuestionOf(TopOf(walk))
           A == {a \in asked : a[1] = q}
<1>1. /\ walk.stack # <<>> /\ asked \in SUBSET (QuestionRecords \X {1, 2})
      /\ AskedOK(control.calls, asked, walk) /\ WalkOK(control.calls, walk)
  BY HasFrame DEF PreparationInv
<1>2. /\ q \in QuestionRecords /\ Preparing!Question = q
      /\ control.calls \in Seq(CallRecords) /\ Len(control.calls) \in Nat
  BY <1>1, Walking
<1>3. Posed(control.calls, q)
  <2>1. /\ walk.index = Len(control.calls) /\ walk.index # 0
        /\ control.calls[walk.index].question = q
    BY <1>1 DEF WalkOK, Exchanging
  <2>2. walk.index \in 1..Len(control.calls)
    BY <1>2, <2>1
  <2> QED
    BY <2>1, <2>2 DEF Posed
<1>4. asked' = asked \cup {<<q, 1 + Preparing!Cardinality(A)>>}
  BY <1>2 DEF Preparing!Ask
<1>5. \A a \in A : a = <<q, 1>> /\ PosedTwice(control.calls, q)
  BY <1>1 DEF AskedOK
<1>6. CASE A = {}
  <2>1. Preparing!Cardinality(A) = 0
    BY <1>6, FS_EmptySet DEF Preparing!Cardinality, Cardinality
  <2>2. asked' = asked \cup {<<q, 1>>}
    BY <1>4, <2>1
  <2>3. asked' \in SUBSET (QuestionRecords \X {1, 2})
    BY <1>1, <1>2, <2>2
  <2>4. AskedOK(control'.calls, asked', walk')
    BY <1>1, <1>3, <2>2 DEF AskedOK
  <2> QED
    BY <2>3, <2>4 DEF PreparationInv
<1>7. CASE A # {}
  <2>1. A = {<<q, 1>>}
    BY <1>5, <1>7
  <2>2. Preparing!Cardinality(A) = 1
    <3>1. Preparing!Cardinality(A) = Cardinality(A)
      BY DEF Preparing!Cardinality, Cardinality
    <3>2. Cardinality({<<q, 1>>}) = 1
      BY FS_Singleton
    <3> HIDE DEF A
    <3> QED
      BY <2>1, <3>1, <3>2
  <2>3. asked' = asked \cup {<<q, 2>>}
    BY <1>4, <2>2
  <2>4. asked' \in SUBSET (QuestionRecords \X {1, 2})
    BY <1>1, <1>2, <2>3
  <2>5. AskedOK(control'.calls, asked', walk')
    BY <1>1, <1>3, <1>5, <1>7, <2>3 DEF AskedOK
  <2> QED
    BY <2>4, <2>5 DEF PreparationInv
<1> QED
  BY <1>6, <1>7

LEMMA NewCalls ==
    ASSUME NEW c \in ControlRecords, NEW calls \in Seq(CallRecords)
    PROVE  /\ [c EXCEPT !.calls = calls] \in ControlRecords
           /\ [c EXCEPT !.calls = calls].calls = calls
           /\ [c EXCEPT !.calls = calls].terminal = c.terminal
BY DEF ControlRecords

LEMMA HasControl ==
    ASSUME PreparationInv, walk.pc \in {"ask", "call", "use", "assemble"}
    PROVE  control.terminal # "absent"
BY DEF PreparationInv, ControlExists

LEMMA Preparing_Replay ==
    ASSUME PreparationInv, Preparing!Replay
    PROVE  PreparationInv'
<1>1. /\ walk.pc = "ask" /\ asked' = asked /\ source' = source
      /\ trees' = trees /\ source \in BOOLEAN
  BY DEF Preparing!Replay, PreparationInv
<1>2. /\ walk.stack # <<>> /\ control \in ControlRecords /\ walk \in WalkRecords
      /\ control.calls \in Seq(CallRecords) /\ WalkOK(control.calls, walk)
      /\ Preparing!Question = QuestionOf(TopOf(walk))
  BY <1>1, HasFrame, Walking
<1>3. PICK i \in 1..Len(control.calls) :
        /\ control.calls[i].question = Preparing!Question
        /\ control.calls[i].status \in {"received", "accepted"}
        /\ \/ /\ control' = [control EXCEPT !.calls[i].status = "accepted"]
              /\ walk' = [walk EXCEPT !.pc = "use", !.answer = control.calls[i].answer]
           \/ Preparing!Fail /\ control' = control
  BY DEF Preparing!Replay, Preparing!Matches, Preparing!Calls, Preparing!Answered
<1>4. CASE Preparing!Fail /\ control' = control
  BY <1>1, <1>4, PreparationFails
<1>5. CASE /\ control' = [control EXCEPT !.calls[i].status = "accepted"]
           /\ walk' = [walk EXCEPT !.pc = "use", !.answer = control.calls[i].answer]
  <2> DEFINE others == [control.calls EXCEPT ![i].status = "accepted"]
  <2>1. others \in Seq(CallRecords) /\ Alike(control.calls, others)
    BY <1>2, <1>3, Accepting
  <2>2. control' = [control EXCEPT !.calls = others]
    BY <1>2, <1>5 DEF ControlRecords
  <2> HIDE DEF others
  <2>3. control' \in ControlRecords /\ control'.calls = others
        /\ control'.terminal = control.terminal
    BY <1>2, <2>1, <2>2, NewCalls
  <2>4. control.calls[i].answer \in AnswerWords
    <3>1. control.calls[i] \in CallRecords
      BY <1>2
    <3> QED
      BY <3>1 DEF CallRecords
  <2>5. /\ walk' \in WalkRecords /\ walk'.pc = "use" /\ walk'.stack = walk.stack
        /\ walk'.tree = walk.tree /\ walk'.answer = control.calls[i].answer
    BY <1>2, <1>5, <2>4 DEF WalkRecords
  <2>6. <<QuestionOf(TopOf(walk')), walk'.answer>> \in Sayings(control.calls)
    BY <1>2, <1>3, <2>5 DEF Sayings, TopOf
  <2>7. WalkOK(control.calls, walk') /\ walk'.pc \notin Exchanging
    BY <1>1, <1>2, <2>5, <2>6 DEF WalkOK, StackOK, Exchanging
  <2>8. ControlExists(control', walk')
    BY <1>1, <2>3, <2>5, HasControl DEF ControlExists
  <2> QED
    BY <1>1, <2>1, <2>3, <2>5, <2>7, <2>8, PreparationGoes
<1> QED
  BY <1>3, <1>4, <1>5

LEMMA Preparing_Reserve ==
    ASSUME PreparationInv, Preparing!Reserve
    PROVE  PreparationInv'
<1> DEFINE q == QuestionOf(TopOf(walk))
           calls == control.calls
           M == {i \in 1..Len(calls) : calls[i].question = q}
           others == Append(calls, [question |-> q, status |-> "reserved",
                                    answer |-> Preparing!None])
<1>1. /\ walk.pc = "ask" /\ asked' = asked /\ source' = source
      /\ trees' = trees /\ source \in BOOLEAN
      /\ asked \in SUBSET (QuestionRecords \X {1, 2}) /\ AskedOK(calls, asked, walk)
  BY DEF Preparing!Reserve, PreparationInv
<1>2. /\ walk.stack # <<>> /\ control \in ControlRecords /\ walk \in WalkRecords
      /\ calls \in Seq(CallRecords) /\ Len(calls) \in Nat /\ WalkOK(calls, walk)
      /\ StackOK(Sayings(calls), walk) /\ LedgerOK(calls)
      /\ Preparing!Question = q /\ q \in QuestionRecords /\ WellAsked(Sayings(calls), q)
  BY <1>1, HasFrame, Walking
<1>3. /\ control' = [control EXCEPT !.calls = others]
      /\ walk' = [walk EXCEPT !.pc = "call", !.index = Len(control'.calls)]
  BY <1>2 DEF Preparing!Reserve, Preparing!Reserved
<1>4. M = Preparing!Matches
  BY <1>2 DEF Preparing!Matches, Preparing!Calls
<1>5. \A i \in 1..Len(calls) : calls[i].question = q => calls[i].status = "reserved"
  <2>1. \A i \in M : calls[i].status \notin {"received", "accepted"}
    BY <1>4 DEF Preparing!Reserve, Preparing!Answered, Preparing!Calls
  <2>2. \A i \in 1..Len(calls) : calls[i] \in CallRecords
    BY <1>2
  <2> QED
    BY <2>1, <2>2 DEF CallRecords
<1>6. ~PosedTwice(calls, q)
  <2>1. Preparing!Cardinality(M) < 2
    BY <1>4 DEF Preparing!Reserve, Preparing!Budgeted
  <2> SUFFICES ASSUME NEW i \in 1..Len(calls), NEW j \in 1..Len(calls), i < j,
                      calls[i].question = q, calls[j].question = q
               PROVE  FALSE
    BY DEF PosedTwice
  <2>2. i \in M /\ j \in M /\ M \in SUBSET (1..Len(calls))
    OBVIOUS
  <2> HIDE DEF M
  <2>3. i = j
    BY <1>2, <2>1, <2>2, AtMostOne
  <2> QED
    BY <2>3
<1>7. /\ others \in Seq(CallRecords) /\ LedgerOK(others)
      /\ Len(others) = Len(calls) + 1
      /\ others[Len(others)].question = q /\ others[Len(others)].status = "reserved"
      /\ Sayings(calls) \subseteq Sayings(others)
      /\ \A p : /\ Posed(calls, p) => Posed(others, p)
                /\ PosedTwice(calls, p) => PosedTwice(others, p)
      /\ Posed(calls, q) => PosedTwice(others, q)
  <2>1. others = WithQuestion(calls, q)
    BY DEF WithQuestion
  <2> HIDE DEF q, M, calls, others
  <2> QED
    BY <1>2, <1>5, <2>1, Reserving
<1> HIDE DEF others, M
<1>8. /\ control' \in ControlRecords /\ control'.calls = others
      /\ control'.terminal = control.terminal
  BY <1>2, <1>3, <1>7, NewCalls
<1>9. /\ walk' \in WalkRecords /\ walk'.pc = "call" /\ walk'.stack = walk.stack
      /\ walk'.tree = walk.tree /\ walk'.index = Len(others)
  <2>1. Len(others) \in Nat /\ Len(control'.calls) = Len(others)
    BY <1>7, <1>8
  <2> QED
    BY <1>2, <1>3, <2>1 DEF WalkRecords, Exchanging
<1>10. TopOf(walk') = TopOf(walk)
  BY <1>9 DEF TopOf
<1>11. WalkOK(others, walk')
  <2>1. StackOK(Sayings(others), walk)
    BY <1>2, <1>7, StackPersists
  <2>2. StackOK(Sayings(others), walk')
    BY <1>9, <2>1 DEF StackOK
  <2>3. \A leaf \in walk'.tree : AcceptedLeaf(Sayings(others), leaf)
    BY <1>2, <1>7, <1>9, ApprovedPersists DEF WalkOK
  <2>4. walk'.index = Len(others) /\ walk'.index # 0
        /\ others[walk'.index].question = QuestionOf(TopOf(walk'))
        /\ others[walk'.index].status = "reserved"
    BY <1>2, <1>7, <1>9, <1>10
  <2> QED
    BY <1>2, <1>9, <2>2, <2>3, <2>4 DEF WalkOK
<1>12. \A a \in asked : a[1] = q => a[2] = 1 /\ PosedTwice(others, a[1])
  BY <1>1, <1>6, <1>7 DEF AskedOK
<1>13. ControlExists(control', walk')
  BY <1>1, <1>8, <1>9, HasControl DEF ControlExists
<1> HIDE DEF q
<1> QED
  BY <1>1, <1>7, <1>8, <1>9, <1>10, <1>11, <1>12, <1>13, PreparationSaves DEF q

LEMMA Preparing_ProviderAnswers ==
    ASSUME PreparationInv, Preparing!ProviderAnswers
    PROVE  PreparationInv'
<1>1. /\ walk.pc = "call" /\ Preparing!Ask /\ control' = control
      /\ source' = source /\ trees' = trees /\ source \in BOOLEAN
  BY DEF Preparing!ProviderAnswers, PreparationInv
<1>2. /\ walk.stack # <<>> /\ control \in ControlRecords /\ walk \in WalkRecords
      /\ WalkOK(control.calls, walk) /\ TopOf(walk) \in FrameRecords
      /\ Preparing!Top = TopOf(walk)
  BY <1>1, HasFrame, Walking
<1>3. PICK answer \in AnswersAt(TopOf(walk).node, TopOf(walk).stage) :
        walk' = [walk EXCEPT !.pc = "answered", !.answer = answer]
  BY <1>2 DEF Preparing!ProviderAnswers, Preparing!Answers, AnswersAt
<1>4. answer \in AnswerWords
  BY <1>2 DEF AnswerWords, FrameRecords
<1>5. /\ walk' \in WalkRecords /\ walk'.pc = "answered" /\ walk'.stack = walk.stack
      /\ walk'.tree = walk.tree /\ walk'.index = walk.index /\ walk'.answer = answer
  BY <1>2, <1>3, <1>4 DEF WalkRecords, Exchanging
<1>6. TopOf(walk') = TopOf(walk)
  BY <1>5 DEF TopOf
<1>7. WalkOK(control.calls, walk')
  BY <1>1, <1>2, <1>3, <1>5, <1>6 DEF WalkOK, StackOK, Exchanging
<1>8. ControlExists(control', walk')
  BY <1>1, <1>5, HasControl DEF ControlExists
<1> QED
  BY <1>1, <1>2, <1>5, <1>7, <1>8, PreparationAsks

LEMMA Preparing_ProviderRaises ==
    ASSUME PreparationInv, Preparing!ProviderRaises
    PROVE  PreparationInv'
<1>1. /\ walk.pc = "call" /\ Preparing!Ask /\ source' = source /\ trees' = trees
      /\ source \in BOOLEAN /\ walk' = Preparing!Idle
  BY DEF Preparing!ProviderRaises, Preparing!Fail, PreparationInv
<1>2. control \in ControlRecords
  BY DEF PreparationInv
<1>3. PICK code \in {"failed", "readonly_violation", "hierarchy_authority_changed"} :
        /\ control' = Preparing!Raised(code)
  BY DEF Preparing!ProviderRaises
<1>4. /\ control' \in ControlRecords /\ control'.calls = control.calls
      /\ control'.terminal = IF code = "failed" THEN control.terminal ELSE code
  BY <1>2, <1>3 DEF Preparing!Raised, ControlRecords
<1>5. control.terminal # "absent"
  BY <1>1, HasControl
<1>6. /\ walk' \in WalkRecords /\ walk'.pc = "idle" /\ WalkOK(control.calls, walk')
  BY <1>1, IdleWalk
<1>7. ControlExists(control', walk')
  BY <1>3, <1>4, <1>5, <1>6 DEF ControlExists
<1> QED
  BY <1>1, <1>4, <1>6, <1>7, PreparationAsks

LEMMA Preparing_SaveStop ==
    ASSUME PreparationInv, Preparing!SaveStop
    PROVE  PreparationInv'
<1>1. /\ walk.pc = "answered" /\ asked' = asked /\ source' = source
      /\ trees' = trees /\ source \in BOOLEAN /\ walk' = walk /\ walk \in WalkRecords
      /\ control \in ControlRecords /\ WalkOK(control.calls, walk)
      /\ control' = [control EXCEPT !.terminal = "prerequisite_stop"]
  BY DEF Preparing!SaveStop, PreparationInv
<1>2. /\ control' \in ControlRecords /\ control'.calls = control.calls
      /\ control'.terminal = "prerequisite_stop"
  BY <1>1 DEF ControlRecords
<1>3. ControlExists(control', walk')
  BY <1>1, <1>2 DEF ControlExists, Preparing!None
<1> QED
  BY <1>1, <1>2, <1>3, AlikeSelf, PreparationGoes

LEMMA Preparing_SaveReceived ==
    ASSUME PreparationInv, Preparing!SaveReceived
    PROVE  PreparationInv'
<1> DEFINE calls == control.calls
           others == [calls EXCEPT ![walk.index].status = "received",
                                   ![walk.index].answer = walk.answer]
<1>1. /\ walk.pc = "answered" /\ asked' = asked
         /\ source' = source
      /\ trees' = trees /\ source \in BOOLEAN
      /\ walk' = [walk EXCEPT !.pc = "received"]
      /\ control' = [control EXCEPT !.calls[walk.index].status = "received",
                                    !.calls[walk.index].answer = walk.answer]
      /\ ControlExists(control, walk)
  BY DEF Preparing!SaveReceived, PreparationInv
<1>2. /\ walk.stack # <<>> /\ control \in ControlRecords /\ walk \in WalkRecords
      /\ calls \in Seq(CallRecords) /\ Len(calls) \in Nat /\ WalkOK(calls, walk)
      /\ StackOK(Sayings(calls), walk) /\ LedgerOK(calls)
  BY <1>1, HasFrame, Walking
<1>3. /\ walk.index = Len(calls) /\ walk.index # 0
         /\ calls[walk.index].status = "reserved"
      /\ calls[walk.index].question = QuestionOf(TopOf(walk))
      /\ walk.answer \in AnswersAt(TopOf(walk).node, TopOf(walk).stage)
  BY <1>1, <1>2 DEF WalkOK, Exchanging
<1>4. walk.index \in 1..Len(calls)
  BY <1>2, <1>3
<1>5. /\ QuestionOf(TopOf(walk)).node = TopOf(walk).node
      /\ QuestionOf(TopOf(walk)).stage = TopOf(walk).stage
  BY DEF QuestionOf, Preparing!AuthorQuestion, Preparing!ReviewQuestion
<1>6. control' = [control EXCEPT !.calls = others]
  BY <1>1, <1>2 DEF ControlRecords
<1>7. /\ others \in Seq(CallRecords) /\ LedgerOK(others) /\ Len(others) = Len(calls)
      /\ others[walk.index].question = calls[walk.index].question
      /\ others[walk.index].status = "received"
         /\ others[walk.index].answer = walk.answer
      /\ Sayings(calls) \subseteq Sayings(others)
      /\ \A q : /\ Posed(calls, q) => Posed(others, q)
                /\ PosedTwice(calls, q) => PosedTwice(others, q)
  <2>1. walk.answer \in AnswersAt(calls[walk.index].question.node,
                                  calls[walk.index].question.stage)
    BY <1>3, <1>5
  <2>2. others = WithAnswer(calls, walk.index, walk.answer)
    BY DEF WithAnswer
  <2> HIDE DEF calls, others
  <2> QED
    BY <1>2, <1>3, <1>4, <2>1, <2>2, Receiving
<1> HIDE DEF others
<1>8. /\ control' \in ControlRecords /\ control'.calls = others
      /\ control'.terminal = control.terminal
  BY <1>2, <1>6, <1>7, NewCalls
<1>9. /\ walk' \in WalkRecords /\ walk'.pc = "received" /\ walk'.stack = walk.stack
      /\ walk'.tree = walk.tree /\ walk'.index = walk.index
         /\ walk'.answer = walk.answer
  BY <1>1, <1>2 DEF WalkRecords, Exchanging
<1>10. TopOf(walk') = TopOf(walk)
  BY <1>9 DEF TopOf
<1>11. WalkOK(others, walk')
  <2>1. StackOK(Sayings(others), walk)
    BY <1>2, <1>7, StackPersists
  <2>2. StackOK(Sayings(others), walk')
    BY <1>9, <2>1 DEF StackOK
  <2>3. \A leaf \in walk'.tree : AcceptedLeaf(Sayings(others), leaf)
    BY <1>2, <1>7, <1>9, ApprovedPersists DEF WalkOK
  <2>4. /\ walk'.index = Len(others) /\ walk'.index # 0
        /\ others[walk'.index].question = QuestionOf(TopOf(walk'))
        /\ others[walk'.index].status # "reserved"
           /\ others[walk'.index].answer = walk'.answer
    BY <1>3, <1>7, <1>9, <1>10
  <2> QED
    BY <1>2, <1>9, <2>2, <2>3, <2>4 DEF WalkOK
<1>12. ControlExists(control', walk')
  <2>1. control.terminal # "absent"
    BY <1>1 DEF ControlExists
  <2> QED
    BY <1>1, <1>8, <1>9, <2>1 DEF ControlExists
<1> QED
  BY <1>1, <1>7, <1>8, <1>9, <1>11, <1>12, PreparationSaves

LEMMA Preparing_WriteEvidence ==
    ASSUME PreparationInv, Preparing!WriteEvidence
    PROVE  PreparationInv'
<1>1. /\ walk.pc = "received" /\ asked' = asked
         /\ source' = source
      /\ trees' = trees /\ source \in BOOLEAN
         /\ control' = control
      /\ walk' = [walk EXCEPT !.pc = "written"] /\ control \in ControlRecords
      /\ walk \in WalkRecords /\ WalkOK(control.calls, walk)
      /\ ControlExists(control, walk)
  BY DEF Preparing!WriteEvidence, PreparationInv
<1>2. /\ walk' \in WalkRecords /\ walk'.pc = "written" /\ walk'.stack = walk.stack
      /\ walk'.tree = walk.tree /\ walk'.index = walk.index
         /\ walk'.answer = walk.answer
  BY <1>1 DEF WalkRecords, Exchanging
<1>3. TopOf(walk') = TopOf(walk)
  BY <1>2 DEF TopOf
<1>4. WalkOK(control.calls, walk')
  BY <1>1, <1>2, <1>3 DEF WalkOK, StackOK, Exchanging
<1>5. ControlExists(control', walk')
  BY <1>1, <1>2 DEF ControlExists
<1> QED
  BY <1>1, <1>2, <1>4, <1>5, AlikeSelf, PreparationGoes

LEMMA Preparing_Accept ==
    ASSUME PreparationInv, Preparing!Accept
    PROVE  PreparationInv'
<1> DEFINE calls == control.calls
           others == [calls EXCEPT ![walk.index].status = "accepted"]
           terminal == IF source \/ control.terminal # Preparing!None THEN control.terminal
                       ELSE "hierarchy_authority_changed"
<1>1. /\ walk.pc = "written" /\ asked' = asked
      /\ source' = source /\ trees' = trees /\ source \in BOOLEAN
      /\ control' = [control EXCEPT !.terminal = terminal,
                                    !.calls[walk.index].status = "accepted"]
      /\ IF terminal = Preparing!None THEN walk' = [walk EXCEPT !.pc = "use"]
                                      ELSE Preparing!Fail
      /\ ControlExists(control, walk)
  BY DEF Preparing!Accept, PreparationInv
<1>2. /\ walk.stack # <<>> /\ control \in ControlRecords /\ walk \in WalkRecords
      /\ calls \in Seq(CallRecords) /\ Len(calls) \in Nat /\ WalkOK(calls, walk)
  BY <1>1, HasFrame, Walking
<1>3. /\ walk.index = Len(calls) /\ walk.index # 0
         /\ calls[walk.index].status # "reserved"
      /\ calls[walk.index].answer = walk.answer
      /\ calls[walk.index].question = QuestionOf(TopOf(walk))
  BY <1>1, <1>2 DEF WalkOK, Exchanging
<1>4. walk.index \in 1..Len(calls)
  BY <1>2, <1>3
<1>5. others \in Seq(CallRecords) /\ Alike(calls, others)
  BY <1>2, <1>3, <1>4, Accepting
<1>6. /\ control' \in ControlRecords /\ control'.calls = others
      /\ control'.terminal = terminal
  <2>1. terminal \in {"absent", Preparing!None, "prerequisite_stop",
             "readonly_violation",
                      "hierarchy_authority_changed"}
    BY <1>2 DEF ControlRecords
  <2>2. control' = [control EXCEPT !.terminal = terminal, !.calls = others]
    BY <1>1, <1>2 DEF ControlRecords
  <2> HIDE DEF others, terminal
  <2> QED
    BY <1>2, <1>5, <2>1, <2>2 DEF ControlRecords
<1>7. control.terminal # "absent"
  BY <1>1 DEF ControlExists
<1> HIDE DEF others
<1>8. CASE terminal # Preparing!None
  <2>1. walk' = Preparing!Idle /\ terminal # "absent"
    BY <1>1, <1>7, <1>8 DEF Preparing!Fail
  <2> QED
    BY <1>1, <1>5, <1>6, <1>8, <2>1, PreparationEnds
<1>9. CASE terminal = Preparing!None
  <2>1. source /\ control.terminal = Preparing!None
    BY <1>1, <1>9 DEF ControlExists, Preparing!None
  <2>2. walk' = [walk EXCEPT !.pc = "use"]
    BY <1>1, <1>9
  <2>3. /\ walk' \in WalkRecords /\ walk'.pc = "use" /\ walk'.stack = walk.stack
        /\ walk'.tree = walk.tree /\ walk'.answer = walk.answer
    BY <1>2, <2>2 DEF WalkRecords
  <2>4. TopOf(walk') = TopOf(walk)
    BY <2>3 DEF TopOf
  <2>5. <<QuestionOf(TopOf(walk')), walk'.answer>> \in Sayings(calls)
    BY <1>3, <1>4, <2>3, <2>4 DEF Sayings
  <2>6. WalkOK(calls, walk') /\ walk'.pc \notin Exchanging
    BY <1>1, <1>2, <2>3, <2>5 DEF WalkOK, StackOK, Exchanging
  <2>7. ControlExists(control', walk')
        /\ source' \in BOOLEAN
    BY <1>1, <1>6, <1>9, <2>1 DEF ControlExists, Preparing!None
  <2> QED
    BY <1>1, <1>5, <1>6, <2>3, <2>6, <2>7, PreparationGoes
<1> QED
  BY <1>8, <1>9

LEMMA PreparationStep == PreparationInv /\ [Next]_vars => PreparationInv'
<1> SUFFICES ASSUME PreparationInv, [Next]_vars PROVE PreparationInv'
  OBVIOUS
<1>1. Preparing!Next \/ UNCHANGED Preparing!preparationVars
  BY DEF Next, vars, Amend, RunChild, RunAgent, KeepAlive, Prepare, AuthorPlan,
     UseWorktree,
         ReviewCandidate, ShapePlan, AnswerQuestions, preparationVars,
         Preparing!preparationVars
<1>2. CASE Preparing!Exchange
  BY <1>2, Preparing_Replay, Preparing_Reserve, Preparing_Refuse, Preparing_TooLarge,
     Preparing_ProviderAnswers, Preparing_ProviderRaises, Preparing_SaveStop,
     Preparing_SaveReceived, Preparing_WriteEvidence, Preparing_Accept
     DEF Preparing!Exchange
<1>3. CASE Preparing!Walk
  BY <1>3, Preparing_UseContext, Preparing_UseUnusable, Preparing_UseProposal,
     Preparing_UseMalformed, Preparing_UseMismatch, Preparing_UseRejection,
     Preparing_UseApproval, Preparing_Assemble
     DEF Preparing!Walk
<1>4. CASE Preparing!Next
  BY <1>2, <1>3, <1>4, Preparing_Open, Preparing_Select, Preparing_Kill,
     Preparing_SourceChanges
     DEF Preparing!Next
<1>5. CASE UNCHANGED Preparing!preparationVars
  BY <1>5 DEF Preparing!preparationVars, PreparationInv
<1> QED
  BY <1>1, <1>4, <1>5

LEMMA PreparationInit == Init => PreparationInv
<1> SUFFICES ASSUME Preparing!Init PROVE PreparationInv
  BY DEF Init
<1>1. /\ control = Preparing!NoControl /\ walk = Preparing!Idle /\ source = TRUE
      /\ asked = {} /\ trees = {}
  BY DEF Preparing!Init
<1>2. /\ control.calls = <<>> /\ control \in ControlRecords
         /\ control.terminal = "absent"
  BY <1>1 DEF Preparing!NoControl, ControlRecords
<1>3. /\ walk \in WalkRecords /\ walk.pc = "idle" /\ WalkOK(control.calls, walk)
  BY <1>1, IdleWalk
<1>4. LedgerOK(control.calls)
  BY <1>2 DEF LedgerOK
<1>5. AskedOK(control.calls, asked, walk) /\ ControlExists(control, walk)
  BY <1>1, <1>3 DEF AskedOK, ControlExists
<1> QED
  BY <1>1, <1>2, <1>3, <1>4, <1>5 DEF PreparationInv

LEMMA PreparationInvariant == Spec => []PreparationInv
BY PreparationInit, PreparationStep, PTL DEF Spec

LEMMA OpinionsOfAccepted ==
    ASSUME PreparationInv, NEW leaf, NEW stage \in {"local_review", "integration_review"},
           ApprovedAt(Sayings(control.calls), leaf, stage)
    PROVE  Preparing!Opinions(leaf, stage) = {"approved"}
<1> DEFINE S == Sayings(control.calls)
           calls == control.calls
           same == IF stage = "local_review" THEN [leaf EXCEPT !.child = Preparing!None] ELSE leaf
<1>1. control \in ControlRecords /\ LedgerOK(calls)
  BY DEF PreparationInv
<1>2. calls \in Seq(CallRecords) /\ Saved(S)
  BY <1>1, SayingsAreSaved DEF ControlRecords
<1>3. PICK q \in QuestionRecords :
        q.stage = stage /\ <<q, "approved">> \in S /\ Preparing!Leaf(q) = same
  BY DEF ApprovedAt
<1>4. "approved" \in Preparing!Opinions(leaf, stage)
  <2>1. PICK i \in 1..Len(calls) : calls[i].question = q /\ calls[i].answer = "approved"
    BY <1>3 DEF Sayings
  <2> QED
    BY <1>3, <2>1 DEF Preparing!Opinions, Preparing!Calls, Preparing!None
<1>5. ASSUME NEW opinion \in Preparing!Opinions(leaf, stage)
      PROVE  opinion = "approved"
  <2>1. PICK j \in 1..Len(calls) :
          /\ calls[j].answer = opinion /\ calls[j].question.stage = stage
          /\ Preparing!Leaf(calls[j].question) = same
          /\ opinion # Preparing!None /\ opinion # "malformed"
    BY <1>5 DEF Preparing!Opinions, Preparing!Calls
  <2>2. calls[j].status # "reserved"
    BY <1>1, <2>1 DEF LedgerOK
  <2>3. <<calls[j].question, opinion>> \in S
    BY <2>1, <2>2 DEF Sayings
  <2> HIDE DEF S, same, calls
  <2> QED
    BY <1>2, <1>3, <2>1, <2>3, OneOpinion
<1> QED
  BY <1>4, <1>5

\* A tree is assembled only from proposals every readable review on file
\* approved, the root also as a whole: whatever is killed, replayed, corrected
\* or proposed again, no proposal gets a second opinion; for any proposals, any
\* answers and any number of calls and faults.
THEOREM PreparationApproved == Spec => []AssembledIsApproved
<1>1. PreparationInv => AssembledIsApproved
  BY OpinionsOfAccepted
     DEF PreparationInv, AcceptedLeaf, AssembledIsApproved,
       Preparing!AssembledIsApproved
<1> QED
  BY <1>1, PreparationInvariant, PTL

\* No question is sent more than twice, and none again once its answer is on
\* file, however often the command is killed between asking and saving.
THEOREM PreparationBudget == Spec => []AskedWithinBudget
<1>1. ASSUME PreparationInv PROVE AskedWithinBudget
  <2>1. \A a \in asked : a[2] <= 2
    BY <1>1 DEF PreparationInv
  <2>2. LedgerOK(control.calls)
    BY <1>1 DEF PreparationInv
  <2>3. Preparing!AskedWithinBudget
    BY <2>1, <2>2
       DEF Preparing!AskedWithinBudget, LedgerOK, Preparing!Answered, Preparing!Calls
  <2> QED
    BY <2>3 DEF AskedWithinBudget
<1> QED
  BY <1>1, PreparationInvariant, PTL

\* A set of which each half has one element at most.
LEMMA AtMostTwo ==
    ASSUME NEW n \in Nat, NEW S \in SUBSET (1..n), NEW T \in SUBSET S,
           \A i, j \in T : i = j, \A i, j \in S \ T : i = j
    PROVE  Preparing!Cardinality(S) <= 2
<1>1. Preparing!Cardinality(S) = Cardinality(S)
  BY DEF Preparing!Cardinality, Cardinality
<1>2. ASSUME NEW U \in SUBSET S, \A i, j \in U : i = j
      PROVE  IsFiniteSet(U) /\ Cardinality(U) \in Nat /\ Cardinality(U) <= 1
  <2>1. CASE U = {}
    BY <2>1, FS_EmptySet
  <2>2. CASE U # {}
    <3>1. PICK i \in U : TRUE
      BY <2>2
    <3>2. U = {i}
      BY <1>2, <3>1
    <3>3. IsFiniteSet({i}) /\ Cardinality({i}) = 1
      BY FS_Singleton
    <3> QED
      BY <3>2, <3>3
  <2> QED
    BY <2>1, <2>2
<1>3. /\ IsFiniteSet(T) /\ Cardinality(T) \in Nat /\ Cardinality(T) <= 1
      /\ IsFiniteSet(S \ T) /\ Cardinality(S \ T) \in Nat /\ Cardinality(S \ T) <= 1
  BY <1>2
<1>4. Cardinality(T \cup (S \ T))
        = Cardinality(T) + Cardinality(S \ T) - Cardinality(T \cap (S \ T))
  BY <1>3, FS_Union
<1>5. T \cup (S \ T) = S /\ T \cap (S \ T) = {}
  OBVIOUS
<1>6. Cardinality(T \cap (S \ T)) = 0
  BY <1>5, FS_EmptySet
<1>7. Cardinality(S) = Cardinality(T) + Cardinality(S \ T)
  <2>1. Cardinality(S) = Cardinality(T) + Cardinality(S \ T) - 0
    BY <1>4, <1>5, <1>6, Zenon
  <2>2. ASSUME NEW a \in Nat, NEW b \in Nat PROVE a + b - 0 = a + b
    OBVIOUS
  <2> QED
    BY <1>3, <2>1, <2>2
<1>8. Cardinality(S) <= 2
  <2>1. ASSUME NEW a \in Nat, NEW b \in Nat, a <= 1, b <= 1 PROVE a + b <= 2
    BY <2>1
  <2> QED
    BY <1>3, <1>7, <2>1
<1> QED
  BY <1>1, <1>8

\* No node is proposed more than twice for one contract: killed, repeated or
\* edited between any two steps, every command finds the first proposal and
\* what it was rejected for among the answers it replays.
THEOREM PreparationCorrectedOnce == Spec => []CorrectedOnce
<1>1. ASSUME PreparationInv PROVE CorrectedOnce
  <2> DEFINE calls == control.calls
             S == Sayings(calls)
  <2>1. LedgerOK(calls) /\ calls \in Seq(CallRecords) /\ Len(calls) \in Nat /\ Saved(S)
    BY <1>1, SayingsAreSaved DEF PreparationInv, ControlRecords
  <2> SUFFICES ASSUME NEW node \in Nodes, NEW k
               PROVE  Preparing!Cardinality(
                        {j \in Preparing!CallsOf(node) :
                           /\ calls[j].question.contract = k
                           /\ calls[j].answer \in Proposals[node]}) <= 2
    BY DEF CorrectedOnce, Preparing!CorrectedOnce, Preparing!Calls, Nodes
  <2> DEFINE J == {j \in Preparing!CallsOf(node) :
                     /\ calls[j].question.contract = k
                     /\ calls[j].answer \in Proposals[node]}
             First == {j \in J : calls[j].question.feedback = Preparing!None}
  <2>2. J \in SUBSET (1..Len(calls)) /\ First \in SUBSET J
        /\ \A j \in J : calls[j].question.node = node
    BY DEF Preparing!CallsOf, Preparing!Calls
  <2>3. ASSUME NEW j \in J
        PROVE  /\ calls[j].status # "reserved" /\ calls[j].question.stage = "author"
               /\ <<calls[j].question, calls[j].answer>> \in S
               /\ calls[j].answer # "context"
    <3>1. /\ calls[j].answer \in Proposals[node]
          /\ calls[j].answer \notin {Preparing!None, "context", "unusable", "stop",
               "approved", "revise", "malformed", "mismatch"}
      BY PreparationConstants DEF Preparing!PreparationAssumption, Nodes
    <3>2. calls[j].status # "reserved"
      BY <2>1, <2>2, <3>1 DEF LedgerOK
    <3>3. calls[j].answer \in AnswersAt(node, calls[j].question.stage)
      BY <2>1, <2>2, <3>2 DEF LedgerOK
    <3>4. calls[j].question.stage = "author"
      BY <3>1, <3>3 DEF AnswersAt
    <3>5. <<calls[j].question, calls[j].answer>> \in S
      BY <2>2, <3>2 DEF Sayings
    <3> QED
      BY <3>1, <3>2, <3>4, <3>5
  <2>4. ASSUME NEW i \in J, NEW j \in J, i \in First <=> j \in First
        PROVE  i = j
    <3>1. calls[i].question.feedback = Preparing!None
            <=> calls[j].question.feedback = Preparing!None
      BY <2>4
    <3>2. /\ calls[i].question.node = calls[j].question.node
          /\ calls[i].question.contract = calls[j].question.contract
      BY <2>2
    <3> HIDE DEF J, First, S, calls
    <3>3. calls[i].question = calls[j].question
      BY <2>1, <2>3, <3>1, <3>2, OneProposal
    <3>4. i \in 1..Len(calls) /\ j \in 1..Len(calls)
      BY <2>2
    <3>5. calls[i].status # "reserved" /\ calls[j].status # "reserved"
      BY <2>3
    <3>6. ~(i < j)
      BY <2>1, <3>3, <3>4, <3>5 DEF LedgerOK
    <3>7. ~(j < i)
      BY <2>1, <3>3, <3>4, <3>5 DEF LedgerOK
    <3> QED
      BY <2>1, <3>4, <3>6, <3>7
  <2>5. (\A i, j \in First : i = j) /\ \A i, j \in J \ First : i = j
    BY <2>2, <2>4
  <2> HIDE DEF J, First, S, calls
  <2>6. Preparing!Cardinality(J) <= 2
    BY <2>1, <2>2, <2>5, AtMostTwo
  <2> QED
    BY <2>6 DEF J, calls
<1> QED
  BY <1>1, PreparationInvariant, PTL

(***************************************************************************)
(* Amended plans.  An accepted plan can be delivered further because its   *)
(* units and groups are ordered together: what is first of that order, of  *)
(* all that is not done, may run.  It keeps its promises because an        *)
(* amendment puts the replacements exactly where the target was: in the    *)
(* lineage of whatever it descends from, and in the order between all that *)
(* it followed and all that followed it.  Both are recursive, so the       *)
(* lemmas are about functions that satisfy their equations.                *)
(***************************************************************************)
AllUnits == FirstUnits \cup Lineages!Later
UnitRecords(units) ==
    [after : SUBSET units, from : units \cup {Lineages!None}, into : SUBSET units]
PlanRecords(units) == [units -> UnitRecords(units)]

\* The units are the first ones, and the identities that were taken so far.
TakenUnits(k) == FirstUnits \cup {FreshUnits[i] : i \in 1..k}

IsLineage(up, shape) ==
    up = [u \in DOMAIN shape |->
            {u} \cup (IF shape[u].from = Lineages!None THEN {} ELSE up[shape[u].from])]
Grounded(shape) ==
    \A some \in (SUBSET DOMAIN shape) \ {{}} : \E u \in some : shape[u].from \notin some

IsBefore(before, shape) ==
    before = [u \in DOMAIN shape |->
                shape[u].after \cup UNION {before[d] : d \in shape[u].after}]

LineageTypes ==
    /\ \E k \in 0..Len(FreshUnits) : DOMAIN declared = TakenUnits(k)
    /\ declared \in PlanRecords(DOMAIN declared) /\ DOMAIN groups = Checkpoints
    /\ verdict \in [says : {"unchecked", "valid", "invalid", "refused"},
                    order : SUBSET (FirstUnits \X FirstUnits), owners : Owners]

FirstPlanned ==
    verdict.says = "unchecked" =>
        /\ DOMAIN declared = FirstUnits
        /\ \A u \in FirstUnits : declared[u].from = Lineages!None /\ declared[u].into = {}
        /\ constraint = verdict.owners /\ obligation = constraint

Promised ==
    Lineages!Accepted =>
        /\ Lineages!PlanHolds(declared, groups, constraint, obligation)
        /\ verdict.owners \subseteq FirstUnits
        /\ Lineages!PromisesSurvive

LineageInv ==
    /\ LineageTypes /\ FirstPlanned /\ Promised
    /\ Grounded(declared) /\ \E up : IsLineage(up, declared)

(* The lineage of a unit, and what comes before it.                        *)
LEMMA LineageIs ==
    ASSUME NEW shape, \E up : IsLineage(up, shape)
    PROVE  IsLineage(Lineages!Lineage(shape), shape)
<1> DEFINE up == CHOOSE f : f = [u \in DOMAIN shape |->
            {u} \cup (IF shape[u].from = Lineages!None THEN {} ELSE f[shape[u].from])]
<1>1. Lineages!Lineage(shape) = up
  BY DEF Lineages!Lineage
<1>2. \E f : f = [u \in DOMAIN shape |->
            {u} \cup (IF shape[u].from = Lineages!None THEN {} ELSE f[shape[u].from])]
  BY DEF IsLineage
<1>3. up = [u \in DOMAIN shape |->
            {u} \cup (IF shape[u].from = Lineages!None THEN {} ELSE up[shape[u].from])]
  BY <1>2, Zenon
<1> HIDE DEF up
<1> QED
  BY <1>1, <1>3 DEF IsLineage

LEMMA OneLineage ==
    ASSUME NEW shape, Grounded(shape), Lineages!None \notin DOMAIN shape,
           \A u \in DOMAIN shape : shape[u].from \in DOMAIN shape \cup {Lineages!None},
           NEW up, IsLineage(up, shape), NEW other, IsLineage(other, shape)
    PROVE  up = other
<1>1. /\ \A u \in DOMAIN shape :
           /\ up[u] = {u} \cup (IF shape[u].from = Lineages!None THEN {} ELSE up[shape[u].from])
           /\ other[u] = {u} \cup (IF shape[u].from = Lineages!None THEN {} ELSE other[shape[u].from])
      /\ up = [u \in DOMAIN shape |-> up[u]] /\ other = [u \in DOMAIN shape |-> other[u]]
  BY Zenon DEF IsLineage
<1> DEFINE some == {u \in DOMAIN shape : up[u] # other[u]}
<1>2. some = {}
  <2> SUFFICES ASSUME some # {} PROVE FALSE
    OBVIOUS
  <2>1. PICK u \in some : shape[u].from \notin some
    BY DEF Grounded
  <2>2. CASE shape[u].from = Lineages!None
    BY <1>1, <2>1, <2>2
  <2>3. CASE shape[u].from # Lineages!None
    <3>1. shape[u].from \in DOMAIN shape /\ up[shape[u].from] = other[shape[u].from]
      BY <2>1, <2>3
    <3>2. up[u] = {u} \cup up[shape[u].from] /\ other[u] = {u} \cup other[shape[u].from]
      BY <1>1, <2>1, <2>3
    <3> QED
      BY <2>1, <3>1, <3>2
  <2> QED
    BY <2>2, <2>3
<1>3. \A u \in DOMAIN shape : up[u] = other[u]
  BY <1>2
<1> QED
  BY <1>1, <1>3

\* What comes before a unit: the least set that has what the unit follows, and
\* what any member follows.
Closed(shape, u, set) ==
    shape[u].after \subseteq set /\ \A c \in set : shape[c].after \subseteq set

LEMMA BeforeExists ==
    ASSUME NEW shape, \A u \in DOMAIN shape : shape[u].after \subseteq DOMAIN shape
    PROVE  \E before : IsBefore(before, shape)
<1> DEFINE D == DOMAIN shape
           B(u) == {w \in D : \A set \in SUBSET D : Closed(shape, u, set) => w \in set}
           before == [u \in D |-> B(u)]
<1>1. ASSUME NEW u \in D
      PROVE  /\ shape[u].after \subseteq B(u)
             /\ \A c \in B(u) : shape[c].after \subseteq B(u)
             /\ B(u) \in SUBSET D
  BY DEF Closed
<1>2. ASSUME NEW u \in D PROVE B(u) = shape[u].after \cup UNION {B(d) : d \in shape[u].after}
  <2> DEFINE set == shape[u].after \cup UNION {B(d) : d \in shape[u].after}
  <2>1. shape[u].after \subseteq D
    OBVIOUS
  <2>2. set \in SUBSET D
    BY <1>1, <2>1
  <2>3. Closed(shape, u, set)
    <3>1. ASSUME NEW c \in set PROVE shape[c].after \subseteq set
      <4>1. CASE c \in shape[u].after
        BY <1>1, <2>1, <4>1
      <4>2. CASE c \notin shape[u].after
        <5>1. PICK d \in shape[u].after : c \in B(d)
          BY <4>2
        <5>2. shape[c].after \subseteq B(d)
          BY <1>1, <2>1, <5>1
        <5> QED
          BY <5>1, <5>2
      <4> QED
        BY <4>1, <4>2
    <3> QED
      BY <3>1 DEF Closed
  <2>4. B(u) \subseteq set
    BY <2>2, <2>3
  <2>5. ASSUME NEW d \in shape[u].after PROVE B(d) \subseteq B(u)
    <3>1. Closed(shape, d, B(u))
      BY <1>1 DEF Closed
    <3> QED
      BY <1>1, <2>1, <3>1
  <2> QED
    BY <1>1, <2>4, <2>5
<1> HIDE DEF B
<1>3. before = [u \in D |-> shape[u].after \cup UNION {before[d] : d \in shape[u].after}]
  <2>1. ASSUME NEW u \in D
        PROVE  {before[d] : d \in shape[u].after} = {B(d) : d \in shape[u].after}
    <3>1. shape[u].after \subseteq D
      OBVIOUS
    <3> QED
      BY <3>1
  <2> QED
    BY <1>2, <2>1
<1> QED
  BY <1>3 DEF IsBefore

LEMMA BeforeIs ==
    ASSUME NEW shape, \A u \in DOMAIN shape : shape[u].after \subseteq DOMAIN shape
    PROVE  IsBefore(Lineages!Before(shape), shape)
<1> DEFINE before == CHOOSE f : f = [u \in DOMAIN shape |->
                        shape[u].after \cup UNION {f[d] : d \in shape[u].after}]
<1>1. Lineages!Before(shape) = before
  BY DEF Lineages!Before
<1>2. \E f : f = [u \in DOMAIN shape |-> shape[u].after \cup UNION {f[d] : d \in shape[u].after}]
  BY BeforeExists, Zenon DEF IsBefore
<1>3. before = [u \in DOMAIN shape |->
                        shape[u].after \cup UNION {before[d] : d \in shape[u].after}]
  BY <1>2, Zenon
<1> HIDE DEF before
<1> QED
  BY <1>1, <1>3 DEF IsBefore

\* The order of a plan without a cycle.
BeforeHas(before, shape) ==
    \A u \in DOMAIN shape :
        /\ shape[u].after \subseteq before[u]
        /\ \A d \in shape[u].after : before[d] \subseteq before[u]
        /\ \A w \in before[u] : w \in shape[u].after \/ \E d \in shape[u].after : w \in before[d]

LEMMA BeforeUnfolds ==
    ASSUME NEW shape, NEW before, IsBefore(before, shape)
    PROVE  BeforeHas(before, shape)
<1>1. \A u \in DOMAIN shape :
        before[u] = shape[u].after \cup UNION {before[d] : d \in shape[u].after}
  BY Zenon DEF IsBefore
<1> QED
  BY <1>1 DEF BeforeHas

\* The first of some units of a plan without a cycle follows none of them.
LEMMA FirstOfSome ==
    ASSUME NEW shape, Lineages!DependenciesHold(shape), NEW some \in SUBSET DOMAIN shape, some # {}
    PROVE  \E u \in some : shape[u].after \cap some = {}
<1> DEFINE graph == [u \in DOMAIN shape |-> shape[u].after]
<1>1. Lineages!Acyclic(graph)
  BY DEF Lineages!DependenciesHold
<1>2. PICK u \in some : graph[u] \cap some = {}
  BY <1>1 DEF Lineages!Acyclic
<1> QED
  BY <1>2

LEMMA BeforeIsTransitive ==
    ASSUME NEW shape, Lineages!DependenciesHold(shape), NEW before, BeforeHas(before, shape),
           \A u \in DOMAIN shape : shape[u].after \subseteq DOMAIN shape
    PROVE  \A u \in DOMAIN shape : \A w \in before[u] : before[w] \subseteq before[u]
<1> DEFINE some == {u \in DOMAIN shape : \E w \in before[u] : ~ before[w] \subseteq before[u]}
<1> SUFFICES ASSUME some # {} PROVE FALSE
  OBVIOUS
<1>1. PICK u \in some : shape[u].after \cap some = {}
  BY FirstOfSome
<1>2. PICK w \in before[u] : ~ before[w] \subseteq before[u]
  OBVIOUS
<1>3. w \notin shape[u].after
  BY <1>1, <1>2 DEF BeforeHas
<1>4. PICK d \in shape[u].after : w \in before[d]
  BY <1>1, <1>2, <1>3 DEF BeforeHas
<1>5. d \in DOMAIN shape /\ d \notin some
  BY <1>1, <1>4
<1>6. before[w] \subseteq before[d]
  BY <1>4, <1>5
<1> QED
  BY <1>1, <1>2, <1>4, <1>6 DEF BeforeHas

LEMMA BeforeIsStrict ==
    ASSUME NEW shape, Lineages!DependenciesHold(shape), NEW before, BeforeHas(before, shape),
           \A u \in DOMAIN shape : shape[u].after \subseteq DOMAIN shape
    PROVE  \A u \in DOMAIN shape : u \notin before[u]
<1> DEFINE some == {u \in DOMAIN shape : u \in before[u]}
<1> SUFFICES ASSUME some # {} PROVE FALSE
  OBVIOUS
<1>1. PICK u \in some : shape[u].after \cap some = {}
  BY FirstOfSome
<1>2. u \notin shape[u].after
  BY <1>1
<1>3. PICK d \in shape[u].after : u \in before[d]
  BY <1>1, <1>2 DEF BeforeHas
<1>4. d \in DOMAIN shape /\ d \in before[u]
  BY <1>1, <1>3 DEF BeforeHas
<1>5. before[u] \subseteq before[d]
  BY <1>3, <1>4, BeforeIsTransitive
<1> QED
  BY <1>1, <1>3, <1>4, <1>5

(* A plan that was accepted goes on.                                       *)
LEMMA AcceptedGoesOn ==
    ASSUME LineageTypes, DOMAIN declared \cap Checkpoints = {},
           Lineages!PlanHolds(declared, groups, constraint, obligation),
           Lineages!Active(declared) \ delivered # {}
    PROVE  \E u \in DOMAIN declared : Lineages!Runnable(u)
<1> DEFINE active == Lineages!Active(declared)
           grouped == Lineages!Used(groups)
           graph == [n \in active \cup grouped |->
                        IF n \in grouped THEN groups[n].units \cup {k \in grouped : groups[k].parent = n}
                        ELSE declared[n].after \cup
                               {k \in grouped : n \in Lineages!Guarded(declared, groups[k].units)}]
           some == (active \ delivered) \cup {k \in grouped : ~ groups[k].units \subseteq delivered}
<1>1. Lineages!Acyclic(graph)
  BY DEF Lineages!PlanHolds, Lineages!GroupsHold, Lineages!Ordered
<1>2. /\ \A k \in grouped : groups[k].units \subseteq active
      /\ \A u \in active : declared[u].after \subseteq active
  BY DEF Lineages!PlanHolds, Lineages!GroupsHold, Lineages!ActiveHold
<1>3. active \subseteq DOMAIN declared
  BY DEF Lineages!Active
<1>4. some \in (SUBSET DOMAIN graph) \ {{}}
  OBVIOUS
<1>5. PICK n \in some : graph[n] \cap some = {}
  BY <1>1, <1>4 DEF Lineages!Acyclic
<1>6. n \notin grouped
  <2> SUFFICES ASSUME n \in grouped PROVE FALSE
    OBVIOUS
  <2>1. n \notin active
    BY <1>3 DEF LineageTypes, Lineages!Used
  <2>2. ~ groups[n].units \subseteq delivered
    BY <1>5, <2>1
  <2>3. groups[n].units \cap some = {}
    BY <1>5
  <2>4. groups[n].units \subseteq delivered
    BY <1>2, <2>3
  <2> QED
    BY <2>2, <2>4
<1>7. n \in active \ delivered
  BY <1>5, <1>6
<1>8. graph[n] = declared[n].after \cup
                   {k \in grouped : n \in Lineages!Guarded(declared, groups[k].units)}
  BY <1>6, <1>7
<1>9. declared[n].after \subseteq delivered
  BY <1>2, <1>5, <1>7, <1>8
<1>10. ASSUME NEW k \in Checkpoints, n \in Lineages!Guarded(declared, groups[k].units)
       PROVE  groups[k].units \subseteq delivered
  <2>1. k \in grouped
    BY <1>10 DEF LineageTypes, Lineages!Used, Lineages!Guarded
  <2> QED
    BY <1>5, <1>8, <1>10, <2>1
<1> QED
  BY <1>3, <1>7, <1>9, <1>10 DEF Lineages!Runnable

(* What an amendment makes of a plan.                                      *)
\* The replacements are units that the plan did not have.
Amending(t, new, draft) ==
    /\ t \in Lineages!Active(declared) /\ new # {} /\ new \cap DOMAIN declared = {}
    /\ Lineages!None \notin DOMAIN declared \cup new
    /\ draft \in [new -> SUBSET new] /\ declared \in PlanRecords(DOMAIN declared)

AmendedHas(t, new, draft, shape) ==
    /\ DOMAIN shape = DOMAIN declared \cup new /\ t \in DOMAIN declared
    /\ shape \in PlanRecords(DOMAIN shape)
    /\ \A u \in new : shape[u] = Lineages!Replacement(t, draft[u])
    /\ \A u \in DOMAIN declared :
         /\ shape[u].from = declared[u].from
         /\ shape[u].into = IF u = t THEN new ELSE declared[u].into
         /\ u \in Lineages!Active(declared) \ {t} =>
              shape[u].after = Lineages!Swap(declared[u].after, t, Lineages!DraftLeaves(draft))
    /\ Lineages!Active(shape) = (Lineages!Active(declared) \ {t}) \cup new

LEMMA AmendedPlan ==
    ASSUME NEW t, NEW new, NEW draft, Amending(t, new, draft), NEW shape,
           shape = Lineages!Amended(t, draft)
    PROVE  AmendedHas(t, new, draft, shape)
<1>1. /\ t \in DOMAIN declared /\ declared[t].into = {} /\ new \cap DOMAIN declared = {}
      /\ DOMAIN draft = new /\ new # {} /\ Lineages!None \notin DOMAIN declared \cup new
  BY DEF Amending, Lineages!Active
<1>2. /\ DOMAIN shape = DOMAIN declared \cup new
      /\ \A u \in DOMAIN declared \cup new : shape[u] =
            IF u \in new THEN Lineages!Replacement(t, draft[u])
            ELSE IF u = t THEN [declared[t] EXCEPT !.into = new]
            ELSE IF declared[u].into # {} THEN declared[u]
            ELSE [declared[u] EXCEPT !.after = Lineages!Swap(@, t, Lineages!DraftLeaves(draft))]
      /\ shape = [u \in DOMAIN declared \cup new |-> shape[u]]
  BY <1>1 DEF Lineages!Amended
<1> DEFINE D == DOMAIN declared
           D2 == DOMAIN declared \cup new
<1>3. \A u \in D : declared[u] \in UnitRecords(D)
  BY DEF Amending, PlanRecords
<1>4. Lineages!DraftLeaves(draft) \subseteq new
  BY <1>1 DEF Lineages!DraftLeaves
<1>5. ASSUME NEW u \in new
      PROVE  shape[u] \in UnitRecords(D2) /\ shape[u].into = {} /\ shape[u] = Lineages!Replacement(t, draft[u])
  <2>1. shape[u] = Lineages!Replacement(t, draft[u])
    BY <1>2
  <2>2. draft[u] \in SUBSET new /\ declared[t].after \in SUBSET D
    BY <1>1, <1>3 DEF Amending, UnitRecords
  <2> QED
    BY <1>1, <2>1, <2>2 DEF UnitRecords, Lineages!Replacement
<1>6. ASSUME NEW u \in D
      PROVE  /\ shape[u] \in UnitRecords(D2) /\ shape[u].from = declared[u].from
             /\ shape[u].into = IF u = t THEN new ELSE declared[u].into
             /\ u # t /\ declared[u].into = {} =>
                  shape[u].after = Lineages!Swap(declared[u].after, t, Lineages!DraftLeaves(draft))
  <2>1. u \notin new /\ declared[u] \in UnitRecords(D)
    BY <1>1, <1>3
  <2>2. CASE u = t
    <3>1. shape[u] = [declared[u] EXCEPT !.into = new]
      BY <1>2, <2>1, <2>2
    <3> QED
      BY <2>1, <2>2, <3>1 DEF UnitRecords
  <2>3. CASE u # t /\ declared[u].into # {}
    <3>1. shape[u] = declared[u]
      BY <1>2, <2>1, <2>3
    <3> QED
      BY <2>1, <2>3, <3>1 DEF UnitRecords
  <2>4. CASE u # t /\ declared[u].into = {}
    <3> DEFINE after == Lineages!Swap(declared[u].after, t, Lineages!DraftLeaves(draft))
    <3>1. shape[u] = [declared[u] EXCEPT !.after = after]
      BY <1>2, <2>1, <2>4
    <3>2. after \in SUBSET D2
      BY <1>4, <2>1 DEF UnitRecords, Lineages!Swap
    <3> HIDE DEF after
    <3>3. /\ shape[u] \in UnitRecords(D2) /\ shape[u].from = declared[u].from
          /\ shape[u].into = declared[u].into /\ shape[u].after = after
      BY <2>1, <3>1, <3>2 DEF UnitRecords
    <3> QED
      BY <2>4, <3>3 DEF after
  <2> QED
    BY <2>2, <2>3, <2>4
<1>7. Lineages!Active(shape) = (Lineages!Active(declared) \ {t}) \cup new
  BY <1>1, <1>2, <1>5, <1>6 DEF Lineages!Active
<1>8. shape \in PlanRecords(DOMAIN shape)
  BY <1>2, <1>5, <1>6 DEF PlanRecords
<1> QED
  BY <1>1, <1>2, <1>5, <1>6, <1>7, <1>8 DEF Lineages!Active, AmendedHas

(* The lineage goes on.                                                    *)
LEMMA LineageGoesOn ==
    ASSUME NEW t, NEW new, NEW draft, Amending(t, new, draft), NEW shape,
           shape = Lineages!Amended(t, draft),
           Grounded(declared), \E up : IsLineage(up, declared)
    PROVE  /\ Grounded(shape) /\ \E up : IsLineage(up, shape)
           /\ \A u \in DOMAIN declared : Lineages!Lineage(shape)[u] = Lineages!Lineage(declared)[u]
           /\ \A u \in new : Lineages!Lineage(shape)[u] = {u} \cup Lineages!Lineage(declared)[t]
<1>1. /\ DOMAIN shape = DOMAIN declared \cup new /\ t \in DOMAIN declared
      /\ new \cap DOMAIN declared = {} /\ Lineages!None \notin DOMAIN shape
      /\ \A u \in new : shape[u].from = t
      /\ \A u \in DOMAIN declared : shape[u].from = declared[u].from
      /\ \A u \in DOMAIN declared : declared[u].from \in DOMAIN declared \cup {Lineages!None}
      /\ \A u \in DOMAIN shape : shape[u].from \in DOMAIN shape \cup {Lineages!None}
  <2>1. /\ DOMAIN shape = DOMAIN declared \cup new /\ t \in DOMAIN declared
        /\ shape \in PlanRecords(DOMAIN shape)
        /\ \A u \in new : shape[u] = Lineages!Replacement(t, draft[u])
        /\ \A u \in DOMAIN declared : shape[u].from = declared[u].from
    <3>1. AmendedHas(t, new, draft, shape)
      BY AmendedPlan
    <3> QED
      BY <3>1 DEF AmendedHas
  <2>2. new \cap DOMAIN declared = {} /\ Lineages!None \notin DOMAIN declared \cup new
    BY DEF Amending
  <2>3. \A u \in new : shape[u].from = t
    BY <2>1 DEF Lineages!Replacement
  <2>4. \A u \in DOMAIN declared : declared[u].from \in DOMAIN declared \cup {Lineages!None}
    BY DEF Amending, PlanRecords, UnitRecords
  <2>5. \A u \in DOMAIN shape : shape[u].from \in DOMAIN shape \cup {Lineages!None}
    BY <2>1 DEF PlanRecords, UnitRecords
  <2> QED
    BY <2>1, <2>2, <2>3, <2>4, <2>5
<1>2. Grounded(shape)
  <2> SUFFICES ASSUME NEW some \in (SUBSET DOMAIN shape) \ {{}}
               PROVE  \E u \in some : shape[u].from \notin some
    BY DEF Grounded
  <2>1. CASE some \cap DOMAIN declared = {}
    BY <1>1, <2>1
  <2>2. CASE some \cap DOMAIN declared # {}
    <3>1. PICK u \in some \cap DOMAIN declared : declared[u].from \notin some \cap DOMAIN declared
      BY <2>2 DEF Grounded
    <3> QED
      BY <1>1, <3>1
  <2> QED
    BY <2>1, <2>2
<1> DEFINE up == Lineages!Lineage(declared)
           next == [u \in DOMAIN shape |-> IF u \in new THEN {u} \cup up[t] ELSE up[u]]
<1>3. IsLineage(up, declared)
  BY LineageIs
<1> HIDE DEF up
<1>4. \A u \in DOMAIN declared :
        up[u] = {u} \cup (IF declared[u].from = Lineages!None THEN {} ELSE up[declared[u].from])
  BY <1>3, Zenon DEF IsLineage
<1>5. ASSUME NEW u \in DOMAIN shape
      PROVE  next[u] = {u} \cup (IF shape[u].from = Lineages!None THEN {} ELSE next[shape[u].from])
  <2>1. CASE u \in new
    <3>1. shape[u].from = t /\ t # Lineages!None /\ next[t] = up[t] /\ next[u] = {u} \cup up[t]
      BY <1>1, <2>1
    <3> HIDE DEF next
    <3> QED
      BY <3>1
  <2>2. CASE u \notin new
    <3>1. u \in DOMAIN declared /\ next[u] = up[u] /\ shape[u].from = declared[u].from
      BY <1>1, <2>2
    <3>2. CASE declared[u].from = Lineages!None
      <4> HIDE DEF next
      <4> QED
        BY <1>4, <3>1, <3>2
    <3>3. CASE declared[u].from # Lineages!None
      <4>1. declared[u].from \in DOMAIN declared /\ next[declared[u].from] = up[declared[u].from]
        BY <1>1, <3>1, <3>3
      <4> HIDE DEF next
      <4> QED
        BY <1>4, <3>1, <3>3, <4>1
    <3> QED
      BY <3>2, <3>3
  <2> QED
    BY <2>1, <2>2
<1>6. next = [u \in DOMAIN shape |-> next[u]]
  OBVIOUS
<1>7. \A u \in DOMAIN declared : next[u] = up[u]
  BY <1>1
<1>8. \A u \in new : next[u] = {u} \cup up[t]
  BY <1>1
<1> HIDE DEF next
<1>9. next = [u \in DOMAIN shape |->
                {u} \cup (IF shape[u].from = Lineages!None THEN {} ELSE next[shape[u].from])]
  BY <1>5, <1>6
<1>10. IsLineage(next, shape)
  BY <1>9 DEF IsLineage
<1>11. IsLineage(Lineages!Lineage(shape), shape)
  BY <1>10, LineageIs
<1>12. Lineages!Lineage(shape) = next
  BY <1>1, <1>2, <1>10, <1>11, OneLineage
<1> QED
  BY <1>2, <1>7, <1>8, <1>10, <1>12 DEF up

(* The order goes on: an amended plan without a cycle orders what replaced *)
(* a unit like the unit.                                                   *)
Reordered(t, new, draft, shape, before) ==
    /\ Amending(t, new, draft) /\ shape = Lineages!Amended(t, draft)
    /\ Lineages!DependenciesHold(shape) /\ BeforeHas(before, shape)

ReorderedHas(t, new, draft, shape, before) ==
    /\ DOMAIN shape = DOMAIN declared \cup new /\ t \in DOMAIN declared /\ t \notin new
    /\ \A u \in DOMAIN shape : shape[u].after \subseteq DOMAIN shape
    /\ \A u \in DOMAIN declared : declared[u].after \subseteq DOMAIN declared
    /\ \A u \in new : draft[u] \subseteq new
    /\ \A u \in new : shape[u].after = IF draft[u] = {} THEN declared[t].after ELSE draft[u]
    /\ \A u \in Lineages!Active(declared) \ {t} :
         shape[u].after = Lineages!Swap(declared[u].after, t, Lineages!DraftLeaves(draft))
    /\ \A u \in DOMAIN shape : \A w \in before[u] : before[w] \subseteq before[u]
    /\ \A u \in DOMAIN shape : u \notin before[u]
    /\ DOMAIN draft = new

LEMMA ReorderedPlan ==
    ASSUME NEW t, NEW new, NEW draft, NEW shape, NEW before, Reordered(t, new, draft, shape, before)
    PROVE  ReorderedHas(t, new, draft, shape, before)
<1>1. /\ DOMAIN shape = DOMAIN declared \cup new /\ t \in DOMAIN declared
      /\ shape \in PlanRecords(DOMAIN shape)
      /\ \A u \in new : shape[u] = Lineages!Replacement(t, draft[u])
      /\ \A u \in Lineages!Active(declared) \ {t} :
            shape[u].after = Lineages!Swap(declared[u].after, t, Lineages!DraftLeaves(draft))
  <2>1. AmendedHas(t, new, draft, shape)
    BY AmendedPlan DEF Reordered
  <2>2. Lineages!Active(declared) \subseteq DOMAIN declared
    BY DEF Lineages!Active
  <2> QED
    BY <2>1, <2>2 DEF AmendedHas
<1>2. t \notin new /\ draft \in [new -> SUBSET new]
  BY <1>1 DEF Reordered, Amending
<1>3. \A u \in DOMAIN shape : shape[u].after \subseteq DOMAIN shape
  BY <1>1 DEF PlanRecords, UnitRecords
<1>4. \A u \in DOMAIN declared : declared[u].after \subseteq DOMAIN declared
  BY DEF Reordered, Amending, PlanRecords, UnitRecords
<1>5. \A u \in new : shape[u].after = IF draft[u] = {} THEN declared[t].after ELSE draft[u]
  BY <1>1 DEF Lineages!Replacement
<1>6. /\ \A u \in DOMAIN shape : \A w \in before[u] : before[w] \subseteq before[u]
      /\ \A u \in DOMAIN shape : u \notin before[u]
  BY <1>3, BeforeIsTransitive, BeforeIsStrict DEF Reordered
<1> QED
  BY <1>1, <1>2, <1>3, <1>4, <1>5, <1>6 DEF ReorderedHas

\* Each replacement follows, itself or by others, all that the target followed.
LEMMA RootsInherit ==
    ASSUME NEW t, NEW new, NEW draft, NEW shape, NEW before, Reordered(t, new, draft, shape, before)
    PROVE  \A u \in new : /\ declared[t].after \subseteq before[u]
                          /\ \A d \in declared[t].after : before[d] \subseteq before[u]
<1>0. /\ DOMAIN shape = DOMAIN declared \cup new
      /\ \A u \in new : draft[u] \subseteq new
      /\ \A u \in new : shape[u].after = IF draft[u] = {} THEN declared[t].after ELSE draft[u]
  <2>1. ReorderedHas(t, new, draft, shape, before)
    BY ReorderedPlan
  <2> QED
    BY <2>1 DEF ReorderedHas
<1> DEFINE inherits(u) == /\ declared[t].after \subseteq before[u]
                          /\ \A d \in declared[t].after : before[d] \subseteq before[u]
           some == {u \in new : ~ inherits(u)}
<1> SUFFICES ASSUME some # {} PROVE FALSE
  OBVIOUS
<1>1. PICK u \in some : shape[u].after \cap some = {}
  BY <1>0, FirstOfSome DEF Reordered
<1>2. u \in DOMAIN shape /\ u \in new
  BY <1>0
<1>3. /\ shape[u].after \subseteq before[u]
      /\ \A d \in shape[u].after : before[d] \subseteq before[u]
  BY <1>2 DEF Reordered, BeforeHas
<1>4. CASE draft[u] = {}
  BY <1>0, <1>2, <1>3, <1>4
<1>5. CASE draft[u] # {}
  <2>1. PICK e \in draft[u] : e \in new /\ e \in shape[u].after
    BY <1>0, <1>2, <1>5
  <2>2. inherits(e) /\ before[e] \subseteq before[u]
    BY <1>1, <1>3, <2>1
  <2> QED
    BY <1>2, <2>2
<1> QED
  BY <1>4, <1>5

\* Each replacement is followed, directly or by others, by one that no other
\* follows, so what follows those follows all.
LEMMA LeavesFollow ==
    ASSUME NEW t, NEW new, NEW draft, NEW shape, NEW before, Reordered(t, new, draft, shape, before),
           IsFiniteSet(new), NEW u \in DOMAIN shape,
           Lineages!DraftLeaves(draft) \subseteq before[u]
    PROVE  new \subseteq before[u]
<1>0. /\ DOMAIN shape = DOMAIN declared \cup new /\ DOMAIN draft = new
      /\ \A v \in new : draft[v] \subseteq new
      /\ \A v \in new : shape[v].after = IF draft[v] = {} THEN declared[t].after ELSE draft[v]
      /\ \A v \in DOMAIN shape : \A w \in before[v] : before[w] \subseteq before[v]
      /\ \A v \in DOMAIN shape : v \notin before[v]
  <2>1. ReorderedHas(t, new, draft, shape, before)
    BY ReorderedPlan
  <2> QED
    BY <2>1 DEF ReorderedHas
<1> DEFINE some == new \ before[u]
           above == {some \ before[v] : v \in some}
<1> SUFFICES ASSUME some # {} PROVE FALSE
  OBVIOUS
<1>1. above \subseteq FiniteSubsetsOf(some) /\ above # {}
  <2>1. IsFiniteSet(some)
    BY FS_Subset
  <2>2. \A v \in some : IsFiniteSet(some \ before[v])
    BY <2>1, FS_Subset
  <2> QED
    BY <2>2 DEF FiniteSubsetsOf
<1>2. PICK least \in above : \A set \in above : ~ (<<set, least>> \in StrictSubsetOrdering(some))
  BY <1>1, FS_StrictSubsetOrderingWellFounded, WFMin
<1>3. PICK v \in some : least = some \ before[v]
  BY <1>2
<1>4. PICK w \in new : v \in draft[w]
  <2>1. v \notin Lineages!DraftLeaves(draft)
    BY <1>3
  <2> QED
    BY <1>0, <1>3, <2>1 DEF Lineages!DraftLeaves
<1>5. v \in before[w]
  <2>1. v \in shape[w].after /\ w \in DOMAIN shape
    BY <1>0, <1>4
  <2> QED
    BY <2>1 DEF Reordered, BeforeHas
<1>6. w \in some
  <2> SUFFICES ASSUME w \in before[u] PROVE FALSE
    OBVIOUS
  <2>1. before[w] \subseteq before[u]
    BY <1>0
  <2> QED
    BY <1>3, <1>5, <2>1
<1>7. before[v] \subseteq before[w] /\ v \notin before[v]
  BY <1>0, <1>3, <1>4, <1>5
<1>8. (some \ before[w]) \subseteq least /\ v \in least /\ v \notin some \ before[w]
  BY <1>3, <1>5, <1>7
<1>9. <<some \ before[w], least>> \in StrictSubsetOrdering(some)
  BY <1>3, <1>8 DEF StrictSubsetOrdering
<1> QED
  BY <1>2, <1>6, <1>9

\* What has become of a unit by an amendment.
Became(x, t, new) == IF x = t THEN new ELSE {x}

LEMMA OrderGoesOn ==
    ASSUME NEW t, NEW new, NEW draft, NEW shape, NEW after2, Reordered(t, new, draft, shape, after2),
           IsFiniteSet(new), Lineages!DraftLeaves(draft) # {},
           Lineages!DependenciesHold(declared), Lineages!ActiveHold(declared),
           NEW before, BeforeHas(before, declared)
    PROVE  \A x \in Lineages!Active(declared) : \A y \in before[x] \cap Lineages!Active(declared) :
             \A v \in Became(x, t, new) : Became(y, t, new) \subseteq after2[v]
<1>0. /\ DOMAIN shape = DOMAIN declared \cup new /\ t \in DOMAIN declared /\ t \notin new
      /\ \A u \in Lineages!Active(declared) \ {t} :
                shape[u].after = Lineages!Swap(declared[u].after, t, Lineages!DraftLeaves(draft))
      /\ DOMAIN draft = new
  <2>1. ReorderedHas(t, new, draft, shape, after2)
    BY ReorderedPlan
  <2> QED
    BY <2>1 DEF ReorderedHas
<1> DEFINE active == Lineages!Active(declared)
           kept(x) == \A y \in before[x] \cap active :
                        \A v \in Became(x, t, new) : Became(y, t, new) \subseteq after2[v]
           some == {x \in active : ~ kept(x)}
<1> SUFFICES ASSUME some # {} PROVE FALSE
  OBVIOUS
<1>1. active \subseteq DOMAIN declared
  BY DEF Lineages!Active
<1>2. PICK x \in some : declared[x].after \cap some = {}
  BY <1>1, FirstOfSome
<1>3. declared[x].after \subseteq active /\ x \in DOMAIN declared /\ x \in active
  BY <1>1, <1>2 DEF Lineages!ActiveHold
<1> SUFFICES kept(x)
  BY <1>2
<1> SUFFICES ASSUME NEW y \in before[x] \cap active, NEW v \in Became(x, t, new)
             PROVE  Became(y, t, new) \subseteq after2[v]
  OBVIOUS
<1>4. PICK d \in declared[x].after : y = d \/ y \in before[d]
  BY <1>3 DEF BeforeHas
<1>5. d \in active /\ kept(d)
  BY <1>2, <1>3, <1>4
<1>6. CASE x = t
  <2>1. v \in new
    BY <1>6 DEF Became
  <2>2. d \in after2[v] /\ after2[d] \subseteq after2[v]
    BY <1>4, <1>6, <2>1, RootsInherit
  <2>3. d # t
    <3>1. {t} \in SUBSET DOMAIN declared /\ {t} # {}
      BY <1>0
    <3>2. PICK u \in {t} : declared[u].after \cap {t} = {}
      BY <3>1, FirstOfSome
    <3> QED
      BY <1>4, <1>6, <3>2
  <2>4. CASE y = d
    BY <2>2, <2>3, <2>4 DEF Became
  <2>5. CASE y \in before[d]
    <3>1. Became(y, t, new) \subseteq after2[d]
      BY <1>5, <2>3, <2>5 DEF Became
    <3> QED
      BY <2>2, <3>1
  <2> QED
    BY <1>4, <2>4, <2>5
<1>7. CASE x # t
  <2>1. v = x /\ v \in DOMAIN shape
    BY <1>0, <1>3, <1>7 DEF Became
  <2>2. shape[x].after = Lineages!Swap(declared[x].after, t, Lineages!DraftLeaves(draft))
    BY <1>0, <1>3, <1>7
  <2>3. /\ shape[v].after \subseteq after2[v]
        /\ \A e \in shape[v].after : after2[e] \subseteq after2[v]
    BY <2>1 DEF Reordered, BeforeHas
  <2>4. CASE d # t
    <3>1. d \in shape[v].after
      BY <1>4, <2>1, <2>2, <2>4 DEF Lineages!Swap
    <3>2. CASE y = d
      BY <2>3, <2>4, <3>1, <3>2 DEF Became
    <3>3. CASE y \in before[d]
      <4>1. Became(y, t, new) \subseteq after2[d]
        BY <1>5, <2>4, <3>3 DEF Became
      <4> QED
        BY <2>3, <3>1, <4>1
    <3> QED
      BY <1>4, <3>2, <3>3
  <2>5. CASE d = t
    <3>1. Lineages!DraftLeaves(draft) \subseteq shape[v].after
      BY <1>4, <2>1, <2>2, <2>5 DEF Lineages!Swap
    <3>2. CASE y = d
      <4>1. new \subseteq after2[v]
        BY <2>1, <2>3, <3>1, LeavesFollow
      <4> QED
        BY <2>5, <3>2, <4>1 DEF Became
    <3>3. CASE y \in before[d]
      <4>1. PICK leaf \in Lineages!DraftLeaves(draft) : TRUE
        OBVIOUS
      <4>2. leaf \in new
        BY <1>0, <4>1 DEF Lineages!DraftLeaves
      <4>3. Became(y, t, new) \subseteq after2[leaf]
        BY <1>5, <2>5, <3>3, <4>2 DEF Became
      <4> QED
        BY <2>3, <3>1, <4>1, <4>3
    <3> QED
      BY <1>4, <3>2, <3>3
  <2> QED
    BY <2>4, <2>5
<1> QED
  BY <1>6, <1>7

(* The promises.                                                           *)
Descends(x, shape) == {v \in Lineages!Active(shape) : x \in Lineages!Lineage(shape)[v]}

LEMMA DescendantsAre ==
    /\ \A x : Lineages!Descendants(x) = Descends(x, declared)
    /\ \A x : Lineages!Descendants(x)' = Descends(x, declared')
BY DEF Lineages!Descendants, Descends, Lineages!Active, Lineages!Lineage

LEMMA DescendantsGoOn ==
    ASSUME NEW t, NEW new, NEW draft, Amending(t, new, draft), NEW shape,
           shape = Lineages!Amended(t, draft),
           Grounded(declared), \E up : IsLineage(up, declared), NEW x \in DOMAIN declared
    PROVE  Descends(x, shape) = Lineages!Swap(Descends(x, declared), t, new)
<1>1. AmendedHas(t, new, draft, shape)
  BY AmendedPlan
<1>2. /\ Lineages!Active(shape) = (Lineages!Active(declared) \ {t}) \cup new
      /\ t \in Lineages!Active(declared) /\ new \cap DOMAIN declared = {}
      /\ Lineages!Active(declared) \subseteq DOMAIN declared
  BY <1>1 DEF AmendedHas, Amending, Lineages!Active
<1>3. /\ \A u \in DOMAIN declared : Lineages!Lineage(shape)[u] = Lineages!Lineage(declared)[u]
      /\ \A u \in new : Lineages!Lineage(shape)[u] = {u} \cup Lineages!Lineage(declared)[t]
  BY LineageGoesOn
<1> HIDE DEF Descends
<1>4. ASSUME NEW v
      PROVE  v \in Descends(x, shape) <=> v \in Lineages!Swap(Descends(x, declared), t, new)
  <2>1. CASE v \in new
    BY <1>2, <1>3, <2>1 DEF Descends, Lineages!Swap
  <2>2. CASE v \notin new
    BY <1>2, <1>3, <2>2 DEF Descends, Lineages!Swap
  <2> QED
    BY <2>1, <2>2
<1> QED
  BY <1>4

LEMMA PromisesGoOn ==
    ASSUME NEW t, NEW new, NEW draft, Amending(t, new, draft), IsFiniteSet(new), NEW shape,
           shape = Lineages!Amended(t, draft), declared' = shape, verdict'.order = verdict.order,
           verdict'.owners = verdict.owners, NEW part \in (SUBSET new) \ {{}},
           constraint' = Lineages!Swap(constraint, t, new),
           obligation' = Lineages!Swap(obligation, t, part),
           Lineages!DraftLeaves(draft) # {}, Lineages!DependenciesHold(shape),
           Lineages!DependenciesHold(declared), Lineages!ActiveHold(declared),
           Grounded(declared), \E up : IsLineage(up, declared),
           FirstUnits \subseteq DOMAIN declared, verdict.owners \subseteq FirstUnits,
           verdict.order \subseteq FirstUnits \X FirstUnits,
           Lineages!Accepted, Lineages!PromisesSurvive
    PROVE  Lineages!PromisesSurvive'
<1>1. \A x \in FirstUnits : Descends(x, shape) = Lineages!Swap(Descends(x, declared), t, new)
  BY DescendantsGoOn
<1>2. /\ \A pair \in verdict.order : \A u \in Descends(pair[2], declared) :
           Descends(pair[1], declared) \subseteq Lineages!Before(declared)[u]
      /\ constraint = UNION {Descends(u, declared) : u \in verdict.owners}
      /\ \A u \in verdict.owners : Descends(u, declared) \cap obligation # {}
  BY DescendantsAre DEF Lineages!PromisesSurvive, Lineages!OrderSurvives, Lineages!RequirementsSurvive
<1>3. AmendedHas(t, new, draft, shape)
  BY AmendedPlan
<1>4. /\ BeforeHas(Lineages!Before(declared), declared)
      /\ BeforeHas(Lineages!Before(shape), shape)
  <2>1. \A u \in DOMAIN declared : declared[u].after \subseteq DOMAIN declared
    BY DEF Amending, PlanRecords, UnitRecords
  <2>2. \A u \in DOMAIN shape : shape[u].after \subseteq DOMAIN shape
    BY <1>3 DEF AmendedHas, PlanRecords, UnitRecords
  <2> QED
    BY <2>1, <2>2, BeforeIs, BeforeUnfolds
<1>5. Reordered(t, new, draft, shape, Lineages!Before(shape))
  BY <1>4 DEF Reordered
<1>6. \A x \in Lineages!Active(declared) :
        \A y \in Lineages!Before(declared)[x] \cap Lineages!Active(declared) :
          \A v \in Became(x, t, new) : Became(y, t, new) \subseteq Lineages!Before(shape)[v]
  BY <1>4, <1>5, OrderGoesOn
<1>7. ASSUME NEW pair \in verdict.order, NEW u \in Descends(pair[2], shape),
             NEW w \in Descends(pair[1], shape)
      PROVE  w \in Lineages!Before(shape)[u]
  <2>1. pair[1] \in FirstUnits /\ pair[2] \in FirstUnits
    OBVIOUS
  <2>2. \A z \in FirstUnits : \A v \in Descends(z, shape) :
          \E x \in Descends(z, declared) : v \in Became(x, t, new)
    BY <1>1 DEF Lineages!Swap, Became
  <2>3. PICK x \in Descends(pair[2], declared) : u \in Became(x, t, new)
    BY <2>1, <2>2
  <2>4. PICK y \in Descends(pair[1], declared) : w \in Became(y, t, new)
    BY <2>1, <2>2
  <2>5. y \in Lineages!Before(declared)[x]
    BY <1>2, <2>3, <2>4
  <2>6. x \in Lineages!Active(declared) /\ y \in Lineages!Active(declared)
    BY <2>3, <2>4 DEF Descends
  <2> QED
    BY <1>6, <2>3, <2>4, <2>5, <2>6
<1>8. constraint' = UNION {Descends(u, shape) : u \in verdict.owners}
  <2>1. \A u \in verdict.owners : Descends(u, shape) = Lineages!Swap(Descends(u, declared), t, new)
    BY <1>1
  <2>2. UNION {Descends(u, shape) : u \in verdict.owners}
          = UNION {Lineages!Swap(Descends(u, declared), t, new) : u \in verdict.owners}
    BY <2>1
  <2> DEFINE all == UNION {Descends(u, declared) : u \in verdict.owners}
             moved2 == UNION {Lineages!Swap(Descends(u, declared), t, new) : u \in verdict.owners}
  <2>3. t \notin new
    BY <1>3 DEF AmendedHas, Amending
  <2>4. moved2 = Lineages!Swap(all, t, new)
    <3>1. ASSUME NEW w PROVE w \in moved2 <=> w \in Lineages!Swap(all, t, new)
      <4>1. w \in moved2 <=> \E u \in verdict.owners : w \in Lineages!Swap(Descends(u, declared), t, new)
        OBVIOUS
      <4>2. w \in all <=> \E u \in verdict.owners : w \in Descends(u, declared)
        OBVIOUS
      <4>3. t \in all <=> \E u \in verdict.owners : t \in Descends(u, declared)
        OBVIOUS
      <4> HIDE DEF moved2, all
      <4> QED
        BY <2>3, <4>1, <4>2, <4>3 DEF Lineages!Swap
    <3> HIDE DEF moved2, all
    <3> QED
      BY <3>1
  <2> QED
    BY <1>2, <2>2, <2>4
<1>9. \A u \in verdict.owners : Descends(u, shape) \cap obligation' # {}
  <2> SUFFICES ASSUME NEW u \in verdict.owners PROVE Descends(u, shape) \cap obligation' # {}
    OBVIOUS
  <2>1. PICK w \in Descends(u, declared) : w \in obligation
    BY <1>2
  <2>2. Descends(u, shape) = Lineages!Swap(Descends(u, declared), t, new)
    BY <1>1
  <2>3. CASE w = t
    BY <2>1, <2>2, <2>3 DEF Lineages!Swap
  <2>4. CASE w # t
    BY <2>1, <2>2, <2>4 DEF Lineages!Swap
  <2> QED
    BY <2>3, <2>4
<1>10. Lineages!Before(declared)' = Lineages!Before(shape)
  BY DEF Lineages!Before
<1>11. \A pair \in verdict'.order : \A u \in Lineages!Descendants(pair[2])' :
          Lineages!Descendants(pair[1])' \subseteq Lineages!Before(declared)'[u]
  <2>1. \A x : Lineages!Descendants(x)' = Descends(x, shape)
    BY DescendantsAre
  <2> QED
    BY <1>7, <1>10, <2>1
<1>12. /\ constraint' = UNION {Lineages!Descendants(u)' : u \in verdict'.owners}
       /\ \A u \in verdict'.owners : Lineages!Descendants(u)' \cap obligation' # {}
  BY <1>8, <1>9, DescendantsAre
<1> QED
  BY <1>11, <1>12 DEF Lineages!PromisesSurvive, Lineages!OrderSurvives, Lineages!RequirementsSurvive

(* The identities of replacements are new.                                 *)
LEMMA UnitsTaken ==
    ASSUME NEW k \in 0..Len(FreshUnits)
    PROVE  /\ Cardinality(TakenUnits(k) \ FirstUnits) = k
           /\ TakenUnits(k) \subseteq AllUnits /\ FirstUnits \subseteq TakenUnits(k)
           /\ Lineages!None \notin AllUnits /\ AllUnits \cap Checkpoints = {}
           /\ TakenUnits(0) = FirstUnits
<1> DEFINE taken == {FreshUnits[i] : i \in 1..k}
<1>1. /\ FreshUnits \in Seq(Lineages!Later) /\ FirstUnits \cap Lineages!Later = {}
      /\ (FirstUnits \cup Lineages!Later) \cap Checkpoints = {}
      /\ Lineages!None \notin FirstUnits \cup Lineages!Later
      /\ \A i, j \in DOMAIN FreshUnits : FreshUnits[i] = FreshUnits[j] => i = j
  BY ComponentConstants DEF Lineages!LineageAssumption
<1>2. 1..k \subseteq DOMAIN FreshUnits /\ k \in Nat
  BY <1>1
<1>3. taken \subseteq Lineages!Later
  BY <1>2 DEF Lineages!Later
<1>4. Cardinality(taken) = k
  <2> DEFINE f == [i \in 1..k |-> FreshUnits[i]]
  <2>1. f \in [1..k -> taken] /\ \A u \in taken : \E i \in 1..k : f[i] = u
    OBVIOUS
  <2>2. \A i, j \in 1..k : f[i] = f[j] => i = j
    BY <1>1, <1>2
  <2> HIDE DEF f, taken
  <2>3. f \in Bijection(1..k, taken)
    BY <2>1, <2>2 DEF Bijection, Injection, Surjection, IsInjective
  <2>4. ExistsBijection(1..k, taken)
    BY <2>3 DEF ExistsBijection
  <2> QED
    BY <1>2, <2>4, FS_CountingElements
<1>5. TakenUnits(k) \ FirstUnits = taken
  BY <1>1, <1>3 DEF TakenUnits
<1>6. TakenUnits(0) = FirstUnits
  BY DEF TakenUnits
<1> QED
  BY <1>1, <1>3, <1>4, <1>5, <1>6 DEF TakenUnits, AllUnits

LEMMA FreshAreNew ==
    ASSUME LineageTypes, NEW n \in 1..MaxSplit,
           Lineages!Cardinality(DOMAIN declared \ FirstUnits) + n <= Len(FreshUnits)
    PROVE  /\ Lineages!Fresh(n) # {} /\ Lineages!Fresh(n) \cap DOMAIN declared = {}
           /\ IsFiniteSet(Lineages!Fresh(n))
           /\ Lineages!None \notin DOMAIN declared \cup Lineages!Fresh(n)
           /\ \E k \in 0..Len(FreshUnits) : DOMAIN declared \cup Lineages!Fresh(n) = TakenUnits(k)
           /\ FirstUnits \subseteq DOMAIN declared
<1>1. /\ FreshUnits \in Seq(Lineages!Later) /\ FirstUnits \cap Lineages!Later = {}
      /\ \A i, j \in DOMAIN FreshUnits : FreshUnits[i] = FreshUnits[j] => i = j
      /\ n \in Nat /\ n > 0
  BY ComponentConstants DEF Lineages!LineageAssumption
<1>2. PICK k \in 0..Len(FreshUnits) : DOMAIN declared = TakenUnits(k)
  BY DEF LineageTypes
<1>3. /\ Lineages!Cardinality(DOMAIN declared \ FirstUnits) = k
      /\ FirstUnits \subseteq DOMAIN declared /\ Lineages!None \notin AllUnits
  <2>1. Lineages!Cardinality(DOMAIN declared \ FirstUnits) = Cardinality(DOMAIN declared \ FirstUnits)
    BY DEF Lineages!Cardinality, Cardinality
  <2> QED
    BY <1>2, <2>1, UnitsTaken
<1>4. Lineages!Fresh(n) = {FreshUnits[i] : i \in (k + 1)..(k + n)}
  BY <1>3 DEF Lineages!Fresh
<1>5. k \in Nat /\ k + n \in 0..Len(FreshUnits) /\ (k + 1)..(k + n) \subseteq DOMAIN FreshUnits
      /\ k + 1 \in (k + 1)..(k + n) /\ 1..(k + n) = 1..k \cup ((k + 1)..(k + n))
      /\ 1..k \subseteq DOMAIN FreshUnits /\ 1..k \cap ((k + 1)..(k + n)) = {}
  BY <1>1, <1>3
<1>6. Lineages!Fresh(n) # {} /\ Lineages!Fresh(n) \subseteq Lineages!Later
  BY <1>4, <1>5 DEF Lineages!Later
<1>7. Lineages!Fresh(n) \cap DOMAIN declared = {}
  <2>1. ASSUME NEW u \in Lineages!Fresh(n), u \in TakenUnits(k) PROVE FALSE
    <3>1. PICK i \in (k + 1)..(k + n) : u = FreshUnits[i]
      BY <1>4
    <3>2. PICK j \in 1..k : u = FreshUnits[j]
      BY <1>1, <1>6, <2>1 DEF TakenUnits
    <3> QED
      BY <1>1, <1>5, <3>1, <3>2
  <2> QED
    BY <1>2, <2>1
<1>8. IsFiniteSet(Lineages!Fresh(n))
  <2>1. IsFiniteSet((k + 1)..(k + n))
    BY <1>1, <1>5, FS_Interval
  <2> DEFINE f == [i \in (k + 1)..(k + n) |-> FreshUnits[i]]
  <2>2. f \in Surjection((k + 1)..(k + n), Lineages!Fresh(n))
    BY <1>4 DEF Surjection
  <2> QED
    BY <2>1, <2>2, FS_Surjection
<1>9. Lineages!None \notin DOMAIN declared \cup Lineages!Fresh(n)
  BY <1>2, <1>3, <1>6, UnitsTaken DEF AllUnits
<1>10. DOMAIN declared \cup Lineages!Fresh(n) = TakenUnits(k + n)
  BY <1>2, <1>4, <1>5 DEF TakenUnits
<1> QED
  BY <1>3, <1>5, <1>6, <1>7, <1>8, <1>9, <1>10

LEMMA LineageStarts == Lineages!Init => LineageInv
<1> SUFFICES ASSUME Lineages!Init PROVE LineageInv
  OBVIOUS
<1>1. PICK after \in FirstPlans : declared = [u \in FirstUnits |-> Lineages!Unit(after[u])]
  BY DEF Lineages!Init
<1>2. after \in [FirstUnits -> SUBSET FirstUnits]
  BY ComponentConstants DEF Lineages!LineageAssumption
<1>3. /\ DOMAIN declared = FirstUnits
      /\ \A u \in FirstUnits : declared[u] = [after |-> after[u], from |-> Lineages!None, into |-> {}]
  BY <1>1 DEF Lineages!Unit
<1>4. 0 \in 0..Len(FreshUnits)
  BY ComponentConstants DEF Lineages!LineageAssumption
<1>5. TakenUnits(0) = FirstUnits /\ Lineages!None \notin FirstUnits
  BY <1>4, UnitsTaken DEF AllUnits
<1>6. /\ verdict = [says |-> "unchecked", order |-> {}, owners |-> constraint]
      /\ constraint \in Owners /\ obligation = constraint
      /\ DOMAIN groups = Checkpoints
  BY DEF Lineages!Init
<1>7. declared \in PlanRecords(DOMAIN declared)
  BY <1>1, <1>2, <1>3 DEF PlanRecords, UnitRecords, Lineages!Unit
<1>8. LineageTypes
  BY <1>3, <1>4, <1>5, <1>6, <1>7 DEF LineageTypes
<1>9. FirstPlanned /\ Promised
  BY <1>3, <1>6 DEF FirstPlanned, Promised, Lineages!Accepted
<1>10. Grounded(declared)
  BY <1>3, <1>5 DEF Grounded
<1>11. \E up : IsLineage(up, declared)
  <2> DEFINE up == [u \in DOMAIN declared |-> {u}]
  <2>1. up = [u \in DOMAIN declared |->
                {u} \cup (IF declared[u].from = Lineages!None THEN {} ELSE up[declared[u].from])]
    BY <1>3
  <2> HIDE DEF up
  <2> QED
    BY <2>1 DEF IsLineage
<1> QED
  BY <1>8, <1>9, <1>10, <1>11 DEF LineageInv

(* The steps.                                                              *)
LEMMA CheckSteps ==
    ASSUME LineageInv, Lineages!Check
    PROVE  LineageInv'
<1> DEFINE ok == Lineages!PlanHolds(declared, groups, constraint, obligation)
           order == {e \in FirstUnits \X FirstUnits : e[1] \in Lineages!Before(declared)[e[2]]}
<1>1. /\ verdict.says = "unchecked" /\ UNCHANGED <<declared, groups, constraint, obligation, delivered>>
      /\ verdict' = IF ok THEN [verdict EXCEPT !.says = "valid", !.order = order]
                    ELSE [verdict EXCEPT !.says = "invalid"]
  BY DEF Lineages!Check
<1>2. LineageTypes /\ Grounded(declared) /\ \E up : IsLineage(up, declared)
  BY DEF LineageInv
<1>3. order \in SUBSET (FirstUnits \X FirstUnits)
  OBVIOUS
<1> HIDE DEF order
<1>4. /\ verdict'.says \in {"valid", "invalid"} /\ (verdict'.says = "valid" => ok /\ verdict'.order = order)
      /\ verdict'.owners = verdict.owners
      /\ verdict' \in [says : {"unchecked", "valid", "invalid", "refused"},
                      order : SUBSET (FirstUnits \X FirstUnits), owners : Owners]
  <2> HIDE DEF ok
  <2> QED
    BY <1>1, <1>2, <1>3 DEF LineageTypes
<1>5. LineageTypes'
  BY <1>1, <1>2, <1>4 DEF LineageTypes
<1>6. FirstPlanned'
  BY <1>4 DEF FirstPlanned
<1>7. ASSUME Lineages!Accepted'
      PROVE  ok /\ verdict'.owners \subseteq FirstUnits /\ Lineages!PromisesSurvive'
  <2>1. ok /\ verdict'.order = order
    BY <1>4, <1>7 DEF Lineages!Accepted
  <2>2. /\ DOMAIN declared = FirstUnits
        /\ \A u \in FirstUnits : declared[u].from = Lineages!None /\ declared[u].into = {}
        /\ constraint = verdict.owners /\ obligation = constraint
    BY <1>1 DEF LineageInv, FirstPlanned
  <2>3. verdict.owners \subseteq FirstUnits
    BY <2>1, <2>2 DEF Lineages!PlanHolds, Lineages!ConstraintHolds, Lineages!Active
  <2>4. \A u \in FirstUnits : Lineages!Lineage(declared)[u] = {u}
    <3>1. IsLineage(Lineages!Lineage(declared), declared)
      BY <1>2, LineageIs
    <3> DEFINE up == Lineages!Lineage(declared)
    <3>2. \A u \in DOMAIN declared :
            up[u] = {u} \cup (IF declared[u].from = Lineages!None THEN {} ELSE up[declared[u].from])
      BY <3>1, Zenon DEF IsLineage
    <3> HIDE DEF up
    <3>3. \A u \in FirstUnits : up[u] = {u}
      BY <2>2, <3>2
    <3> QED
      BY <3>3 DEF up
  <2>5. \A x \in FirstUnits : Descends(x, declared) = {x}
    BY <2>2, <2>4 DEF Descends, Lineages!Active
  <2>6. \A x : Lineages!Descendants(x)' = Descends(x, declared')
    BY DescendantsAre
  <2>7. \A x \in FirstUnits : Lineages!Descendants(x)' = {x}
    BY <1>1, <2>5, <2>6
  <2>8. Lineages!Before(declared)' = Lineages!Before(declared)
    BY <1>1
  <2>9. Lineages!OrderSurvives'
    <3>1. \A pair \in order : /\ pair[1] \in FirstUnits /\ pair[2] \in FirstUnits
                              /\ pair[1] \in Lineages!Before(declared)[pair[2]]
      BY DEF order
    <3>2. \A pair \in verdict'.order : \A u \in Lineages!Descendants(pair[2])' :
            Lineages!Descendants(pair[1])' \subseteq Lineages!Before(declared)'[u]
      BY <2>1, <2>7, <2>8, <3>1
    <3> QED
      BY <3>2 DEF Lineages!OrderSurvives
  <2>10. Lineages!RequirementsSurvive'
    <3>1. /\ constraint' = UNION {Lineages!Descendants(u)' : u \in verdict'.owners}
          /\ \A u \in verdict'.owners : Lineages!Descendants(u)' \cap obligation' # {}
      BY <1>1, <1>4, <2>2, <2>3, <2>7
    <3> QED
      BY <3>1 DEF Lineages!RequirementsSurvive
  <2> QED
    BY <1>4, <2>1, <2>3, <2>9, <2>10 DEF Lineages!PromisesSurvive
<1>8. Promised'
  <2>1. Lineages!PlanHolds(declared, groups, constraint, obligation)'
          <=> Lineages!PlanHolds(declared, groups, constraint, obligation)
    BY <1>1 DEF Lineages!PlanHolds
  <2> QED
    BY <1>7, <2>1 DEF Promised
<1>9. Grounded(declared)' /\ (\E up : IsLineage(up, declared))'
  BY <1>1, <1>2
<1> QED
  BY <1>5, <1>6, <1>8, <1>9 DEF LineageInv

LEMMA AmendSteps ==
    ASSUME LineageInv, Lineages!Amend
    PROVE  LineageInv'
<1>1. LineageTypes /\ Promised /\ Grounded(declared) /\ \E up : IsLineage(up, declared)
  BY DEF LineageInv
<1>2. PICK t \in {u \in DOMAIN declared : Lineages!Splittable(u)}, n \in 1..MaxSplit :
        /\ Lineages!Cardinality(DOMAIN declared \ FirstUnits) + n <= Len(FreshUnits)
        /\ \E draft \in [Lineages!Fresh(n) -> SUBSET Lineages!Fresh(n)],
              part \in (SUBSET Lineages!Fresh(n)) \ {{}} :
            LET shape == Lineages!Amended(t, draft)
                of == [k \in Checkpoints |->
                         [groups[k] EXCEPT !.units = Lineages!Swap(@, t, DOMAIN draft)]]
                owned == Lineages!ReassignedConstraint(t, draft)
                owed == Lineages!Swap(obligation, t, part)
            IN IF /\ Lineages!DraftLeaves(draft) # {}
                  /\ Lineages!PlanHolds(shape, of, owned, owed)
               THEN /\ declared' = shape /\ groups' = of
                    /\ constraint' = owned /\ obligation' = owed
                    /\ verdict' = [verdict EXCEPT !.says = "valid"]
               ELSE /\ UNCHANGED <<declared, groups, constraint, obligation>>
                    /\ verdict' = [verdict EXCEPT !.says = "refused"]
  BY DEF Lineages!Amend
<1> DEFINE new == Lineages!Fresh(n)
<1>3. PICK draft \in [new -> SUBSET new], part \in (SUBSET new) \ {{}} :
            LET shape == Lineages!Amended(t, draft)
                of == [k \in Checkpoints |->
                         [groups[k] EXCEPT !.units = Lineages!Swap(@, t, DOMAIN draft)]]
                owned == Lineages!ReassignedConstraint(t, draft)
                owed == Lineages!Swap(obligation, t, part)
            IN IF /\ Lineages!DraftLeaves(draft) # {}
                  /\ Lineages!PlanHolds(shape, of, owned, owed)
               THEN /\ declared' = shape /\ groups' = of
                    /\ constraint' = owned /\ obligation' = owed
                    /\ verdict' = [verdict EXCEPT !.says = "valid"]
               ELSE /\ UNCHANGED <<declared, groups, constraint, obligation>>
                    /\ verdict' = [verdict EXCEPT !.says = "refused"]
  BY <1>2
<1>4. /\ new # {} /\ new \cap DOMAIN declared = {} /\ IsFiniteSet(new)
      /\ Lineages!None \notin DOMAIN declared \cup new
      /\ \E k \in 0..Len(FreshUnits) : DOMAIN declared \cup new = TakenUnits(k)
      /\ FirstUnits \subseteq DOMAIN declared
  BY <1>1, <1>2, FreshAreNew
<1> DEFINE shape == Lineages!Amended(t, draft)
           of == [k \in Checkpoints |->
                    [groups[k] EXCEPT !.units = Lineages!Swap(@, t, DOMAIN draft)]]
           owned == Lineages!ReassignedConstraint(t, draft)
           owed == Lineages!Swap(obligation, t, part)
           ok == Lineages!DraftLeaves(draft) # {} /\ Lineages!PlanHolds(shape, of, owned, owed)
<1>5. \/ /\ ok /\ declared' = shape /\ groups' = of /\ constraint' = owned /\ obligation' = owed
         /\ verdict' = [verdict EXCEPT !.says = "valid"]
      \/ /\ UNCHANGED <<declared, groups, constraint, obligation>>
         /\ verdict' = [verdict EXCEPT !.says = "refused"]
  <2> HIDE DEF new
  <2>1. IF ok THEN /\ declared' = shape /\ groups' = of
                   /\ constraint' = owned /\ obligation' = owed
                   /\ verdict' = [verdict EXCEPT !.says = "valid"]
              ELSE /\ UNCHANGED <<declared, groups, constraint, obligation>>
                   /\ verdict' = [verdict EXCEPT !.says = "refused"]
    BY <1>3, Zenon
  <2> HIDE DEF ok, shape, of, owned, owed
  <2> QED
    BY <2>1
<1> HIDE DEF new
<1>6. /\ DOMAIN draft = new /\ DOMAIN of = Checkpoints
      /\ owned = Lineages!Swap(constraint, t, new)
  BY DEF Lineages!ReassignedConstraint
<1> HIDE DEF of
<1>7. Lineages!Accepted /\ t \in Lineages!Active(declared)
  <2>1. Lineages!Accepted
    BY DEF Lineages!Amend, Lineages!Accepted
  <2> QED
    BY <1>2, <2>1 DEF Lineages!Splittable
<1>8. /\ Lineages!PlanHolds(declared, groups, constraint, obligation)
      /\ verdict.owners \subseteq FirstUnits /\ Lineages!PromisesSurvive
  BY <1>1, <1>7 DEF Promised
<1>9. Amending(t, new, draft)
  BY <1>1, <1>4, <1>7 DEF Amending, LineageTypes
<1> HIDE DEF shape, owed, owned
<1>10. /\ verdict'.says \in {"valid", "refused"} /\ verdict'.order = verdict.order
       /\ verdict'.owners = verdict.owners
       /\ verdict' \in [says : {"unchecked", "valid", "invalid", "refused"},
                       order : SUBSET (FirstUnits \X FirstUnits), owners : Owners]
  <2>1. verdict' = [verdict EXCEPT !.says = "valid"] \/ verdict' = [verdict EXCEPT !.says = "refused"]
    BY <1>5
  <2> QED
    BY <1>1, <2>1 DEF LineageTypes
<1>11. FirstPlanned'
  BY <1>10 DEF FirstPlanned
<1>12. CASE /\ ok /\ declared' = shape /\ groups' = of
            /\ constraint' = owned /\ obligation' = owed
  <2>1. AmendedHas(t, new, draft, shape)
    BY <1>9, AmendedPlan DEF shape
  <2>2. Grounded(shape) /\ \E up : IsLineage(up, shape)
    BY <1>1, <1>9, LineageGoesOn DEF shape
  <2>3. LineageTypes'
    <3>1. DOMAIN shape = DOMAIN declared \cup new /\ shape \in PlanRecords(DOMAIN shape)
      BY <2>1 DEF AmendedHas
    <3> QED
      BY <1>4, <1>6, <1>10, <1>12, <3>1 DEF LineageTypes
  <2>4. Lineages!PromisesSurvive'
    <3>1. /\ Lineages!DependenciesHold(shape) /\ Lineages!DependenciesHold(declared)
          /\ Lineages!ActiveHold(declared) /\ Lineages!DraftLeaves(draft) # {}
      BY <1>8, <1>12 DEF Lineages!PlanHolds
    <3>2. verdict.order \subseteq FirstUnits \X FirstUnits
      BY <1>1 DEF LineageTypes
    <3>3. /\ constraint' = Lineages!Swap(constraint, t, new)
          /\ obligation' = Lineages!Swap(obligation, t, part) /\ declared' = shape
          /\ shape = Lineages!Amended(t, draft)
      BY <1>6, <1>12 DEF owed, shape
    <3> QED
      BY <1>1, <1>4, <1>7, <1>8, <1>9, <1>10, <3>1, <3>2, <3>3, PromisesGoOn
  <2>5. Lineages!PlanHolds(declared, groups, constraint, obligation)'
    <3>1. Lineages!PlanHolds(shape, of, owned, owed)
      BY <1>12
    <3>2. Lineages!PlanHolds(declared', groups', constraint', obligation')
      BY <1>12, <3>1
    <3> QED
      BY <3>2
  <2>6. Promised'
    BY <1>8, <1>10, <2>4, <2>5 DEF Promised
  <2>7. Grounded(declared)' /\ (\E up : IsLineage(up, declared))'
    BY <1>12, <2>2
  <2> QED
    BY <1>11, <2>3, <2>6, <2>7 DEF LineageInv
<1>13. CASE UNCHANGED <<declared, groups, constraint, obligation>>
  <2>1. LineageTypes'
    BY <1>1, <1>10, <1>13 DEF LineageTypes
  <2>2. /\ \A x : Lineages!Descendants(x)' = Lineages!Descendants(x)
        /\ Lineages!Before(declared)' = Lineages!Before(declared)
    BY <1>13, DescendantsAre
  <2>3. Lineages!PromisesSurvive'
    <3>1. /\ \A pair \in verdict.order : \A u \in Lineages!Descendants(pair[2]) :
               Lineages!Descendants(pair[1]) \subseteq Lineages!Before(declared)[u]
          /\ constraint = UNION {Lineages!Descendants(u) : u \in verdict.owners}
          /\ \A u \in verdict.owners : Lineages!Descendants(u) \cap obligation # {}
      BY <1>7, <1>8 DEF Lineages!PromisesSurvive, Lineages!OrderSurvives, Lineages!RequirementsSurvive
    <3>2. \A pair \in verdict'.order : \A u \in Lineages!Descendants(pair[2])' :
            Lineages!Descendants(pair[1])' \subseteq Lineages!Before(declared)'[u]
      BY <1>10, <2>2, <3>1
    <3>3. /\ constraint' = UNION {Lineages!Descendants(u)' : u \in verdict'.owners}
          /\ \A u \in verdict'.owners : Lineages!Descendants(u)' \cap obligation' # {}
      BY <1>10, <1>13, <2>2, <3>1
    <3> QED
      BY <3>2, <3>3 DEF Lineages!PromisesSurvive, Lineages!OrderSurvives, Lineages!RequirementsSurvive
  <2>4. Lineages!PlanHolds(declared', groups', constraint', obligation')
    BY <1>8, <1>13
  <2>5. Promised'
    BY <1>8, <1>10, <2>3, <2>4 DEF Promised
  <2>6. Grounded(declared)' /\ (\E up : IsLineage(up, declared))'
    BY <1>1, <1>13
  <2> QED
    BY <1>11, <2>1, <2>5, <2>6 DEF LineageInv
<1> QED
  BY <1>5, <1>12, <1>13

LEMMA SameLineage ==
    ASSUME LineageInv, UNCHANGED <<declared, groups, constraint, obligation, verdict>>
    PROVE  LineageInv'
<1>1. LineageTypes /\ FirstPlanned /\ Promised /\ Grounded(declared) /\ \E up : IsLineage(up, declared)
  BY DEF LineageInv
<1>2. LineageTypes' /\ FirstPlanned'
  BY <1>1 DEF LineageTypes, FirstPlanned
<1>3. Promised'
  <2>1. /\ \A x : Lineages!Descendants(x)' = Lineages!Descendants(x)
        /\ Lineages!Before(declared)' = Lineages!Before(declared)
    BY DescendantsAre
  <2>2. Lineages!PromisesSurvive => Lineages!PromisesSurvive'
    BY <2>1 DEF Lineages!PromisesSurvive, Lineages!OrderSurvives, Lineages!RequirementsSurvive,
                Lineages!Accepted
  <2>3. Lineages!PlanHolds(declared, groups, constraint, obligation)
          => Lineages!PlanHolds(declared', groups', constraint', obligation')
    OBVIOUS
  <2> QED
    BY <1>1, <2>2, <2>3 DEF Promised, Lineages!Accepted
<1>4. Grounded(declared)' /\ (\E up : IsLineage(up, declared))'
  BY <1>1
<1> QED
  BY <1>2, <1>3, <1>4 DEF LineageInv

LEMMA LineageSteps == LineageInv /\ [Next]_vars => LineageInv'
<1> SUFFICES ASSUME LineageInv, [Next]_vars PROVE LineageInv'
  OBVIOUS
<1>1. CASE Lineages!Check
  BY <1>1, CheckSteps
<1>2. CASE Lineages!Amend
  BY <1>2, AmendSteps
<1>3. CASE Lineages!Deliver
  BY <1>3, SameLineage DEF Lineages!Deliver
<1>4. CASE UNCHANGED lineageVars
  BY <1>4, SameLineage DEF lineageVars
<1>5. Lineages!Check \/ Lineages!Amend \/ Lineages!Deliver \/ UNCHANGED lineageVars
  BY DEF Next, vars, Lineages!Next, Amend, RunChild, RunAgent, KeepAlive, Prepare, AuthorPlan,
         UseWorktree, ReviewCandidate, ShapePlan, AnswerQuestions, lineageVars
<1> QED
  BY <1>1, <1>2, <1>3, <1>4, <1>5

LEMMA LineageHolds == Spec => []LineageInv
<1>1. Init => LineageInv
  BY LineageStarts DEF Init
<1> QED
  BY <1>1, LineageSteps, PTL DEF Spec

\* However a plan is amended, it keeps what it promised when it was accepted:
\* what stood in an order stays in it, and a requirement binds whatever has
\* become of the units it was written for (_amended_plan_data).
THEOREM PromisesKept == Spec => []PromisesSurvive
<1>1. LineageInv => PromisesSurvive
  BY DEF LineageInv, Promised, PromisesSurvive, Lineages!PromisesSurvive, Lineages!OrderSurvives,
         Lineages!RequirementsSurvive
<1> QED
  BY <1>1, LineageHolds, PTL

\* An accepted plan can always be delivered further, whatever was delivered
\* before it was amended: no units and barriers wait for each other.
THEOREM PlanGoesOn == Spec => []PlanNeverStuck
<1>1. LineageInv => PlanNeverStuck
  <2> SUFFICES ASSUME LineageInv, Lineages!Accepted, Lineages!Active(declared) \ delivered # {}
               PROVE  \E u \in DOMAIN declared : Lineages!Runnable(u)
    BY DEF PlanNeverStuck, Lineages!PlanNeverStuck
  <2>1. LineageTypes /\ Lineages!PlanHolds(declared, groups, constraint, obligation)
    BY DEF LineageInv, Promised
  <2>2. DOMAIN declared \cap Checkpoints = {}
    BY <2>1, UnitsTaken DEF LineageTypes
  <2> QED
    BY <2>1, <2>2, AcceptedGoesOn
<1> QED
  BY <1>1, LineageHolds, PTL
=============================================================================
