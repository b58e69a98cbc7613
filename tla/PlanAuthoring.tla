--------------------------- MODULE PlanAuthoring ---------------------------
(***************************************************************************)
(* Preparing a delivery plan in one piece: a model authors a draft, an     *)
(* independent call of it verifies the draft against the source task, what *)
(* it reports missing is corrected once and verified again                 *)
(* (agents/delivery_preparation_agent.py), and the writer publishes the    *)
(* draft or leaves the files as they were                                  *)
(* (core/delivery_prepare_writer.py).                                      *)
(*                                                                         *)
(* A draft has requirements (constraints and obligations), each assigned   *)
(* to units, and unit contracts whose text is a version number.  What the  *)
(* model answers is arbitrary: only what the host compares limits it.      *)
(***************************************************************************)
EXTENDS Naturals, Sequences, FiniteSets

CONSTANTS
    ConstraintIds,      \* constraints a draft may declare
    ObligationIds,      \* obligations a draft may declare
    Units,              \* the units of the plan
    Drafts,             \* what the author's answers declare
    MaxPrepares         \* bound: commands

\* Every requirement of a set of ids, assigned to some units.
Requirements(ids) == [id : ids, units : SUBSET Units \ {{}}]

\* DeliveryPreparationDraft: what an author can declare.
DraftRecords ==
    [constraints : SUBSET Requirements(ConstraintIds),
     obligations : SUBSET Requirements(ObligationIds),
     text : Nat, stop : BOOLEAN, checkpoints : BOOLEAN]

AuthoringAssumption == IsFiniteSet(Units) /\ Drafts \subseteq DraftRecords

VARIABLES
    files,      \* plan.yaml and the unit tasks: the command that wrote each
    work,       \* the command in progress
    original,   \* the files when it started, which the writer backs up
    authored,   \* the draft as it was authored
    report,     \* what the last command reported
    prepares    \* how many commands there were

authoringVars == <<files, work, original, authored, report, prepares>>

None == "none"
Targets == {"plan"} \cup Units
Absent == 0
Torn == 99

NoDraft == [constraints |-> {}, obligations |-> {}, text |-> 0, stop |-> FALSE,
            checkpoints |-> FALSE]

\* A gap is an omitted requirement or units an existing one is not assigned.
NoGap == [id |-> None, units |-> {}, omitted |-> FALSE]

NoVerification ==
    [constraints |-> {}, obligations |-> {}, text |-> 0, constraintGap |-> NoGap,
     obligationGap |-> NoGap, literals |-> FALSE, contracts |-> FALSE,
     paths |-> FALSE, stop |-> FALSE, unavailable |-> FALSE, given |-> FALSE]

Idle == [pc |-> "idle", draft |-> NoDraft, verification |-> NoVerification,
         round |-> 0, attempt |-> 1, left |-> <<>>, undone |-> TRUE]

NoReport == [outcome |-> None, draft |-> NoDraft,
             verification |-> NoVerification, undone |-> TRUE]

Init ==
    /\ files = [t \in Targets |-> Absent]
    /\ work = Idle
    /\ original = files
    /\ authored = NoDraft
    /\ report = NoReport
    /\ prepares = 0

Go(pc) == work' = [work EXCEPT !.pc = pc]

End(outcome) ==
    /\ work' = Idle
    /\ report' = [outcome |-> outcome, draft |-> work.draft,
                  verification |-> work.verification, undone |-> work.undone]

(***************************************************************************)
(* Authoring.                                                              *)
(***************************************************************************)

\* _prepare_delivery_preflight: files that exist need --force.
Start(force) ==
    /\ work.pc = "idle" /\ prepares < MaxPrepares
    /\ force \/ \A t \in Targets : files[t] = Absent
    /\ work' = [Idle EXCEPT !.pc = "author", !.round = 1]
    /\ original' = files
    /\ authored' = NoDraft
    /\ report' = NoReport
    /\ prepares' = prepares + 1
    /\ UNCHANGED files

\* A draft is given up after a failed call, or an answer that is not correctable or
\* was corrected already.
AuthorFails ==
    /\ work.pc = "author"
    /\ End("blocked")
    /\ UNCHANGED <<files, original, authored, prepares>>

AuthorCorrected ==
    /\ work.pc = "author" /\ work.round = 1
    /\ work' = [work EXCEPT !.round = 2]
    /\ UNCHANGED <<files, original, authored, report, prepares>>

\* A declared stop goes to the writer as it is, unverified.
Authored ==
    /\ work.pc = "author"
    /\ \E draft \in Drafts :
        /\ authored' = draft
        /\ work' = [work EXCEPT !.draft = draft, !.round = 1, !.attempt = 1,
                                !.pc = IF draft.stop THEN "gate" ELSE "verify"]
    /\ UNCHANGED <<files, original, report, prepares>>

(***************************************************************************)
(* Verification.                                                           *)
(***************************************************************************)

Named(requirements) == {r.id : r \in requirements}

Gaps(requirements, ids) ==
    {NoGap}
    \cup [id : ids \ Named(requirements), units : SUBSET Units \ {{}}, omitted : {TRUE}]
    \cup {g \in [id : Named(requirements), units : SUBSET Units \ {{}}, omitted : {FALSE}] :
            \E r \in requirements : r.id = g.id /\ g.units \cap r.units = {}}

\* What a readable verification of the draft may say: the requirements are
\* echoed, the findings are the model's.
Verifications(draft) ==
    {v \in [constraints : {draft.constraints}, obligations : {draft.obligations},
            text : {draft.text},
            constraintGap : Gaps(draft.constraints, ConstraintIds),
            obligationGap : Gaps(draft.obligations, ObligationIds),
            literals : BOOLEAN, contracts : BOOLEAN, paths : BOOLEAN,
            stop : BOOLEAN, unavailable : {FALSE}, given : {TRUE}] :
        Cardinality({f \in {"literals", "contracts", "paths", "stop"} : v[f]}) <= 1}

\* One retry of an answer that is not in the declared format.
VerifyMalformed ==
    /\ work.pc = "verify" /\ work.attempt = 1
    /\ work' = [work EXCEPT !.attempt = 2]
    /\ UNCHANGED <<files, original, authored, report, prepares>>

VerifyFails ==
    /\ work.pc = "verify"
    /\ End("blocked")
    /\ UNCHANGED <<files, original, authored, prepares>>

Complete(v) == v.constraintGap = NoGap /\ v.obligationGap = NoGap /\ ~v.literals /\ ~v.stop

NeedsRecovery(draft, v) ==
    \/ v.contracts \/ v.paths
    \/ draft.checkpoints /\ (v.constraintGap # NoGap \/ v.obligationGap # NoGap)
    \/ v.constraintGap.omitted

\* Missing literals are appended to the contracts without asking a model.
WithLiterals(draft, v) ==
    IF v.literals THEN [draft EXCEPT !.text = @ + 1] ELSE draft

\* After the first verification a draft is published, corrected as a whole,
\* or has the gaps repaired one kind at a time; the second one is the last.
Decide(v) ==
    LET recover == NeedsRecovery(work.draft, v)
        final == work.round = 2 \/ v.stop \/ (Complete(v) /\ ~recover)
    IN [work EXCEPT !.verification = v, !.attempt = 1,
            !.pc = IF final THEN "gate" ELSE IF recover THEN "recover" ELSE "constraints",
            !.draft = IF final \/ recover THEN @ ELSE WithLiterals(@, v)]

Verified ==
    /\ work.pc = "verify"
    /\ \E v \in Verifications(work.draft) : work' = Decide(v)
    /\ UNCHANGED <<files, original, authored, report, prepares>>

(***************************************************************************)
(* Correction.                                                             *)
(***************************************************************************)

\* The units a requirement has once the gap is closed.
Extended(r, gap) ==
    IF gap # NoGap /\ ~gap.omitted /\ gap.id = r.id
    THEN [r EXCEPT !.units = @ \cup gap.units] ELSE r

\* Faulty: a repair that has as many requirements as it should is accepted.
CountedRepair(before, after, gap) ==
    Cardinality(after) = Cardinality(before) + (IF gap.omitted THEN 1 ELSE 0)

\* A repair keeps every requirement, extends the assignment a gap names and
\* adds the requirement a gap says is omitted, and nothing else.
IsRepair(before, after, gap) ==
    /\ Cardinality(after) = Cardinality(before) + (IF gap.omitted THEN 1 ELSE 0)
    /\ \A r \in before : Extended(r, gap) \in after
    /\ gap.omitted => \E r \in after : r.id \notin Named(before) /\ r.units = gap.units

\* What a model may answer: one requirement per id.
Proposed(ids) ==
    {s \in SUBSET Requirements(ids) : \A r, q \in s : r.id = q.id => r = q}

RepairConstraints ==
    /\ work.pc = "constraints"
    /\ IF work.verification.constraintGap = NoGap THEN Go("obligations")
       ELSE \E after \in Proposed(ConstraintIds) :
            /\ IsRepair(work.draft.constraints, after, work.verification.constraintGap)
            /\ \E stop \in BOOLEAN :
                work' = [work EXCEPT !.draft.constraints = after, !.draft.stop = stop,
                                     !.pc = IF stop THEN "gate" ELSE "obligations"]
    /\ UNCHANGED <<files, original, authored, report, prepares>>

RepairObligations ==
    /\ work.pc = "obligations"
    /\ LET gap == work.verification.obligationGap
       IN \E after \in IF gap = NoGap THEN {work.draft.obligations} ELSE Proposed(ObligationIds) :
            /\ IsRepair(work.draft.obligations, after, gap)
            /\ work' = [work EXCEPT !.draft.obligations = after, !.round = 2, !.pc = "verify"]
    /\ UNCHANGED <<files, original, authored, report, prepares>>

\* Evidence the verifier asked for cannot be read.
ContextUnavailable ==
    /\ work.pc = "recover" /\ work.verification.paths
    /\ work' = [work EXCEPT !.verification.unavailable = TRUE, !.pc = "gate"]
    /\ UNCHANGED <<files, original, authored, report, prepares>>

\* One corrected draft, compared with the first and verified on its own.
Recover ==
    /\ work.pc = "recover"
    /\ \E constraints \in Proposed(ConstraintIds), obligations \in Proposed(ObligationIds) :
        /\ IsRepair(work.draft.constraints, constraints, work.verification.constraintGap)
        /\ IsRepair(work.draft.obligations, obligations, work.verification.obligationGap)
        /\ work' = [work EXCEPT !.draft.constraints = constraints,
                                !.draft.obligations = obligations,
                                !.draft.text = @ + 1, !.round = 2, !.pc = "verify"]
    /\ UNCHANGED <<files, original, authored, report, prepares>>

\* The corrected draft declares a stop: it goes to the writer unverified.
RecoverStop ==
    /\ work.pc = "recover"
    /\ work' = [work EXCEPT !.draft.stop = TRUE, !.pc = "gate",
                            !.verification = NoVerification]
    /\ UNCHANGED <<files, original, authored, report, prepares>>

\* A failed call, or an answer the comparison rejects.
CorrectionFails ==
    /\ work.pc \in {"constraints", "obligations", "recover"}
    /\ work.pc = "constraints" => work.verification.constraintGap # NoGap
    /\ work.pc = "obligations" => work.verification.obligationGap # NoGap
    /\ End("blocked")
    /\ UNCHANGED <<files, original, authored, prepares>>

(***************************************************************************)
(* The writer.                                                             *)
(***************************************************************************)

\* _constraint_verification_stop_issues and _stop_and_follow_up_prepare_issues.
Publishable ==
    LET v == work.verification
    IN /\ ~work.draft.stop
       /\ v.given
       /\ ~v.stop /\ ~v.unavailable /\ ~v.paths /\ ~v.contracts
       /\ v.constraints = work.draft.constraints /\ v.constraintGap = NoGap
       /\ v.obligations = work.draft.obligations /\ v.obligationGap = NoGap
       /\ ~v.literals

\* Paths, assets, scopes, readiness and the file system may block as well.
GateBlocks ==
    /\ work.pc = "gate"
    /\ End("blocked")
    /\ UNCHANGED <<files, original, authored, prepares>>

\* plan.yaml first, then the unit tasks.
Order == CHOOSE s \in [1..Cardinality(Targets) -> Targets] :
            s[1] = "plan" /\ \A i, j \in DOMAIN s : s[i] = s[j] => i = j

GatePasses ==
    /\ work.pc = "gate" /\ Publishable
    /\ work' = [work EXCEPT !.pc = "write", !.left = Order]
    /\ UNCHANGED <<files, original, authored, report, prepares>>

ThisCommand == prepares

WriteTarget ==
    /\ work.pc = "write" /\ work.left # <<>>
    /\ files' = [files EXCEPT ![Head(work.left)] = ThisCommand]
    /\ work' = [work EXCEPT !.left = Tail(@)]
    /\ UNCHANGED <<original, authored, report, prepares>>

\* A rollback goes through the backups from the last to the first.
Restored == [i \in DOMAIN Order |-> Order[Len(Order) + 1 - i]]

WriteFails ==
    /\ work.pc = "write" /\ work.left # <<>>
    /\ files' = [files EXCEPT ![Head(work.left)] = Torn]
    /\ work' = [work EXCEPT !.pc = "undo", !.left = Restored]
    /\ UNCHANGED <<original, authored, report, prepares>>

\* The plan as it was written is validated, or the files are restored.
Validated ==
    /\ work.pc = "write" /\ work.left = <<>>
    /\ \/ End("ready")
       \/ /\ work' = [work EXCEPT !.pc = "undo", !.left = Restored]
          /\ UNCHANGED report
    /\ UNCHANGED <<files, original, authored, prepares>>

UndoTarget ==
    /\ work.pc = "undo" /\ work.left # <<>>
    /\ \/ /\ files' = [files EXCEPT ![Head(work.left)] = original[Head(work.left)]]
          /\ work' = [work EXCEPT !.left = Tail(@)]
       \/ /\ work' = [work EXCEPT !.left = Tail(@), !.undone = FALSE]
          /\ UNCHANGED files
    /\ UNCHANGED <<original, authored, report, prepares>>

Undone ==
    /\ work.pc = "undo" /\ work.left = <<>>
    /\ End("blocked")
    /\ UNCHANGED <<files, original, authored, prepares>>

\* The process dies: what is written stays.
Kill ==
    /\ work.pc # "idle"
    /\ End("killed")
    /\ UNCHANGED <<files, original, authored, prepares>>

Next ==
    \/ \E force \in BOOLEAN : Start(force)
    \/ AuthorFails \/ AuthorCorrected \/ Authored
    \/ VerifyMalformed \/ VerifyFails \/ Verified
    \/ RepairConstraints \/ RepairObligations
    \/ ContextUnavailable \/ Recover \/ RecoverStop \/ CorrectionFails
    \/ GateBlocks \/ GatePasses \/ WriteTarget \/ WriteFails \/ Validated
    \/ UndoTarget \/ Undone \/ Kill

Spec == Init /\ [][Next]_authoringVars

(***************************************************************************)
(* Properties.                                                             *)
(***************************************************************************)

\* A plan reported ready was verified in the very text and with the very
\* requirements that were written, the verification found nothing, and no
\* requirement the author declared was dropped or taken from a unit by a
\* correction, whatever the models answered (author_delivery_plan).
PublishedIsVerified ==
    report.outcome = "ready" =>
    LET v == report.verification
        d == report.draft
        Kept(before, after) ==
            \A r \in before : \E q \in after : q.id = r.id /\ r.units \subseteq q.units
    IN /\ v.given /\ Complete(v) /\ v.text = d.text
       /\ v.constraints = d.constraints /\ v.obligations = d.obligations
       /\ Kept(authored.constraints, d.constraints)
       /\ Kept(authored.obligations, d.obligations)

\* A command that reports blocked, and no file it could not restore, has left
\* plan and unit tasks exactly as they were (write_delivery_prepare_artifacts).
BlockedKeepsFiles ==
    report.outcome = "blocked" /\ report.undone => files = original

\* What a prepare command reports is what is on disk.
ReportIsTrue == PublishedIsVerified /\ BlockedKeepsFiles
=============================================================================
