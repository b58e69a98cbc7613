-------------------------- MODULE PreparedAnswers ---------------------------
(***************************************************************************)
(* The answers to the questions about a task: task refine                  *)
(* (sikula_cli/task.py) turns a task into a refined one, contract prepare  *)
(* (sikula_cli/contract.py) turns that into an implementation contract, or *)
(* a contract into a revised one.  A question a text leaves open is        *)
(* answered in an answers file bound to the text by its hash, at a prompt, *)
(* or with --auto by a model; core/contract_check.py applies the answers   *)
(* and asks again.                                                         *)
(*                                                                         *)
(* A text is what it says apart from answers (its base) and whose answer   *)
(* to each question it contains.  Two texts with the same hash are equal.  *)
(***************************************************************************)
EXTENDS Naturals, Sequences, FiniteSets

CONSTANTS
    Bases,              \* what a text may say apart from answers
    Questions,
    Needs,              \* the questions each base leaves open
    FollowUps,          \* the questions an answer to each question raises
    Vague,              \* the questions the operator's answers do not settle
    MaxTurns            \* bound: commands, and steps of the operator beside them

PreparedAssumption ==
    /\ Needs \in [Bases -> SUBSET Questions]
    /\ FollowUps \in [Questions -> SUBSET Questions]
    /\ Vague \subseteq Questions

VARIABLES
    texts,      \* the text of each document
    sheets,     \* the answers files
    tracked,    \* of a prepared contract: its text, and the answers put into it
    exchange,   \* the command in progress
    given,      \* the latest answer the operator gave to each question of a text
    spent       \* how many there were of both

preparedVars == <<texts, sheets, tracked, exchange, given, spent>>

None == "none"
MaxRounds == 2      \* of questions to the model

\* Whose answer it is.
Answers == {None, "human", "auto"}

NoAnswers == [q \in Questions |-> None]
NoText == [base |-> 0, said |-> NoAnswers]
NoSheet == [text |-> NoText, entries |-> NoAnswers, previous |-> {}]

\* A command is a job: from which document to which.  Each job has an answers file,
\* the refined task one for its own refinement, and a contract check of the task one.
Jobs == {"refine", "prepare", "revise"}
Source == [refine |-> "task", prepare |-> "task", revise |-> "contract"]
Output == [refine |-> "refined", prepare |-> "contract", revise |-> "revised"]

Documents == {"task", "refined", "contract", "revised"}
Files == Jobs \cup {"refined", "check"}

Idle == [pc |-> "idle", job |-> None, sheet |-> None, auto |-> FALSE, supplied |-> FALSE,
         existed |-> FALSE, text |-> NoText, draft |-> NoText, loaded |-> NoAnswers,
         answers |-> NoAnswers, rounds |-> 0]

Init ==
    /\ \E b \in Bases : texts = [d \in Documents |->
                            IF d = "task" THEN [NoText EXCEPT !.base = b] ELSE NoText]
    /\ sheets = [f \in Files |-> NoSheet]
    /\ tracked = [d \in Documents |-> [text |-> NoText, ids |-> {}]]
    /\ exchange = Idle
    /\ given = {}
    /\ spent = 0

(***************************************************************************)
(* What a text asks, and what answers make of it.                          *)
(***************************************************************************)

SaidIn(text) == {q \in Questions : text.said[q] # None}
Filled(answers) == {q \in Questions : answers[q] # None}

\* An answer that leaves its question open is taken out of the text again.
Settles(q, answer) == answer = "auto" \/ (answer = "human" /\ q \notin Vague)

\* What a text leaves open, in itself or by an answer it contains.
Gaps(text) ==
    (IF text.base \in Bases THEN Needs[text.base] ELSE {})
        \cup UNION {FollowUps[q] : q \in SaidIn(text)}

\* The clarifying questions about a text.
Asked(text) == Gaps(text) \ SaidIn(text)

\* The answers a prepared contract is known to contain, while it is unedited.
Revisable(document, text) ==
    IF tracked[document].text = text THEN tracked[document].ids ELSE {}

\* The source without the answers of it that are to be revised.
Without(text, revised) ==
    [text EXCEPT !.said = [q \in Questions |-> IF q \in revised THEN None ELSE text.said[q]]]

\* Only answers to what the source leaves open, or which revise it, are applied.
ActiveFor(text, revised) == Asked(Without(text, revised)) \cup revised

Improved(text, answers, active) ==
    [text EXCEPT !.said = [q \in Questions |->
        IF q \in active /\ Settles(q, answers[q]) THEN answers[q] ELSE text.said[q]]]

PreparedTask(text, answers) == Improved(text, answers, Asked(text))

PreparedContract(text, answers, revised) ==
    Improved(Without(text, revised), answers, ActiveFor(text, revised))

Revised(e) == Revisable(Source[e.job], e.text) \cap Filled(e.answers)

\* What the command makes of its source, and what that leaves open.
Result(e) ==
    IF e.job = "refine" THEN PreparedTask(IF e.auto THEN e.draft ELSE e.text, e.answers)
    ELSE PreparedContract(e.text, e.answers, Revised(e))

OpenIn(e) == Asked(Result(e))

\* The answers a contract now has from this command.
AppliedIn(e) == {q \in ActiveFor(e.text, Revised(e)) : Settles(q, e.answers[q])}

(***************************************************************************)
(* Answers files.                                                          *)
(***************************************************************************)

Archived(sheet) ==
    {[text |-> sheet.text, question |-> q, value |-> sheet.entries[q]] : q \in Filled(sheet.entries)}

\* The file for a text: the answers given for this text stay, those for another
\* are kept aside.
Merged(sheet, text) ==
    IF sheet.text = text THEN sheet
    ELSE [text |-> text, entries |-> NoAnswers, previous |-> sheet.previous \cup Archived(sheet)]

\* Faulty variant: applied answers replace what is there.
PrefilledOver(sheet, answers) ==
    [sheet EXCEPT !.entries = [q \in Questions |->
        IF answers[q] # None THEN answers[q] ELSE sheet.entries[q]]]

\* Applied answers are written into empty entries.
Prefilled(sheet, answers) ==
    [sheet EXCEPT !.entries = [q \in Questions |->
        IF sheet.entries[q] = None THEN answers[q] ELSE sheet.entries[q]]]

Stale(sheet, text) == sheet # NoSheet /\ sheet.text # text
FilledFor(sheet, text) == sheet.text = text /\ Filled(sheet.entries) # {}

\* The file of a contract check keeps the answers to what the check asks.
Reported(sheet, text) ==
    LET merged == Merged(sheet, text)
    IN  [merged EXCEPT !.entries = [q \in Questions |->
            IF q \in Asked(text) THEN merged.entries[q] ELSE None]]

WriteSheet(file, text, answers) ==
    sheets' = [sheets EXCEPT ![file] = Prefilled(Merged(@, text), answers)]

(***************************************************************************)
(* Starting a command.                                                     *)
(***************************************************************************)

CanStart(job) ==
    /\ exchange.pc = "idle" /\ spent < MaxTurns
    /\ texts[Source[job]] # NoText
    /\ spent' = spent + 1

Started(job, pc) ==
    [Idle EXCEPT !.pc = pc, !.job = job, !.sheet = job, !.text = texts[Source[job]]]

\* A template to fill stands for the answers, unless some were supplied.
StartPlain(job) ==
    /\ CanStart(job)
    /\ exchange' = Started(job, "decide")
    /\ UNCHANGED <<texts, sheets, tracked, given>>

\* --answers FILE, which may be the one a contract check wrote for the source.
SheetsOf(job) == {job} \cup IF job = "prepare" THEN {"check"} ELSE {}

\* A file for another revision of the source is refused.
Load(file, text) ==
    /\ sheets[file] # NoSheet
    /\ sheets[file].text = text

StartWithAnswers(job, file) ==
    /\ CanStart(job) /\ Load(file, texts[Source[job]])
    /\ exchange' = [Started(job, "decide") EXCEPT
                        !.sheet = file, !.supplied = TRUE,
                        !.loaded = sheets[file].entries, !.answers = sheets[file].entries]
    /\ UNCHANGED <<texts, sheets, tracked, given>>

StartInteractive(job) ==
    /\ CanStart(job)
    /\ exchange' = [Started(job, "prompt") EXCEPT !.supplied = TRUE]
    /\ UNCHANGED <<texts, sheets, tracked, given>>

\* The operator answers some of the open questions.  The file was read before the
\* prompts and is written after the last.  Without a question none of it applies.
AnswerPrompts ==
    /\ exchange.pc = "prompt"
    /\ LET asked == Asked(exchange.text)
           merged == Merged(sheets[exchange.sheet], exchange.text)
       IN \E replied \in SUBSET asked :
            LET answered == [merged EXCEPT !.entries = [q \in Questions |->
                    IF q \in replied THEN "human" ELSE merged.entries[q]]]
            IN  /\ sheets' = [sheets EXCEPT ![exchange.sheet] = answered]
                /\ given' = given \cup
                     [file : {exchange.sheet}, text : {exchange.text}, question : replied]
                /\ LET answers == IF asked = {} THEN NoAnswers ELSE answered.entries
                   IN  exchange' = [exchange EXCEPT !.pc = "decide", !.loaded = answers,
                                                    !.answers = answers]
    /\ UNCHANGED <<texts, tracked, spent>>

(***************************************************************************)
(* --auto.                                                                 *)
(***************************************************************************)

\* task refine --auto: the model rewrites the text before anything is answered.
StartRefineAuto(supplied) ==
    /\ CanStart("refine")
    /\ texts[Output["refine"]] = NoText
    /\ supplied => Load("refine", texts[Source["refine"]])
    /\ LET loaded == IF supplied THEN sheets["refine"].entries ELSE NoAnswers
       IN  exchange' = [Started("refine", "draft") EXCEPT
                            !.auto = TRUE, !.supplied = supplied,
                            !.loaded = loaded, !.answers = loaded]
    /\ UNCHANGED <<texts, sheets, tracked, given>>

AskOrDecide(e) == [e EXCEPT !.pc = IF OpenIn(e) = {} \/ e.rounds = MaxRounds THEN "decide" ELSE "ask"]

Normalize ==
    /\ exchange.pc = "draft"
    /\ \E b \in Bases :
        exchange' = AskOrDecide([exchange EXCEPT !.draft = [exchange.text EXCEPT !.base = b]])
    /\ UNCHANGED <<texts, sheets, tracked, given, spent>>

\* contract prepare --auto: a file filled for this text has to be named; one for
\* another is put aside first.
StartPrepareAuto(job, supplied) ==
    /\ job # "refine" /\ CanStart(job)
    /\ texts[Output[job]] = NoText
    /\ LET source == texts[Source[job]]
           loaded == IF supplied THEN sheets[job].entries ELSE NoAnswers
       IN  /\ supplied => Load(job, source)
           /\ ~supplied => ~FilledFor(sheets[job], source)
           /\ IF ~supplied /\ Stale(sheets[job], source) THEN WriteSheet(job, source, NoAnswers)
              ELSE UNCHANGED sheets
           /\ exchange' = AskOrDecide([Started(job, "ask") EXCEPT
                            !.auto = TRUE, !.supplied = supplied,
                            !.existed = ~supplied /\ sheets[job] # NoSheet,
                            !.loaded = loaded, !.answers = loaded])
    /\ UNCHANGED <<texts, tracked, given>>

\* The model may answer the open questions that have no answer yet.
Answerable(e) == {q \in OpenIn(e) : e.answers[q] = None}

\* Replies to no question that was asked, and empty ones, are dropped.
Replies(e) == SUBSET Answerable(e)

\* A round without a new answer is the last.
ModelAnswers ==
    /\ exchange.pc = "ask"
    /\ \E new \in Replies(exchange) :
        LET e == [exchange EXCEPT !.rounds = @ + 1, !.answers = [q \in Questions |->
                    IF q \in new THEN "auto" ELSE @[q]]]
        IN  exchange' = IF new = {} THEN [exchange EXCEPT !.pc = "decide"] ELSE AskOrDecide(e)
    /\ UNCHANGED <<texts, sheets, tracked, given, spent>>

(***************************************************************************)
(* Ending a command.                                                       *)
(***************************************************************************)

\* A failed or interrupted call, prompt or write, or a killed process.
Abandon ==
    /\ exchange.pc # "idle"
    /\ exchange' = Idle
    /\ UNCHANGED <<texts, sheets, tracked, given, spent>>

\* What contract prepare --auto answered is written into the file the answers came
\* from, or into a template that was there, if nothing is left open.
Recording ==
    /\ exchange.auto /\ exchange.job # "refine"
    /\ exchange.answers # exchange.loaded
    /\ exchange.supplied \/ (exchange.existed /\ OpenIn(exchange) = {})

Asking ==
    /\ ~exchange.supplied /\ OpenIn(exchange) # {}
    /\ exchange.auto => exchange.job # "refine"

\* Open questions and no answers: a template is written and no output.
DecideAsk ==
    /\ exchange.pc = "decide" /\ Asking
    /\ WriteSheet(exchange.job, exchange.text, exchange.answers)
    /\ exchange' = Idle
    /\ UNCHANGED <<texts, tracked, given, spent>>

DecideRecord ==
    /\ exchange.pc = "decide" /\ ~Asking /\ Recording
    /\ exchange.supplied => Load(exchange.sheet, exchange.text)
    /\ WriteSheet(exchange.sheet, exchange.text, exchange.answers)
    /\ exchange' = [exchange EXCEPT !.pc = "write"]
    /\ UNCHANGED <<texts, tracked, given, spent>>

Decided ==
    exchange.pc = "write" \/ (exchange.pc = "decide" /\ ~Asking /\ ~Recording)

\* An existing output is refused, where task refine --auto looked before it asked.
WriteContract ==
    /\ Decided /\ exchange.job # "refine"
    /\ texts[Output[exchange.job]] = NoText
    /\ LET text == Result(exchange)
           ids == AppliedIn(exchange)
       IN  /\ texts' = [texts EXCEPT ![Output[exchange.job]] = text]
           /\ tracked' = [tracked EXCEPT ![Output[exchange.job]] = [text |-> text, ids |-> ids]]
    /\ exchange' = Idle
    /\ UNCHANGED <<sheets, given, spent>>

WriteRefined ==
    /\ Decided /\ exchange.job = "refine"
    /\ exchange.auto \/ texts[Output[exchange.job]] = NoText
    /\ texts' = [texts EXCEPT ![Output[exchange.job]] = Result(exchange)]
    /\ exchange' = IF exchange.auto THEN [exchange EXCEPT !.pc = "template"] ELSE Idle
    /\ UNCHANGED <<sheets, tracked, given, spent>>

\* What task refine --auto leaves open is asked about the refined task.
WriteNextTemplate ==
    /\ exchange.pc = "template"
    /\ LET text == Result(exchange)
       IN  IF Asked(text) # {} THEN WriteSheet("refined", text, NoAnswers) ELSE UNCHANGED sheets
    /\ exchange' = Idle
    /\ UNCHANGED <<texts, tracked, given, spent>>

(***************************************************************************)
(* contract check --write-report, and the operator.                        *)
(***************************************************************************)

WriteReport ==
    /\ exchange.pc = "idle" /\ spent < MaxTurns
    /\ texts.task # NoText
    /\ spent' = spent + 1
    /\ sheets' = [sheets EXCEPT !.check = Reported(@, texts.task)]
    /\ UNCHANGED <<texts, tracked, exchange, given>>

CanEdit ==
    /\ spent < MaxTurns
    /\ spent' = spent + 1

\* Answering in a file, also while a model is asked, not while prompted for it.
FillIn(file, q) ==
    /\ CanEdit /\ sheets[file] # NoSheet
    /\ exchange.pc = "prompt" => exchange.sheet # file
    /\ file = "check" => q \in Asked(sheets[file].text)
    /\ sheets[file].entries[q] # "human"
    /\ sheets' = [sheets EXCEPT ![file].entries[q] = "human"]
    /\ given' = given \cup {[file |-> file, text |-> sheets[file].text, question |-> q]}
    /\ UNCHANGED <<texts, tracked, exchange>>

Rewrite(document, b) ==
    /\ CanEdit
    /\ texts[document] # NoText /\ texts[document].base # b
    /\ texts' = [texts EXCEPT ![document].base = b]
    /\ UNCHANGED <<sheets, tracked, exchange, given>>

Discard(document) ==
    /\ CanEdit /\ texts[document] # NoText
    /\ texts' = [texts EXCEPT ![document] = NoText]
    /\ UNCHANGED <<sheets, tracked, exchange, given>>

Next ==
    \/ \E job \in Jobs : \/ StartPlain(job) \/ StartInteractive(job)
                         \/ \E file \in SheetsOf(job) : StartWithAnswers(job, file)
                         \/ \E supplied \in BOOLEAN : StartPrepareAuto(job, supplied)
    \/ \E supplied \in BOOLEAN : StartRefineAuto(supplied)
    \/ AnswerPrompts \/ Normalize \/ ModelAnswers \/ Abandon
    \/ DecideAsk \/ DecideRecord
    \/ WriteContract \/ WriteRefined \/ WriteNextTemplate \/ WriteReport
    \/ \E file \in Files, q \in Questions : FillIn(file, q)
    \/ \E document \in Documents \ {"task"} : Discard(document)
    \/ \E document \in {"task", "contract"}, b \in Bases : Rewrite(document, b)

Spec == Init /\ [][Next]_preparedVars

(***************************************************************************)
(* Properties.                                                             *)
(***************************************************************************)

TypeOK ==
    /\ \A d \in Documents : /\ texts[d].base \in {0} \cup Bases
                            /\ texts[d].said \in [Questions -> Answers]
    /\ \A f \in Files : sheets[f].entries \in [Questions -> Answers]
    /\ exchange.job \in {None} \cup Jobs

\* What the operator answered about a text stays in the answers file: as an answer
\* while the file is for that text, otherwise among the previous answers.
AnswersSurvive ==
    \A g \in given :
        \/ sheets[g.file].text = g.text /\ sheets[g.file].entries[g.question] = "human"
        \/ [text |-> g.text, question |-> g.question, value |-> "human"]
             \in sheets[g.file].previous

\* An answer a command was given is applied as it stands: the model replaces none,
\* and none was given for another text.
AnswersAreHeeded ==
    \A q \in Filled(exchange.loaded) :
        /\ exchange.answers[q] = exchange.loaded[q]
        /\ exchange.loaded[q] = "human" =>
             \E g \in given : g.question = q /\ g.text = exchange.text

\* Authored answers are kept, and applied to the text they were given for.
AnswersAreKept == AnswersSurvive /\ AnswersAreHeeded
=============================================================================
