----------------------- MODULE PreparedAnswers_proofs -----------------------
(***************************************************************************)
(* AnswersAreKept for every set of texts and questions and any number of   *)
(* commands and edits.                                                     *)
(*                                                                         *)
(* What makes it inductive: an answer by a person that stands in a file or *)
(* in a command was given for the text that file or command is about; a    *)
(* command that is given answers adds only a model's; and the file of a    *)
(* contract check holds answers to questions that the check asks.          *)
(***************************************************************************)
EXTENDS PreparedAnswers, TLAPS

AnswerMaps == [Questions -> Answers]

Text == [base : {0} \cup Bases, said : AnswerMaps]

Kept == [text : Text, question : Questions, value : Answers]

Sheet == [text : Text, entries : AnswerMaps, previous : SUBSET Kept]

Places == {"idle", "decide", "prompt", "draft", "ask", "write", "template"}

Exchange ==
    [pc : Places, job : {None} \cup Jobs, sheet : {None} \cup Files,
     auto : BOOLEAN, supplied : BOOLEAN, existed : BOOLEAN,
     text : Text, draft : Text, loaded : AnswerMaps, answers : AnswerMaps, rounds : Nat]

GivenFor(text, q) == \E g \in given : g.text = text /\ g.question = q

NewlyGiven(file, text, replied) == [file : {file}, text : {text}, question : replied]

Survives(sheet, text, q) ==
    \/ sheet.text = text /\ sheet.entries[q] = "human"
    \/ [text |-> text, question |-> q, value |-> "human"] \in sheet.previous

TextsInv == texts \in [Documents -> Text]

SheetsTyped ==
    /\ sheets \in [Files -> Sheet]
    /\ given \subseteq [file : Files, text : Text, question : Questions]

\* A person's answer in a file was given for the text the file is about.
EntriesGiven ==
    \A f \in Files : \A q \in Questions :
        sheets[f].entries[q] = "human" => GivenFor(sheets[f].text, q)

\* The file of a contract check holds answers to what the check asks.
CheckAsks == \A g \in given : g.file = "check" => g.question \in Asked(g.text)

SheetsInv == SheetsTyped /\ AnswersSurvive /\ EntriesGiven /\ CheckAsks

\* A command adds only a model's answers to those it was given.
CommandAdds ==
    \A q \in Questions :
        /\ exchange.loaded[q] # None => exchange.answers[q] = exchange.loaded[q]
        /\ exchange.answers[q] = "human" => exchange.loaded[q] = "human"
        /\ exchange.loaded[q] = "human" => GivenFor(exchange.text, q)

Underway == exchange.pc # "idle" => exchange.sheet \in Files /\ exchange.job \in Jobs

ExchangeInv == exchange \in Exchange /\ CommandAdds /\ Underway

IInv == TextsInv /\ SheetsInv /\ ExchangeInv

(***************************************************************************)
(* The operators.                                                          *)
(***************************************************************************)

LEMMA NoAnswersTyped == NoAnswers \in AnswerMaps /\ NoText \in Text /\ NoSheet \in Sheet
BY DEF NoAnswers, AnswerMaps, Answers, NoText, Text, NoSheet, Sheet

\* A text asks only what there are questions for.
LEMMA AskedAreQuestions ==
    ASSUME PreparedAssumption, NEW text \in Text
    PROVE  Asked(text) \subseteq Questions
<1>1. Needs \in [Bases -> SUBSET Questions] /\ FollowUps \in [Questions -> SUBSET Questions]
  BY DEF PreparedAssumption
<1>2. \A q \in SaidIn(text) : FollowUps[q] \subseteq Questions
  BY <1>1 DEF SaidIn
<1> QED
  BY <1>1, <1>2 DEF Asked, Gaps

\* Applying answers to a text gives a text.
LEMMA ImprovedTyped ==
    ASSUME NEW text \in Text, NEW answers \in AnswerMaps, NEW active
    PROVE  Improved(text, answers, active) \in Text
BY DEF Improved, Text, AnswerMaps

LEMMA WithoutTyped ==
    ASSUME NEW text \in Text, NEW revised
    PROVE  Without(text, revised) \in Text
BY DEF Without, Text, AnswerMaps, Answers

LEMMA ResultTyped ==
    ASSUME NEW e \in Exchange
    PROVE  Result(e) \in Text
<1>1. e.text \in Text /\ e.draft \in Text /\ e.answers \in AnswerMaps
  BY DEF Exchange
<1>2. PreparedTask(IF e.auto THEN e.draft ELSE e.text, e.answers) \in Text
  BY <1>1, ImprovedTyped DEF PreparedTask
<1>3. PreparedContract(e.text, e.answers, Revised(e)) \in Text
  BY <1>1, WithoutTyped, ImprovedTyped DEF PreparedContract
<1> QED
  BY <1>2, <1>3 DEF Result

\* Putting a file to another text keeps every answer of a person in it.
LEMMA MergedKeeps ==
    ASSUME NEW sheet \in Sheet, NEW text \in Text
    PROVE  /\ Merged(sheet, text) \in Sheet
           /\ Merged(sheet, text).text = text
           /\ \A q \in Questions :
                Merged(sheet, text).entries[q] # None =>
                    sheet.text = text /\ Merged(sheet, text).entries[q] = sheet.entries[q]
           /\ \A x \in Text, q \in Questions :
                Survives(sheet, x, q) => Survives(Merged(sheet, text), x, q)
<1>1. CASE sheet.text = text
  BY <1>1 DEF Merged
<1>2. CASE sheet.text # text
  <2> DEFINE m == [text |-> text, entries |-> NoAnswers,
                   previous |-> sheet.previous \cup Archived(sheet)]
  <2>1. Merged(sheet, text) = m
    BY <1>2 DEF Merged
  <2>2. sheet.text \in Text /\ sheet.entries \in AnswerMaps /\ sheet.previous \subseteq Kept
    BY DEF Sheet
  <2>3. Archived(sheet) \subseteq Kept
    BY <2>2 DEF Archived, Kept, Filled, AnswerMaps
  <2>4. m \in Sheet
    BY <2>2, <2>3, NoAnswersTyped DEF Sheet
  <2>5. \A q \in Questions : m.entries[q] = None
    BY DEF NoAnswers
  <2>6. ASSUME NEW x \in Text, NEW q \in Questions, Survives(sheet, x, q)
        PROVE  Survives(m, x, q)
    <3>1. CASE sheet.text = x /\ sheet.entries[q] = "human"
      <4>1. q \in Filled(sheet.entries)
        BY <3>1 DEF Filled, None
      <4>2. [text |-> x, question |-> q, value |-> "human"] \in Archived(sheet)
        BY <3>1, <4>1 DEF Archived
      <4> QED
        BY <4>2 DEF Survives
    <3>2. CASE [text |-> x, question |-> q, value |-> "human"] \in sheet.previous
      BY <3>2 DEF Survives
    <3> QED
      BY <2>6, <3>1, <3>2 DEF Survives
  <2> HIDE DEF m
  <2>7. m.text = text
    BY DEF m
  <2> QED
    BY <2>1, <2>4, <2>5, <2>6, <2>7
<1> QED
  BY <1>1, <1>2

\* Writing applied answers into a file replaces no answer in it.
LEMMA PrefilledKeeps ==
    ASSUME NEW sheet \in Sheet, NEW answers \in AnswerMaps
    PROVE  /\ Prefilled(sheet, answers) \in Sheet
           /\ Prefilled(sheet, answers).text = sheet.text
           /\ \A q \in Questions :
                \/ Prefilled(sheet, answers).entries[q] = sheet.entries[q]
                \/ Prefilled(sheet, answers).entries[q] = answers[q]
           /\ \A x \in Text, q \in Questions :
                Survives(sheet, x, q) => Survives(Prefilled(sheet, answers), x, q)
<1> DEFINE new == [q \in Questions |->
                     IF sheet.entries[q] = None THEN answers[q] ELSE sheet.entries[q]]
           p == Prefilled(sheet, answers)
<1>1. p = [sheet EXCEPT !.entries = new]
  BY DEF Prefilled
<1>2. new \in AnswerMaps
  BY DEF Sheet, AnswerMaps
<1>3. p \in Sheet /\ p.text = sheet.text /\ p.entries = new /\ p.previous = sheet.previous
  <2> HIDE DEF new, p
  <2> QED
    BY <1>1, <1>2 DEF Sheet
<1>4. \A q \in Questions : sheet.entries[q] = "human" => p.entries[q] = "human"
  BY <1>3 DEF None
<1>5. \A q \in Questions : p.entries[q] = sheet.entries[q] \/ p.entries[q] = answers[q]
  BY <1>3
<1> HIDE DEF new, p
<1>6. \A x \in Text, q \in Questions : Survives(sheet, x, q) => Survives(p, x, q)
  BY <1>3, <1>4 DEF Survives
<1> QED
  BY <1>3, <1>5, <1>6 DEF p

(***************************************************************************)
(* What the actions do to files and commands.                              *)
(***************************************************************************)

\* A file is written with the answers of a command that is about its text.
LEMMA WriteSheetKeeps ==
    ASSUME SheetsInv, NEW file \in Files, NEW text \in Text, NEW answers \in AnswerMaps,
           \A q \in Questions : answers[q] = "human" => GivenFor(text, q),
           WriteSheet(file, text, answers), UNCHANGED given
    PROVE  SheetsInv'
<1> DEFINE new == Prefilled(Merged(sheets[file], text), answers)
<1>1. sheets' = [sheets EXCEPT ![file] = new]
  BY DEF WriteSheet
<1>2. sheets[file] \in Sheet
  BY DEF SheetsInv, SheetsTyped
<1>3. new \in Sheet /\ new.text = text
  BY <1>2, MergedKeeps, PrefilledKeeps
<1>4. ASSUME NEW q \in Questions, new.entries[q] = "human"
      PROVE  GivenFor(text, q)
  <2>1. Merged(sheets[file], text).entries[q] = "human" \/ answers[q] = "human"
    BY <1>2, <1>4, MergedKeeps, PrefilledKeeps
  <2>2. ASSUME Merged(sheets[file], text).entries[q] = "human" PROVE GivenFor(text, q)
    <3>1. sheets[file].text = text /\ sheets[file].entries[q] = "human"
      BY <1>2, <2>2, MergedKeeps DEF None
    <3> QED
      BY <3>1 DEF SheetsInv, EntriesGiven
  <2> QED
    BY <2>1, <2>2
<1>5. \A x \in Text, q \in Questions : Survives(sheets[file], x, q) => Survives(new, x, q)
  <2>1. Merged(sheets[file], text) \in Sheet
    BY <1>2, MergedKeeps
  <2> QED
    BY <1>2, <2>1, MergedKeeps, PrefilledKeeps
<1> HIDE DEF new
<1>6. SheetsTyped'
  BY <1>1, <1>3 DEF SheetsInv, SheetsTyped
<1>7. \A f \in Files : sheets'[f] = IF f = file THEN new ELSE sheets[f]
  BY <1>1 DEF SheetsInv, SheetsTyped
<1>8. AnswersSurvive'
  <2> SUFFICES ASSUME NEW g \in given PROVE Survives(sheets'[g.file], g.text, g.question)
    BY DEF AnswersSurvive, Survives
  <2>1. g.file \in Files /\ g.text \in Text /\ g.question \in Questions
    BY DEF SheetsInv, SheetsTyped
  <2>2. Survives(sheets[g.file], g.text, g.question)
    BY DEF SheetsInv, AnswersSurvive, Survives
  <2> QED
    BY <1>5, <1>7, <2>1, <2>2
<1>9. EntriesGiven'
  BY <1>3, <1>4, <1>7 DEF SheetsInv, EntriesGiven, GivenFor
<1>10. CheckAsks'
  BY DEF SheetsInv, CheckAsks
<1> QED
  BY <1>6, <1>8, <1>9, <1>10 DEF SheetsInv

\* A file is replaced, and a person may have answered in it: the file's older
\* answers survive, and every new one was given for the text it is about.
Answered(file, new, added) ==
    /\ file \in Files /\ new \in Sheet /\ added \subseteq Questions
    /\ sheets' = [sheets EXCEPT ![file] = new]
    /\ given' = given \cup NewlyGiven(file, new.text, added)
    /\ file = "check" => added \subseteq Asked(new.text)
    /\ \A g \in given : g.file = file => Survives(new, g.text, g.question)
    /\ \A q \in added : new.entries[q] = "human"
    /\ \A q \in Questions \ added : new.entries[q] = "human" => GivenFor(new.text, q)

LEMMA AnsweringKeeps ==
    ASSUME SheetsInv, NEW file, NEW new, NEW added, Answered(file, new, added)
    PROVE  SheetsInv'
<1> USE DEF Answered
<1> DEFINE fresh == NewlyGiven(file, new.text, added)
<1>1. new.text \in Text
  BY DEF Sheet
<1>2. fresh \subseteq [file : Files, text : Text, question : Questions]
  BY <1>1 DEF NewlyGiven
<1>3. SheetsTyped'
  BY <1>2 DEF SheetsInv, SheetsTyped
<1>4. \A f \in Files : sheets'[f] = IF f = file THEN new ELSE sheets[f]
  BY DEF SheetsInv, SheetsTyped
<1>5. AnswersSurvive'
  <2> SUFFICES ASSUME NEW g \in given' PROVE Survives(sheets'[g.file], g.text, g.question)
    BY DEF AnswersSurvive, Survives
  <2>1. CASE g \in given
    <3>1. g.file \in Files
      BY <2>1 DEF SheetsInv, SheetsTyped
    <3>2. Survives(sheets[g.file], g.text, g.question)
      BY <2>1 DEF SheetsInv, AnswersSurvive, Survives
    <3> QED
      BY <1>4, <2>1, <3>1, <3>2
  <2>2. CASE g \in fresh
    <3>1. g.file = file /\ g.text = new.text /\ g.question \in added
      BY <2>2 DEF NewlyGiven
    <3> QED
      BY <1>4, <3>1 DEF Survives
  <2> QED
    BY <2>1, <2>2
<1>6. EntriesGiven'
  <2> SUFFICES ASSUME NEW f \in Files, NEW q \in Questions, sheets'[f].entries[q] = "human"
               PROVE  \E g \in given' : g.text = sheets'[f].text /\ g.question = q
    BY DEF EntriesGiven, GivenFor
  <2>1. CASE f # file
    <3>1. sheets'[f] = sheets[f]
      BY <1>4, <2>1
    <3>2. GivenFor(sheets[f].text, q)
      BY <3>1 DEF SheetsInv, EntriesGiven
    <3> QED
      BY <3>1, <3>2 DEF GivenFor
  <2>2. CASE f = file /\ q \notin added
    BY <1>4, <2>2 DEF GivenFor
  <2>3. CASE f = file /\ q \in added
    <3> DEFINE g == [file |-> file, text |-> new.text, question |-> q]
    <3>1. g \in given'
      BY <2>3 DEF NewlyGiven
    <3>2. sheets'[f].text = new.text
      BY <1>4, <2>3
    <3>3. g.text = new.text /\ g.question = q
      OBVIOUS
    <3> HIDE DEF g
    <3> QED
      BY <3>1, <3>2, <3>3
  <2> QED
    BY <2>1, <2>2, <2>3
<1>7. CheckAsks'
  <2> SUFFICES ASSUME NEW g \in given', g.file = "check" PROVE g.question \in Asked(g.text)
    BY DEF CheckAsks, Asked, Gaps, SaidIn
  <2>1. CASE g \in given
    BY <2>1 DEF SheetsInv, CheckAsks
  <2>2. CASE g \in fresh
    BY <2>2 DEF NewlyGiven
  <2> QED
    BY <2>1, <2>2
<1> QED
  BY <1>3, <1>5, <1>6, <1>7 DEF SheetsInv

\* A command that starts has answers of nobody, or those of a file for its text.
LEMMA StartedKeeps ==
    ASSUME exchange' \in Exchange, exchange'.sheet \in Files, exchange'.job \in Jobs,
           exchange'.answers = exchange'.loaded,
           \A q \in Questions :
                exchange'.loaded[q] = "human" => GivenFor(exchange'.text, q),
           UNCHANGED given
    PROVE  ExchangeInv'
<1>1. CommandAdds'
  BY DEF CommandAdds, GivenFor
<1>2. Underway'
  BY DEF Underway
<1> QED
  BY <1>1, <1>2 DEF ExchangeInv

\* A command goes on: its text and what it was given stay, and it may add answers
\* of a model where there are none.
LEMMA GoingOnKeeps ==
    ASSUME ExchangeInv, exchange' \in Exchange, exchange.pc # "idle",
           exchange'.text = exchange.text, exchange'.sheet = exchange.sheet,
           exchange'.job = exchange.job, exchange'.loaded = exchange.loaded,
           \A q \in Questions :
                \/ exchange'.answers[q] = exchange.answers[q]
                \/ exchange.answers[q] = None /\ exchange'.answers[q] = "auto",
           given \subseteq given'
    PROVE  ExchangeInv'
<1>1. CommandAdds'
  BY DEF ExchangeInv, CommandAdds, GivenFor, None
<1>2. Underway'
  BY DEF ExchangeInv, Underway
<1> QED
  BY <1>1, <1>2 DEF ExchangeInv

\* Between commands nothing is loaded.
LEMMA IdleKeeps ==
    ASSUME exchange' = Idle
    PROVE  ExchangeInv'
<1>1. Idle \in Exchange
  BY NoAnswersTyped DEF Exchange, Idle, Places
<1>2. \A q \in Questions : Idle.loaded[q] = None /\ Idle.answers[q] = None
  BY DEF Idle, NoAnswers
<1>3. Idle.pc = "idle"
  BY DEF Idle
<1> QED
  BY <1>1, <1>2, <1>3 DEF ExchangeInv, CommandAdds, Underway, None

(***************************************************************************)
(* The actions.                                                            *)
(***************************************************************************)

LEMMA FilesUnchanged ==
    ASSUME SheetsInv, UNCHANGED <<sheets, given>>
    PROVE  SheetsInv'
BY DEF SheetsInv, SheetsTyped, AnswersSurvive, EntriesGiven, CheckAsks, GivenFor,
       Asked, Gaps, SaidIn

LEMMA CommandUnchanged ==
    ASSUME ExchangeInv, UNCHANGED exchange, given \subseteq given'
    PROVE  ExchangeInv'
BY DEF ExchangeInv, CommandAdds, Underway, GivenFor

LEMMA TextsUnchanged ==
    ASSUME TextsInv, UNCHANGED texts
    PROVE  TextsInv'
BY DEF TextsInv

\* A command that starts is about its source, and has no answers yet.
LEMMA StartedTyped ==
    ASSUME TextsInv, NEW job \in Jobs, NEW pc \in Places
    PROVE  LET e == Started(job, pc)
           IN  /\ e \in Exchange /\ e.job = job /\ e.sheet = job
               /\ e.text = texts[Source[job]]
               /\ e.loaded = NoAnswers /\ e.answers = NoAnswers
<1>1. texts[Source[job]] \in Text
  BY DEF TextsInv, Documents, Jobs, Source
<1>2. Idle \in Exchange /\ Idle.loaded = NoAnswers /\ Idle.answers = NoAnswers
  BY NoAnswersTyped DEF Exchange, Idle, Places
<1>3. job \in Files
  BY DEF Jobs, Files
<1>4. Started(job, pc) =
        [Idle EXCEPT !.pc = pc, !.job = job, !.sheet = job, !.text = texts[Source[job]]]
  BY DEF Started
<1> QED
  BY <1>1, <1>2, <1>3, <1>4 DEF Exchange

LEMMA JobFiles ==
    /\ Jobs \subseteq Files
    /\ \A job \in Jobs : SheetsOf(job) \subseteq Files
BY DEF Jobs, Files, SheetsOf

LEMMA NoneLoaded ==
    \A text, q : q \in Questions /\ NoAnswers[q] = "human" => GivenFor(text, q)
BY DEF NoAnswers, None

\* A file that is not refused is one for the source as it is.
LEMMA LoadedFor ==
    ASSUME SheetsInv, NEW file \in Files, NEW text, Load(file, text)
    PROVE  /\ sheets[file].entries \in AnswerMaps
           /\ \A q \in Questions : sheets[file].entries[q] = "human" => GivenFor(text, q)
BY DEF SheetsInv, SheetsTyped, EntriesGiven, Load, Sheet

LEMMA StartPlainStep ==
    ASSUME IInv, NEW job \in Jobs, StartPlain(job)
    PROVE  IInv'
<1>1. exchange' = Started(job, "decide") /\ "decide" \in Places
  BY DEF StartPlain, Places
<1>2. ExchangeInv'
  BY <1>1, StartedTyped, StartedKeeps, JobFiles, NoneLoaded DEF IInv, StartPlain
<1> QED
  BY <1>2, FilesUnchanged, TextsUnchanged DEF IInv, StartPlain

LEMMA StartInteractiveStep ==
    ASSUME IInv, NEW job \in Jobs, StartInteractive(job)
    PROVE  IInv'
<1> DEFINE e == Started(job, "prompt")
<1>1. exchange' = [e EXCEPT !.supplied = TRUE]
  BY DEF StartInteractive
<1>2. e \in Exchange /\ e.job = job /\ e.sheet = job /\ e.loaded = NoAnswers /\ e.answers = NoAnswers
  BY StartedTyped DEF IInv, Places
<1> HIDE DEF e
<1>3. /\ exchange' \in Exchange /\ exchange'.job = job /\ exchange'.sheet = job
      /\ exchange'.loaded = NoAnswers /\ exchange'.answers = NoAnswers
  BY <1>1, <1>2 DEF Exchange
<1>4. ExchangeInv'
  BY <1>3, StartedKeeps, JobFiles, NoneLoaded DEF StartInteractive
<1> QED
  BY <1>4, FilesUnchanged, TextsUnchanged DEF IInv, StartInteractive

LEMMA StartWithAnswersStep ==
    ASSUME IInv, NEW job \in Jobs, NEW file \in SheetsOf(job), StartWithAnswers(job, file)
    PROVE  IInv'
<1> DEFINE loaded == sheets[file].entries
           e == Started(job, "decide")
<1>1. exchange' = [e EXCEPT !.sheet = file, !.supplied = TRUE,
                            !.loaded = loaded, !.answers = loaded]
  BY DEF StartWithAnswers
<1>2. e \in Exchange /\ e.job = job /\ e.text = texts[Source[job]]
  BY StartedTyped DEF IInv, Places
<1>3. file \in Files
  BY JobFiles
<1>4. /\ loaded \in AnswerMaps
      /\ \A q \in Questions : loaded[q] = "human" => GivenFor(texts[Source[job]], q)
  BY <1>3, LoadedFor DEF IInv, StartWithAnswers
<1> HIDE DEF e, loaded
<1>5. /\ exchange' \in Exchange /\ exchange'.job = job /\ exchange'.sheet = file
      /\ exchange'.text = e.text
      /\ exchange'.loaded = loaded /\ exchange'.answers = loaded
  BY <1>1, <1>2, <1>3, <1>4 DEF Exchange
<1>6. ExchangeInv'
  BY <1>2, <1>3, <1>4, <1>5, StartedKeeps DEF StartWithAnswers
<1> QED
  BY <1>6, FilesUnchanged, TextsUnchanged DEF IInv, StartWithAnswers

LEMMA StartRefineAutoStep ==
    ASSUME IInv, NEW supplied \in BOOLEAN, StartRefineAuto(supplied)
    PROVE  IInv'
<1> DEFINE loaded == IF supplied THEN sheets["refine"].entries ELSE NoAnswers
           e == Started("refine", "draft")
<1>1. exchange' = [e EXCEPT !.auto = TRUE, !.supplied = supplied,
                            !.loaded = loaded, !.answers = loaded]
  BY DEF StartRefineAuto
<1>2. "refine" \in Jobs /\ "refine" \in Files
  BY DEF Jobs, Files
<1>3. /\ e \in Exchange /\ e.job = "refine" /\ e.sheet = "refine"
      /\ e.text = texts[Source["refine"]]
  BY <1>2, StartedTyped DEF IInv, Places
<1>4. /\ loaded \in AnswerMaps
      /\ \A q \in Questions : loaded[q] = "human" => GivenFor(texts[Source["refine"]], q)
  <2>1. CASE supplied
    BY <1>2, <2>1, LoadedFor DEF IInv, StartRefineAuto
  <2>2. CASE ~supplied
    BY <2>2, NoneLoaded, NoAnswersTyped
  <2> QED
    BY <2>1, <2>2
<1> HIDE DEF e, loaded
<1>5. /\ exchange' \in Exchange /\ exchange'.job = "refine" /\ exchange'.sheet = "refine"
      /\ exchange'.text = e.text
      /\ exchange'.loaded = loaded /\ exchange'.answers = loaded
  BY <1>1, <1>3, <1>4 DEF Exchange
<1>6. ExchangeInv'
  BY <1>2, <1>3, <1>4, <1>5, StartedKeeps DEF StartRefineAuto
<1> QED
  BY <1>6, FilesUnchanged, TextsUnchanged DEF IInv, StartRefineAuto

\* Asking on or deciding changes only where the command is.
LEMMA AskOrDecideTyped ==
    ASSUME NEW e \in Exchange
    PROVE  LET d == AskOrDecide(e)
           IN  /\ d \in Exchange /\ d.job = e.job /\ d.sheet = e.sheet /\ d.text = e.text
               /\ d.loaded = e.loaded /\ d.answers = e.answers
<1>1. PICK pc \in Places : AskOrDecide(e) = [e EXCEPT !.pc = pc]
  BY DEF AskOrDecide, Places
<1> QED
  BY <1>1 DEF Exchange

LEMMA StartPrepareAutoStep ==
    ASSUME IInv, NEW job \in Jobs, NEW supplied \in BOOLEAN, StartPrepareAuto(job, supplied)
    PROVE  IInv'
<1> DEFINE text == texts[Source[job]]
           loaded == IF supplied THEN sheets[job].entries ELSE NoAnswers
           existed == ~supplied /\ sheets[job] # NoSheet
           s == Started(job, "ask")
           e == [s EXCEPT !.auto = TRUE, !.supplied = supplied, !.existed = existed,
                          !.loaded = loaded, !.answers = loaded]
<1>1. exchange' = AskOrDecide(e)
  BY DEF StartPrepareAuto
<1>2. s \in Exchange /\ s.job = job /\ s.sheet = job /\ s.text = text
  BY StartedTyped DEF IInv, Places
<1>3. job \in Files
  BY JobFiles
<1>4. /\ loaded \in AnswerMaps
      /\ \A q \in Questions : loaded[q] = "human" => GivenFor(text, q)
  <2>1. CASE supplied
    BY <1>3, <2>1, LoadedFor DEF IInv, StartPrepareAuto
  <2>2. CASE ~supplied
    BY <2>2, NoneLoaded, NoAnswersTyped
  <2> QED
    BY <2>1, <2>2
<1>5. existed \in BOOLEAN
  OBVIOUS
<1>6. SheetsInv'
  <2>1. CASE WriteSheet(job, text, NoAnswers)
    <3>1. text \in Text
      BY <1>2 DEF Exchange
    <3>2. UNCHANGED given /\ SheetsInv
      BY DEF IInv, StartPrepareAuto
    <3> HIDE DEF text
    <3> QED
      BY <1>3, <2>1, <3>1, <3>2, NoneLoaded, NoAnswersTyped, WriteSheetKeeps
  <2>2. CASE UNCHANGED sheets
    BY <2>2, FilesUnchanged DEF IInv, StartPrepareAuto
  <2> QED
    BY <2>1, <2>2 DEF StartPrepareAuto
<1> HIDE DEF s, loaded, existed, text
<1>7. /\ e \in Exchange /\ e.job = job /\ e.sheet = job /\ e.text = text
      /\ e.loaded = loaded /\ e.answers = loaded
  BY <1>2, <1>4, <1>5 DEF Exchange
<1> HIDE DEF e
<1>8. /\ exchange' \in Exchange /\ exchange'.job = job /\ exchange'.sheet = job
      /\ exchange'.text = text /\ exchange'.loaded = loaded /\ exchange'.answers = loaded
  BY <1>1, <1>7, AskOrDecideTyped
<1>9. ExchangeInv'
  BY <1>3, <1>4, <1>8, StartedKeeps DEF StartPrepareAuto
<1> QED
  BY <1>6, <1>9, TextsUnchanged DEF IInv, StartPrepareAuto

LEMMA NormalizeStep ==
    ASSUME IInv, Normalize
    PROVE  IInv'
<1>1. PICK b \in Bases :
        exchange' = AskOrDecide([exchange EXCEPT !.draft = [exchange.text EXCEPT !.base = b]])
  BY DEF Normalize
<1> DEFINE e == [exchange EXCEPT !.draft = [exchange.text EXCEPT !.base = b]]
<1>2. exchange \in Exchange /\ exchange.pc # "idle"
  BY DEF IInv, ExchangeInv, Normalize
<1>3. [exchange.text EXCEPT !.base = b] \in Text
  BY <1>2 DEF Exchange, Text
<1>4. /\ e \in Exchange /\ e.job = exchange.job /\ e.sheet = exchange.sheet
      /\ e.text = exchange.text /\ e.loaded = exchange.loaded /\ e.answers = exchange.answers
  BY <1>2, <1>3 DEF Exchange
<1> HIDE DEF e
<1>5. /\ exchange' \in Exchange /\ exchange'.job = exchange.job
      /\ exchange'.sheet = exchange.sheet /\ exchange'.text = exchange.text
      /\ exchange'.loaded = exchange.loaded /\ exchange'.answers = exchange.answers
  BY <1>1, <1>4, AskOrDecideTyped DEF e
<1>6. ExchangeInv'
  BY <1>2, <1>5, GoingOnKeeps DEF IInv, Normalize
<1> QED
  BY <1>6, FilesUnchanged, TextsUnchanged DEF IInv, Normalize

\* The model is asked only what has no answer.
LEMMA ModelAnswersStep ==
    ASSUME IInv, ModelAnswers
    PROVE  IInv'
<1>1. PICK new \in Replies(exchange) :
        LET e == [exchange EXCEPT !.rounds = @ + 1, !.answers = [q \in Questions |->
                    IF q \in new THEN "auto" ELSE @[q]]]
        IN  exchange' = IF new = {} THEN [exchange EXCEPT !.pc = "decide"] ELSE AskOrDecide(e)
  BY DEF ModelAnswers
<1> DEFINE answers == [q \in Questions |-> IF q \in new THEN "auto" ELSE exchange.answers[q]]
           e == [exchange EXCEPT !.rounds = @ + 1, !.answers = answers]
<1>2. exchange \in Exchange /\ exchange.pc # "idle"
  BY DEF IInv, ExchangeInv, ModelAnswers
<1>3. exchange.answers \in AnswerMaps /\ exchange.rounds + 1 \in Nat
  BY <1>2 DEF Exchange
<1>4. answers \in AnswerMaps
  BY <1>3 DEF AnswerMaps, Answers
<1>5. \A q \in Questions :
        \/ answers[q] = exchange.answers[q]
        \/ exchange.answers[q] = None /\ answers[q] = "auto"
  <2>1. new \subseteq Answerable(exchange)
    BY <1>1 DEF Replies
  <2>2. \A q \in new : exchange.answers[q] = None
    BY <2>1 DEF Answerable
  <2>3. \A q \in Questions : answers[q] = IF q \in new THEN "auto" ELSE exchange.answers[q]
    OBVIOUS
  <2> HIDE DEF answers
  <2> QED
    BY <2>2, <2>3
<1>6. CASE new = {}
  <2>1. exchange' = [exchange EXCEPT !.pc = "decide"]
    BY <1>1, <1>6
  <2>2. /\ exchange' \in Exchange /\ exchange'.job = exchange.job
        /\ exchange'.sheet = exchange.sheet /\ exchange'.text = exchange.text
        /\ exchange'.loaded = exchange.loaded /\ exchange'.answers = exchange.answers
    BY <1>2, <2>1 DEF Exchange, Places
  <2>3. ExchangeInv'
    BY <1>2, <2>2, GoingOnKeeps DEF IInv, ModelAnswers
  <2> QED
    BY <2>3, FilesUnchanged, TextsUnchanged DEF IInv, ModelAnswers
<1>7. CASE new # {}
  <2>1. exchange' = AskOrDecide(e)
    BY <1>1, <1>7
  <2> HIDE DEF answers
  <2>2. /\ e \in Exchange /\ e.job = exchange.job /\ e.sheet = exchange.sheet
        /\ e.text = exchange.text /\ e.loaded = exchange.loaded /\ e.answers = answers
    BY <1>2, <1>3, <1>4 DEF Exchange
  <2> HIDE DEF e
  <2>3. /\ exchange' \in Exchange /\ exchange'.job = exchange.job
        /\ exchange'.sheet = exchange.sheet /\ exchange'.text = exchange.text
        /\ exchange'.loaded = exchange.loaded /\ exchange'.answers = answers
    BY <2>1, <2>2, AskOrDecideTyped
  <2>4. ExchangeInv'
    BY <1>2, <1>5, <2>3, GoingOnKeeps DEF IInv, ModelAnswers
  <2> QED
    BY <2>4, FilesUnchanged, TextsUnchanged DEF IInv, ModelAnswers
<1> QED
  BY <1>6, <1>7

LEMMA AbandonStep ==
    ASSUME IInv, Abandon
    PROVE  IInv'
BY IdleKeeps, FilesUnchanged, TextsUnchanged DEF IInv, Abandon

\* What a command writes into an answers file is its own.
LEMMA CommandSheetKeeps ==
    ASSUME IInv, exchange.pc # "idle", NEW file \in Files, UNCHANGED given,
           WriteSheet(file, exchange.text, exchange.answers)
    PROVE  SheetsInv'
<1>1. exchange.text \in Text /\ exchange.answers \in AnswerMaps
  BY DEF IInv, ExchangeInv, Exchange
<1>2. \A q \in Questions : exchange.answers[q] = "human" => GivenFor(exchange.text, q)
  BY DEF IInv, ExchangeInv, CommandAdds
<1> QED
  BY <1>1, <1>2, WriteSheetKeeps DEF IInv

LEMMA DecideAskStep ==
    ASSUME IInv, DecideAsk
    PROVE  IInv'
<1>1. exchange.pc # "idle" /\ exchange.job \in Files
  BY JobFiles DEF IInv, ExchangeInv, Underway, DecideAsk
<1>2. SheetsInv'
  BY <1>1, CommandSheetKeeps DEF DecideAsk
<1> QED
  BY <1>2, IdleKeeps, TextsUnchanged DEF IInv, DecideAsk

LEMMA DecideRecordStep ==
    ASSUME IInv, DecideRecord
    PROVE  IInv'
<1>1. exchange \in Exchange /\ exchange.pc # "idle" /\ exchange.sheet \in Files
  BY DEF IInv, ExchangeInv, Underway, DecideRecord
<1>2. SheetsInv'
  BY <1>1, CommandSheetKeeps DEF DecideRecord
<1>3. exchange' = [exchange EXCEPT !.pc = "write"]
  BY DEF DecideRecord
<1>4. /\ exchange' \in Exchange /\ exchange'.job = exchange.job
      /\ exchange'.sheet = exchange.sheet /\ exchange'.text = exchange.text
      /\ exchange'.loaded = exchange.loaded /\ exchange'.answers = exchange.answers
  BY <1>1, <1>3 DEF Exchange, Places
<1>5. ExchangeInv'
  BY <1>1, <1>4, GoingOnKeeps DEF IInv, DecideRecord
<1> QED
  BY <1>2, <1>5, TextsUnchanged DEF IInv, DecideRecord

\* An output is a text, and files and answers stay as they are.
LEMMA OutputKeeps ==
    ASSUME IInv, exchange.pc # "idle",
           texts' = [texts EXCEPT ![Output[exchange.job]] = Result(exchange)]
    PROVE  TextsInv'
<1>1. exchange \in Exchange /\ exchange.job \in Jobs
  BY DEF IInv, ExchangeInv, Underway
<1>2. Result(exchange) \in Text
  BY <1>1, ResultTyped
<1>3. Output[exchange.job] \in Documents
  BY <1>1 DEF Output, Jobs, Documents
<1> QED
  BY <1>2, <1>3 DEF IInv, TextsInv

LEMMA WriteContractStep ==
    ASSUME IInv, WriteContract
    PROVE  IInv'
<1>1. exchange.pc # "idle"
  BY DEF WriteContract, Decided
<1> QED
  BY <1>1, OutputKeeps, IdleKeeps, FilesUnchanged DEF IInv, WriteContract

LEMMA WriteRefinedStep ==
    ASSUME IInv, WriteRefined
    PROVE  IInv'
<1>1. exchange \in Exchange /\ exchange.pc # "idle"
  BY DEF IInv, ExchangeInv, WriteRefined, Decided
<1>2. TextsInv'
  BY <1>1, OutputKeeps DEF WriteRefined
<1>3. ExchangeInv'
  <2>1. CASE exchange.auto
    <3>1. exchange' = [exchange EXCEPT !.pc = "template"]
      BY <2>1 DEF WriteRefined
    <3>2. /\ exchange' \in Exchange /\ exchange'.job = exchange.job
          /\ exchange'.sheet = exchange.sheet /\ exchange'.text = exchange.text
          /\ exchange'.loaded = exchange.loaded /\ exchange'.answers = exchange.answers
      BY <1>1, <3>1 DEF Exchange, Places
    <3> QED
      BY <1>1, <3>2, GoingOnKeeps DEF IInv, WriteRefined
  <2>2. CASE ~exchange.auto
    BY <2>2, IdleKeeps DEF WriteRefined
  <2> QED
    BY <2>1, <2>2
<1> QED
  BY <1>2, <1>3, FilesUnchanged DEF IInv, WriteRefined

LEMMA WriteNextTemplateStep ==
    ASSUME IInv, WriteNextTemplate
    PROVE  IInv'
<1>1. Result(exchange) \in Text /\ "refined" \in Files
  BY ResultTyped DEF IInv, ExchangeInv, Files
<1>2. SheetsInv'
  <2>1. CASE WriteSheet("refined", Result(exchange), NoAnswers)
    BY <1>1, <2>1, NoneLoaded, NoAnswersTyped, WriteSheetKeeps DEF IInv, WriteNextTemplate
  <2>2. CASE UNCHANGED sheets
    BY <2>2, FilesUnchanged DEF IInv, WriteNextTemplate
  <2> QED
    BY <2>1, <2>2 DEF WriteNextTemplate
<1> QED
  BY <1>2, IdleKeeps, TextsUnchanged DEF IInv, WriteNextTemplate

LEMMA RewriteStep ==
    ASSUME IInv, NEW document \in Documents, NEW b \in Bases, Rewrite(document, b)
    PROVE  IInv'
<1>1. texts' = [texts EXCEPT ![document] = [texts[document] EXCEPT !.base = b]]
  BY DEF Rewrite
<1>2. [texts[document] EXCEPT !.base = b] \in Text
  BY DEF IInv, TextsInv, Text
<1>3. TextsInv'
  BY <1>1, <1>2 DEF IInv, TextsInv
<1> QED
  BY <1>3, FilesUnchanged, CommandUnchanged DEF IInv, Rewrite

LEMMA DiscardStep ==
    ASSUME IInv, NEW document \in Documents, Discard(document)
    PROVE  IInv'
<1>1. TextsInv'
  BY NoAnswersTyped DEF IInv, TextsInv, Discard
<1> QED
  BY <1>1, FilesUnchanged, CommandUnchanged DEF IInv, Discard

\* The operator answers in a file: his older answers in it stay.
LEMMA FillInStep ==
    ASSUME IInv, NEW file \in Files, NEW q \in Questions, FillIn(file, q)
    PROVE  IInv'
<1> DEFINE sheet == sheets[file]
           entries == [sheet.entries EXCEPT ![q] = "human"]
           new == [sheet EXCEPT !.entries = entries]
<1>1. sheet \in Sheet
  BY DEF IInv, SheetsInv, SheetsTyped
<1>2. sheets' = [sheets EXCEPT ![file] = new]
  BY DEF FillIn
<1>3. entries \in AnswerMaps
  BY <1>1 DEF Sheet, AnswerMaps, Answers
<1>4. entries[q] = "human" /\ \A r \in Questions \ {q} : entries[r] = sheet.entries[r]
  BY <1>1 DEF Sheet, AnswerMaps
<1> HIDE DEF entries, sheet
<1>5. /\ new \in Sheet /\ new.text = sheet.text /\ new.previous = sheet.previous
      /\ new.entries = entries
  BY <1>1, <1>3 DEF Sheet
<1> HIDE DEF new
<1>6. given' = given \cup NewlyGiven(file, new.text, {q})
  <2>1. given' = given \cup {[file |-> file, text |-> new.text, question |-> q]}
    BY <1>5 DEF FillIn, sheet
  <2> QED
    BY <2>1 DEF NewlyGiven
<1>7. ASSUME NEW g \in given, g.file = file PROVE Survives(new, g.text, g.question)
  <2>1. Survives(sheet, g.text, g.question) /\ g.question \in Questions
    BY <1>7 DEF IInv, SheetsInv, SheetsTyped, AnswersSurvive, Survives, sheet
  <2> QED
    BY <1>4, <1>5, <2>1 DEF Survives
<1>8. ASSUME NEW r \in Questions \ {q}, new.entries[r] = "human"
      PROVE  GivenFor(new.text, r)
  BY <1>4, <1>5, <1>8 DEF IInv, SheetsInv, EntriesGiven, sheet
<1>9. SheetsInv'
  <2> DEFINE added == {q}
  <2>1. file = "check" => added \subseteq Asked(new.text)
    BY <1>5 DEF FillIn, sheet
  <2>2. added \subseteq Questions /\ \A r \in added : new.entries[r] = "human"
    BY <1>4, <1>5
  <2>3. /\ \A g \in given : g.file = file => Survives(new, g.text, g.question)
        /\ \A r \in Questions \ added : new.entries[r] = "human" => GivenFor(new.text, r)
    BY <1>7, <1>8
  <2>4. SheetsInv /\ new \in Sheet
    BY <1>5 DEF IInv
  <2>5. given' = given \cup NewlyGiven(file, new.text, added)
    BY <1>6
  <2> HIDE DEF added
  <2>6. Answered(file, new, added)
    BY <1>2, <2>1, <2>2, <2>3, <2>4, <2>5 DEF Answered
  <2> QED
    BY <2>4, <2>6, AnsweringKeeps
<1> QED
  BY <1>6, <1>9, TextsUnchanged, CommandUnchanged DEF IInv, FillIn

\* What the operator answered at prompts joins what the file had for the text.
LEMMA AnswerPromptsStep ==
    ASSUME PreparedAssumption, IInv, AnswerPrompts
    PROVE  IInv'
<1> DEFINE file == exchange.sheet
           text == exchange.text
           merged == Merged(sheets[file], text)
<1>1. PICK replied \in SUBSET Asked(text) :
        LET answered == [merged EXCEPT !.entries = [q \in Questions |->
                IF q \in replied THEN "human" ELSE merged.entries[q]]]
        IN  /\ sheets' = [sheets EXCEPT ![file] = answered]
            /\ given' = given \cup [file : {file}, text : {text}, question : replied]
            /\ LET answers == IF Asked(text) = {} THEN NoAnswers ELSE answered.entries
               IN  exchange' = [exchange EXCEPT !.pc = "decide", !.loaded = answers,
                                                !.answers = answers]
  BY DEF AnswerPrompts
<1> DEFINE entries == [q \in Questions |->
                         IF q \in replied THEN "human" ELSE merged.entries[q]]
           new == [merged EXCEPT !.entries = entries]
           answers == IF Asked(text) = {} THEN NoAnswers ELSE new.entries
<1>2. /\ sheets' = [sheets EXCEPT ![file] = new]
      /\ given' = given \cup NewlyGiven(file, text, replied)
      /\ exchange' = [exchange EXCEPT !.pc = "decide", !.loaded = answers, !.answers = answers]
  BY <1>1 DEF NewlyGiven
<1>3. exchange \in Exchange /\ exchange.pc # "idle" /\ file \in Files /\ exchange.job \in Jobs
  BY DEF IInv, ExchangeInv, Underway, AnswerPrompts
<1>4. text \in Text /\ sheets[file] \in Sheet
  BY <1>3 DEF Exchange, IInv, SheetsInv, SheetsTyped
<1>5. replied \subseteq Questions /\ replied \subseteq Asked(text)
  BY <1>4, AskedAreQuestions
<1> HIDE DEF file, text
<1>6. /\ merged \in Sheet /\ merged.text = text
      /\ \A q \in Questions : merged.entries[q] # None =>
             sheets[file].text = text /\ merged.entries[q] = sheets[file].entries[q]
      /\ \A x \in Text, q \in Questions :
             Survives(sheets[file], x, q) => Survives(merged, x, q)
  BY <1>4, MergedKeeps
<1> HIDE DEF merged
<1>7. entries \in AnswerMaps
  BY <1>6 DEF Sheet, AnswerMaps, Answers
<1>8. /\ \A q \in replied : entries[q] = "human"
      /\ \A q \in Questions : q \notin replied => entries[q] = merged.entries[q]
  BY <1>5
<1> HIDE DEF entries
<1>9. /\ new \in Sheet /\ new.text = text /\ new.previous = merged.previous
      /\ new.entries = entries
  BY <1>6, <1>7 DEF Sheet
<1> HIDE DEF new
<1>10. ASSUME NEW g \in given, g.file = file PROVE Survives(new, g.text, g.question)
  <2>1. Survives(sheets[file], g.text, g.question) /\ g.text \in Text /\ g.question \in Questions
    BY <1>10 DEF IInv, SheetsInv, SheetsTyped, AnswersSurvive, Survives
  <2>2. Survives(merged, g.text, g.question)
    BY <1>6, <2>1
  <2> QED
    BY <1>6, <1>8, <1>9, <2>1, <2>2 DEF Survives
<1>11. ASSUME NEW q \in Questions \ replied, new.entries[q] = "human"
       PROVE  GivenFor(text, q)
  <2>1. merged.entries[q] = "human"
    BY <1>8, <1>9, <1>11
  <2>2. sheets[file].text = text /\ sheets[file].entries[q] = "human"
    BY <1>6, <2>1 DEF None
  <2> QED
    BY <1>3, <2>2 DEF IInv, SheetsInv, EntriesGiven
<1>12. SheetsInv'
  <2>1. Answered(file, new, replied)
    BY <1>2, <1>3, <1>5, <1>8, <1>9, <1>10, <1>11 DEF Answered
  <2> QED
    BY <2>1, AnsweringKeeps DEF IInv
<1>13. answers \in AnswerMaps
  BY <1>7, <1>9, NoAnswersTyped
<1>14. ASSUME NEW q \in Questions, answers[q] = "human"
       PROVE  \E g \in given' : g.text = text /\ g.question = q
  <2>1. new.entries[q] = "human"
    BY <1>14 DEF NoAnswers, None
  <2>2. sheets'[file].entries[q] = "human" /\ sheets'[file].text = text
    BY <1>2, <1>3, <1>9, <2>1 DEF IInv, SheetsInv, SheetsTyped
  <2> QED
    BY <1>3, <1>12, <2>2 DEF SheetsInv, EntriesGiven, GivenFor
<1> HIDE DEF answers
<1>15. /\ exchange' \in Exchange /\ exchange'.job = exchange.job /\ exchange'.sheet = file
       /\ exchange'.text = text /\ exchange'.loaded = answers /\ exchange'.answers = answers
  BY <1>2, <1>3, <1>13 DEF Exchange, Places, file, text
<1>16. ExchangeInv'
  <2>1. CommandAdds'
    BY <1>14, <1>15 DEF CommandAdds, GivenFor
  <2> QED
    BY <1>3, <1>15, <2>1 DEF ExchangeInv, Underway
<1> QED
  BY <1>12, <1>16, TextsUnchanged DEF IInv, AnswerPrompts

\* A contract check drops only entries for questions the text does not ask.
LEMMA WriteReportStep ==
    ASSUME IInv, WriteReport
    PROVE  IInv'
<1> DEFINE text == texts.task
           merged == Merged(sheets["check"], text)
           entries == [q \in Questions |-> IF q \in Asked(text) THEN merged.entries[q] ELSE None]
           new == [merged EXCEPT !.entries = entries]
<1>1. sheets' = [sheets EXCEPT !["check"] = new] /\ UNCHANGED given
  BY DEF WriteReport, Reported
<1>2. text \in Text /\ "check" \in Files /\ sheets["check"] \in Sheet
  BY DEF IInv, TextsInv, Documents, Files, SheetsInv, SheetsTyped
<1> HIDE DEF text
<1>3. /\ merged \in Sheet /\ merged.text = text
      /\ \A q \in Questions : merged.entries[q] # None =>
             sheets["check"].text = text /\ merged.entries[q] = sheets["check"].entries[q]
      /\ \A x \in Text, q \in Questions :
             Survives(sheets["check"], x, q) => Survives(merged, x, q)
  BY <1>2, MergedKeeps
<1> HIDE DEF merged
<1>4. entries \in AnswerMaps
  BY <1>3 DEF Sheet, AnswerMaps, Answers
<1>5. \A q \in Questions : entries[q] = IF q \in Asked(text) THEN merged.entries[q] ELSE None
  OBVIOUS
<1> HIDE DEF entries
<1>6. /\ new \in Sheet /\ new.text = text /\ new.previous = merged.previous
      /\ new.entries = entries
  BY <1>3, <1>4 DEF Sheet
<1> HIDE DEF new
<1>7. ASSUME NEW g \in given, g.file = "check" PROVE Survives(new, g.text, g.question)
  <2>1. /\ Survives(sheets["check"], g.text, g.question)
        /\ g.text \in Text /\ g.question \in Questions /\ g.question \in Asked(g.text)
    BY <1>7 DEF IInv, SheetsInv, SheetsTyped, AnswersSurvive, Survives, CheckAsks
  <2>2. Survives(merged, g.text, g.question)
    BY <1>3, <2>1
  <2> QED
    BY <1>3, <1>5, <1>6, <2>1, <2>2 DEF Survives
<1>8. ASSUME NEW q \in Questions, new.entries[q] = "human"
      PROVE  GivenFor(text, q)
  <2>1. merged.entries[q] = "human"
    BY <1>5, <1>6, <1>8 DEF None
  <2>2. sheets["check"].text = text /\ sheets["check"].entries[q] = "human"
    BY <1>3, <2>1 DEF None
  <2> QED
    BY <1>2, <2>2 DEF IInv, SheetsInv, EntriesGiven
<1>9. SheetsInv'
  <2>1. given' = given \cup NewlyGiven("check", text, {})
    BY <1>1 DEF NewlyGiven
  <2>2. Answered("check", new, {})
    BY <1>1, <1>2, <1>6, <1>7, <1>8, <2>1 DEF Answered
  <2> QED
    BY <2>2, AnsweringKeeps DEF IInv
<1> QED
  BY <1>1, <1>9, TextsUnchanged, CommandUnchanged DEF IInv, WriteReport

(***************************************************************************)
(* The theorem.                                                            *)
(***************************************************************************)

LEMMA InitIInv == Init => IInv
<1> SUFFICES ASSUME Init PROVE IInv
  OBVIOUS
<1>1. PICK b \in Bases : texts = [d \in Documents |->
                            IF d = "task" THEN [NoText EXCEPT !.base = b] ELSE NoText]
  BY DEF Init
<1>2. [NoText EXCEPT !.base = b] \in Text
  BY NoAnswersTyped DEF Text
<1>3. TextsInv
  BY <1>1, <1>2, NoAnswersTyped DEF TextsInv
<1>4. sheets = [f \in Files |-> NoSheet] /\ given = {} /\ exchange = Idle
  BY DEF Init
<1>5. NoSheet \in Sheet /\ \A q \in Questions : NoSheet.entries[q] # "human"
  BY NoAnswersTyped DEF NoSheet, NoAnswers, None
<1>6. SheetsInv
  BY <1>4, <1>5 DEF SheetsInv, SheetsTyped, AnswersSurvive, EntriesGiven, CheckAsks
<1>7. ExchangeInv
  <2>1. Idle \in Exchange
    BY NoAnswersTyped DEF Exchange, Idle, Places
  <2>2. \A q \in Questions : Idle.loaded[q] = None /\ Idle.answers[q] = None
    BY DEF Idle, NoAnswers
  <2>3. Idle.pc = "idle"
    BY DEF Idle
  <2> QED
    BY <1>4, <2>1, <2>2, <2>3 DEF ExchangeInv, CommandAdds, Underway, None
<1> QED
  BY <1>3, <1>6, <1>7 DEF IInv

LEMMA NextIInv ==
    ASSUME PreparedAssumption, IInv, [Next]_preparedVars
    PROVE  IInv'
<1>1. CASE UNCHANGED preparedVars
  BY <1>1, FilesUnchanged, TextsUnchanged, CommandUnchanged DEF IInv, preparedVars
<1>2. ASSUME NEW job \in Jobs,
             \/ StartPlain(job) \/ StartInteractive(job)
             \/ \E file \in SheetsOf(job) : StartWithAnswers(job, file)
             \/ \E supplied \in BOOLEAN : StartPrepareAuto(job, supplied)
      PROVE  IInv'
  BY <1>2, StartPlainStep, StartInteractiveStep, StartWithAnswersStep, StartPrepareAutoStep
<1>3. ASSUME NEW supplied \in BOOLEAN, StartRefineAuto(supplied) PROVE IInv'
  BY <1>3, StartRefineAutoStep
<1>4. CASE AnswerPrompts \/ Normalize \/ ModelAnswers \/ Abandon \/ DecideAsk \/ DecideRecord
  BY <1>4, AnswerPromptsStep, NormalizeStep, ModelAnswersStep, AbandonStep, DecideAskStep,
     DecideRecordStep
<1>5. CASE WriteContract \/ WriteRefined \/ WriteNextTemplate \/ WriteReport
  BY <1>5, WriteContractStep, WriteRefinedStep, WriteNextTemplateStep, WriteReportStep
<1>6. ASSUME NEW file \in Files, NEW q \in Questions, FillIn(file, q) PROVE IInv'
  BY <1>6, FillInStep
<1>7. ASSUME NEW document \in Documents, Discard(document) PROVE IInv'
  BY <1>7, DiscardStep
<1>8. ASSUME NEW document \in {"task", "contract"}, NEW b \in Bases, Rewrite(document, b)
      PROVE  IInv'
  <2>1. document \in Documents
    BY DEF Documents
  <2> QED
    BY <1>8, <2>1, RewriteStep
<1> QED
  BY <1>1, <1>2, <1>3, <1>4, <1>5, <1>6, <1>7, <1>8 DEF Next

LEMMA IInvKeeps == IInv => AnswersAreKept
<1> SUFFICES ASSUME IInv PROVE AnswersAreHeeded
  BY DEF IInv, SheetsInv, AnswersAreKept
<1> SUFFICES ASSUME NEW q \in Filled(exchange.loaded)
             PROVE  /\ exchange.answers[q] = exchange.loaded[q]
                    /\ exchange.loaded[q] = "human" =>
                         \E g \in given : g.question = q /\ g.text = exchange.text
  BY DEF AnswersAreHeeded
<1>1. q \in Questions /\ exchange.loaded[q] # None
  BY DEF Filled
<1> QED
  BY <1>1 DEF IInv, ExchangeInv, CommandAdds, GivenFor

\* However often texts are edited and commands run, killed and given again, no
\* answer a person gave is lost or replaced by a model's, and none is applied to a
\* text it was not given for (_merge_prepare_answers, _prefill_prepare_answers,
\* prepare_contract_with_auto_answers).
THEOREM PreparedAnswersAreKept == PreparedAssumption => (Spec => []AnswersAreKept)
<1> SUFFICES ASSUME PreparedAssumption PROVE Spec => []AnswersAreKept
  OBVIOUS
<1>1. Init => IInv
  BY InitIInv
<1>2. IInv /\ [Next]_preparedVars => IInv'
  BY NextIInv
<1>3. IInv => AnswersAreKept
  BY IInvKeeps
<1> QED
  BY <1>1, <1>2, <1>3, PTL DEF Spec
=============================================================================
