-------------------------- MODULE Components_proofs --------------------------
(***************************************************************************)
(* What holds of a component holds of the components together: a behaviour *)
(* of Components is one of each of them, because the actions of the others *)
(* leave its variables alone.  The theorems about the answers to questions *)
(* and about the review of a candidate are carried over so from the proof  *)
(* modules of these components; the heartbeat and the worktree of a task   *)
(* are proved here.                                                        *)
(*                                                                         *)
(* A proof module is a second instance of the component's module, so the   *)
(* two instances of each definition are expanded where they meet.          *)
(***************************************************************************)
EXTENDS Components, TLAPS

PreparedProved   == INSTANCE PreparedAnswers_proofs
CandidatesProved == INSTANCE CandidateReview_proofs

(***************************************************************************)
(* The heartbeat.  Between its read and its write of the file it holds a   *)
(* copy, so its property is not inductive.  What makes the copy harmless   *)
(* is that it is taken and written under the store's lock, and nobody      *)
(* saves while the lock is held.                                           *)
(***************************************************************************)
BeatPlaces == {"none", "wait", "stamp", "read", "write", "done"}

BeatState == [task : Nat, operation : Nat]

BeatTypes ==
    /\ memory \in BeatState /\ file \in BeatState
    /\ written \in Nat
    /\ beat \in [pc : BeatPlaces, current : Nat, data : BeatState]

\* The heartbeat's copy is the file, and it is locked.
CopyIsCurrent == beat.pc = "write" => lock = "beat" /\ beat.data.task = written

BeatsInv == BeatTypes /\ CopyIsCurrent /\ Beats!SavesSurviveHeartbeats

\* Before the first operation the file is what the run loaded.
LEMMA BeatsFirst == Beats!Init => BeatsInv
<1> SUFFICES ASSUME Beats!Init PROVE BeatsInv
  OBVIOUS
<1>1. memory = [task |-> 0, operation |-> 0] /\ file = memory /\ written = 0
  BY DEF Beats!Init, Beats!None
<1>2. memory \in BeatState
  BY <1>1 DEF BeatState
<1>3. beat = [pc |-> "none", current |-> 0, data |-> memory]
  BY DEF Beats!Init, Beats!None
<1>4. beat \in [pc : BeatPlaces, current : Nat, data : BeatState]
  BY <1>2, <1>3 DEF BeatPlaces
<1>5. CopyIsCurrent
  BY <1>3 DEF CopyIsCurrent
<1> QED
  BY <1>1, <1>2, <1>4, <1>5 DEF BeatsInv, BeatTypes, Beats!SavesSurviveHeartbeats

\* A save of the main thread finds the lock free, so no copy is in flight.
LEMMA BeatsMainStep ==
    ASSUME BeatsInv,
           Beats!Enter \/ Beats!Change \/ Beats!SaveBody \/ Beats!SetStop \/ Beats!JoinThread
             \/ Beats!ClearMemory \/ Beats!ClearFile \/ Beats!SaveAfter
    PROVE  BeatsInv'
<1>1. CASE Beats!Enter
  BY <1>1
     DEF Beats!Enter, Beats!CanSave, Beats!WriteState, BeatsInv, BeatTypes, CopyIsCurrent,
         Beats!SavesSurviveHeartbeats, BeatState, BeatPlaces
<1>2. CASE Beats!Change
  BY <1>2
     DEF Beats!Change, BeatsInv, BeatTypes, CopyIsCurrent, Beats!SavesSurviveHeartbeats,
         BeatState, BeatPlaces
<1>3. CASE Beats!SaveBody
  BY <1>3
     DEF Beats!SaveBody, Beats!CanSave, Beats!WriteState, BeatsInv, BeatTypes, CopyIsCurrent,
         Beats!SavesSurviveHeartbeats, BeatState, BeatPlaces
<1>4. CASE Beats!SetStop
  BY <1>4 DEF Beats!SetStop, BeatsInv, BeatTypes, CopyIsCurrent, Beats!SavesSurviveHeartbeats
<1>5. CASE Beats!JoinThread
  BY <1>5
     DEF Beats!JoinThread, BeatsInv, BeatTypes, CopyIsCurrent, Beats!SavesSurviveHeartbeats
<1>6. CASE Beats!ClearMemory
  BY <1>6
     DEF Beats!ClearMemory, Beats!None, BeatsInv, BeatTypes, CopyIsCurrent,
         Beats!SavesSurviveHeartbeats, BeatState, BeatPlaces
<1>7. CASE Beats!ClearFile
  BY <1>7
     DEF Beats!ClearFile, Beats!None, BeatsInv, BeatTypes, CopyIsCurrent,
         Beats!SavesSurviveHeartbeats, BeatState, BeatPlaces
<1>8. CASE Beats!SaveAfter
  BY <1>8
     DEF Beats!SaveAfter, Beats!CanSave, Beats!WriteState, BeatsInv, BeatTypes,
         CopyIsCurrent, Beats!SavesSurviveHeartbeats, BeatState, BeatPlaces
<1> QED
  BY <1>1, <1>2, <1>3, <1>4, <1>5, <1>6, <1>7, <1>8

\* The heartbeat changes only the operation of what it writes back.
LEMMA BeatsBeatStep ==
    ASSUME BeatsInv, Beats!Tick \/ Beats!Stamp \/ Beats!ReadFile \/ Beats!WriteFile
    PROVE  BeatsInv'
<1>1. CASE Beats!Tick
  <2>1. beat \in [pc : BeatPlaces, current : Nat, data : BeatState] /\ memory \in BeatState
    BY DEF BeatsInv, BeatTypes
  <2>2. memory.operation \in Nat
    BY <2>1 DEF BeatState
  <2>3. CASE stop \/ memory.operation = Beats!None
    <3>1. PICK p \in {"done", "wait"} : beat' = [beat EXCEPT !.pc = p]
      BY <1>1, <2>3 DEF Beats!Tick
    <3>2. beat'.pc # "write" /\ beat' \in [pc : BeatPlaces, current : Nat, data : BeatState]
      BY <2>1, <3>1 DEF BeatPlaces
    <3> QED
      BY <1>1, <3>2
         DEF Beats!Tick, BeatsInv, BeatTypes, CopyIsCurrent, Beats!SavesSurviveHeartbeats
  <2>4. CASE ~(stop \/ memory.operation = Beats!None)
    <3>1. beat' = [beat EXCEPT !.pc = "stamp", !.current = memory.operation]
      BY <1>1, <2>4 DEF Beats!Tick
    <3>2. beat'.pc # "write" /\ beat' \in [pc : BeatPlaces, current : Nat, data : BeatState]
      BY <2>1, <2>2, <3>1 DEF BeatPlaces
    <3> QED
      BY <1>1, <3>2
         DEF Beats!Tick, BeatsInv, BeatTypes, CopyIsCurrent, Beats!SavesSurviveHeartbeats
  <2> QED
    BY <2>3, <2>4
<1>2. CASE Beats!Stamp
  <2>1. beat \in [pc : BeatPlaces, current : Nat, data : BeatState] /\ memory \in BeatState
    BY DEF BeatsInv, BeatTypes
  <2>2. beat' = [beat EXCEPT !.pc = "read", !.current = beat.current + 1]
    BY <1>2 DEF Beats!Stamp
  <2>3. beat'.pc # "write" /\ beat' \in [pc : BeatPlaces, current : Nat, data : BeatState]
    <3>1. beat.current + 1 \in Nat
      BY <2>1
    <3> QED
      BY <2>1, <2>2, <3>1 DEF BeatPlaces
  <2>4. memory' \in BeatState
    BY <1>2, <2>1 DEF Beats!Stamp, BeatState
  <2> QED
    BY <1>2, <2>3, <2>4
       DEF Beats!Stamp, BeatsInv, BeatTypes, CopyIsCurrent, Beats!SavesSurviveHeartbeats
<1>3. CASE Beats!ReadFile
  BY <1>3
     DEF Beats!ReadFile, BeatsInv, BeatTypes, CopyIsCurrent, Beats!SavesSurviveHeartbeats,
         BeatState, BeatPlaces
<1>4. CASE Beats!WriteFile
  BY <1>4
     DEF Beats!WriteFile, BeatsInv, BeatTypes, CopyIsCurrent, Beats!SavesSurviveHeartbeats,
         BeatState, BeatPlaces
<1> QED
  BY <1>1, <1>2, <1>3, <1>4

LEMMA BeatsStep == BeatsInv /\ [Next]_vars => BeatsInv'
<1> SUFFICES ASSUME BeatsInv, [Next]_vars PROVE BeatsInv'
  OBVIOUS
<1>1. Beats!Next \/ UNCHANGED Beats!heartbeatVars
  BY DEF Next, vars, Amend, RunChild, RunAgent, KeepAlive, Prepare, AuthorPlan, UseWorktree,
         ReviewCandidate, ShapePlan, AnswerQuestions, heartbeatVars, Beats!heartbeatVars
<1>2. CASE UNCHANGED Beats!heartbeatVars
  BY <1>2
     DEF Beats!heartbeatVars, BeatsInv, BeatTypes, CopyIsCurrent,
         Beats!SavesSurviveHeartbeats
<1> QED
  BY <1>1, <1>2, BeatsMainStep, BeatsBeatStep DEF Beats!Next

\* A heartbeat never takes back a save of the main thread (update_active_operation
\* and save share the lock), whatever __exit__ waited for and whatever the bounds
\* on changes and beats.
THEOREM ComponentsSavesSurvive == Spec => []SavesSurviveHeartbeats
<1>1. Init => BeatsInv
  BY BeatsFirst DEF Init
<1>2. BeatsInv => SavesSurviveHeartbeats
  BY DEF BeatsInv, SavesSurviveHeartbeats
<1> QED
  BY <1>1, <1>2, BeatsStep, PTL DEF Spec

(***************************************************************************)
(* The answers to the questions about a task.                              *)
(***************************************************************************)
LEMMA PreparedInit == Init => PreparedProved!Init
BY DEF Init, Prepared!Init, PreparedProved!Init, Prepared!None, PreparedProved!None,
       Prepared!Answers, PreparedProved!Answers, Prepared!NoAnswers,
       PreparedProved!NoAnswers, Prepared!NoText, PreparedProved!NoText,
       Prepared!NoSheet, PreparedProved!NoSheet, Prepared!Jobs,
       PreparedProved!Jobs, Prepared!Documents, PreparedProved!Documents,
       Prepared!Files, PreparedProved!Files, Prepared!Idle, PreparedProved!Idle

LEMMA PreparedNext == Prepared!Next => PreparedProved!Next
BY DEF Prepared!None, PreparedProved!None, Prepared!MaxRounds,
       PreparedProved!MaxRounds, Prepared!Answers, PreparedProved!Answers,
       Prepared!NoAnswers, PreparedProved!NoAnswers, Prepared!NoText,
       PreparedProved!NoText, Prepared!NoSheet, PreparedProved!NoSheet,
       Prepared!Jobs, PreparedProved!Jobs, Prepared!Source, PreparedProved!Source,
       Prepared!Output, PreparedProved!Output, Prepared!Documents,
       PreparedProved!Documents, Prepared!Files, PreparedProved!Files,
       Prepared!Idle, PreparedProved!Idle, Prepared!SaidIn, PreparedProved!SaidIn,
       Prepared!Filled, PreparedProved!Filled, Prepared!Settles,
       PreparedProved!Settles, Prepared!Gaps, PreparedProved!Gaps, Prepared!Asked,
       PreparedProved!Asked, Prepared!Revisable, PreparedProved!Revisable,
       Prepared!Without, PreparedProved!Without, Prepared!ActiveFor,
       PreparedProved!ActiveFor, Prepared!Improved, PreparedProved!Improved,
       Prepared!PreparedTask, PreparedProved!PreparedTask,
       Prepared!PreparedContract, PreparedProved!PreparedContract,
       Prepared!Revised, PreparedProved!Revised, Prepared!Result,
       PreparedProved!Result, Prepared!OpenIn, PreparedProved!OpenIn,
       Prepared!AppliedIn, PreparedProved!AppliedIn, Prepared!Archived,
       PreparedProved!Archived, Prepared!Merged, PreparedProved!Merged,
       Prepared!Prefilled, PreparedProved!Prefilled, Prepared!Stale,
       PreparedProved!Stale, Prepared!FilledFor, PreparedProved!FilledFor,
       Prepared!Reported, PreparedProved!Reported, Prepared!WriteSheet,
       PreparedProved!WriteSheet, Prepared!CanStart, PreparedProved!CanStart,
       Prepared!Started, PreparedProved!Started, Prepared!StartPlain,
       PreparedProved!StartPlain, Prepared!SheetsOf, PreparedProved!SheetsOf,
       Prepared!Load, PreparedProved!Load, Prepared!StartWithAnswers,
       PreparedProved!StartWithAnswers, Prepared!StartInteractive,
       PreparedProved!StartInteractive, Prepared!AnswerPrompts,
       PreparedProved!AnswerPrompts, Prepared!StartRefineAuto,
       PreparedProved!StartRefineAuto, Prepared!AskOrDecide,
       PreparedProved!AskOrDecide, Prepared!Normalize, PreparedProved!Normalize,
       Prepared!StartPrepareAuto, PreparedProved!StartPrepareAuto,
       Prepared!Answerable, PreparedProved!Answerable, Prepared!Replies,
       PreparedProved!Replies, Prepared!ModelAnswers, PreparedProved!ModelAnswers,
       Prepared!Abandon, PreparedProved!Abandon, Prepared!Recording,
       PreparedProved!Recording, Prepared!Asking, PreparedProved!Asking,
       Prepared!DecideAsk, PreparedProved!DecideAsk, Prepared!DecideRecord,
       PreparedProved!DecideRecord, Prepared!Decided, PreparedProved!Decided,
       Prepared!WriteContract, PreparedProved!WriteContract,
       Prepared!WriteRefined, PreparedProved!WriteRefined,
       Prepared!WriteNextTemplate, PreparedProved!WriteNextTemplate,
       Prepared!WriteReport, PreparedProved!WriteReport, Prepared!CanEdit,
       PreparedProved!CanEdit, Prepared!FillIn, PreparedProved!FillIn,
       Prepared!Rewrite, PreparedProved!Rewrite, Prepared!Discard,
       PreparedProved!Discard, Prepared!Next, PreparedProved!Next

LEMMA ComponentsStepPrepared ==
    [Next]_vars => [PreparedProved!Next]_(PreparedProved!preparedVars)
BY PreparedNext
   DEF Next, vars, Amend, RunChild, RunAgent, KeepAlive, Prepare, AuthorPlan, UseWorktree,
       ReviewCandidate, ShapePlan, AnswerQuestions,
       preparedVars, PreparedProved!preparedVars

\* Among the components, what the operator answered about a text stays in its
\* answers file, and a command applies what it was given to that text and as it
\* stands: for all texts, questions, and answers that leave questions open.
THEOREM ComponentsAnswersKept == Spec => []AnswersAreKept
<1>1. Spec => PreparedProved!Spec
  BY PreparedInit, ComponentsStepPrepared, PTL DEF Spec, PreparedProved!Spec
<1>2. PreparedProved!AnswersAreKept => AnswersAreKept
  BY DEF AnswersAreKept, Prepared!AnswersAreKept, PreparedProved!AnswersAreKept,
         Prepared!AnswersSurvive, PreparedProved!AnswersSurvive,
         Prepared!AnswersAreHeeded, PreparedProved!AnswersAreHeeded,
         Prepared!Filled, PreparedProved!Filled, Prepared!None, PreparedProved!None
<1>3. PreparedProved!PreparedAssumption
  BY ComponentConstants DEF Prepared!PreparedAssumption, PreparedProved!PreparedAssumption
<1> QED
  BY <1>1, <1>2, <1>3, PreparedProved!PreparedAnswersAreKept, PTL
TreeChanges == {"fix", "mine"}
TreeBranches == {"target", "other", "task"}
DeliveryStatuses == {"none", "pending", "committed", "delivered", "no_changes", "failed"}
TaskRecords ==
    [known : BOOLEAN, mode : Workspaces!Modes, done : BOOLEAN, failed : BOOLEAN, status : DeliveryStatuses,
     start : SUBSET TreeChanges, isolated : SUBSET SUBSET TreeChanges, path : BOOLEAN]
WorkspacePlaces == {"make", "record", "work", "finalize", "remove", "forget", "deliver",
           "committed", "check", "merge", "delivered", "drop"}
CommandRecords == [pc : WorkspacePlaces, task : TaskRecords, made : BOOLEAN]

TreeRecords ==
    [exists : BOOLEAN, on : {"none", "task", "target", "detached"},
     head : SUBSET TreeChanges, edits : SUBSET TreeChanges]

RepoRecords ==
    [checkout : {"target", "other"}, tip : [TreeBranches -> SUBSET TreeChanges],
     edits : SUBSET TreeChanges]

WorkspaceTypes ==
    /\ repo \in RepoRecords /\ tree \in TreeRecords
    /\ stored \in TaskRecords
    /\ command = Workspaces!Idle \/ command \in CommandRecords
    /\ reviewed \in SUBSET TreeChanges
    /\ used \in [operator : Nat, kills : Nat, faults : Nat]

\* The worktree is on the branch of the task's mode, and no commit of the task's
\* own branch is outside its worktree.
TreeOfMode ==
    /\ tree.exists => tree.on = Workspaces!BranchOf(stored.mode)
    /\ tree.exists /\ tree.on = "task" => repo.tip["task"] \subseteq tree.head

\* What the command remembers of the task is what is stored, and at each of its
\* places the task has come that far.
CommandFollowsTask ==
    /\ ~Workspaces!At("idle") => Workspaces!Task.mode = stored.mode
       /\ Workspaces!Task.done = stored.done /\ Workspaces!Task.known
    /\ command.pc \in WorkspacePlaces \ {"make", "record"} => Workspaces!Task = stored
    /\ command.pc \in {"make", "record", "work"} => ~stored.done
    /\ command.pc \in {"finalize", "remove", "forget"} \cup
                      {"deliver", "committed", "check", "merge", "delivered", "drop"} =>
           stored.done /\ stored.path
    /\ command.pc \in {"finalize", "remove"} => stored.mode # "current"
    /\ command.pc \in {"deliver", "committed", "check", "merge", "delivered", "drop"} =>
           stored.mode = "current"
    /\ command.pc \in {"record", "finalize", "remove", "deliver", "committed", "check",
                       "merge", "delivered", "drop"} => tree.exists
    /\ Workspaces!At("work") /\ stored.path => tree.exists
    /\ command.pc = "make" => ~tree.exists
    /\ command.pc = "forget" => ~tree.exists

\* One branch has all that was reviewed.
InBranch == \E b \in TreeBranches : reviewed \subseteq repo.tip[b]

\* The work of a done task is in its worktree while that is there, and in a branch
\* or the operator's checkout otherwise; a recorded commit has all of it.
WorkIsHeld ==
    /\ stored.done =>
         IF tree.exists /\ stored.path THEN reviewed \subseteq tree.head \cup tree.edits
         ELSE InBranch \/ reviewed \subseteq repo.edits
    /\ stored.done => \A c \in stored.isolated : reviewed \subseteq c
    /\ ~stored.done => stored.isolated = {} 
    /\ ~stored.done /\ ~Workspaces!At("idle") => Workspaces!Task.isolated = {} 
    /\ stored.mode # "run" /\ stored.known
       /\ (tree.exists \/ ~stored.done) => stored.path
    /\ stored.done => stored.known

\* Before the worktree is removed the work is in a branch.
InBranchFirst ==
    /\ Workspaces!At("remove") => reviewed \subseteq repo.tip[tree.on]
    /\ Workspaces!At("committed") => tree.edits = {} /\ stored.isolated = {} 
    /\ command.pc \in {"delivered", "drop"} => InBranch

WorkspaceInv == WorkspaceTypes /\ TreeOfMode /\ CommandFollowsTask /\ WorkIsHeld /\ InBranchFirst

LEMMA SaveEffect ==
    ASSUME NEW t \in TaskRecords, NEW pc \in WorkspacePlaces, command \in CommandRecords,
           Workspaces!Save(t, pc)
    PROVE  /\ stored' = t /\ command' \in CommandRecords
           /\ command'.pc = pc /\ command'.task = t /\ command'.made = command.made
BY DEF Workspaces!Save, CommandRecords

LEMMA GoToEffect ==
    ASSUME NEW pc \in WorkspacePlaces, command \in CommandRecords, Workspaces!GoTo(pc)
    PROVE  /\ command' \in CommandRecords
           /\ command'.pc = pc /\ command'.task = command.task
              /\ command'.made = command.made
BY DEF Workspaces!GoTo, CommandRecords

LEMMA SaveExitEffect ==
    ASSUME NEW t, Workspaces!SaveExit(t)
    PROVE  stored' = t /\ command' = Workspaces!Idle
BY DEF Workspaces!SaveExit, Workspaces!Exit

LEMMA CommitTreeEffect ==
    ASSUME tree \in TreeRecords, repo \in RepoRecords, Workspaces!CommitTree
    PROVE  /\ tree' \in TreeRecords
           /\ tree'.exists = tree.exists /\ tree'.on = tree.on
           /\ tree'.head = tree.head \cup tree.edits /\ tree'.edits = {}
           /\ repo' \in RepoRecords
           /\ repo'.checkout = repo.checkout /\ repo'.edits = repo.edits
           /\ \A b \in TreeBranches :
                repo'.tip[b] = IF b = tree.on THEN tree.head \cup tree.edits ELSE repo.tip[b]
<1> DEFINE c == tree.head \cup tree.edits
<1>1. c \in SUBSET TreeChanges
  BY DEF TreeRecords
<1>2. tree' = [tree EXCEPT !.head = c, !.edits = {}]
  BY DEF Workspaces!CommitTree
<1>3. repo' = IF tree.on = "detached" THEN repo ELSE [repo EXCEPT !.tip[tree.on] = c]
  BY DEF Workspaces!CommitTree
<1> HIDE DEF c
<1>4. /\ tree' \in TreeRecords
      /\ tree'.exists = tree.exists /\ tree'.on = tree.on
      /\ tree'.head = c /\ tree'.edits = {}
  BY <1>1, <1>2 DEF TreeRecords
<1>5. /\ repo' \in RepoRecords
      /\ repo'.checkout = repo.checkout /\ repo'.edits = repo.edits
      /\ \A b \in TreeBranches : repo'.tip[b] = IF b = tree.on THEN c ELSE repo.tip[b]
  BY <1>1, <1>3 DEF RepoRecords, TreeRecords, TreeBranches
<1> QED
  BY <1>4, <1>5 DEF c

LEMMA NoTreeEffect ==
    ASSUME tree' = Workspaces!NoTree
    PROVE  tree' \in TreeRecords /\ ~tree'.exists
BY DEF Workspaces!NoTree, TreeRecords

LEMMA Workspace_StartRun ==
    ASSUME WorkspaceInv, Workspaces!StartRun
    PROVE  WorkspaceInv'
<1> USE DEF WorkspaceInv, WorkspaceTypes, TreeOfMode, CommandFollowsTask, WorkIsHeld,
   InBranchFirst, TaskRecords, WorkspacePlaces, TreeChanges, TreeBranches,
   DeliveryStatuses, InBranch, CommandRecords, TreeRecords, RepoRecords,
   Workspaces!StartRun, Workspaces!At, Workspaces!Task, Workspaces!Modes,
   Workspaces!Idle
<1>1. WorkspaceTypes'
  OBVIOUS
<1>2. TreeOfMode'
  OBVIOUS
<1>3. CommandFollowsTask'
  OBVIOUS
<1>4. WorkIsHeld'
  OBVIOUS
<1>5. InBranchFirst'
  OBVIOUS
<1> QED
  BY <1>1, <1>2, <1>3, <1>4, <1>5 DEF WorkspaceInv

LEMMA Workspace_StartReview ==
    ASSUME WorkspaceInv, Workspaces!StartReview
    PROVE  WorkspaceInv'
<1> USE DEF WorkspaceInv, WorkspaceTypes, TreeOfMode, CommandFollowsTask, WorkIsHeld,
   InBranchFirst, TaskRecords, WorkspacePlaces, TreeChanges, TreeBranches,
   DeliveryStatuses, InBranch, CommandRecords, TreeRecords, RepoRecords,
   Workspaces!StartReview, Workspaces!At, Workspaces!Task, Workspaces!Modes,
   Workspaces!Idle
<1>1. WorkspaceTypes'
  OBVIOUS
<1>2. TreeOfMode'
  OBVIOUS
<1>3. CommandFollowsTask'
  OBVIOUS
<1>4. WorkIsHeld'
  OBVIOUS
<1>5. InBranchFirst'
  OBVIOUS
<1> QED
  BY <1>1, <1>2, <1>3, <1>4, <1>5 DEF WorkspaceInv

LEMMA Workspace_MakeTree ==
    ASSUME WorkspaceInv, Workspaces!MakeTree
    PROVE  WorkspaceInv'
<1>1. command.pc = "make" /\ command \in CommandRecords /\ command.task \in TaskRecords
  BY DEF WorkspaceInv, WorkspaceTypes, CommandRecords, Workspaces!MakeTree,
     Workspaces!At, Workspaces!Idle
<1>b. stored \in TaskRecords /\ tree \in TreeRecords /\ repo \in RepoRecords
  BY DEF WorkspaceInv, WorkspaceTypes
<1>2. CASE command.task.mode = "run" /\ Workspaces!GoTo("record")
           /\ UNCHANGED <<stored, used, reviewed>>
            /\ tree' = [exists |-> TRUE, on |-> "task",
                    head |-> repo.tip[repo.checkout], edits |-> {}]
            /\ repo' = [repo EXCEPT !.tip["task"] = repo.tip[repo.checkout]]
  <2>1. command' \in CommandRecords /\ command'.pc = "record"
        /\ command'.task = command.task
    BY <1>1, <1>b, <1>2, GoToEffect DEF WorkspacePlaces
  <2>2. stored' = stored /\ used' = used /\ reviewed' = reviewed
    BY <1>2, <2>1
  <2>3. tree' \in TreeRecords /\ tree'.exists /\ tree'.on = "task"
        /\ tree'.head = repo.tip[repo.checkout] /\ tree'.edits = {}
    BY <1>1, <1>b, <1>2, <2>1, <2>2 DEF TreeRecords, RepoRecords, TreeBranches
  <2>4. repo' \in RepoRecords /\ repo'.tip["task"] = repo.tip[repo.checkout]
    BY <1>1, <1>b, <1>2, <2>1, <2>2, <2>3 DEF RepoRecords, TreeBranches
  <2>5. command.task.mode = "run"
    BY <1>2, <2>1, <2>2, <2>3, <2>4
  <2> USE DEF WorkspaceInv, WorkspaceTypes, TreeOfMode, CommandFollowsTask, WorkIsHeld,
     InBranchFirst, InBranch, WorkspacePlaces, Workspaces!At, Workspaces!Task,
     Workspaces!Idle, Workspaces!BranchOf, TreeBranches
  <2>6. WorkspaceTypes'
    BY <1>1, <1>b, <2>1, <2>2, <2>3, <2>4, <2>5
  <2>7. TreeOfMode'
    BY <1>1, <1>b, <2>1, <2>2, <2>3, <2>4, <2>5
  <2>8. CommandFollowsTask'
    BY <1>1, <1>b, <2>1, <2>2, <2>3, <2>4, <2>5
  <2>9. WorkIsHeld'
    BY <1>1, <1>b, <2>1, <2>2, <2>3, <2>4, <2>5
  <2>10. InBranchFirst'
    BY <1>1, <1>b, <2>1, <2>2, <2>3, <2>4, <2>5
  <2> QED
    BY <2>6, <2>7, <2>8, <2>9, <2>10 DEF WorkspaceInv
<1>3. CASE command.task.mode # "run" /\ Workspaces!GoTo("record")
           /\ UNCHANGED <<stored, used, reviewed>>
            /\ tree' = [exists |-> TRUE, on |-> Workspaces!BranchOf(command.task.mode),
                    head |-> command.task.start, edits |-> {}]
            /\ repo' = repo
  <2>1. command' \in CommandRecords /\ command'.pc = "record"
        /\ command'.task = command.task
    BY <1>1, <1>b, <1>3, GoToEffect DEF WorkspacePlaces
  <2>2. stored' = stored /\ used' = used /\ reviewed' = reviewed /\ repo' = repo
    BY <1>3, <2>1
  <2>3. tree' \in TreeRecords /\ tree'.exists
        /\ tree'.on = Workspaces!BranchOf(command.task.mode) /\ tree'.on # "task"
    BY <1>1, <1>b, <1>3, <2>1, <2>2
       DEF TreeRecords, TaskRecords, Workspaces!Modes, Workspaces!BranchOf
  <2> USE DEF WorkspaceInv, WorkspaceTypes, TreeOfMode, CommandFollowsTask, WorkIsHeld,
     InBranchFirst, InBranch, WorkspacePlaces, Workspaces!At, Workspaces!Task,
     Workspaces!Idle, Workspaces!BranchOf, TreeBranches
  <2>4. WorkspaceTypes'
    BY <1>1, <1>b, <2>1, <2>2, <2>3
  <2>5. TreeOfMode'
    BY <1>1, <1>b, <2>1, <2>2, <2>3
  <2>6. CommandFollowsTask'
    BY <1>1, <1>b, <2>1, <2>2, <2>3
  <2>7. WorkIsHeld'
    BY <1>1, <1>b, <2>1, <2>2, <2>3
  <2>8. InBranchFirst'
    BY <1>1, <1>b, <2>1, <2>2, <2>3
  <2> QED
    BY <2>4, <2>5, <2>6, <2>7, <2>8 DEF WorkspaceInv
<1>4. CASE Workspaces!Fault /\ Workspaces!Exit
           /\ UNCHANGED <<repo, tree, stored, reviewed>>
  <2>1. command' = Workspaces!Idle
    BY <1>4 DEF Workspaces!Exit
  <2>2. repo' = repo /\ tree' = tree /\ stored' = stored /\ reviewed' = reviewed
    BY <1>4, <2>1
  <2>3. used' \in [operator : Nat, kills : Nat, faults : Nat]
    BY <1>1, <1>b, <1>4, <2>1, <2>2 DEF WorkspaceInv, WorkspaceTypes, Workspaces!Fault
  <2> USE DEF WorkspaceInv, WorkspaceTypes, TreeOfMode, CommandFollowsTask, WorkIsHeld,
     InBranchFirst, InBranch, WorkspacePlaces, Workspaces!At, Workspaces!Task,
     Workspaces!Idle, Workspaces!BranchOf, TreeBranches
  <2>4. WorkspaceTypes'
    BY <1>1, <1>b, <2>1, <2>2, <2>3
  <2>5. TreeOfMode'
    BY <1>1, <1>b, <2>1, <2>2, <2>3
  <2>6. CommandFollowsTask'
    BY <1>1, <1>b, <2>1, <2>2, <2>3
  <2>7. WorkIsHeld'
    BY <1>1, <1>b, <2>1, <2>2, <2>3
  <2>8. InBranchFirst'
    BY <1>1, <1>b, <2>1, <2>2, <2>3
  <2> QED
    BY <2>4, <2>5, <2>6, <2>7, <2>8 DEF WorkspaceInv
<1> QED
  BY <1>2, <1>3, <1>4 DEF Workspaces!MakeTree, Workspaces!Task, Workspaces!BranchOf

LEMMA Workspace_RecordTree ==
    ASSUME WorkspaceInv, Workspaces!RecordTree
    PROVE  WorkspaceInv'
<1>1. command.pc = "record" /\ command \in CommandRecords
      /\ command.task \in TaskRecords
  BY DEF WorkspaceInv, WorkspaceTypes, CommandRecords, Workspaces!RecordTree,
     Workspaces!At, Workspaces!Idle
<1>b. stored \in TaskRecords /\ tree \in TreeRecords /\ repo \in RepoRecords
  BY DEF WorkspaceInv, WorkspaceTypes
<1>2. CASE Workspaces!Save([Workspaces!Task EXCEPT !.path = TRUE], "work")
           /\ UNCHANGED <<repo, reviewed, tree, used>>
  <2> DEFINE t == [command.task EXCEPT !.path = TRUE]
  <2>1. /\ t \in TaskRecords
       /\ t.known = command.task.known
       /\ t.mode = command.task.mode
       /\ t.done = command.task.done
       /\ t.status = command.task.status
       /\ t.start = command.task.start
       /\ t.isolated = command.task.isolated
       /\ t.path = TRUE
    BY <1>1, <1>b, <1>2 DEF TaskRecords, DeliveryStatuses, TreeRecords
  <2>2. Workspaces!Save(t, "work")
    BY <1>1, <1>b, <1>2, <2>1 DEF Workspaces!Task, Workspaces!MarkFailed
  <2> HIDE DEF t
  <2>3. stored' = t /\ command' \in CommandRecords /\ command'.pc = "work"
        /\ command'.task = t
    BY <1>1, <1>b, <1>2, <2>1, <2>2, SaveEffect, SaveExitEffect DEF WorkspacePlaces
  <2>4. repo' = repo /\ reviewed' = reviewed /\ tree' = tree /\ used' = used
    BY <1>2, <2>1, <2>2, <2>3
  <2> USE DEF WorkspaceInv, WorkspaceTypes, TreeOfMode, CommandFollowsTask, WorkIsHeld,
     InBranchFirst, InBranch, WorkspacePlaces, Workspaces!At, Workspaces!Task,
     Workspaces!Idle, Workspaces!BranchOf, TreeBranches
  <2>5. WorkspaceTypes'
    BY <1>1, <1>b, <2>1, <2>2, <2>3, <2>4
  <2>6. TreeOfMode'
    BY <1>1, <1>b, <2>1, <2>2, <2>3, <2>4
  <2>7. CommandFollowsTask'
    BY <1>1, <1>b, <2>1, <2>2, <2>3, <2>4
  <2>8. WorkIsHeld'
    BY <1>1, <1>b, <2>1, <2>2, <2>3, <2>4
  <2>9. InBranchFirst'
    BY <1>1, <1>b, <2>1, <2>2, <2>3, <2>4
  <2> QED
    BY <2>5, <2>6, <2>7, <2>8, <2>9 DEF WorkspaceInv
<1>3. CASE Workspaces!Task.mode = "run"
           /\ Workspaces!SaveExit([Workspaces!Task EXCEPT !.path = TRUE,
                !.failed = TRUE]) /\ UNCHANGED <<repo, reviewed, tree>>
           /\ Workspaces!Fault
  <2> DEFINE t == [command.task EXCEPT !.path = TRUE, !.failed = TRUE]
  <2>1. /\ t \in TaskRecords
       /\ t.known = command.task.known
       /\ t.mode = command.task.mode
       /\ t.done = command.task.done
       /\ t.status = command.task.status
       /\ t.start = command.task.start
       /\ t.isolated = command.task.isolated
       /\ t.path = TRUE
    BY <1>1, <1>b, <1>3 DEF TaskRecords, DeliveryStatuses, TreeRecords
  <2>2. Workspaces!SaveExit(t)
    BY <1>1, <1>b, <1>3, <2>1 DEF Workspaces!Task, Workspaces!MarkFailed
  <2> HIDE DEF t
  <2>3. stored' = t /\ command' = Workspaces!Idle
    BY <1>1, <1>b, <1>3, <2>1, <2>2, SaveEffect, SaveExitEffect DEF WorkspacePlaces
  <2>4. tree' = tree
    BY <1>3, <2>1, <2>2, <2>3
  <2>5. repo' = repo /\ reviewed' = reviewed
    BY <1>3, <2>1, <2>2, <2>3, <2>4
  <2>6. used' \in [operator : Nat, kills : Nat, faults : Nat]
    BY <1>1, <1>b, <1>3, <2>1, <2>2, <2>3, <2>4, <2>5
       DEF WorkspaceInv, WorkspaceTypes, Workspaces!Fault
  <2> USE DEF WorkspaceInv, WorkspaceTypes, TreeOfMode, CommandFollowsTask, WorkIsHeld,
     InBranchFirst, InBranch, WorkspacePlaces, Workspaces!At, Workspaces!Task,
     Workspaces!Idle, Workspaces!BranchOf, TreeBranches
  <2>7. WorkspaceTypes'
    BY <1>1, <1>b, <2>1, <2>2, <2>3, <2>4, <2>5, <2>6
  <2>8. TreeOfMode'
    BY <1>1, <1>b, <2>1, <2>2, <2>3, <2>4, <2>5, <2>6
  <2>9. CommandFollowsTask'
    BY <1>1, <1>b, <2>1, <2>2, <2>3, <2>4, <2>5, <2>6
  <2>10. WorkIsHeld'
    BY <1>1, <1>b, <2>1, <2>2, <2>3, <2>4, <2>5, <2>6
  <2>11. InBranchFirst'
    BY <1>1, <1>b, <2>1, <2>2, <2>3, <2>4, <2>5, <2>6
  <2> QED
    BY <2>7, <2>8, <2>9, <2>10, <2>11 DEF WorkspaceInv
<1>4. CASE Workspaces!Task.mode # "run" /\ Workspaces!Exit
           /\ tree' = Workspaces!NoTree /\ UNCHANGED <<repo, reviewed, stored>>
           /\ Workspaces!Fault
  <2>1. command' = Workspaces!Idle
    BY <1>4 DEF Workspaces!Exit
  <2>2. stored' = stored
    BY <1>4, <2>1
  <2>3. tree' \in TreeRecords /\ ~tree'.exists
    BY <1>4, <2>1, <2>2, NoTreeEffect
  <2>4. command.task.mode # "run"
    BY <1>4, <2>1, <2>2, <2>3 DEF Workspaces!Task
  <2>5. repo' = repo /\ reviewed' = reviewed
    BY <1>4, <2>1, <2>2, <2>3, <2>4
  <2>6. used' \in [operator : Nat, kills : Nat, faults : Nat]
    BY <1>1, <1>b, <1>4, <2>1, <2>2, <2>3, <2>4, <2>5
       DEF WorkspaceInv, WorkspaceTypes, Workspaces!Fault
  <2> USE DEF WorkspaceInv, WorkspaceTypes, TreeOfMode, CommandFollowsTask, WorkIsHeld,
     InBranchFirst, InBranch, WorkspacePlaces, Workspaces!At, Workspaces!Task,
     Workspaces!Idle, Workspaces!BranchOf, TreeBranches
  <2>7. WorkspaceTypes'
    BY <1>1, <1>b, <2>1, <2>2, <2>3, <2>4, <2>5, <2>6
  <2>8. TreeOfMode'
    BY <1>1, <1>b, <2>1, <2>2, <2>3, <2>4, <2>5, <2>6
  <2>9. CommandFollowsTask'
    BY <1>1, <1>b, <2>1, <2>2, <2>3, <2>4, <2>5, <2>6
  <2>10. WorkIsHeld'
    BY <1>1, <1>b, <2>1, <2>2, <2>3, <2>4, <2>5, <2>6
  <2>11. InBranchFirst'
    BY <1>1, <1>b, <2>1, <2>2, <2>3, <2>4, <2>5, <2>6
  <2> QED
    BY <2>7, <2>8, <2>9, <2>10, <2>11 DEF WorkspaceInv
<1> QED
  BY <1>2, <1>3, <1>4 DEF Workspaces!RecordTree

LEMMA Workspace_Resume ==
    ASSUME WorkspaceInv, Workspaces!Resume
    PROVE  WorkspaceInv'
<1>1. stored \in TaskRecords /\ stored.known /\ command = Workspaces!Idle
  BY DEF WorkspaceInv, WorkspaceTypes, Workspaces!Resume, Workspaces!At,
     CommandRecords, WorkspacePlaces
<1>2. UNCHANGED <<repo, tree, stored, reviewed, used>>
  BY DEF Workspaces!Resume
<1>3. CASE /\ Workspaces!NeedsFinalization(stored) /\ tree.exists
           /\ command' = [Workspaces!Idle EXCEPT !.pc = "deliver", !.task = stored]
  <2>1. /\ command' \in CommandRecords /\ command'.pc = "deliver"
           /\ command'.task = stored
        /\ stored.done /\ stored.path /\ stored.mode = "current" /\ tree.exists
    BY <1>1, <1>3
       DEF CommandRecords, WorkspacePlaces, Workspaces!Idle,
           Workspaces!NeedsFinalization
  <2> USE DEF WorkspaceInv, WorkspaceTypes, TreeOfMode, CommandFollowsTask, WorkIsHeld,
     InBranchFirst, InBranch, WorkspacePlaces, Workspaces!At, Workspaces!Task,
     Workspaces!Idle, Workspaces!BranchOf, TreeBranches
<2>2. WorkspaceTypes'
    BY <1>1, <1>2, <2>1
<2>3. TreeOfMode'
    BY <1>1, <1>2, <2>1
<2>4. CommandFollowsTask'
    BY <1>1, <1>2, <2>1
<2>5. WorkIsHeld'
    BY <1>1, <1>2, <2>1
<2>6. InBranchFirst'
    BY <1>1, <1>2, <2>1
<2> QED
    BY <2>2, <2>3, <2>4, <2>5, <2>6 DEF WorkspaceInv
<1>4. CASE /\ ~stored.done /\ ~stored.failed /\ (stored.path => tree.exists)
           /\ command' = [Workspaces!Idle EXCEPT !.pc = "work", !.task = stored]
  <2>1. /\ command' \in CommandRecords /\ command'.pc = "work" /\ command'.task = stored
        /\ ~stored.done /\ (stored.path => tree.exists)
    BY <1>1, <1>4 DEF CommandRecords, WorkspacePlaces, Workspaces!Idle
  <2> USE DEF WorkspaceInv, WorkspaceTypes, TreeOfMode, CommandFollowsTask, WorkIsHeld,
     InBranchFirst, InBranch, WorkspacePlaces, Workspaces!At, Workspaces!Task,
     Workspaces!Idle, Workspaces!BranchOf, TreeBranches
<2>2. WorkspaceTypes'
    BY <1>1, <1>2, <2>1
<2>3. TreeOfMode'
    BY <1>1, <1>2, <2>1
<2>4. CommandFollowsTask'
    BY <1>1, <1>2, <2>1
<2>5. WorkIsHeld'
    BY <1>1, <1>2, <2>1
<2>6. InBranchFirst'
    BY <1>1, <1>2, <2>1
<2> QED
    BY <2>2, <2>3, <2>4, <2>5, <2>6 DEF WorkspaceInv
<1> QED
  BY <1>3, <1>4 DEF Workspaces!Resume

LEMMA Workspace_Edit ==
    ASSUME WorkspaceInv, Workspaces!Edit
    PROVE  WorkspaceInv'
<1> USE DEF WorkspaceInv, WorkspaceTypes, TreeOfMode, CommandFollowsTask, WorkIsHeld,
   InBranchFirst, TaskRecords, WorkspacePlaces, TreeChanges, TreeBranches,
   DeliveryStatuses, InBranch, CommandRecords, TreeRecords, RepoRecords,
   Workspaces!Edit, Workspaces!At, Workspaces!Task, Workspaces!Modes, Workspaces!Idle
<1>1. WorkspaceTypes'
  OBVIOUS
<1>2. TreeOfMode'
  OBVIOUS
<1>3. CommandFollowsTask'
  OBVIOUS
<1>4. WorkIsHeld'
  OBVIOUS
<1>5. InBranchFirst'
  OBVIOUS
<1> QED
  BY <1>1, <1>2, <1>3, <1>4, <1>5 DEF WorkspaceInv

LEMMA Workspace_WorkDone ==
    ASSUME WorkspaceInv, Workspaces!WorkDone
    PROVE  WorkspaceInv'
<1>1. command.pc = "work" /\ command \in CommandRecords /\ command.task \in TaskRecords
  BY DEF WorkspaceInv, WorkspaceTypes, CommandRecords, Workspaces!WorkDone,
     Workspaces!At, Workspaces!Idle
<1>b. stored \in TaskRecords /\ tree \in TreeRecords /\ repo \in RepoRecords
  BY DEF WorkspaceInv, WorkspaceTypes
<1>c. command.task = stored
  BY <1>1 DEF WorkspaceInv, CommandFollowsTask, WorkspacePlaces, Workspaces!Task
<1>2. CASE stored.path /\ command.task.mode = "current"
  <2> DEFINE t == [command.task EXCEPT !.done = TRUE]
  <2>1. /\ t \in TaskRecords
       /\ t.known = command.task.known
       /\ t.mode = command.task.mode
       /\ t.done = TRUE
       /\ t.status = command.task.status
       /\ t.start = command.task.start
       /\ t.isolated = command.task.isolated
       /\ t.path = command.task.path
    BY <1>1, <1>b, <1>c, <1>2 DEF TaskRecords, DeliveryStatuses, TreeRecords
  <2>2. Workspaces!Save(t, "deliver")
    BY <1>1, <1>b, <1>c, <1>2, <2>1
       DEF Workspaces!Task, Workspaces!MarkFailed, Workspaces!WorkDone
  <2> HIDE DEF t
  <2>3. stored' = t /\ command' \in CommandRecords /\ command'.pc = "deliver"
        /\ command'.task = t
    BY <1>1, <1>b, <1>c, <1>2, <2>1, <2>2, SaveEffect, SaveExitEffect
       DEF WorkspacePlaces
  <2>4. tree' = tree /\ repo' = repo /\ used' = used /\ reviewed' = tree.edits
    BY <1>1, <1>b, <1>c, <1>2, <2>1, <2>2, <2>3 DEF Workspaces!WorkDone, Workspaces!Task
  <2>5. reviewed' \in SUBSET TreeChanges
    BY <1>1, <1>b, <1>c, <1>2, <2>1, <2>2, <2>3, <2>4 DEF TreeRecords, RepoRecords
  <2> USE DEF WorkspaceInv, WorkspaceTypes, TreeOfMode, CommandFollowsTask, WorkIsHeld,
     InBranchFirst, InBranch, WorkspacePlaces, Workspaces!At, Workspaces!Task,
     Workspaces!Idle, Workspaces!BranchOf, TreeBranches
  <2>6. WorkspaceTypes'
    BY <1>1, <1>b, <1>c, <1>2, <2>1, <2>2, <2>3, <2>4, <2>5
  <2>7. TreeOfMode'
    BY <1>1, <1>b, <1>c, <1>2, <2>1, <2>2, <2>3, <2>4, <2>5
  <2>8. CommandFollowsTask'
    BY <1>1, <1>b, <1>c, <1>2, <2>1, <2>2, <2>3, <2>4, <2>5
  <2>9. WorkIsHeld'
    BY <1>1, <1>b, <1>c, <1>2, <2>1, <2>2, <2>3, <2>4, <2>5
  <2>10. InBranchFirst'
    BY <1>1, <1>b, <1>c, <1>2, <2>1, <2>2, <2>3, <2>4, <2>5
  <2> QED
    BY <2>6, <2>7, <2>8, <2>9, <2>10 DEF WorkspaceInv
<1>3. CASE stored.path /\ command.task.mode # "current"
  <2> DEFINE t == [command.task EXCEPT !.done = TRUE]
  <2>1. /\ t \in TaskRecords
       /\ t.known = command.task.known
       /\ t.mode = command.task.mode
       /\ t.done = TRUE
       /\ t.status = command.task.status
       /\ t.start = command.task.start
       /\ t.isolated = command.task.isolated
       /\ t.path = command.task.path
    BY <1>1, <1>b, <1>c, <1>3 DEF TaskRecords, DeliveryStatuses, TreeRecords
  <2>2. Workspaces!Save(t, "finalize")
    BY <1>1, <1>b, <1>c, <1>3, <2>1
       DEF Workspaces!Task, Workspaces!MarkFailed, Workspaces!WorkDone
  <2> HIDE DEF t
  <2>3. stored' = t /\ command' \in CommandRecords /\ command'.pc = "finalize"
        /\ command'.task = t
    BY <1>1, <1>b, <1>c, <1>3, <2>1, <2>2, SaveEffect, SaveExitEffect
       DEF WorkspacePlaces
  <2>4. tree' = tree /\ repo' = repo /\ used' = used /\ reviewed' = tree.edits
    BY <1>1, <1>b, <1>c, <1>3, <2>1, <2>2, <2>3 DEF Workspaces!WorkDone, Workspaces!Task
  <2>5. reviewed' \in SUBSET TreeChanges
    BY <1>1, <1>b, <1>c, <1>3, <2>1, <2>2, <2>3, <2>4 DEF TreeRecords, RepoRecords
  <2> USE DEF WorkspaceInv, WorkspaceTypes, TreeOfMode, CommandFollowsTask, WorkIsHeld,
     InBranchFirst, InBranch, WorkspacePlaces, Workspaces!At, Workspaces!Task,
     Workspaces!Idle, Workspaces!BranchOf, TreeBranches
  <2>6. WorkspaceTypes'
    BY <1>1, <1>b, <1>c, <1>3, <2>1, <2>2, <2>3, <2>4, <2>5
  <2>7. TreeOfMode'
    BY <1>1, <1>b, <1>c, <1>3, <2>1, <2>2, <2>3, <2>4, <2>5
  <2>8. CommandFollowsTask'
    BY <1>1, <1>b, <1>c, <1>3, <2>1, <2>2, <2>3, <2>4, <2>5
  <2>9. WorkIsHeld'
    BY <1>1, <1>b, <1>c, <1>3, <2>1, <2>2, <2>3, <2>4, <2>5
  <2>10. InBranchFirst'
    BY <1>1, <1>b, <1>c, <1>3, <2>1, <2>2, <2>3, <2>4, <2>5
  <2> QED
    BY <2>6, <2>7, <2>8, <2>9, <2>10 DEF WorkspaceInv
<1>4. CASE ~stored.path
  <2> DEFINE t == [command.task EXCEPT !.done = TRUE]
  <2>1. /\ t \in TaskRecords
       /\ t.known = command.task.known
       /\ t.mode = command.task.mode
       /\ t.done = TRUE
       /\ t.status = command.task.status
       /\ t.start = command.task.start
       /\ t.isolated = command.task.isolated
       /\ t.path = command.task.path
    BY <1>1, <1>b, <1>c, <1>4 DEF TaskRecords, DeliveryStatuses, TreeRecords
  <2>2. Workspaces!SaveExit(t)
    BY <1>1, <1>b, <1>c, <1>4, <2>1
       DEF Workspaces!Task, Workspaces!MarkFailed, Workspaces!WorkDone
  <2> HIDE DEF t
  <2>3. stored' = t /\ command' = Workspaces!Idle
    BY <1>1, <1>b, <1>c, <1>4, <2>1, <2>2, SaveEffect, SaveExitEffect
       DEF WorkspacePlaces
  <2>4. tree' = tree /\ repo' = repo /\ used' = used /\ reviewed' = repo.edits
    BY <1>1, <1>b, <1>c, <1>4, <2>1, <2>2, <2>3 DEF Workspaces!WorkDone, Workspaces!Task
  <2>5. reviewed' \in SUBSET TreeChanges
    BY <1>1, <1>b, <1>c, <1>4, <2>1, <2>2, <2>3, <2>4 DEF TreeRecords, RepoRecords
  <2> USE DEF WorkspaceInv, WorkspaceTypes, TreeOfMode, CommandFollowsTask, WorkIsHeld,
     InBranchFirst, InBranch, WorkspacePlaces, Workspaces!At, Workspaces!Task,
     Workspaces!Idle, Workspaces!BranchOf, TreeBranches
  <2>6. WorkspaceTypes'
    BY <1>1, <1>b, <1>c, <1>4, <2>1, <2>2, <2>3, <2>4, <2>5
  <2>7. TreeOfMode'
    BY <1>1, <1>b, <1>c, <1>4, <2>1, <2>2, <2>3, <2>4, <2>5
  <2>8. CommandFollowsTask'
    BY <1>1, <1>b, <1>c, <1>4, <2>1, <2>2, <2>3, <2>4, <2>5
  <2>9. WorkIsHeld'
    BY <1>1, <1>b, <1>c, <1>4, <2>1, <2>2, <2>3, <2>4, <2>5
  <2>10. InBranchFirst'
    BY <1>1, <1>b, <1>c, <1>4, <2>1, <2>2, <2>3, <2>4, <2>5
  <2> QED
    BY <2>6, <2>7, <2>8, <2>9, <2>10 DEF WorkspaceInv
<1> QED
  BY <1>2, <1>3, <1>4 DEF Workspaces!WorkDone

LEMMA Workspace_WorkFails ==
    ASSUME WorkspaceInv, Workspaces!WorkFails
    PROVE  WorkspaceInv'
<1> USE DEF WorkspaceInv, WorkspaceTypes, TreeOfMode, CommandFollowsTask, WorkIsHeld,
   InBranchFirst, TaskRecords, WorkspacePlaces, TreeChanges, TreeBranches,
   DeliveryStatuses, InBranch, CommandRecords, TreeRecords, RepoRecords,
   Workspaces!WorkFails, Workspaces!At, Workspaces!Task, Workspaces!Modes,
   Workspaces!SaveExit, Workspaces!Exit, Workspaces!Idle
<1>1. WorkspaceTypes'
  OBVIOUS
<1>2. TreeOfMode'
  OBVIOUS
<1>3. CommandFollowsTask'
  OBVIOUS
<1>4. WorkIsHeld'
  OBVIOUS
<1>5. InBranchFirst'
  OBVIOUS
<1> QED
  BY <1>1, <1>2, <1>3, <1>4, <1>5 DEF WorkspaceInv

LEMMA Workspace_Finalize ==
    ASSUME WorkspaceInv, Workspaces!Finalize
    PROVE  WorkspaceInv'
<1>1. command.pc = "finalize" /\ command \in CommandRecords
      /\ command.task \in TaskRecords
  BY DEF WorkspaceInv, WorkspaceTypes, CommandRecords, Workspaces!Finalize,
     Workspaces!At, Workspaces!Idle
<1>b. stored \in TaskRecords /\ tree \in TreeRecords /\ repo \in RepoRecords
  BY DEF WorkspaceInv, WorkspaceTypes
<1>c. command.task = stored
  BY <1>1 DEF WorkspaceInv, CommandFollowsTask, WorkspacePlaces, Workspaces!Task
<1>2. CASE Workspaces!CommitTree /\ Workspaces!GoTo("remove")
           /\ UNCHANGED <<stored, used, reviewed>>
  <2>1. /\ tree' \in TreeRecords
       /\ tree'.exists = tree.exists /\ tree'.on = tree.on
       /\ tree'.head = tree.head \cup tree.edits /\ tree'.edits = {}
       /\ repo' \in RepoRecords
       /\ repo'.checkout = repo.checkout /\ repo'.edits = repo.edits
       /\ \A b \in TreeBranches :
            repo'.tip[b] = IF b = tree.on THEN tree.head \cup tree.edits ELSE repo.tip[b]
    BY <1>1, <1>b, <1>c, <1>2, CommitTreeEffect
  <2>2. command' \in CommandRecords /\ command'.pc = "remove"
        /\ command'.task = command.task
    BY <1>1, <1>b, <1>c, <1>2, <2>1, GoToEffect DEF WorkspacePlaces
  <2>3. stored' = stored /\ used' = used /\ reviewed' = reviewed
        /\ tree.on \in TreeBranches
    BY <1>1, <1>b, <1>c, <1>2, <2>1, <2>2
       DEF WorkspaceInv, WorkspaceTypes, CommandFollowsTask, TreeOfMode, InBranchFirst,
           Workspaces!At, Workspaces!BranchOf, Workspaces!Modes, TaskRecords,
           TreeBranches
  <2> USE DEF WorkspaceInv, WorkspaceTypes, TreeOfMode, CommandFollowsTask, WorkIsHeld,
     InBranchFirst, InBranch, WorkspacePlaces, Workspaces!At, Workspaces!Task,
     Workspaces!Idle, Workspaces!BranchOf, TreeBranches
  <2>4. WorkspaceTypes'
    BY <1>1, <1>b, <1>c, <2>1, <2>2, <2>3
  <2>5. TreeOfMode'
    BY <1>1, <1>b, <1>c, <2>1, <2>2, <2>3
  <2>6. CommandFollowsTask'
    BY <1>1, <1>b, <1>c, <2>1, <2>2, <2>3
  <2>7. WorkIsHeld'
    BY <1>1, <1>b, <1>c, <2>1, <2>2, <2>3
  <2>8. InBranchFirst'
    BY <1>1, <1>b, <1>c, <2>1, <2>2, <2>3
  <2> QED
    BY <2>4, <2>5, <2>6, <2>7, <2>8 DEF WorkspaceInv
<1>3. CASE Workspaces!Fault /\ Workspaces!SaveExit(Workspaces!Task)
           /\ UNCHANGED <<repo, tree, reviewed>>
  <2> DEFINE t == command.task
  <2>1. /\ t \in TaskRecords
       /\ t.known = command.task.known
       /\ t.mode = command.task.mode
       /\ t.done = command.task.done
       /\ t.status = command.task.status
       /\ t.start = command.task.start
       /\ t.isolated = command.task.isolated
       /\ t.path = command.task.path
    BY <1>1, <1>b, <1>c, <1>3 DEF TaskRecords, DeliveryStatuses, TreeRecords
  <2>2. Workspaces!SaveExit(t)
    BY <1>1, <1>b, <1>c, <1>3, <2>1 DEF Workspaces!Task, Workspaces!MarkFailed
  <2> HIDE DEF t
  <2>3. stored' = t /\ command' = Workspaces!Idle
    BY <1>1, <1>b, <1>c, <1>3, <2>1, <2>2, SaveEffect, SaveExitEffect
       DEF WorkspacePlaces
  <2>4. repo' = repo /\ tree' = tree /\ reviewed' = reviewed
    BY <1>3, <2>1, <2>2, <2>3
  <2>5. used' \in [operator : Nat, kills : Nat, faults : Nat]
    BY <1>1, <1>b, <1>c, <1>3, <2>1, <2>2, <2>3, <2>4
       DEF WorkspaceInv, WorkspaceTypes, Workspaces!Fault
  <2> USE DEF WorkspaceInv, WorkspaceTypes, TreeOfMode, CommandFollowsTask, WorkIsHeld,
     InBranchFirst, InBranch, WorkspacePlaces, Workspaces!At, Workspaces!Task,
     Workspaces!Idle, Workspaces!BranchOf, TreeBranches
  <2>6. WorkspaceTypes'
    BY <1>1, <1>b, <1>c, <2>1, <2>2, <2>3, <2>4, <2>5
  <2>7. TreeOfMode'
    BY <1>1, <1>b, <1>c, <2>1, <2>2, <2>3, <2>4, <2>5
  <2>8. CommandFollowsTask'
    BY <1>1, <1>b, <1>c, <2>1, <2>2, <2>3, <2>4, <2>5
  <2>9. WorkIsHeld'
    BY <1>1, <1>b, <1>c, <2>1, <2>2, <2>3, <2>4, <2>5
  <2>10. InBranchFirst'
    BY <1>1, <1>b, <1>c, <2>1, <2>2, <2>3, <2>4, <2>5
  <2> QED
    BY <2>6, <2>7, <2>8, <2>9, <2>10 DEF WorkspaceInv
<1> QED
  BY <1>2, <1>3 DEF Workspaces!Finalize

LEMMA Workspace_Remove ==
    ASSUME WorkspaceInv, Workspaces!Remove
    PROVE  WorkspaceInv'
<1>1. command.pc = "remove" /\ command \in CommandRecords
      /\ command.task \in TaskRecords
  BY DEF WorkspaceInv, WorkspaceTypes, CommandRecords, Workspaces!Remove,
     Workspaces!At, Workspaces!Idle
<1>b. stored \in TaskRecords /\ tree \in TreeRecords /\ repo \in RepoRecords
  BY DEF WorkspaceInv, WorkspaceTypes
<1>c. command.task = stored
  BY <1>1 DEF WorkspaceInv, CommandFollowsTask, WorkspacePlaces, Workspaces!Task
<1>2. CASE tree' = Workspaces!NoTree /\ Workspaces!GoTo("forget")
           /\ UNCHANGED <<stored, used, repo, reviewed>>
  <2>1. tree' \in TreeRecords /\ ~tree'.exists
    BY <1>2, NoTreeEffect
  <2>2. command' \in CommandRecords /\ command'.pc = "forget"
        /\ command'.task = command.task
    BY <1>1, <1>b, <1>c, <1>2, <2>1, GoToEffect DEF WorkspacePlaces
  <2>3. stored' = stored /\ used' = used /\ repo' = repo /\ reviewed' = reviewed
    BY <1>2, <2>1, <2>2
  <2>4. reviewed \subseteq repo.tip[tree.on] /\ tree.on \in TreeBranches
    BY <1>1, <1>b, <1>c, <1>2, <2>1, <2>2, <2>3
       DEF WorkspaceInv, WorkspaceTypes, CommandFollowsTask, TreeOfMode, InBranchFirst,
           Workspaces!At, Workspaces!BranchOf, Workspaces!Modes, TaskRecords,
           TreeBranches
  <2> USE DEF WorkspaceInv, WorkspaceTypes, TreeOfMode, CommandFollowsTask, WorkIsHeld,
     InBranchFirst, InBranch, WorkspacePlaces, Workspaces!At, Workspaces!Task,
     Workspaces!Idle, Workspaces!BranchOf, TreeBranches
  <2>5. WorkspaceTypes'
    BY <1>1, <1>b, <1>c, <2>1, <2>2, <2>3, <2>4
  <2>6. TreeOfMode'
    BY <1>1, <1>b, <1>c, <2>1, <2>2, <2>3, <2>4
  <2>7. CommandFollowsTask'
    BY <1>1, <1>b, <1>c, <2>1, <2>2, <2>3, <2>4
  <2>8. WorkIsHeld'
    BY <1>1, <1>b, <1>c, <2>1, <2>2, <2>3, <2>4
  <2>9. InBranchFirst'
    BY <1>1, <1>b, <1>c, <2>1, <2>2, <2>3, <2>4
  <2> QED
    BY <2>5, <2>6, <2>7, <2>8, <2>9 DEF WorkspaceInv
<1>3. CASE Workspaces!Fault /\ Workspaces!SaveExit(Workspaces!Task)
           /\ UNCHANGED <<repo, tree, reviewed>>
  <2> DEFINE t == command.task
  <2>1. /\ t \in TaskRecords
       /\ t.known = command.task.known
       /\ t.mode = command.task.mode
       /\ t.done = command.task.done
       /\ t.status = command.task.status
       /\ t.start = command.task.start
       /\ t.isolated = command.task.isolated
       /\ t.path = command.task.path
    BY <1>1, <1>b, <1>c, <1>3 DEF TaskRecords, DeliveryStatuses, TreeRecords
  <2>2. Workspaces!SaveExit(t)
    BY <1>1, <1>b, <1>c, <1>3, <2>1 DEF Workspaces!Task, Workspaces!MarkFailed
  <2> HIDE DEF t
  <2>3. stored' = t /\ command' = Workspaces!Idle
    BY <1>1, <1>b, <1>c, <1>3, <2>1, <2>2, SaveEffect, SaveExitEffect
       DEF WorkspacePlaces
  <2>4. repo' = repo /\ tree' = tree /\ reviewed' = reviewed
    BY <1>3, <2>1, <2>2, <2>3
  <2>5. used' \in [operator : Nat, kills : Nat, faults : Nat]
    BY <1>1, <1>b, <1>c, <1>3, <2>1, <2>2, <2>3, <2>4
       DEF WorkspaceInv, WorkspaceTypes, Workspaces!Fault
  <2> USE DEF WorkspaceInv, WorkspaceTypes, TreeOfMode, CommandFollowsTask, WorkIsHeld,
     InBranchFirst, InBranch, WorkspacePlaces, Workspaces!At, Workspaces!Task,
     Workspaces!Idle, Workspaces!BranchOf, TreeBranches
  <2>6. WorkspaceTypes'
    BY <1>1, <1>b, <1>c, <2>1, <2>2, <2>3, <2>4, <2>5
  <2>7. TreeOfMode'
    BY <1>1, <1>b, <1>c, <2>1, <2>2, <2>3, <2>4, <2>5
  <2>8. CommandFollowsTask'
    BY <1>1, <1>b, <1>c, <2>1, <2>2, <2>3, <2>4, <2>5
  <2>9. WorkIsHeld'
    BY <1>1, <1>b, <1>c, <2>1, <2>2, <2>3, <2>4, <2>5
  <2>10. InBranchFirst'
    BY <1>1, <1>b, <1>c, <2>1, <2>2, <2>3, <2>4, <2>5
  <2> QED
    BY <2>6, <2>7, <2>8, <2>9, <2>10 DEF WorkspaceInv
<1> QED
  BY <1>2, <1>3 DEF Workspaces!Remove

LEMMA Workspace_Forget ==
    ASSUME WorkspaceInv, Workspaces!Forget
    PROVE  WorkspaceInv'
<1> USE DEF WorkspaceInv, WorkspaceTypes, TreeOfMode, CommandFollowsTask, WorkIsHeld,
   InBranchFirst, TaskRecords, WorkspacePlaces, TreeChanges, TreeBranches,
   DeliveryStatuses, InBranch, CommandRecords, TreeRecords, RepoRecords,
   Workspaces!Forget, Workspaces!At, Workspaces!Task, Workspaces!Modes,
   Workspaces!SaveExit, Workspaces!Exit, Workspaces!Idle
<1>1. WorkspaceTypes'
  OBVIOUS
<1>2. TreeOfMode'
  OBVIOUS
<1>3. CommandFollowsTask'
  OBVIOUS
<1>4. WorkIsHeld'
  OBVIOUS
<1>5. InBranchFirst'
  OBVIOUS
<1> QED
  BY <1>1, <1>2, <1>3, <1>4, <1>5 DEF WorkspaceInv

LEMMA Workspace_ReuseCommit ==
    ASSUME WorkspaceInv, Workspaces!ReuseCommit
    PROVE  WorkspaceInv'
<1>1. command.pc = "deliver" /\ command \in CommandRecords
      /\ command.task \in TaskRecords
  BY DEF WorkspaceInv, WorkspaceTypes, CommandRecords, Workspaces!ReuseCommit,
     Workspaces!At, Workspaces!Idle
<1>b. stored \in TaskRecords /\ tree \in TreeRecords /\ repo \in RepoRecords
  BY DEF WorkspaceInv, WorkspaceTypes
<1>c. command.task = stored
  BY <1>1 DEF WorkspaceInv, CommandFollowsTask, WorkspacePlaces, Workspaces!Task
<1>2. CASE Workspaces!Reusable
  <2> DEFINE t == [command.task EXCEPT !.status = "committed"]
  <2>1. /\ t \in TaskRecords
       /\ t.known = command.task.known
       /\ t.mode = command.task.mode
       /\ t.done = command.task.done
       /\ t.status = "committed"
       /\ t.start = command.task.start
       /\ t.isolated = command.task.isolated
       /\ t.path = command.task.path
    BY <1>1, <1>b, <1>c, <1>2 DEF TaskRecords, DeliveryStatuses, TreeRecords
  <2>2. Workspaces!Save(t, "check")
    BY <1>1, <1>b, <1>c, <1>2, <2>1
       DEF Workspaces!Task, Workspaces!MarkFailed, Workspaces!ReuseCommit
  <2> HIDE DEF t
  <2>3. stored' = t /\ command' \in CommandRecords /\ command'.pc = "check"
        /\ command'.task = t
    BY <1>1, <1>b, <1>c, <1>2, <2>1, <2>2, SaveEffect, SaveExitEffect
       DEF WorkspacePlaces
  <2>4. repo' = repo /\ tree' = tree /\ reviewed' = reviewed /\ used' = used
    BY <1>1, <1>b, <1>c, <1>2, <2>1, <2>2, <2>3 DEF Workspaces!ReuseCommit
  <2>5. tree.edits = {} /\ tree.head \in stored.isolated
    BY <1>1, <1>b, <1>c, <1>2, <2>1, <2>2, <2>3, <2>4
       DEF Workspaces!Reusable, Workspaces!Task
  <2> USE DEF WorkspaceInv, WorkspaceTypes, TreeOfMode, CommandFollowsTask, WorkIsHeld,
     InBranchFirst, InBranch, WorkspacePlaces, Workspaces!At, Workspaces!Task,
     Workspaces!Idle, Workspaces!BranchOf, TreeBranches
  <2>6. WorkspaceTypes'
    BY <1>1, <1>b, <1>c, <2>1, <2>2, <2>3, <2>4, <2>5
  <2>7. TreeOfMode'
    BY <1>1, <1>b, <1>c, <2>1, <2>2, <2>3, <2>4, <2>5
  <2>8. CommandFollowsTask'
    BY <1>1, <1>b, <1>c, <2>1, <2>2, <2>3, <2>4, <2>5
  <2>9. WorkIsHeld'
    BY <1>1, <1>b, <1>c, <2>1, <2>2, <2>3, <2>4, <2>5
  <2>10. InBranchFirst'
    BY <1>1, <1>b, <1>c, <2>1, <2>2, <2>3, <2>4, <2>5
  <2> QED
    BY <2>6, <2>7, <2>8, <2>9, <2>10 DEF WorkspaceInv
<1>3. CASE ~Workspaces!Reusable
  <2> DEFINE t == [command.task EXCEPT !.status = "failed"]
  <2>1. /\ t \in TaskRecords
       /\ t.known = command.task.known
       /\ t.mode = command.task.mode
       /\ t.done = command.task.done
       /\ t.status = "failed"
       /\ t.start = command.task.start
       /\ t.isolated = command.task.isolated
       /\ t.path = command.task.path
    BY <1>1, <1>b, <1>c, <1>3 DEF TaskRecords, DeliveryStatuses, TreeRecords
  <2>2. Workspaces!SaveExit(t)
    BY <1>1, <1>b, <1>c, <1>3, <2>1
       DEF Workspaces!Task, Workspaces!MarkFailed, Workspaces!ReuseCommit
  <2> HIDE DEF t
  <2>3. stored' = t /\ command' = Workspaces!Idle
    BY <1>1, <1>b, <1>c, <1>3, <2>1, <2>2, SaveEffect, SaveExitEffect
       DEF WorkspacePlaces
  <2>4. repo' = repo /\ tree' = tree /\ reviewed' = reviewed /\ used' = used
    BY <1>1, <1>b, <1>c, <1>3, <2>1, <2>2, <2>3 DEF Workspaces!ReuseCommit
  <2> USE DEF WorkspaceInv, WorkspaceTypes, TreeOfMode, CommandFollowsTask, WorkIsHeld,
     InBranchFirst, InBranch, WorkspacePlaces, Workspaces!At, Workspaces!Task,
     Workspaces!Idle, Workspaces!BranchOf, TreeBranches
  <2>5. WorkspaceTypes'
    BY <1>1, <1>b, <1>c, <2>1, <2>2, <2>3, <2>4
  <2>6. TreeOfMode'
    BY <1>1, <1>b, <1>c, <2>1, <2>2, <2>3, <2>4
  <2>7. CommandFollowsTask'
    BY <1>1, <1>b, <1>c, <2>1, <2>2, <2>3, <2>4
  <2>8. WorkIsHeld'
    BY <1>1, <1>b, <1>c, <2>1, <2>2, <2>3, <2>4
  <2>9. InBranchFirst'
    BY <1>1, <1>b, <1>c, <2>1, <2>2, <2>3, <2>4
  <2> QED
    BY <2>5, <2>6, <2>7, <2>8, <2>9 DEF WorkspaceInv
<1> QED
  BY <1>2, <1>3 DEF Workspaces!ReuseCommit

LEMMA Workspace_CommitFix ==
    ASSUME WorkspaceInv, Workspaces!CommitFix
    PROVE  WorkspaceInv'
<1>1. command.pc = "deliver" /\ command \in CommandRecords
      /\ command.task \in TaskRecords
  BY DEF WorkspaceInv, WorkspaceTypes, CommandRecords, Workspaces!CommitFix,
     Workspaces!At, Workspaces!Idle
<1>b. stored \in TaskRecords /\ tree \in TreeRecords /\ repo \in RepoRecords
  BY DEF WorkspaceInv, WorkspaceTypes
<1>c. command.task = stored
  BY <1>1 DEF WorkspaceInv, CommandFollowsTask, WorkspacePlaces, Workspaces!Task
<1>2. CASE Workspaces!CommitTree
           /\ command' = [command EXCEPT !.pc = "committed",
                !.made = tree.edits /= {}] /\ Workspaces!Task.isolated = {}
           /\ UNCHANGED <<stored, used, reviewed>>
  <2>1. /\ tree' \in TreeRecords
       /\ tree'.exists = tree.exists /\ tree'.on = tree.on
       /\ tree'.head = tree.head \cup tree.edits /\ tree'.edits = {}
       /\ repo' \in RepoRecords
       /\ repo'.checkout = repo.checkout /\ repo'.edits = repo.edits
       /\ \A b \in TreeBranches :
            repo'.tip[b] = IF b = tree.on THEN tree.head \cup tree.edits ELSE repo.tip[b]
    BY <1>1, <1>b, <1>c, <1>2, CommitTreeEffect
  <2>2. command' \in CommandRecords /\ command'.pc = "committed"
        /\ command'.task = command.task
    BY <1>1, <1>b, <1>c, <1>2, <2>1 DEF CommandRecords, WorkspacePlaces
  <2>3. stored' = stored /\ used' = used /\ reviewed' = reviewed /\ stored.isolated = {}
    BY <1>1, <1>b, <1>c, <1>2, <2>1, <2>2 DEF Workspaces!Task
  <2> USE DEF WorkspaceInv, WorkspaceTypes, TreeOfMode, CommandFollowsTask, WorkIsHeld,
     InBranchFirst, InBranch, WorkspacePlaces, Workspaces!At, Workspaces!Task,
     Workspaces!Idle, Workspaces!BranchOf, TreeBranches
  <2>4. WorkspaceTypes'
    BY <1>1, <1>b, <1>c, <2>1, <2>2, <2>3
  <2>5. TreeOfMode'
    BY <1>1, <1>b, <1>c, <2>1, <2>2, <2>3
  <2>6. CommandFollowsTask'
    BY <1>1, <1>b, <1>c, <2>1, <2>2, <2>3
  <2>7. WorkIsHeld'
    BY <1>1, <1>b, <1>c, <2>1, <2>2, <2>3
  <2>8. InBranchFirst'
    BY <1>1, <1>b, <1>c, <2>1, <2>2, <2>3
  <2> QED
    BY <2>4, <2>5, <2>6, <2>7, <2>8 DEF WorkspaceInv
<1>3. CASE Workspaces!Fault /\ Workspaces!MarkFailed
           /\ UNCHANGED <<repo, tree, reviewed>>
  <2> DEFINE t == [command.task EXCEPT !.status = "failed"]
  <2>1. /\ t \in TaskRecords
       /\ t.known = command.task.known
       /\ t.mode = command.task.mode
       /\ t.done = command.task.done
       /\ t.status = "failed"
       /\ t.start = command.task.start
       /\ t.isolated = command.task.isolated
       /\ t.path = command.task.path
    BY <1>1, <1>b, <1>c, <1>3 DEF TaskRecords, DeliveryStatuses, TreeRecords
  <2>2. Workspaces!SaveExit(t)
    BY <1>1, <1>b, <1>c, <1>3, <2>1 DEF Workspaces!Task, Workspaces!MarkFailed
  <2> HIDE DEF t
  <2>3. stored' = t /\ command' = Workspaces!Idle
    BY <1>1, <1>b, <1>c, <1>3, <2>1, <2>2, SaveEffect, SaveExitEffect
       DEF WorkspacePlaces
  <2>4. repo' = repo /\ tree' = tree /\ reviewed' = reviewed
    BY <1>3, <2>1, <2>2, <2>3
  <2>5. used' \in [operator : Nat, kills : Nat, faults : Nat]
    BY <1>1, <1>b, <1>c, <1>3, <2>1, <2>2, <2>3, <2>4
       DEF WorkspaceInv, WorkspaceTypes, Workspaces!Fault
  <2> USE DEF WorkspaceInv, WorkspaceTypes, TreeOfMode, CommandFollowsTask, WorkIsHeld,
     InBranchFirst, InBranch, WorkspacePlaces, Workspaces!At, Workspaces!Task,
     Workspaces!Idle, Workspaces!BranchOf, TreeBranches
  <2>6. WorkspaceTypes'
    BY <1>1, <1>b, <1>c, <2>1, <2>2, <2>3, <2>4, <2>5
  <2>7. TreeOfMode'
    BY <1>1, <1>b, <1>c, <2>1, <2>2, <2>3, <2>4, <2>5
  <2>8. CommandFollowsTask'
    BY <1>1, <1>b, <1>c, <2>1, <2>2, <2>3, <2>4, <2>5
  <2>9. WorkIsHeld'
    BY <1>1, <1>b, <1>c, <2>1, <2>2, <2>3, <2>4, <2>5
  <2>10. InBranchFirst'
    BY <1>1, <1>b, <1>c, <2>1, <2>2, <2>3, <2>4, <2>5
  <2> QED
    BY <2>6, <2>7, <2>8, <2>9, <2>10 DEF WorkspaceInv
<1> QED
  BY <1>2, <1>3 DEF Workspaces!CommitFix

LEMMA Workspace_RecordFix ==
    ASSUME WorkspaceInv, Workspaces!RecordFix
    PROVE  WorkspaceInv'
<1>1. command.pc = "committed" /\ command \in CommandRecords
      /\ command.task \in TaskRecords
  BY DEF WorkspaceInv, WorkspaceTypes, CommandRecords, Workspaces!RecordFix,
     Workspaces!At, Workspaces!Idle
<1>b. stored \in TaskRecords /\ tree \in TreeRecords /\ repo \in RepoRecords
  BY DEF WorkspaceInv, WorkspaceTypes
<1>c. command.task = stored
  BY <1>1 DEF WorkspaceInv, CommandFollowsTask, WorkspacePlaces, Workspaces!Task
<1>2. CASE TRUE
  <2> DEFINE t == [command.task EXCEPT !.isolated = {tree.head}, !.status = "committed"]
  <2>1. /\ t \in TaskRecords
       /\ t.known = command.task.known
       /\ t.mode = command.task.mode
       /\ t.done = command.task.done
       /\ t.status = "committed"
       /\ t.start = command.task.start
       /\ t.isolated = {tree.head}
       /\ t.path = command.task.path
    BY <1>1, <1>b, <1>c, <1>2 DEF TaskRecords, DeliveryStatuses, TreeRecords
  <2>2. Workspaces!Save(t, "check")
    BY <1>1, <1>b, <1>c, <1>2, <2>1
       DEF Workspaces!Task, Workspaces!MarkFailed, Workspaces!RecordFix
  <2> HIDE DEF t
  <2>3. stored' = t /\ command' \in CommandRecords /\ command'.pc = "check"
        /\ command'.task = t
    BY <1>1, <1>b, <1>c, <1>2, <2>1, <2>2, SaveEffect, SaveExitEffect
       DEF WorkspacePlaces
  <2>4. repo' = repo /\ tree' = tree /\ reviewed' = reviewed /\ used' = used
    BY <1>1, <1>b, <1>c, <1>2, <2>1, <2>2, <2>3 DEF Workspaces!RecordFix
  <2> USE DEF WorkspaceInv, WorkspaceTypes, TreeOfMode, CommandFollowsTask, WorkIsHeld,
     InBranchFirst, InBranch, WorkspacePlaces, Workspaces!At, Workspaces!Task,
     Workspaces!Idle, Workspaces!BranchOf, TreeBranches
  <2>5. WorkspaceTypes'
    BY <1>1, <1>b, <1>c, <2>1, <2>2, <2>3, <2>4
  <2>6. TreeOfMode'
    BY <1>1, <1>b, <1>c, <2>1, <2>2, <2>3, <2>4
  <2>7. CommandFollowsTask'
    BY <1>1, <1>b, <1>c, <2>1, <2>2, <2>3, <2>4
  <2>8. WorkIsHeld'
    BY <1>1, <1>b, <1>c, <2>1, <2>2, <2>3, <2>4
  <2>9. InBranchFirst'
    BY <1>1, <1>b, <1>c, <2>1, <2>2, <2>3, <2>4
  <2> QED
    BY <2>5, <2>6, <2>7, <2>8, <2>9 DEF WorkspaceInv
<1> QED
  BY <1>2 DEF Workspaces!RecordFix

LEMMA Workspace_NoChanges ==
    ASSUME WorkspaceInv, Workspaces!NoChanges
    PROVE  WorkspaceInv'
<1>1. command.pc = "committed" /\ command \in CommandRecords
      /\ command.task \in TaskRecords
  BY DEF WorkspaceInv, WorkspaceTypes, CommandRecords, Workspaces!NoChanges,
     Workspaces!At, Workspaces!Idle
<1>b. stored \in TaskRecords /\ tree \in TreeRecords /\ repo \in RepoRecords
  BY DEF WorkspaceInv, WorkspaceTypes
<1>c. command.task = stored
  BY <1>1 DEF WorkspaceInv, CommandFollowsTask, WorkspacePlaces, Workspaces!Task
<1>2. CASE Workspaces!Safe
  <2> DEFINE t == [command.task EXCEPT !.status = "no_changes"]
  <2>1. /\ t \in TaskRecords
       /\ t.known = command.task.known
       /\ t.mode = command.task.mode
       /\ t.done = command.task.done
       /\ t.status = "no_changes"
       /\ t.start = command.task.start
       /\ t.isolated = command.task.isolated
       /\ t.path = command.task.path
    BY <1>1, <1>b, <1>c, <1>2 DEF TaskRecords, DeliveryStatuses, TreeRecords
  <2>2. Workspaces!Save(t, "drop")
    BY <1>1, <1>b, <1>c, <1>2, <2>1
       DEF Workspaces!Task, Workspaces!MarkFailed, Workspaces!NoChanges
  <2> HIDE DEF t
  <2>3. stored' = t /\ command' \in CommandRecords /\ command'.pc = "drop"
        /\ command'.task = t
    BY <1>1, <1>b, <1>c, <1>2, <2>1, <2>2, SaveEffect, SaveExitEffect
       DEF WorkspacePlaces
  <2>4. repo' = repo /\ tree' = tree /\ reviewed' = reviewed /\ used' = used
    BY <1>1, <1>b, <1>c, <1>2, <2>1, <2>2, <2>3 DEF Workspaces!NoChanges
  <2>5. stored.isolated = {} /\ repo.tip["target"] = stored.start
        /\ tree.head = stored.start /\ tree.edits = {}
    BY <1>1, <1>b, <1>c, <1>2, <2>1, <2>2, <2>3, <2>4
       DEF Workspaces!NoChanges, Workspaces!Safe, Workspaces!HoldsFix, Workspaces!Task,
           WorkspaceInv, InBranchFirst, Workspaces!At
  <2> USE DEF WorkspaceInv, WorkspaceTypes, TreeOfMode, CommandFollowsTask, WorkIsHeld,
     InBranchFirst, InBranch, WorkspacePlaces, Workspaces!At, Workspaces!Task,
     Workspaces!Idle, Workspaces!BranchOf, TreeBranches
  <2>6. WorkspaceTypes'
    BY <1>1, <1>b, <1>c, <2>1, <2>2, <2>3, <2>4, <2>5
  <2>7. TreeOfMode'
    BY <1>1, <1>b, <1>c, <2>1, <2>2, <2>3, <2>4, <2>5
  <2>8. CommandFollowsTask'
    BY <1>1, <1>b, <1>c, <2>1, <2>2, <2>3, <2>4, <2>5
  <2>9. WorkIsHeld'
    BY <1>1, <1>b, <1>c, <2>1, <2>2, <2>3, <2>4, <2>5
  <2>10. InBranchFirst'
    BY <1>1, <1>b, <1>c, <2>1, <2>2, <2>3, <2>4, <2>5
  <2> QED
    BY <2>6, <2>7, <2>8, <2>9, <2>10 DEF WorkspaceInv
<1>3. CASE ~Workspaces!Safe
  <2> DEFINE t == [command.task EXCEPT !.status = "failed"]
  <2>1. /\ t \in TaskRecords
       /\ t.known = command.task.known
       /\ t.mode = command.task.mode
       /\ t.done = command.task.done
       /\ t.status = "failed"
       /\ t.start = command.task.start
       /\ t.isolated = command.task.isolated
       /\ t.path = command.task.path
    BY <1>1, <1>b, <1>c, <1>3 DEF TaskRecords, DeliveryStatuses, TreeRecords
  <2>2. Workspaces!SaveExit(t)
    BY <1>1, <1>b, <1>c, <1>3, <2>1
       DEF Workspaces!Task, Workspaces!MarkFailed, Workspaces!NoChanges
  <2> HIDE DEF t
  <2>3. stored' = t /\ command' = Workspaces!Idle
    BY <1>1, <1>b, <1>c, <1>3, <2>1, <2>2, SaveEffect, SaveExitEffect
       DEF WorkspacePlaces
  <2>4. repo' = repo /\ tree' = tree /\ reviewed' = reviewed /\ used' = used
    BY <1>1, <1>b, <1>c, <1>3, <2>1, <2>2, <2>3 DEF Workspaces!NoChanges
  <2> USE DEF WorkspaceInv, WorkspaceTypes, TreeOfMode, CommandFollowsTask, WorkIsHeld,
     InBranchFirst, InBranch, WorkspacePlaces, Workspaces!At, Workspaces!Task,
     Workspaces!Idle, Workspaces!BranchOf, TreeBranches
  <2>5. WorkspaceTypes'
    BY <1>1, <1>b, <1>c, <2>1, <2>2, <2>3, <2>4
  <2>6. TreeOfMode'
    BY <1>1, <1>b, <1>c, <2>1, <2>2, <2>3, <2>4
  <2>7. CommandFollowsTask'
    BY <1>1, <1>b, <1>c, <2>1, <2>2, <2>3, <2>4
  <2>8. WorkIsHeld'
    BY <1>1, <1>b, <1>c, <2>1, <2>2, <2>3, <2>4
  <2>9. InBranchFirst'
    BY <1>1, <1>b, <1>c, <2>1, <2>2, <2>3, <2>4
  <2> QED
    BY <2>5, <2>6, <2>7, <2>8, <2>9 DEF WorkspaceInv
<1> QED
  BY <1>2, <1>3 DEF Workspaces!NoChanges

LEMMA Workspace_Check ==
    ASSUME WorkspaceInv, Workspaces!Check
    PROVE  WorkspaceInv'
<1>1. command.pc = "check" /\ command \in CommandRecords /\ command.task \in TaskRecords
  BY DEF WorkspaceInv, WorkspaceTypes, CommandRecords, Workspaces!Check, Workspaces!At,
     Workspaces!Idle
<1>b. stored \in TaskRecords /\ tree \in TreeRecords /\ repo \in RepoRecords
  BY DEF WorkspaceInv, WorkspaceTypes
<1>c. command.task = stored
  BY <1>1 DEF WorkspaceInv, CommandFollowsTask, WorkspacePlaces, Workspaces!Task
<1>2. CASE ~Workspaces!Safe
  <2> DEFINE t == [command.task EXCEPT !.status = "failed"]
  <2>1. /\ t \in TaskRecords
       /\ t.known = command.task.known
       /\ t.mode = command.task.mode
       /\ t.done = command.task.done
       /\ t.status = "failed"
       /\ t.start = command.task.start
       /\ t.isolated = command.task.isolated
       /\ t.path = command.task.path
    BY <1>1, <1>b, <1>c, <1>2 DEF TaskRecords, DeliveryStatuses, TreeRecords
  <2>2. Workspaces!SaveExit(t)
    BY <1>1, <1>b, <1>c, <1>2, <2>1
       DEF Workspaces!Task, Workspaces!MarkFailed, Workspaces!Check
  <2> HIDE DEF t
  <2>3. stored' = t /\ command' = Workspaces!Idle
    BY <1>1, <1>b, <1>c, <1>2, <2>1, <2>2, SaveEffect, SaveExitEffect
       DEF WorkspacePlaces
  <2>4. repo' = repo /\ tree' = tree /\ reviewed' = reviewed /\ used' = used
    BY <1>1, <1>b, <1>c, <1>2, <2>1, <2>2, <2>3 DEF Workspaces!Check
  <2> USE DEF WorkspaceInv, WorkspaceTypes, TreeOfMode, CommandFollowsTask, WorkIsHeld,
     InBranchFirst, InBranch, WorkspacePlaces, Workspaces!At, Workspaces!Task,
     Workspaces!Idle, Workspaces!BranchOf, TreeBranches
  <2>5. WorkspaceTypes'
    BY <1>1, <1>b, <1>c, <2>1, <2>2, <2>3, <2>4
  <2>6. TreeOfMode'
    BY <1>1, <1>b, <1>c, <2>1, <2>2, <2>3, <2>4
  <2>7. CommandFollowsTask'
    BY <1>1, <1>b, <1>c, <2>1, <2>2, <2>3, <2>4
  <2>8. WorkIsHeld'
    BY <1>1, <1>b, <1>c, <2>1, <2>2, <2>3, <2>4
  <2>9. InBranchFirst'
    BY <1>1, <1>b, <1>c, <2>1, <2>2, <2>3, <2>4
  <2> QED
    BY <2>5, <2>6, <2>7, <2>8, <2>9 DEF WorkspaceInv
<1>3. CASE Workspaces!Safe /\ repo.tip["target"] \in Workspaces!Task.isolated
  <2> DEFINE t == [command.task EXCEPT !.status = "delivered"]
  <2>1. /\ t \in TaskRecords
       /\ t.known = command.task.known
       /\ t.mode = command.task.mode
       /\ t.done = command.task.done
       /\ t.status = "delivered"
       /\ t.start = command.task.start
       /\ t.isolated = command.task.isolated
       /\ t.path = command.task.path
    BY <1>1, <1>b, <1>c, <1>3 DEF TaskRecords, DeliveryStatuses, TreeRecords
  <2>2. Workspaces!Save(t, "drop")
    BY <1>1, <1>b, <1>c, <1>3, <2>1
       DEF Workspaces!Task, Workspaces!MarkFailed, Workspaces!Check
  <2> HIDE DEF t
  <2>3. stored' = t /\ command' \in CommandRecords /\ command'.pc = "drop"
        /\ command'.task = t
    BY <1>1, <1>b, <1>c, <1>3, <2>1, <2>2, SaveEffect, SaveExitEffect
       DEF WorkspacePlaces
  <2>4. repo' = repo /\ tree' = tree /\ reviewed' = reviewed /\ used' = used
    BY <1>1, <1>b, <1>c, <1>3, <2>1, <2>2, <2>3 DEF Workspaces!Check
  <2>5. repo.tip["target"] \in stored.isolated
    BY <1>1, <1>b, <1>c, <1>3, <2>1, <2>2, <2>3, <2>4 DEF Workspaces!Task
  <2> USE DEF WorkspaceInv, WorkspaceTypes, TreeOfMode, CommandFollowsTask, WorkIsHeld,
     InBranchFirst, InBranch, WorkspacePlaces, Workspaces!At, Workspaces!Task,
     Workspaces!Idle, Workspaces!BranchOf, TreeBranches
  <2>6. WorkspaceTypes'
    BY <1>1, <1>b, <1>c, <2>1, <2>2, <2>3, <2>4, <2>5
  <2>7. TreeOfMode'
    BY <1>1, <1>b, <1>c, <2>1, <2>2, <2>3, <2>4, <2>5
  <2>8. CommandFollowsTask'
    BY <1>1, <1>b, <1>c, <2>1, <2>2, <2>3, <2>4, <2>5
  <2>9. WorkIsHeld'
    BY <1>1, <1>b, <1>c, <2>1, <2>2, <2>3, <2>4, <2>5
  <2>10. InBranchFirst'
    BY <1>1, <1>b, <1>c, <2>1, <2>2, <2>3, <2>4, <2>5
  <2> QED
    BY <2>6, <2>7, <2>8, <2>9, <2>10 DEF WorkspaceInv
<1>4. CASE Workspaces!Safe /\ repo.tip["target"] \notin Workspaces!Task.isolated
  <2>1. Workspaces!GoTo("merge") /\ stored' = stored
    BY <1>1, <1>b, <1>c, <1>4 DEF Workspaces!Check
  <2>2. command' \in CommandRecords /\ command'.pc = "merge"
        /\ command'.task = command.task
    BY <1>1, <1>b, <1>c, <1>4, <2>1, GoToEffect DEF WorkspacePlaces
  <2>3. repo' = repo /\ tree' = tree /\ reviewed' = reviewed /\ used' = used
    BY <1>1, <1>b, <1>c, <1>4, <2>1, <2>2 DEF Workspaces!Check
  <2> USE DEF WorkspaceInv, WorkspaceTypes, TreeOfMode, CommandFollowsTask, WorkIsHeld,
     InBranchFirst, InBranch, WorkspacePlaces, Workspaces!At, Workspaces!Task,
     Workspaces!Idle, Workspaces!BranchOf, TreeBranches
  <2>4. WorkspaceTypes'
    BY <1>1, <1>b, <1>c, <2>1, <2>2, <2>3
  <2>5. TreeOfMode'
    BY <1>1, <1>b, <1>c, <2>1, <2>2, <2>3
  <2>6. CommandFollowsTask'
    BY <1>1, <1>b, <1>c, <2>1, <2>2, <2>3
  <2>7. WorkIsHeld'
    BY <1>1, <1>b, <1>c, <2>1, <2>2, <2>3
  <2>8. InBranchFirst'
    BY <1>1, <1>b, <1>c, <2>1, <2>2, <2>3
  <2> QED
    BY <2>4, <2>5, <2>6, <2>7, <2>8 DEF WorkspaceInv
<1> QED
  BY <1>2, <1>3, <1>4 DEF Workspaces!Check

LEMMA Workspace_Merge ==
    ASSUME WorkspaceInv, Workspaces!Merge
    PROVE  WorkspaceInv'
<1> USE DEF WorkspaceInv, WorkspaceTypes, TreeOfMode, CommandFollowsTask, WorkIsHeld,
   InBranchFirst, TaskRecords, WorkspacePlaces, TreeChanges, TreeBranches,
   DeliveryStatuses, InBranch, CommandRecords, TreeRecords, RepoRecords,
   Workspaces!Merge, Workspaces!At, Workspaces!Task, Workspaces!Modes, Workspaces!GoTo,
   Workspaces!MarkFailed, Workspaces!SaveExit, Workspaces!Exit, Workspaces!Idle
<1>1. WorkspaceTypes'
  OBVIOUS
<1>2. TreeOfMode'
  OBVIOUS
<1>3. CommandFollowsTask'
  OBVIOUS
<1>4. WorkIsHeld'
  OBVIOUS
<1>5. InBranchFirst'
  OBVIOUS
<1> QED
  BY <1>1, <1>2, <1>3, <1>4, <1>5 DEF WorkspaceInv

LEMMA Workspace_RecordDelivered ==
    ASSUME WorkspaceInv, Workspaces!RecordDelivered
    PROVE  WorkspaceInv'
<1>1. command.pc = "delivered" /\ command \in CommandRecords
      /\ command.task \in TaskRecords
  BY DEF WorkspaceInv, WorkspaceTypes, CommandRecords, Workspaces!RecordDelivered,
     Workspaces!At, Workspaces!Idle
<1>b. stored \in TaskRecords /\ tree \in TreeRecords /\ repo \in RepoRecords
  BY DEF WorkspaceInv, WorkspaceTypes
<1>c. command.task = stored
  BY <1>1 DEF WorkspaceInv, CommandFollowsTask, WorkspacePlaces, Workspaces!Task
<1>2. CASE TRUE
  <2> DEFINE t == [command.task EXCEPT !.status = "delivered"]
  <2>1. /\ t \in TaskRecords
       /\ t.known = command.task.known
       /\ t.mode = command.task.mode
       /\ t.done = command.task.done
       /\ t.status = "delivered"
       /\ t.start = command.task.start
       /\ t.isolated = command.task.isolated
       /\ t.path = command.task.path
    BY <1>1, <1>b, <1>c, <1>2 DEF TaskRecords, DeliveryStatuses, TreeRecords
  <2>2. Workspaces!Save(t, "drop")
    BY <1>1, <1>b, <1>c, <1>2, <2>1
       DEF Workspaces!Task, Workspaces!MarkFailed, Workspaces!RecordDelivered
  <2> HIDE DEF t
  <2>3. stored' = t /\ command' \in CommandRecords /\ command'.pc = "drop"
        /\ command'.task = t
    BY <1>1, <1>b, <1>c, <1>2, <2>1, <2>2, SaveEffect, SaveExitEffect
       DEF WorkspacePlaces
  <2>4. repo' = repo /\ tree' = tree /\ reviewed' = reviewed /\ used' = used
    BY <1>1, <1>b, <1>c, <1>2, <2>1, <2>2, <2>3 DEF Workspaces!RecordDelivered
  <2> USE DEF WorkspaceInv, WorkspaceTypes, TreeOfMode, CommandFollowsTask, WorkIsHeld,
     InBranchFirst, InBranch, WorkspacePlaces, Workspaces!At, Workspaces!Task,
     Workspaces!Idle, Workspaces!BranchOf, TreeBranches
  <2>5. WorkspaceTypes'
    BY <1>1, <1>b, <1>c, <2>1, <2>2, <2>3, <2>4
  <2>6. TreeOfMode'
    BY <1>1, <1>b, <1>c, <2>1, <2>2, <2>3, <2>4
  <2>7. CommandFollowsTask'
    BY <1>1, <1>b, <1>c, <2>1, <2>2, <2>3, <2>4
  <2>8. WorkIsHeld'
    BY <1>1, <1>b, <1>c, <2>1, <2>2, <2>3, <2>4
  <2>9. InBranchFirst'
    BY <1>1, <1>b, <1>c, <2>1, <2>2, <2>3, <2>4
  <2> QED
    BY <2>5, <2>6, <2>7, <2>8, <2>9 DEF WorkspaceInv
<1> QED
  BY <1>2 DEF Workspaces!RecordDelivered

LEMMA Workspace_Drop ==
    ASSUME WorkspaceInv, Workspaces!Drop
    PROVE  WorkspaceInv'
<1>1. command.pc = "drop" /\ command \in CommandRecords /\ command.task \in TaskRecords
  BY DEF WorkspaceInv, WorkspaceTypes, CommandRecords, Workspaces!Drop, Workspaces!At,
     Workspaces!Idle
<1>b. stored \in TaskRecords /\ tree \in TreeRecords /\ repo \in RepoRecords
  BY DEF WorkspaceInv, WorkspaceTypes
<1>c. command.task = stored
  BY <1>1 DEF WorkspaceInv, CommandFollowsTask, WorkspacePlaces, Workspaces!Task
<1>2. CASE tree' = Workspaces!NoTree /\ Workspaces!GoTo("forget")
           /\ UNCHANGED <<stored, used, repo, reviewed>>
  <2>1. tree' \in TreeRecords /\ ~tree'.exists
    BY <1>2, NoTreeEffect
  <2>2. command' \in CommandRecords /\ command'.pc = "forget"
        /\ command'.task = command.task
    BY <1>1, <1>b, <1>c, <1>2, <2>1, GoToEffect DEF WorkspacePlaces
  <2>3. stored' = stored /\ used' = used /\ repo' = repo /\ reviewed' = reviewed
    BY <1>2, <2>1, <2>2
  <2> USE DEF WorkspaceInv, WorkspaceTypes, TreeOfMode, CommandFollowsTask, WorkIsHeld,
     InBranchFirst, InBranch, WorkspacePlaces, Workspaces!At, Workspaces!Task,
     Workspaces!Idle, Workspaces!BranchOf, TreeBranches
  <2>4. WorkspaceTypes'
    BY <1>1, <1>b, <1>c, <2>1, <2>2, <2>3
  <2>5. TreeOfMode'
    BY <1>1, <1>b, <1>c, <2>1, <2>2, <2>3
  <2>6. CommandFollowsTask'
    BY <1>1, <1>b, <1>c, <2>1, <2>2, <2>3
  <2>7. WorkIsHeld'
    BY <1>1, <1>b, <1>c, <2>1, <2>2, <2>3
  <2>8. InBranchFirst'
    BY <1>1, <1>b, <1>c, <2>1, <2>2, <2>3
  <2> QED
    BY <2>4, <2>5, <2>6, <2>7, <2>8 DEF WorkspaceInv
<1>3. CASE Workspaces!Fault /\ Workspaces!Task.status = "no_changes"
           /\ Workspaces!MarkFailed /\ UNCHANGED <<repo, tree, reviewed>>
  <2> DEFINE t == [command.task EXCEPT !.status = "failed"]
  <2>1. /\ t \in TaskRecords
       /\ t.known = command.task.known
       /\ t.mode = command.task.mode
       /\ t.done = command.task.done
       /\ t.status = "failed"
       /\ t.start = command.task.start
       /\ t.isolated = command.task.isolated
       /\ t.path = command.task.path
    BY <1>1, <1>b, <1>c, <1>3 DEF TaskRecords, DeliveryStatuses, TreeRecords
  <2>2. Workspaces!SaveExit(t)
    BY <1>1, <1>b, <1>c, <1>3, <2>1 DEF Workspaces!Task, Workspaces!MarkFailed
  <2> HIDE DEF t
  <2>3. stored' = t /\ command' = Workspaces!Idle
    BY <1>1, <1>b, <1>c, <1>3, <2>1, <2>2, SaveEffect, SaveExitEffect
       DEF WorkspacePlaces
  <2>4. repo' = repo /\ tree' = tree /\ reviewed' = reviewed
    BY <1>3, <2>1, <2>2, <2>3
  <2>5. used' \in [operator : Nat, kills : Nat, faults : Nat]
    BY <1>1, <1>b, <1>c, <1>3, <2>1, <2>2, <2>3, <2>4
       DEF WorkspaceInv, WorkspaceTypes, Workspaces!Fault
  <2> USE DEF WorkspaceInv, WorkspaceTypes, TreeOfMode, CommandFollowsTask, WorkIsHeld,
     InBranchFirst, InBranch, WorkspacePlaces, Workspaces!At, Workspaces!Task,
     Workspaces!Idle, Workspaces!BranchOf, TreeBranches
  <2>6. WorkspaceTypes'
    BY <1>1, <1>b, <1>c, <2>1, <2>2, <2>3, <2>4, <2>5
  <2>7. TreeOfMode'
    BY <1>1, <1>b, <1>c, <2>1, <2>2, <2>3, <2>4, <2>5
  <2>8. CommandFollowsTask'
    BY <1>1, <1>b, <1>c, <2>1, <2>2, <2>3, <2>4, <2>5
  <2>9. WorkIsHeld'
    BY <1>1, <1>b, <1>c, <2>1, <2>2, <2>3, <2>4, <2>5
  <2>10. InBranchFirst'
    BY <1>1, <1>b, <1>c, <2>1, <2>2, <2>3, <2>4, <2>5
  <2> QED
    BY <2>6, <2>7, <2>8, <2>9, <2>10 DEF WorkspaceInv
<1>4. CASE Workspaces!Fault /\ Workspaces!Task.status # "no_changes"
           /\ Workspaces!SaveExit(Workspaces!Task) /\ UNCHANGED <<repo, tree, reviewed>>
  <2> DEFINE t == command.task
  <2>1. /\ t \in TaskRecords
       /\ t.known = command.task.known
       /\ t.mode = command.task.mode
       /\ t.done = command.task.done
       /\ t.status = command.task.status
       /\ t.start = command.task.start
       /\ t.isolated = command.task.isolated
       /\ t.path = command.task.path
    BY <1>1, <1>b, <1>c, <1>4 DEF TaskRecords, DeliveryStatuses, TreeRecords
  <2>2. Workspaces!SaveExit(t)
    BY <1>1, <1>b, <1>c, <1>4, <2>1 DEF Workspaces!Task, Workspaces!MarkFailed
  <2> HIDE DEF t
  <2>3. stored' = t /\ command' = Workspaces!Idle
    BY <1>1, <1>b, <1>c, <1>4, <2>1, <2>2, SaveEffect, SaveExitEffect
       DEF WorkspacePlaces
  <2>4. repo' = repo /\ tree' = tree /\ reviewed' = reviewed
    BY <1>4, <2>1, <2>2, <2>3
  <2>5. used' \in [operator : Nat, kills : Nat, faults : Nat]
    BY <1>1, <1>b, <1>c, <1>4, <2>1, <2>2, <2>3, <2>4
       DEF WorkspaceInv, WorkspaceTypes, Workspaces!Fault
  <2> USE DEF WorkspaceInv, WorkspaceTypes, TreeOfMode, CommandFollowsTask, WorkIsHeld,
     InBranchFirst, InBranch, WorkspacePlaces, Workspaces!At, Workspaces!Task,
     Workspaces!Idle, Workspaces!BranchOf, TreeBranches
  <2>6. WorkspaceTypes'
    BY <1>1, <1>b, <1>c, <2>1, <2>2, <2>3, <2>4, <2>5
  <2>7. TreeOfMode'
    BY <1>1, <1>b, <1>c, <2>1, <2>2, <2>3, <2>4, <2>5
  <2>8. CommandFollowsTask'
    BY <1>1, <1>b, <1>c, <2>1, <2>2, <2>3, <2>4, <2>5
  <2>9. WorkIsHeld'
    BY <1>1, <1>b, <1>c, <2>1, <2>2, <2>3, <2>4, <2>5
  <2>10. InBranchFirst'
    BY <1>1, <1>b, <1>c, <2>1, <2>2, <2>3, <2>4, <2>5
  <2> QED
    BY <2>6, <2>7, <2>8, <2>9, <2>10 DEF WorkspaceInv
<1> QED
  BY <1>2, <1>3, <1>4 DEF Workspaces!Drop

LEMMA Workspace_Kill ==
    ASSUME WorkspaceInv, Workspaces!Kill
    PROVE  WorkspaceInv'
<1> USE DEF WorkspaceInv, WorkspaceTypes, TreeOfMode, CommandFollowsTask, WorkIsHeld,
   InBranchFirst, TaskRecords, WorkspacePlaces, TreeChanges, TreeBranches,
   DeliveryStatuses, InBranch, CommandRecords, TreeRecords, RepoRecords,
   Workspaces!Kill, Workspaces!At, Workspaces!Task, Workspaces!Modes, Workspaces!Exit,
   Workspaces!Idle
<1>1. WorkspaceTypes'
  OBVIOUS
<1>2. TreeOfMode'
  OBVIOUS
<1>3. CommandFollowsTask'
  OBVIOUS
<1>4. WorkIsHeld'
  OBVIOUS
<1>5. InBranchFirst'
  OBVIOUS
<1> QED
  BY <1>1, <1>2, <1>3, <1>4, <1>5 DEF WorkspaceInv

LEMMA Workspace_EditCheckout ==
    ASSUME WorkspaceInv, Workspaces!EditCheckout
    PROVE  WorkspaceInv'
<1> USE DEF WorkspaceInv, WorkspaceTypes, TreeOfMode, CommandFollowsTask, WorkIsHeld,
   InBranchFirst, TaskRecords, WorkspacePlaces, TreeChanges, TreeBranches,
   DeliveryStatuses, InBranch, CommandRecords, TreeRecords, RepoRecords,
   Workspaces!EditCheckout, Workspaces!At, Workspaces!Task, Workspaces!Modes,
   Workspaces!OperatorStep, Workspaces!Idle
<1>1. WorkspaceTypes'
  OBVIOUS
<1>2. TreeOfMode'
  OBVIOUS
<1>3. CommandFollowsTask'
  OBVIOUS
<1>4. WorkIsHeld'
  OBVIOUS
<1>5. InBranchFirst'
  OBVIOUS
<1> QED
  BY <1>1, <1>2, <1>3, <1>4, <1>5 DEF WorkspaceInv

LEMMA Workspace_CommitCheckout ==
    ASSUME WorkspaceInv, Workspaces!CommitCheckout
    PROVE  WorkspaceInv'
<1>1. repo \in RepoRecords /\ used \in [operator : Nat, kills : Nat, faults : Nat]
  BY DEF WorkspaceInv, WorkspaceTypes
<1>2. UNCHANGED <<tree, stored, reviewed, command>>
  BY DEF Workspaces!CommitCheckout, Workspaces!OperatorStep
<1>3. repo' = [repo EXCEPT !.tip[repo.checkout] = @ \cup repo.edits, !.edits = {}]
  BY DEF Workspaces!CommitCheckout
<1>4. used' \in [operator : Nat, kills : Nat, faults : Nat]
  BY <1>1 DEF Workspaces!CommitCheckout, Workspaces!OperatorStep
<1>5. repo.tip[repo.checkout] \cup repo.edits \in SUBSET TreeChanges
  BY <1>1 DEF RepoRecords, TreeBranches
<1>6. /\ repo' \in RepoRecords /\ repo'.tip["task"] = repo.tip["task"]
      /\ \A b \in TreeBranches : repo.tip[b] \subseteq repo'.tip[b]
      /\ repo.edits \subseteq repo'.tip[repo.checkout] /\ repo.checkout \in TreeBranches
  BY <1>1, <1>3, <1>5 DEF RepoRecords, TreeBranches
<1>7. command.pc = "remove" => tree.on \in TreeBranches
  BY DEF WorkspaceInv, WorkspaceTypes, CommandFollowsTask, TreeOfMode, Workspaces!At,
         Workspaces!BranchOf, Workspaces!Modes, TaskRecords, TreeBranches
<1> USE DEF WorkspaceInv, WorkspaceTypes, TreeOfMode, CommandFollowsTask, WorkIsHeld,
   InBranchFirst, InBranch, WorkspacePlaces, Workspaces!At, Workspaces!Task,
   Workspaces!Idle, Workspaces!BranchOf, TreeBranches
<1>8. WorkspaceTypes'
  BY <1>1, <1>2, <1>4, <1>6, <1>7
<1>9. TreeOfMode'
  BY <1>1, <1>2, <1>4, <1>6, <1>7
<1>10. CommandFollowsTask'
  BY <1>1, <1>2, <1>4, <1>6, <1>7
<1>11. WorkIsHeld'
  BY <1>1, <1>2, <1>4, <1>6, <1>7
<1>12. InBranchFirst'
  BY <1>1, <1>2, <1>4, <1>6, <1>7
<1> QED
  BY <1>8, <1>9, <1>10, <1>11, <1>12 DEF WorkspaceInv

LEMMA Workspace_Switch ==
    ASSUME WorkspaceInv, Workspaces!Switch
    PROVE  WorkspaceInv'
<1> USE DEF WorkspaceInv, WorkspaceTypes, TreeOfMode, CommandFollowsTask, WorkIsHeld,
   InBranchFirst, TaskRecords, WorkspacePlaces, TreeChanges, TreeBranches,
   DeliveryStatuses, InBranch, CommandRecords, TreeRecords, RepoRecords,
   Workspaces!Switch, Workspaces!At, Workspaces!Task, Workspaces!Modes,
   Workspaces!OperatorStep, Workspaces!Idle
<1>1. WorkspaceTypes'
  OBVIOUS
<1>2. TreeOfMode'
  OBVIOUS
<1>3. CommandFollowsTask'
  OBVIOUS
<1>4. WorkIsHeld'
  OBVIOUS
<1>5. InBranchFirst'
  OBVIOUS
<1> QED
  BY <1>1, <1>2, <1>3, <1>4, <1>5 DEF WorkspaceInv

LEMMA Workspace_EditTree ==
    ASSUME WorkspaceInv, Workspaces!EditTree
    PROVE  WorkspaceInv'
<1> USE DEF WorkspaceInv, WorkspaceTypes, TreeOfMode, CommandFollowsTask, WorkIsHeld,
   InBranchFirst, TaskRecords, WorkspacePlaces, TreeChanges, TreeBranches,
   DeliveryStatuses, InBranch, CommandRecords, TreeRecords, RepoRecords,
   Workspaces!EditTree, Workspaces!At, Workspaces!Task, Workspaces!Modes,
   Workspaces!OperatorStep, Workspaces!Idle
<1>1. WorkspaceTypes'
  OBVIOUS
<1>2. TreeOfMode'
  OBVIOUS
<1>3. CommandFollowsTask'
  OBVIOUS
<1>4. WorkIsHeld'
  OBVIOUS
<1>5. InBranchFirst'
  OBVIOUS
<1> QED
  BY <1>1, <1>2, <1>3, <1>4, <1>5 DEF WorkspaceInv

LEMMA Workspace_CommitInTree ==
    ASSUME WorkspaceInv, Workspaces!CommitInTree
    PROVE  WorkspaceInv'
<1>1. /\ repo \in RepoRecords /\ tree \in TreeRecords /\ stored \in TaskRecords
      /\ used \in [operator : Nat, kills : Nat, faults : Nat]
  BY DEF WorkspaceInv, WorkspaceTypes
<1>2. UNCHANGED <<stored, reviewed, command>> /\ tree.exists /\ command.pc = "idle"
  BY DEF Workspaces!CommitInTree, Workspaces!OperatorStep, Workspaces!At
<1>3. Workspaces!CommitTree
  BY DEF Workspaces!CommitInTree
<1>4. used' \in [operator : Nat, kills : Nat, faults : Nat]
  BY <1>1 DEF Workspaces!CommitInTree, Workspaces!OperatorStep
<1>5. /\ tree' \in TreeRecords
      /\ tree'.exists = tree.exists /\ tree'.on = tree.on
      /\ tree'.head = tree.head \cup tree.edits /\ tree'.edits = {}
      /\ repo' \in RepoRecords
      /\ repo'.checkout = repo.checkout /\ repo'.edits = repo.edits
      /\ \A b \in TreeBranches :
           repo'.tip[b] = IF b = tree.on THEN tree.head \cup tree.edits ELSE repo.tip[b]
  BY <1>1, <1>3, CommitTreeEffect
<1>6. /\ "task" \in TreeBranches
      /\ stored.mode \in {"run", "branch", "current"}
      /\ ~stored.path /\ stored.done => stored.mode = "run"
  BY <1>1, <1>2
     DEF TreeBranches, TaskRecords, Workspaces!Modes, WorkspaceInv, WorkIsHeld
<1> USE DEF WorkspaceInv, WorkspaceTypes, TreeOfMode, CommandFollowsTask, WorkIsHeld,
   InBranchFirst, InBranch, WorkspacePlaces, Workspaces!At, Workspaces!Task,
   Workspaces!Idle, Workspaces!BranchOf, TreeBranches
<1>7. WorkspaceTypes'
  BY <1>1, <1>2, <1>4, <1>5, <1>6
<1>8. TreeOfMode'
  BY <1>1, <1>2, <1>4, <1>5, <1>6
<1>9. CommandFollowsTask'
  BY <1>1, <1>2, <1>4, <1>5, <1>6
<1>10. WorkIsHeld'
  BY <1>1, <1>2, <1>4, <1>5, <1>6
<1>11. InBranchFirst'
  BY <1>1, <1>2, <1>4, <1>5, <1>6
<1> QED
  BY <1>7, <1>8, <1>9, <1>10, <1>11 DEF WorkspaceInv

LEMMA WorkspaceStep == WorkspaceInv /\ [Next]_vars => WorkspaceInv'
<1> SUFFICES ASSUME WorkspaceInv, [Next]_vars PROVE WorkspaceInv'
  OBVIOUS
<1>1. Workspaces!Next \/ UNCHANGED Workspaces!workspaceVars
  BY DEF Next, vars, Amend, RunChild, RunAgent, KeepAlive, Prepare, AuthorPlan,
     UseWorktree,
         ReviewCandidate, ShapePlan, AnswerQuestions, workspaceVars, Workspaces!workspaceVars
<1>2. CASE Workspaces!Next
  BY <1>2, Workspace_StartRun, Workspace_StartReview, Workspace_MakeTree,
     Workspace_RecordTree, Workspace_Resume, Workspace_Edit, Workspace_WorkDone,
     Workspace_WorkFails, Workspace_Finalize, Workspace_Remove, Workspace_Forget,
     Workspace_ReuseCommit, Workspace_CommitFix, Workspace_RecordFix,
     Workspace_NoChanges, Workspace_Check, Workspace_Merge, Workspace_RecordDelivered,
     Workspace_Drop, Workspace_Kill, Workspace_EditCheckout, Workspace_CommitCheckout,
     Workspace_Switch, Workspace_EditTree, Workspace_CommitInTree
     DEF Workspaces!Next
<1>3. CASE UNCHANGED Workspaces!workspaceVars
  BY <1>3
     DEF WorkspaceInv, WorkspaceTypes, TreeOfMode, CommandFollowsTask, WorkIsHeld,
         InBranchFirst, InBranch, Workspaces!workspaceVars, Workspaces!At,
         Workspaces!Task
<1> QED
  BY <1>1, <1>2, <1>3

LEMMA WorkspaceInit == Init => WorkspaceInv
<1> SUFFICES ASSUME Workspaces!Init PROVE WorkspaceInv
  BY DEF Init
<1>1. PICK mode \in Workspaces!Modes :
        /\ repo = [checkout |-> IF mode = "branch" THEN "other" ELSE "target",
                   tip |-> [b \in {"target", "other", "task"} |-> {}], edits |-> {}]
        /\ tree = Workspaces!NoTree
        /\ stored = [known |-> FALSE, mode |-> mode, done |-> FALSE, failed |-> FALSE,
                     status |-> IF mode = "current" THEN "pending" ELSE "none",
                     start |-> {}, isolated |-> {}, path |-> FALSE]
        /\ command = Workspaces!Idle
        /\ reviewed = {}
        /\ used = [operator |-> 0, kills |-> 0, faults |-> 0]
  BY DEF Workspaces!Init
<1>2. repo \in RepoRecords /\ tree \in TreeRecords /\ ~tree.exists
      /\ command.pc = "idle"
  BY <1>1 DEF RepoRecords, TreeRecords, TreeBranches, Workspaces!NoTree, Workspaces!Idle
<1>3. stored \in TaskRecords /\ ~stored.done /\ ~stored.known /\ stored.isolated = {}
  BY <1>1 DEF TaskRecords, DeliveryStatuses, Workspaces!Modes
<1>4. used \in [operator : Nat, kills : Nat, faults : Nat]
      /\ reviewed \in SUBSET TreeChanges
  BY <1>1
<1> QED
  BY <1>1, <1>2, <1>3, <1>4
     DEF WorkspaceInv, WorkspaceTypes, TreeOfMode, CommandFollowsTask, WorkIsHeld,
       InBranchFirst, Workspaces!At, Workspaces!Task, WorkspacePlaces

LEMMA WorkspaceInvariant == Spec => []WorkspaceInv
BY WorkspaceInit, WorkspaceStep, PTL DEF Spec

\* The work of a done task is in a branch, in the kept worktree or in the
\* operator's checkout, wherever the command is killed between its git commands
\* and its saves and whatever the operator does meanwhile, for any number of
\* kills, failing git commands and steps of the operator.
THEOREM WorkIsNeverLost == Spec => []FixNotLost
<1>1. WorkspaceInv => FixNotLost
  <2> SUFFICES ASSUME WorkspaceInv, stored.done, NEW change \in reviewed
               PROVE  \/ \E b \in DOMAIN repo.tip : change \in repo.tip[b]
                      \/ change \in tree.head \cup tree.edits \cup repo.edits
    BY DEF FixNotLost, Workspaces!FixNotLost
  <2>1. DOMAIN repo.tip = TreeBranches
    BY DEF WorkspaceInv, WorkspaceTypes, RepoRecords
  <2> QED
    BY <2>1 DEF WorkspaceInv, WorkIsHeld, InBranch
<1> QED
  BY <1>1, WorkspaceInvariant, PTL

(***************************************************************************)
(* The review of a candidate.                                              *)
(***************************************************************************)
LEMMA CandidatesInit == Init => CandidatesProved!Init
BY DEF Init, Candidates!Init, CandidatesProved!Init, Candidates!ReviewNodes,
       CandidatesProved!ReviewNodes, Candidates!NoReview, CandidatesProved!NoReview,
       Candidates!Roles, CandidatesProved!Roles, Candidates!NoRole,
       CandidatesProved!NoRole, Candidates!NoResult, CandidatesProved!NoResult,
       Candidates!NoFull, CandidatesProved!NoFull, Candidates!NoTrail,
       CandidatesProved!NoTrail, Candidates!NoBasis, CandidatesProved!NoBasis,
       Candidates!NoCalls, CandidatesProved!NoCalls, Candidates!Composers,
       CandidatesProved!Composers

\* Each action of the one instance is that of the other.
LEMMA CandidatesNext == Candidates!Next => CandidatesProved!Next
<1> USE DEF Candidates!ReviewNodes, CandidatesProved!ReviewNodes, Candidates!Roles,
       CandidatesProved!Roles, Candidates!NoResult, CandidatesProved!NoResult,
       Candidates!NoFull, CandidatesProved!NoFull, Candidates!NoRole, CandidatesProved!NoRole,
       Candidates!NoReview, CandidatesProved!NoReview, Candidates!RunningReview,
       CandidatesProved!RunningReview, Candidates!NoBasis, CandidatesProved!NoBasis,
       Candidates!Enter, CandidatesProved!Enter, Candidates!NoCalls, CandidatesProved!NoCalls,
       Candidates!NoTrail, CandidatesProved!NoTrail, Candidates!SpentCalls,
       CandidatesProved!SpentCalls, Candidates!Composers, CandidatesProved!Composers,
       Candidates!Reserving, CandidatesProved!Reserving, Candidates!Present,
       CandidatesProved!Present, Candidates!Crossed, CandidatesProved!Crossed,
       Candidates!AtBoundary, CandidatesProved!AtBoundary, Candidates!Gaps,
       CandidatesProved!Gaps, Candidates!Covers, CandidatesProved!Covers,
       Candidates!Exhausted, CandidatesProved!Exhausted, Candidates!NeedsFull,
       CandidatesProved!NeedsFull, Candidates!RoutesToRepair, CandidatesProved!RoutesToRepair,
       Candidates!Path, CandidatesProved!Path, Candidates!Top, CandidatesProved!Top,
       Candidates!Here, CandidatesProved!Here, Candidates!Review, CandidatesProved!Review,
       Candidates!Role, CandidatesProved!Role, Candidates!In, CandidatesProved!In,
       Candidates!WithTop, CandidatesProved!WithTop, Candidates!On, CandidatesProved!On,
       Candidates!Go, CandidatesProved!Go, Candidates!Finish, CandidatesProved!Finish,
       Candidates!BlockedBy, CandidatesProved!BlockedBy, Candidates!Latched,
       CandidatesProved!Latched, Candidates!Saving, CandidatesProved!Saving,
       Candidates!SaveRole, CandidatesProved!SaveRole, Candidates!Fault,
       CandidatesProved!Fault, Candidates!Faulted, CandidatesProved!Faulted,
       Candidates!Called, CandidatesProved!Called, Candidates!Approve,
       CandidatesProved!Approve, Candidates!Reject, CandidatesProved!Reject,
       Candidates!NeedsRepair, CandidatesProved!NeedsRepair, Candidates!Settle,
       CandidatesProved!Settle, Candidates!Reserved, CandidatesProved!Reserved,
       Candidates!UseAccepted, CandidatesProved!UseAccepted, Candidates!NoPacket,
       CandidatesProved!NoPacket, Candidates!Results, CandidatesProved!Results,
       Candidates!Child, CandidatesProved!Child, Candidates!Into, CandidatesProved!Into,
       Candidates!Spent, CandidatesProved!Spent, Candidates!Verdicts,
       CandidatesProved!Verdicts, Candidates!Asking, CandidatesProved!Asking,
       Candidates!PassedReview, CandidatesProved!PassedReview, Candidates!CompletedAt,
       CandidatesProved!CompletedAt, Candidates!Accepted, CandidatesProved!Accepted,
       Candidates!Kept, CandidatesProved!Kept, Candidates!BoundaryOf,
       CandidatesProved!BoundaryOf, Candidates!LatchAnchor, CandidatesProved!LatchAnchor,
       Candidates!Last, CandidatesProved!Last, Candidates!Front, CandidatesProved!Front,
       Candidates!Cardinality, CandidatesProved!Cardinality
<1>1. Candidates!Start => CandidatesProved!Start
  BY DEF Candidates!Start, CandidatesProved!Start
<1>2. Candidates!NewGate => CandidatesProved!NewGate
  BY DEF Candidates!NewGate, CandidatesProved!NewGate
<1>3. Candidates!BeginRole => CandidatesProved!BeginRole
  BY DEF Candidates!BeginRole, CandidatesProved!BeginRole
<1>4. Candidates!Compose => CandidatesProved!Compose
  BY DEF Candidates!Compose, CandidatesProved!Compose
<1>5. Candidates!Ask => CandidatesProved!Ask
  BY DEF Candidates!Ask, CandidatesProved!Ask
<1>6. Candidates!Reassess => CandidatesProved!Reassess
  BY DEF Candidates!Reassess, CandidatesProved!Reassess
<1>7. Candidates!ReviewChild => CandidatesProved!ReviewChild
  BY DEF Candidates!ReviewChild, CandidatesProved!ReviewChild
<1>8. Candidates!ChildReviewed => CandidatesProved!ChildReviewed
  BY DEF Candidates!ChildReviewed, CandidatesProved!ChildReviewed
<1>9. Candidates!FullReview => CandidatesProved!FullReview
  BY DEF Candidates!FullReview, CandidatesProved!FullReview
<1>10. Candidates!FullAnswer => CandidatesProved!FullAnswer
  BY DEF Candidates!FullAnswer, CandidatesProved!FullAnswer
<1>11. Candidates!ReviewFails => CandidatesProved!ReviewFails
  BY DEF Candidates!ReviewFails, CandidatesProved!ReviewFails
<1>12. Candidates!Cross => CandidatesProved!Cross
  BY DEF Candidates!Cross, CandidatesProved!Cross
<1>13. Candidates!ReserveCompletion => CandidatesProved!ReserveCompletion
  BY DEF Candidates!ReserveCompletion, CandidatesProved!ReserveCompletion
<1>14. Candidates!Publish => CandidatesProved!Publish
  BY DEF Candidates!Publish, CandidatesProved!Publish
<1>15. Candidates!EndGate => CandidatesProved!EndGate
  BY DEF Candidates!EndGate, CandidatesProved!EndGate
<1>16. Candidates!Latch => CandidatesProved!Latch
  BY DEF Candidates!Latch, CandidatesProved!Latch
<1>17. Candidates!Unwind => CandidatesProved!Unwind
  BY DEF Candidates!Unwind, CandidatesProved!Unwind
<1>18. Candidates!Kill => CandidatesProved!Kill
  BY DEF Candidates!Kill, CandidatesProved!Kill
<1>19. Candidates!Interrupt => CandidatesProved!Interrupt
  BY DEF Candidates!Interrupt, CandidatesProved!Interrupt
<1>20. Candidates!Move => CandidatesProved!Move
  BY DEF Candidates!Move, CandidatesProved!Move
<1>21. Candidates!ChildUnsaved => CandidatesProved!ChildUnsaved
  BY DEF Candidates!ChildUnsaved, CandidatesProved!ChildUnsaved
<1>22. Candidates!AnchorUnsaved => CandidatesProved!AnchorUnsaved
  BY DEF Candidates!AnchorUnsaved, CandidatesProved!AnchorUnsaved
<1> QED
  BY <1>1, <1>2, <1>3, <1>4, <1>5, <1>6, <1>7, <1>8, <1>9, <1>10, <1>11, <1>12, <1>13, <1>14,
     <1>15, <1>16, <1>17, <1>18, <1>19, <1>20, <1>21, <1>22
     DEF Candidates!Next, CandidatesProved!Next, Candidates!Gate, CandidatesProved!Gate

LEMMA ComponentsStepCandidates ==
    [Next]_vars => [CandidatesProved!Next]_(CandidatesProved!candidateVars)
BY CandidatesNext
   DEF Next, vars, Amend, RunChild, RunAgent, KeepAlive, Prepare, AuthorPlan, UseWorktree,
       ReviewCandidate, ShapePlan, AnswerQuestions,
       candidateVars, CandidatesProved!candidateVars

LEMMA ComponentsImplementCandidates == Spec => CandidatesProved!Spec
BY CandidatesInit, ComponentsStepCandidates, PTL DEF Spec, CandidatesProved!Spec

LEMMA CandidatesAssumed == CandidatesProved!CandidateAssumption
BY ComponentConstants
   DEF Candidates!CandidateAssumption, CandidatesProved!CandidateAssumption,
       Candidates!ReviewNodes, CandidatesProved!ReviewNodes

\* Among the components, a node counts as reviewed only if every rejection at or
\* below it was answered by a full review that knew of it, for every hierarchy of
\* checkpoints and whatever is killed.
THEOREM ComponentsRejectionsReviewed == Spec => []RejectionsAreReviewed
<1>1. CandidatesProved!RejectionsAreReviewed => RejectionsAreReviewed
  BY DEF RejectionsAreReviewed, Candidates!RejectionsAreReviewed,
         CandidatesProved!RejectionsAreReviewed, Candidates!Reverified,
         CandidatesProved!Reverified, Candidates!Covered, CandidatesProved!Covered
<1> QED
  BY <1>1, ComponentsImplementCandidates, CandidatesAssumed,
     CandidatesProved!CandidateRejections, PTL

\* Among the components, what a gate reserves is asked once, and the full review
\* of a verified node that keeps no control once in each command, for any number
\* of commands, kills and saves that the lock refuses (_bounded_full_review).
THEOREM ComponentsAskedOnce == Spec => []AskedOncePerGate
<1>1. CandidatesProved!AskedOncePerGate => AskedOncePerGate
  BY DEF AskedOncePerGate, Candidates!AskedOncePerGate, CandidatesProved!AskedOncePerGate,
         Candidates!Roles, CandidatesProved!Roles
<1> QED
  BY <1>1, ComponentsImplementCandidates, CandidatesAssumed,
     CandidatesProved!CandidateAskedOnce, PTL

\* Among the components, a boundary crossed at any depth of any hierarchy is on
\* the verified node's record when the command ends, unless the lock refused the
\* very save of it (_persist_candidate_boundary, _persist_terminal_if_current).
THEOREM ComponentsCrossingLatched == Spec => []CrossingIsLatched
<1>1. CandidatesProved!CrossingIsLatched => CrossingIsLatched
  BY DEF CrossingIsLatched, Candidates!CrossingIsLatched,
         CandidatesProved!CrossingIsLatched, Candidates!Crossed, CandidatesProved!Crossed
<1> QED
  BY <1>1, ComponentsImplementCandidates, CandidatesAssumed,
     CandidatesProved!CandidateCrossingLatched, PTL

\* Among the components, a pass cut short is published again as it was, for any
\* number of kills between evidence and record.
THEOREM ComponentsEvidenceReproducible == Spec => []EvidenceIsReproducible
<1>1. CandidatesProved!EvidenceIsReproducible => EvidenceIsReproducible
  BY DEF EvidenceIsReproducible, Candidates!EvidenceIsReproducible,
         CandidatesProved!EvidenceIsReproducible
<1> QED
  BY <1>1, ComponentsImplementCandidates, CandidatesAssumed,
     CandidatesProved!CandidateEvidence, PTL
=============================================================================
