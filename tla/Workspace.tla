----------------------------- MODULE Workspace -----------------------------
(***************************************************************************)
(* The git side of a task (sikula_cli/run.py, sikula_cli/review.py, the    *)
(* worktree helpers of sikula.py and core/worktree.py): an isolated        *)
(* worktree is made, the agents work in it, and when the task is done its  *)
(* changes are committed and the worktree is removed.  A task of mode      *)
(* "run" works on a new branch, one of mode "branch" on an existing branch *)
(* (review --fix), and one of mode "current" (review --fix                 *)
(* --current-branch) on a detached HEAD whose commit is then fast-forwarded*)
(* into the branch the operator is on.  The operator goes on working in    *)
(* the checkout and in the preserved worktree, the command may be killed   *)
(* between any two git commands and saves, and git may refuse a commit or  *)
(* a removal.  A commit is the set of the changes it contains: it is an    *)
(* ancestor of another when it is a subset of it.                          *)
(***************************************************************************)
EXTENDS Naturals, FiniteSets

CONSTANTS MaxOperatorSteps, \* steps of the operator
          MaxKills,         \* kills of the command
          MaxGitFaults      \* git commands that fail for an outside reason

VARIABLES repo,     \* the operator's checkout: branch, branch tips, edits
          tree,     \* the isolated worktree: HEAD, branch, edits
          stored,    \* the task in the state store
          command,  \* the running command: place, its copy of the task
          reviewed, \* changes the agents left when the task was done
          used      \* the bounds used up

workspaceVars == <<repo, tree, stored, command, reviewed, used>>

Modes    == {"run", "branch", "current"}
NoTree   == [exists |-> FALSE, on |-> "none", head |-> {}, edits |-> {}]
Idle     == [pc |-> "idle", task |-> "none", made |-> FALSE]
Delivered(t) == t.status \in {"delivered", "no_changes"}

(* The branch a worktree of the mode is on.                                *)
BranchOf(mode) == CASE mode = "run"     -> "task"
                    [] mode = "branch"  -> "target"
                    [] mode = "current" -> "detached"

(* The operator is on the target branch, except when the worktree is to    *)
(* check that branch out.                                                  *)
Init ==
    \E mode \in Modes :
        /\ repo = [checkout |-> IF mode = "branch" THEN "other" ELSE "target",
                   tip |-> [b \in {"target", "other", "task"} |-> {}], edits |-> {}]
        /\ tree = NoTree
        /\ stored = [known |-> FALSE, mode |-> mode, done |-> FALSE, failed |-> FALSE,
                    status |-> IF mode = "current" THEN "pending" ELSE "none",
                    start |-> {}, isolated |-> {}, path |-> FALSE]
        /\ command = Idle
        /\ reviewed = {}
        /\ used = [operator |-> 0, kills |-> 0, faults |-> 0]

Task == command.task
At(pc)        == command.pc = pc
GoTo(pc)      == command' = [command EXCEPT !.pc = pc]
Save(t, pc)   == /\ stored' = t
                 /\ command' = [command EXCEPT !.pc = pc, !.task = t]
Exit          == command' = Idle
SaveExit(t)   == stored' = t /\ Exit
Fault == /\ used.faults < MaxGitFaults
         /\ used' = [used EXCEPT !.faults = @ + 1]

(***************************************************************************)
(* Starting.  A run saves its task before it makes the worktree; a review  *)
(* makes the worktree first.  The current-branch review asks for a clean   *)
(* checkout and remembers the commit it starts from.                       *)
(***************************************************************************)
StartRun ==
    /\ At("idle") /\ ~stored.known /\ ~tree.exists /\ stored.mode = "run"
    /\ LET t == [stored EXCEPT !.known = TRUE] IN
         /\ stored' = t
         /\ command' = [Idle EXCEPT !.pc = "make", !.task = t]
    /\ UNCHANGED <<repo, tree, reviewed, used>>

StartReview ==
    /\ At("idle") /\ ~stored.known /\ ~tree.exists /\ stored.mode /= "run"
    /\ stored.mode = "current" => repo.edits = {}
    /\ stored.mode = "branch" => repo.checkout /= "target"
    /\ command' = [Idle EXCEPT !.pc = "make",
                               !.task = [stored EXCEPT !.known = TRUE, !.path = TRUE,
                                                      !.start = repo.tip["target"]]]
    /\ UNCHANGED <<repo, tree, stored, reviewed, used>>

MakeTree ==
    /\ At("make")
    /\ \/ LET base == IF Task.mode = "run" THEN repo.tip[repo.checkout] ELSE Task.start IN
            /\ tree' = [exists |-> TRUE, on |-> BranchOf(Task.mode), head |-> base,
                        edits |-> {}]
            /\ repo' = IF Task.mode = "run" THEN [repo EXCEPT !.tip["task"] = base] ELSE repo
            /\ GoTo("record")
            /\ UNCHANGED <<stored, used>>
       \/ Fault /\ Exit /\ UNCHANGED <<repo, tree, stored>>
    /\ UNCHANGED reviewed

(* The environment files are copied; a rejected copy fails a run and drops *)
(* the worktree of a review, as an empty diff does.                        *)
RecordTree ==
    /\ At("record")
    /\ \/ /\ Save([Task EXCEPT !.path = TRUE], "work")
          /\ UNCHANGED <<tree, used>>
       \/ /\ Fault
          /\ IF Task.mode = "run"
             THEN SaveExit([Task EXCEPT !.path = TRUE, !.failed = TRUE]) /\ UNCHANGED tree
             ELSE Exit /\ tree' = NoTree /\ UNCHANGED stored
    /\ UNCHANGED <<repo, reviewed>>

(***************************************************************************)
(* sikula run --task-id.  A done current-branch task whose delivery is not *)
(* settled is delivered again without running agents; another terminal     *)
(* task is only reported; a task without a recorded worktree runs in the   *)
(* operator's checkout.                                                    *)
(***************************************************************************)
NeedsFinalization(t) == /\ t.done /\ ~t.failed /\ t.mode = "current"
                        /\ ~Delivered(t) /\ t.path

Resume ==
    /\ At("idle") /\ stored.known
    /\ \/ /\ NeedsFinalization(stored) /\ tree.exists
          /\ command' = [Idle EXCEPT !.pc = "deliver", !.task = stored]
       \/ /\ ~stored.done /\ ~stored.failed
          /\ stored.path => tree.exists
          /\ command' = [Idle EXCEPT !.pc = "work", !.task = stored]
    /\ UNCHANGED <<repo, tree, stored, reviewed, used>>

(* The agents write or write nothing, and the orchestrator saves the end.  *)
Edit ==
    /\ At("work")
    /\ IF Task.path THEN /\ "fix" \notin tree.edits
                         /\ tree' = [tree EXCEPT !.edits = @ \cup {"fix"}]
                         /\ UNCHANGED repo
                    ELSE /\ "fix" \notin repo.edits
                         /\ repo' = [repo EXCEPT !.edits = @ \cup {"fix"}]
                         /\ UNCHANGED tree
    /\ UNCHANGED <<stored, command, reviewed, used>>

WorkDone ==
    /\ At("work")
    /\ reviewed' = IF Task.path THEN tree.edits ELSE repo.edits
    /\ LET t == [Task EXCEPT !.done = TRUE] IN
         IF Task.path THEN Save(t, IF t.mode = "current" THEN "deliver" ELSE "finalize")
                      ELSE SaveExit(t)
    /\ UNCHANGED <<repo, tree, used>>

WorkFails ==
    /\ At("work")
    /\ SaveExit([Task EXCEPT !.failed = TRUE])
    /\ UNCHANGED <<repo, tree, reviewed, used>>

(***************************************************************************)
(* Committing everything in the worktree; nothing to commit succeeds.      *)
(***************************************************************************)
CommitTree == LET c == tree.head \cup tree.edits IN
    /\ tree' = [tree EXCEPT !.head = c, !.edits = {}]
    /\ repo' = IF tree.on = "detached" THEN repo ELSE [repo EXCEPT !.tip[tree.on] = c]

(* _finalize_worktree: commit, remove, save.  A refused commit keeps the   *)
(* worktree.                                                               *)
Finalize ==
    /\ At("finalize")
    /\ \/ CommitTree /\ GoTo("remove") /\ UNCHANGED <<stored, used>>
       \/ Fault /\ tree.edits /= {} /\ SaveExit(Task) /\ UNCHANGED <<repo, tree>>
    /\ UNCHANGED reviewed

Remove ==
    /\ At("remove")
    /\ \/ tree' = NoTree /\ GoTo("forget") /\ UNCHANGED <<stored, used>>
       \/ Fault /\ SaveExit(Task) /\ UNCHANGED tree
    /\ UNCHANGED <<repo, reviewed>>

Forget ==
    /\ At("forget")
    /\ SaveExit([Task EXCEPT !.path = FALSE])
    /\ UNCHANGED <<repo, tree, reviewed, used>>

(***************************************************************************)
(* _deliver_current_branch_review_fix.                                     *)
(***************************************************************************)
MarkFailed == SaveExit([Task EXCEPT !.status = "failed"])

(* _recorded_isolated_fix_reuse_error: the worktree must still hold the    *)
(* recorded commit and nothing else.                                       *)
Reusable == tree.head \in Task.isolated /\ tree.edits = {}

ReuseCommit ==
    /\ At("deliver") /\ Task.isolated /= {}
    /\ IF Reusable THEN Save([Task EXCEPT !.status = "committed"], "check")
                   ELSE MarkFailed
    /\ UNCHANGED <<repo, tree, reviewed, used>>

CommitFix ==
    /\ At("deliver") /\ Task.isolated = {}
    /\ \/ /\ CommitTree
          /\ command' = [command EXCEPT !.pc = "committed", !.made = tree.edits /= {}]
          /\ UNCHANGED <<stored, used>>
       \/ Fault /\ tree.edits /= {} /\ MarkFailed /\ UNCHANGED <<repo, tree>>
    /\ UNCHANGED reviewed

(* Faulty: only a commit made by this command counts as a fix.             *)
HoldsFixMadeNow == command.made

(* A worktree whose HEAD left the start commit holds a fix too: a command  *)
(* was killed after it committed and before it recorded the commit.        *)
HoldsFix == command.made \/ tree.head /= Task.start

RecordFix ==
    /\ At("committed") /\ HoldsFix
    /\ Save([Task EXCEPT !.isolated = {tree.head}, !.status = "committed"], "check")
    /\ UNCHANGED <<repo, tree, reviewed, used>>

(* _current_branch_delivery_safety_error: the operator's branch, a clean   *)
(* checkout, and the commit the task started from or the delivered one.    *)
Safe == /\ repo.checkout = "target"
        /\ repo.edits = {}
        /\ repo.tip["target"] \in {Task.start} \cup Task.isolated

NoChanges ==
    /\ At("committed") /\ ~HoldsFix
    /\ IF Safe THEN Save([Task EXCEPT !.status = "no_changes"], "drop") ELSE MarkFailed
    /\ UNCHANGED <<repo, tree, reviewed, used>>

Check ==
    /\ At("check")
    /\ IF ~Safe THEN MarkFailed
       ELSE IF repo.tip["target"] \in Task.isolated
            THEN Save([Task EXCEPT !.status = "delivered"], "drop")
            ELSE GoTo("merge") /\ UNCHANGED stored
    /\ UNCHANGED <<repo, tree, reviewed, used>>

(* git merge --ff-only into whatever is checked out by now: it moves a tip *)
(* that is an ancestor of the fix, does nothing to one that contains it,   *)
(* and refuses any other; edits in the checkout may be in its way.         *)
Merge ==
    /\ At("merge")
    /\ \E c \in Task.isolated : LET tip == repo.tip[repo.checkout] IN
          \/ /\ tip \subseteq c
             /\ repo' = [repo EXCEPT !.tip[repo.checkout] = c]
             /\ GoTo("delivered") /\ UNCHANGED stored
          \/ c \subseteq tip /\ GoTo("delivered") /\ UNCHANGED <<repo, stored>>
          \/ /\ \/ ~(tip \subseteq c) /\ ~(c \subseteq tip)
                \/ repo.edits /= {}
             /\ MarkFailed /\ UNCHANGED repo
    /\ UNCHANGED <<tree, reviewed, used>>

RecordDelivered ==
    /\ At("delivered")
    /\ Save([Task EXCEPT !.status = "delivered"], "drop")
    /\ UNCHANGED <<repo, tree, reviewed, used>>

(* _remove_delivered_worktree: a delivered fix stays delivered when the    *)
(* worktree cannot be removed, a result without changes becomes a failure. *)
Drop ==
    /\ At("drop")
    /\ \/ tree' = NoTree /\ GoTo("forget") /\ UNCHANGED <<stored, used>>
       \/ /\ Fault /\ tree.exists /\ UNCHANGED tree
          /\ IF Task.status = "no_changes" THEN MarkFailed ELSE SaveExit(Task)
    /\ UNCHANGED <<repo, reviewed>>

Kill ==
    /\ ~At("idle") /\ used.kills < MaxKills
    /\ Exit
    /\ used' = [used EXCEPT !.kills = @ + 1]
    /\ UNCHANGED <<repo, tree, stored, reviewed>>

(***************************************************************************)
(* The operator edits, commits and switches branches in the checkout, and  *)
(* edits and commits in a worktree no command is working in.               *)
(***************************************************************************)
OperatorStep == /\ used.operator < MaxOperatorSteps
                /\ used' = [used EXCEPT !.operator = @ + 1]
                /\ UNCHANGED <<stored, command, reviewed>>

EditCheckout ==
    /\ OperatorStep
    /\ repo' = [repo EXCEPT !.edits = @ \cup {"mine"}]
    /\ UNCHANGED tree

CommitCheckout ==
    /\ OperatorStep
    /\ repo.edits /= {}
    /\ repo' = [repo EXCEPT !.tip[repo.checkout] = @ \cup repo.edits, !.edits = {}]
    /\ UNCHANGED tree

(* Git refuses a branch that is checked out in the worktree.               *)
Switch ==
    /\ OperatorStep
    /\ \E b \in {"target", "other"} \ {tree.on, repo.checkout} :
          repo' = [repo EXCEPT !.checkout = b]
    /\ UNCHANGED tree

EditTree ==
    /\ OperatorStep
    /\ At("idle") /\ tree.exists
    /\ tree' = [tree EXCEPT !.edits = @ \cup {"mine"}]
    /\ UNCHANGED repo

CommitInTree ==
    /\ OperatorStep
    /\ At("idle") /\ tree.exists /\ tree.edits /= {}
    /\ CommitTree

Next == \/ StartRun \/ StartReview \/ MakeTree \/ RecordTree \/ Resume
        \/ Edit \/ WorkDone \/ WorkFails \/ Finalize \/ Remove \/ Forget
        \/ ReuseCommit \/ CommitFix \/ RecordFix \/ NoChanges \/ Check \/ Merge
        \/ RecordDelivered \/ Drop \/ Kill
        \/ EditCheckout \/ CommitCheckout \/ Switch \/ EditTree \/ CommitInTree

Spec == Init /\ [][Next]_workspaceVars

(***************************************************************************)
(* Properties.                                                             *)
(***************************************************************************)
(* The work of a done task is never lost: until a branch contains it, the  *)
(* worktree that holds it, committed or not, is kept, whatever was killed  *)
(* between the commit, the merge, the removal and the saves.               *)
FixNotLost ==
    stored.done => \A change \in reviewed :
        \/ \E b \in DOMAIN repo.tip : change \in repo.tip[b]
        \/ change \in tree.head \cup tree.edits \cup repo.edits
===========================================================================
