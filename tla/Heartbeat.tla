------------------------------ MODULE Heartbeat ------------------------------
(***************************************************************************)
(* ActiveOperationHeartbeat (core/progress.py): while an agent or a build  *)
(* runs, a thread stamps the active operation into the state that the main *)
(* thread keeps changing and saving.  Both go through one JsonStateStore   *)
(* (core/state.py), whose lock makes a read-modify-write of the file one   *)
(* step for the other thread.                                              *)
(***************************************************************************)
EXTENDS Naturals

CONSTANTS
    MaxChanges,     \* bound on the changes of the main thread
    MaxBeats        \* bound on the heartbeats

VARIABLES
    memory,     \* the TaskState object both threads hold
    file,       \* <task_id>.json
    written,    \* the task fields of the last save, for the property
    lock,       \* which thread holds JsonStateStore._lock
    main,       \* where the main thread is
    beat,       \* the heartbeat thread and its locals
    stop        \* the threading.Event

heartbeatVars == <<memory, file, written, lock, main, beat, stop>>

None == 0

Init ==
    /\ memory = [task |-> 0, operation |-> None]
    /\ file = memory
    /\ written = 0
    /\ lock = "free"
    /\ main = "enter"
    /\ beat = [pc |-> "none", current |-> None, data |-> memory]
    /\ stop = FALSE

\* JsonStateStore.save, by the main thread.
CanSave == lock = "free"
WriteState(state) == file' = state /\ written' = state.task

\* __enter__
Enter ==
    /\ main = "enter" /\ CanSave
    /\ memory' = [memory EXCEPT !.operation = 1]
    /\ WriteState(memory')
    /\ beat' = [beat EXCEPT !.pc = "wait"]
    /\ main' = "body"
    /\ UNCHANGED <<lock, stop>>

\* The body: the agent changes the state, saves it, and goes on.
Change ==
    /\ main = "body" /\ memory.task < MaxChanges
    /\ memory' = [memory EXCEPT !.task = @ + 1]
    /\ UNCHANGED <<file, written, lock, main, beat, stop>>
SaveBody ==
    /\ main = "body" /\ CanSave /\ memory.task # written
    /\ WriteState(memory)
    /\ UNCHANGED <<memory, lock, main, beat, stop>>

\* __exit__: set the event, join for one second, clear the memory, clear the
\* file with the same read-modify-write that the heartbeat uses.
SetStop ==
    /\ main = "body" /\ stop' = TRUE /\ main' = "join"
    /\ UNCHANGED <<memory, file, written, lock, beat>>
JoinThread ==
    /\ main = "join" /\ main' = "clear_memory"       \* joined, or a second has passed
    /\ UNCHANGED <<memory, file, written, lock, beat, stop>>
ClearMemory ==
    /\ main = "clear_memory"
    /\ memory' = [memory EXCEPT !.operation = None]
    /\ main' = "clear_file"
    /\ UNCHANGED <<file, written, lock, beat, stop>>
ClearFile ==
    /\ main = "clear_file" /\ lock = "free"
    /\ file' = [file EXCEPT !.operation = None]
    /\ main' = "after"
    /\ UNCHANGED <<memory, written, lock, beat, stop>>
\* The orchestrator goes on and saves; the next operation may enter.
SaveAfter ==
    /\ main = "after" /\ CanSave /\ WriteState(memory)
    /\ main' = IF beat.pc = "done" /\ memory.task < MaxChanges THEN "enter" ELSE "after"
    /\ stop' = IF main' = "enter" THEN FALSE ELSE stop
    /\ UNCHANGED <<memory, lock, beat>>

\* The thread.  _run: wait for the event or the interval; then
\* heartbeat_active_operation reads and writes the shared object, and
\* update_active_operation the file.
Tick ==
    /\ beat.pc = "wait"
    /\ beat' = IF stop \/ memory.operation = None THEN [beat EXCEPT !.pc = IF stop THEN "done" ELSE "wait"]
               ELSE [beat EXCEPT !.pc = "stamp", !.current = memory.operation]
    /\ UNCHANGED <<memory, file, written, lock, main, stop>>
Stamp ==
    /\ beat.pc = "stamp" /\ beat.current < MaxBeats
    /\ memory' = [memory EXCEPT !.operation = beat.current + 1]
    /\ beat' = [beat EXCEPT !.pc = "read", !.current = @ + 1]
    /\ UNCHANGED <<file, written, lock, main, stop>>
\* update_active_operation: under the lock, from the read to the replace.
ReadFileUnlocked ==
    /\ beat.pc = "read" /\ lock = "free"
    /\ beat' = [beat EXCEPT !.pc = "write", !.data = file]
    /\ UNCHANGED <<memory, file, written, lock, main, stop>>
ReadFile ==
    /\ beat.pc = "read" /\ lock = "free"
    /\ lock' = "beat"
    /\ beat' = [beat EXCEPT !.pc = "write", !.data = file]
    /\ UNCHANGED <<memory, file, written, main, stop>>
WriteFile ==
    /\ beat.pc = "write"
    /\ file' = [beat.data EXCEPT !.operation = beat.current]
    /\ lock' = "free"
    /\ beat' = [beat EXCEPT !.pc = "wait"]
    /\ UNCHANGED <<memory, written, main, stop>>

Next ==
    \/ Enter \/ Change \/ SaveBody \/ SetStop \/ JoinThread \/ ClearMemory \/ ClearFile \/ SaveAfter
    \/ Tick \/ Stamp \/ ReadFile \/ WriteFile

Spec == Init /\ [][Next]_heartbeatVars

\* A heartbeat rewrites the whole file, yet the task in the file is always the
\* one that was saved last: no heartbeat, however late and whether or not
\* __exit__ waited for it, takes back a save of the main thread.
SavesSurviveHeartbeats == file.task = written
=============================================================================
