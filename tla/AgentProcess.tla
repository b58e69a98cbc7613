----------------------------- MODULE AgentProcess -----------------------------
(***************************************************************************)
(* _run_agent_subprocess_streaming (core/llm_client.py): the main thread   *)
(* watches a provider CLI through two reader threads that fill one queue,  *)
(* a writer thread that feeds the prompt, and a deadline.  The provider    *)
(* may leave a descendant that holds its pipes open.                       *)
(*                                                                         *)
(* A chunk is <<stream, n>>; <<stream, 0>> is an event that the error      *)
(* parser of the provider takes for fatal.                                 *)
(***************************************************************************)
EXTENDS Naturals, Sequences, FiniteSets

CONSTANT MaxChunks      \* bound on the chunks that the provider writes

VARIABLES
    provider,   \* "running", "exited" or "killed"
    descendant, \* "none", "holding" (it has the pipes), "detached" (it closed them), "killed"
    pipe,       \* [stream -> chunks written and not read]
    reader,     \* [stream -> "alive" or "done"]
    writer,     \* "alive", "failed" (an error is queued) or "done"
    chunks,     \* the queue between the readers and the main thread
    parts,      \* [stream -> what the main thread has recorded]
    sent,       \* [stream -> all that was ever written]
    late,       \* the deadline has passed
    caller      \* the main thread

processVars == <<provider, descendant, pipe, reader, writer, chunks, parts, sent, late, caller>>

Streams == {"stdout", "stderr"}

Init ==
    /\ provider = "running" /\ descendant = "none"
    /\ pipe = [s \in Streams |-> <<>>]
    /\ reader = [s \in Streams |-> "alive"]
    /\ writer = "alive"
    /\ chunks = <<>>
    /\ parts = [s \in Streams |-> <<>>] /\ sent = [s \in Streams |-> <<>>]
    /\ late = FALSE
    /\ caller = "drain"

Live == provider = "running" \/ descendant = "holding"
At(pc) == caller = pc
Workers == <<reader, writer, chunks>>
Child == <<provider, descendant, pipe, sent>>

----------------------------------------------------------------------------
(* The provider, its descendant, and time. *)

Emit(s, fatal) ==
    /\ Live /\ Len(sent["stdout"]) + Len(sent["stderr"]) < MaxChunks
    /\ LET chunk == <<s, IF fatal THEN 0 ELSE Len(sent[s]) + 1>>
       IN  /\ pipe' = [pipe EXCEPT ![s] = Append(@, chunk)]
           /\ sent' = [sent EXCEPT ![s] = Append(@, chunk)]
    /\ UNCHANGED <<provider, descendant, Workers, parts, late, caller>>

Fork ==
    /\ provider = "running" /\ descendant = "none"
    /\ descendant' = "holding"
    /\ UNCHANGED <<provider, pipe, sent, Workers, parts, late, caller>>

Exit ==
    /\ \/ provider = "running" /\ provider' = "exited" /\ UNCHANGED descendant
       \/ descendant \in {"holding", "detached"} /\ descendant' = "none" /\ UNCHANGED provider
       \/ descendant = "holding" /\ descendant' = "detached" /\ UNCHANGED provider
    /\ UNCHANGED <<pipe, sent, Workers, parts, late, caller>>

Deadline == ~late /\ late' = TRUE /\ UNCHANGED <<Child, Workers, parts, caller>>

----------------------------------------------------------------------------
(* The threads. *)

\* _reader: a chunk goes from the pipe to the queue; the thread ends when
\* nobody holds the other end.
Read(s) ==
    /\ reader[s] = "alive"
    /\ IF pipe[s] # <<>>
       THEN /\ chunks' = Append(chunks, Head(pipe[s]))
            /\ pipe' = [pipe EXCEPT ![s] = Tail(@)]
            /\ UNCHANGED reader
       ELSE /\ ~Live
            /\ reader' = [reader EXCEPT ![s] = "done"]
            /\ UNCHANGED <<chunks, pipe>>
    /\ UNCHANGED <<provider, descendant, sent, writer, parts, late, caller>>

\* _writer: a broken pipe is no error, another OSError is queued.
FeedPrompt ==
    /\ writer = "alive" /\ writer' \in {"failed", "done"}
    /\ UNCHANGED <<Child, reader, chunks, parts, late, caller>>

----------------------------------------------------------------------------
(* The main thread. *)

\* _terminate_process(process_group=True), and where the thread goes.
Terminate(outcome) ==
    /\ provider' = IF provider = "running" THEN "killed" ELSE provider
    /\ descendant' = IF descendant \in {"holding", "detached"} THEN "killed" ELSE descendant
    /\ caller' = outcome
    /\ UNCHANGED <<pipe, sent>>

Go(pc) == caller' = pc /\ UNCHANGED Child

\* _record_or_raise: the chunk is kept, a fatal event ends the call.
Record(pc) ==
    /\ parts' = [parts EXCEPT ![Head(chunks)[1]] = Append(@, Head(chunks))]
    /\ chunks' = Tail(chunks)
    /\ IF Head(chunks)[2] = 0 THEN Terminate("provider_error") ELSE Go(pc)
    /\ UNCHANGED <<reader, writer, late>>

\* _drain_ready_chunks(deadline): what is queued first, unless it is too late.
Drain ==
    /\ At("drain")
    /\ IF late THEN Terminate("timing_out") /\ UNCHANGED <<chunks, parts, reader, writer, late>>
       ELSE IF chunks # <<>> THEN Record("drain")
       ELSE Go("writer") /\ UNCHANGED <<chunks, parts, reader, writer, late>>

\* _check_writer_error
CheckWriter(pc, next) ==
    /\ At(pc)
    /\ IF writer = "failed"
       THEN writer' = "done" /\ Terminate("environment_error")
       ELSE Go(next) /\ UNCHANGED writer
    /\ UNCHANGED <<reader, chunks, parts, late>>

\* The end is seen in three reads, in this order: the process, the readers,
\* the queue.
Test(pc, holds, yes) ==
    /\ At(pc) /\ Go(IF holds THEN yes ELSE "wait")
    /\ UNCHANGED <<reader, writer, chunks, parts, late>>
ReadersDone == \A s \in Streams : reader[s] = "done"

\* The same three reads with the queue before the readers.
EndSeenQueueFirst ==
    \/ Test("poll", provider # "running", "readers")
    \/ Test("readers", chunks = <<>>, "queue")
    \/ Test("queue", ReadersDone, "join")
EndSeen ==
    \/ Test("poll", provider # "running", "readers")
    \/ Test("readers", ReadersDone, "queue")
    \/ Test("queue", chunks = <<>>, "join")

\* The blocking get, for at most 0.2 s and not past the deadline.
Wait ==
    /\ At("wait")
    /\ IF late THEN Terminate("timing_out") /\ UNCHANGED <<chunks, parts, reader, writer, late>>
       ELSE \/ chunks # <<>> /\ Record("drain")
            \/ Go("drain") /\ UNCHANGED <<chunks, parts, reader, writer, late>>

\* The writer is joined before the result is built.
Join ==
    /\ At("join")
    /\ IF writer # "alive" THEN Go("last_check")
       ELSE IF late THEN Terminate("timing_out")
       ELSE Go("join")
    /\ UNCHANGED <<reader, writer, chunks, parts, late>>

\* _raise_timeout: the rest of the queue, then TimeoutExpired with it.
TimingOut ==
    /\ At("timing_out")
    /\ IF chunks # <<>> THEN Record("timing_out")
       ELSE Go("timeout") /\ UNCHANGED <<chunks, parts, reader, writer, late>>

Over == caller \in {"completed", "timeout", "provider_error", "environment_error"}

Next ==
    \/ \E s \in Streams, fatal \in BOOLEAN : Emit(s, fatal)
    \/ Fork \/ Exit \/ Deadline
    \/ \E s \in Streams : Read(s)
    \/ FeedPrompt
    \/ Drain \/ CheckWriter("writer", "poll") \/ EndSeen \/ Wait \/ Join
    \/ CheckWriter("last_check", "completed") \/ TimingOut

Spec == Init /\ [][Next]_processVars

----------------------------------------------------------------------------
\* A completed result holds every chunk of either stream, in order, that the
\* provider and its descendants ever wrote: the last chunk is not lost between
\* the exit of the process, the end of its reader and the look at the queue.
CompletedIsWhole == At("completed") => parts = sent

\* When the call fails, nothing that it started still writes: the audit of the
\* attempt and the decision to retry it see its last change.  (A call that
\* completes leaves a descendant that has closed its pipes alone.)
FailedCallIsKilled ==
    Over /\ ~At("completed") => provider # "running" /\ descendant \notin {"holding", "detached"}

\* Whatever a call returns, the orchestrator can go by it.
CallIsSettled == CompletedIsWhole /\ FailedCallIsKilled
=============================================================================
