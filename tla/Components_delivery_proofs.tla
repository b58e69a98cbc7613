--------------------- MODULE Components_delivery_proofs ---------------------
(***************************************************************************)
(* Delivery among the components.  A delivery child: what is accepted of   *)
(* it was in its scope, what was removed was reviewed, and a terminal stop *)
(* ends it, for any number of edits, faults, kills and resumes.  The       *)
(* subprocess of an agent: a completed call is whole, and a failed one is  *)
(* killed.  The amendment of a plan: a publication is whole, whatever      *)
(* fails or is killed, and a recovery forgets no work.                     *)
(***************************************************************************)
EXTENDS Components, WellFoundedInduction, TLAPS

(***************************************************************************)
(* The write scope of a delivery child.  The invariant says who wrote what *)
(* the audits have not looked at yet: a write outside the scope is there   *)
(* only while a stop is saved, or while an audit is owed whose snapshot    *)
(* was taken before it.                                                    *)
(***************************************************************************)
Writers == {"implementer", "fixer", "tool"}
FileContents == [by : {"base", "nobody", "user"} \cup Writers, n : Nat, id : Nat]
FileTrees == [Scope!Files -> FileContents]
AuditPolicies == [agent : Writers, boundary : {"outer", "attempt"}, roots : SUBSET Scope!Declared,
             tests : SUBSET {"test"}]
OwnedFiles == [agent : Writers, session : Nat, content : FileContents \ {Scope!Absent}]
Removals == [content : FileContents, status : {"moving", "quarantined", "aborted", "cleaned"}]
ChildStates ==
    [failed : BOOLEAN, done : BOOLEAN, stop : 0..4, claim : 0..4,
     pending : AuditPolicies \cup {Scope!None}, candidate : OwnedFiles \cup {Scope!None},
     records : SUBSET Removals, approved : BOOLEAN, saw : BOOLEAN]
AuditSnapshots == [agent : Writers, files : FileTrees]

SnapshotPairs == [outer : AuditSnapshots \cup {Scope!None}, attempt : AuditSnapshots \cup {Scope!None}]

Counts == [edits : Nat, faults : Nat, resumes : Nat]

WorkingPlaces == {"outer", "call", "attempt", "pend", "writing", "audit", "restore", "restored",
                  "answered", "agent_over", "move", "moved"}
BetweenPlaces == {"recover", "recovered", "clear", "cleared", "ready", "ended"}
ResumedSessions == [pc : BetweenPlaces, mem : ChildStates, id : Nat, agent : {"none"}]
WorkingSessions ==
    [pc : WorkingPlaces \cup {"recovered", "clear", "cleared"}, mem : ChildStates, id : Nat,
     agent : Writers, errors : {"none", "build", "test", "check"}, policy : AuditPolicies,
     before : FileTrees, base : FileTrees, attempt : Nat,
     outcome : {"none", "ok", "transient", "fatal", "refused"},
     confirmed : BOOLEAN, stopped : BOOLEAN, verified : BOOLEAN]

IsWorking(s) == s \in WorkingSessions /\ s.policy.agent = s.agent /\ s.policy.boundary = "outer"

SessionTypes ==
    \/ session = Scope!NoSession \/ session = [pc |-> "cleanup"]
    \/ session \in ResumedSessions
    \/ IsWorking(session)

ScopeTypes ==
    /\ worktree \in FileTrees /\ saved \in ChildStates
    /\ snapshots \in SnapshotPairs
    /\ SessionTypes
    /\ count \in Counts

\* The session remembers what the state file says, but for an approval it has
\* taken back and not saved yet.
MemoryFollowsFile ==
    session.pc \notin {"idle", "cleanup"} =>
        /\ Scope!Mem.failed = saved.failed /\ Scope!Mem.done = saved.done
           /\ Scope!Mem.stop = saved.stop
        /\ Scope!Mem.pending = saved.pending /\ Scope!Mem.records = saved.records
           /\ Scope!Mem.saw = saved.saw
        /\ Scope!Mem.approved => saved.approved

\* A stopped child has failed, and a done or a failed child is not worked on.
StopEnds ==
    /\ saved.stop # 0 => saved.failed /\ ~saved.done
    /\ saved.done => session.pc \in {"idle", "ready", "cleanup"}
    /\ Scope!At("ready") \/ Scope!At("recover") => ~saved.failed

Untouched(content) == content["foreign"] = Scope!Original /\ content["test"].by \in {"base", "fixer"}

OwedSnapshot == IF saved.pending.boundary = "attempt" THEN snapshots.attempt ELSE snapshots.outer

\* The audit that will look at the worktree: its policy is saved, its snapshot
\* is of before the writes, and a test is not the fixer's only to blame on it.
AuditOwed ==
    /\ saved.pending # Scope!None /\ OwedSnapshot # Scope!None
       /\ Untouched(OwedSnapshot.files)
    /\ (worktree["test"].by \in {"base", "fixer"} \/ saved.pending.agent # "fixer")

\* A child without a stop has a worktree in scope, or owes the audit of it.
WritesAreAudited ==
    /\ saved.done => Untouched(worktree)
    /\ saved.stop = 0 =>
        CASE session.pc \in {"writing", "audit"} -> AuditOwed
          [] session.pc \in {"idle", "cleanup", "recover"} -> Untouched(worktree) \/ AuditOwed
          [] OTHER -> Untouched(worktree)

\* What an audit compares with is what was saved for it.
AuditIsReady ==
    /\ Scope!At("outer") => saved.pending = session.policy
    /\ Scope!At("pend") => snapshots.attempt # Scope!None
       /\ snapshots.attempt.files = session.before
                     /\ session.before = worktree
    /\ session.pc \in {"writing", "audit"} =>
         saved.pending # Scope!None /\ saved.pending.agent = session.agent /\ OwedSnapshot # Scope!None
         /\ session.before = OwedSnapshot.files

IsMoving(child) == \E r \in child.records : r.status = "moving"

\* A file that an approval read is gone only while its move is recorded as
\* under way, and with a move under way the child is neither ready nor done.
RemovalIsRecorded ==
    /\ worktree["new"] = Scope!Absent /\ saved.approved /\ saved.saw => IsMoving(saved)
    /\ Scope!At("ready") \/ saved.done => ~IsMoving(saved)
    /\ session.pc \in {"move", "moved"} => IsMoving(saved)
    /\ Scope!At("move") => worktree["new"] # Scope!Absent

ScopeInv == ScopeTypes /\ MemoryFollowsFile /\ StopEnds /\ AuditIsReady /\ WritesAreAudited /\ RemovalIsRecorded

LEMMA ChildFields ==
    ASSUME NEW m \in ChildStates
    PROVE  /\ m.failed \in BOOLEAN /\ m.done \in BOOLEAN /\ m.stop \in 0..4
           /\ m.pending \in AuditPolicies \cup {Scope!None}
           /\ m.records \in SUBSET Removals /\ m.approved \in BOOLEAN
BY DEF ChildStates

\* A policy or a snapshot is a record of an agent, and None is of no agent.
LEMMA PolicyFields ==
    ASSUME NEW p \in AuditPolicies
    PROVE  /\ p # Scope!None /\ p.agent \in Writers
           /\ p.roots \subseteq Scope!Declared /\ p.tests \subseteq {"test"}
BY DEF AuditPolicies, Scope!None, Writers

LEMMA SnapshotFields ==
    ASSUME NEW contents \in FileTrees, NEW agent \in Writers
    PROVE  /\ [agent |-> agent, files |-> contents] \in AuditSnapshots
           /\ [agent |-> agent, files |-> contents] # Scope!None
BY DEF AuditSnapshots, Scope!None, Writers

LEMMA ScopeStops ==
    ASSUME NEW m \in ChildStates, NEW code \in 1..4
    PROVE  /\ Scope!SetStop(m, code) \in ChildStates
           /\ Scope!SetStop(m, code).failed = TRUE
              /\ Scope!SetStop(m, code).done = FALSE
           /\ Scope!SetStop(m, code).stop >= m.stop /\ Scope!SetStop(m, code).stop # 0
           /\ Scope!SetStop(m, code).pending = m.pending
           /\ Scope!SetStop(m, code).records = m.records
           /\ Scope!SetStop(m, code).approved = m.approved
           /\ Scope!SetStop(m, code).saw = m.saw
           /\ Scope!SetStop(m, code).claim = m.claim
<1> DEFINE kept == IF m.stop >= code THEN m.stop ELSE code
<1>1. kept \in 0..4 /\ kept >= m.stop /\ kept # 0
  BY DEF ChildStates
<1>2. Scope!SetStop(m, code) = [m EXCEPT !.failed = TRUE, !.done = FALSE, !.stop = kept]
  BY DEF Scope!SetStop
<1> HIDE DEF kept
<1> QED
  BY <1>1, <1>2 DEF ChildStates

LEMMA ViolationStops ==
    ASSUME NEW m \in ChildStates
    PROVE  LET stopped == Scope!SetStop(m, Scope!ScopeViolation)
           IN  /\ stopped \in ChildStates /\ stopped.failed = TRUE /\ stopped.done = FALSE
               /\ stopped.stop >= m.stop /\ stopped.stop # 0
                  /\ stopped.pending = m.pending
               /\ stopped.records = m.records /\ stopped.approved = m.approved
               /\ stopped.saw = m.saw
<1>1. Scope!ScopeViolation \in 1..4
  BY DEF Scope!ScopeViolation, Scope!Stops
<1> QED
  BY <1>1, ScopeStops

LEMMA StopRaised ==
    ASSUME NEW m \in ChildStates
    PROVE  /\ Scope!RaiseStops(m) \in ChildStates
           /\ Scope!RaiseStops(m).stop >= m.stop
           /\ Scope!RaiseStops(m).stop # 0 =>
                Scope!RaiseStops(m).failed = TRUE /\ Scope!RaiseStops(m).done = FALSE
           /\ Scope!RaiseStops(m).stop = 0 => Scope!RaiseStops(m) = m
           /\ Scope!RaiseStops(m).pending = m.pending
           /\ Scope!RaiseStops(m).records = m.records
           /\ Scope!RaiseStops(m).approved = m.approved
           /\ Scope!RaiseStops(m).saw = m.saw
<1> DEFINE held == IF m.stop = 0 THEN m ELSE Scope!SetStop(m, m.stop)
<1>0. m.stop \in 0..4 /\ m.claim \in 0..4
  BY DEF ChildStates
<1>1. /\ held \in ChildStates /\ held.stop >= m.stop
      /\ held.stop # 0 => held.failed = TRUE /\ held.done = FALSE
      /\ held.stop = 0 => held = m
      /\ held.pending = m.pending /\ held.records = m.records
      /\ held.approved = m.approved /\ held.saw = m.saw /\ held.claim = m.claim
  <2>1. CASE m.stop = 0
    BY <2>1
  <2>2. CASE m.stop # 0
    <3>1. m.stop \in 1..4
      BY <1>0, <2>2
    <3> QED
      BY <2>2, <3>1, ScopeStops
  <2> QED
    BY <2>1, <2>2
<1>2. Scope!RaiseStops(m) = IF held.stop # Scope!ScopeViolation /\ held.claim # 0
                            THEN Scope!SetStop(held, held.claim) ELSE held
  BY DEF Scope!RaiseStops
<1> HIDE DEF held
<1>3. CASE held.stop # Scope!ScopeViolation /\ held.claim # 0
  <2>1. held.claim \in 1..4 /\ held.stop \in 0..4
    BY <1>0, <1>1, <1>3 DEF ChildStates
  <2>2. Scope!RaiseStops(m) = Scope!SetStop(held, held.claim)
    BY <1>2, <1>3
  <2>3. Scope!SetStop(held, held.claim).stop \in 0..4
    BY <1>1, <2>1, ScopeStops, ChildFields
  <2> DEFINE s == Scope!SetStop(held, held.claim)
  <2>4. /\ s \in ChildStates /\ s.failed = TRUE /\ s.done = FALSE
        /\ s.stop >= held.stop /\ s.stop # 0 /\ s.pending = held.pending
        /\ s.records = held.records /\ s.approved = held.approved /\ s.saw = held.saw
    BY <1>1, <2>1, ScopeStops
  <2>5. s.stop \in 0..4
    BY <2>3
  <2>6. Scope!RaiseStops(m) = s
    BY <2>2
  <2> HIDE DEF s
  <2> QED
    BY <1>0, <1>1, <2>1, <2>4, <2>5, <2>6
<1>4. CASE ~(held.stop # Scope!ScopeViolation /\ held.claim # 0)
  BY <1>1, <1>2, <1>4
<1> QED
  BY <1>3, <1>4

\* An audit sees a foreign write, and a write to a test by any agent but the fixer.
LEMMA ViolationSeen ==
    ASSUME NEW policy \in AuditPolicies, NEW before \in FileTrees, NEW after \in FileTrees,
           Untouched(before), ~Untouched(after),
           after["test"].by \in {"base", "fixer"} \/ policy.agent # "fixer"
    PROVE  Scope!Violates(policy, before, after)
<1>1. policy.roots \subseteq {"new"} /\ policy.tests \subseteq {"test"}
  BY DEF AuditPolicies, Scope!Declared
<1>2. CASE after["foreign"] # Scope!Original
  <2>1. "foreign" \in Scope!Changed(before, after)
    BY <1>2 DEF Scope!Changed, Scope!Files, Untouched
  <2>2. ~Scope!Allows(policy, "foreign")
    BY <1>1 DEF Scope!Allows
  <2> QED
    BY <2>1, <2>2 DEF Scope!Violates
<1>3. CASE after["test"].by \notin {"base", "fixer"}
  <2>1. "test" \in Scope!Changed(before, after)
    BY <1>3 DEF Scope!Changed, Scope!Files, Untouched
  <2>2. ~Scope!Allows(policy, "test")
    BY <1>1, <1>3 DEF Scope!Allows
  <2> QED
    BY <2>1, <2>2 DEF Scope!Violates
<1> QED
  BY <1>2, <1>3 DEF Untouched

LEMMA WorkingAt ==
    ASSUME SessionTypes, session.pc \in WorkingPlaces
    PROVE  session \in WorkingSessions /\ IsWorking(session)
BY DEF SessionTypes, WorkingPlaces, Scope!NoSession, ResumedSessions, BetweenPlaces,
   IsWorking

LEMMA ResumedAt ==
    ASSUME SessionTypes, session.pc \in {"recover", "ready", "ended"}
    PROVE  session \in ResumedSessions
BY DEF SessionTypes, WorkingPlaces, Scope!NoSession, WorkingSessions, IsWorking

LEMMA HasMemory ==
    ASSUME SessionTypes, session.pc \notin {"idle", "cleanup"}
    PROVE  session.mem \in ChildStates
           /\ (session \in ResumedSessions \/ IsWorking(session))
BY DEF SessionTypes, Scope!NoSession, ResumedSessions, WorkingSessions, IsWorking

LEMMA WorkingFields ==
    ASSUME IsWorking(session)
    PROVE  /\ session.mem \in ChildStates /\ session.agent \in Writers
           /\ session.policy \in AuditPolicies /\ session.before \in FileTrees
           /\ session.policy.agent = session.agent /\ session.policy.boundary = "outer"
BY DEF IsWorking, WorkingSessions

\* A session that goes on with a memory, after the agent.
LEMMA GoesOn ==
    ASSUME SessionTypes, session.pc \notin {"idle", "cleanup"}, NEW m \in ChildStates,
           NEW pc \in {"recovered", "clear", "cleared"},
           session' = [session EXCEPT !.mem = m, !.pc = pc]
    PROVE  SessionTypes' /\ session'.pc = pc /\ session'.mem = m
<1>1. CASE session \in ResumedSessions
  BY <1>1 DEF ResumedSessions, BetweenPlaces, SessionTypes
<1>2. CASE IsWorking(session)
  BY <1>2 DEF WorkingSessions, SessionTypes, IsWorking
<1> QED
  BY <1>1, <1>2, HasMemory

LEMMA GoesTo ==
    ASSUME SessionTypes, session.pc \notin {"idle", "cleanup"},
           NEW pc \in {"recovered", "clear", "cleared"}, session' = [session EXCEPT !.pc = pc]
    PROVE  SessionTypes' /\ session'.pc = pc /\ session'.mem = session.mem
<1>1. CASE session \in ResumedSessions
  BY <1>1 DEF ResumedSessions, BetweenPlaces, SessionTypes
<1>2. CASE IsWorking(session)
  BY <1>2 DEF WorkingSessions, SessionTypes, IsWorking
<1> QED
  BY <1>1, <1>2, HasMemory

\* What a session owns is a file that is there.
LEMMA OwnedCandidate ==
    ASSUME NEW mem \in ChildStates, NEW before \in FileTrees, NEW trusted \in BOOLEAN,
           worktree \in FileTrees, session \in WorkingSessions
    PROVE  Scope!Candidate(mem, before, trusted) \in OwnedFiles \cup {Scope!None}
<1> DEFINE candidate == [agent |-> session.agent, session |-> session.id,
                         content |-> worktree["new"]]
<1>1. mem.candidate \in OwnedFiles \cup {Scope!None}
  BY DEF ChildStates
<1>2. worktree["new"] # Scope!Absent => candidate \in OwnedFiles
  BY DEF OwnedFiles, WorkingSessions, FileTrees, Scope!Files
<1>3. \/ Scope!Candidate(mem, before, trusted) = mem.candidate
      \/ Scope!Candidate(mem, before, trusted) = Scope!None
      \/ worktree["new"] # Scope!Absent
         /\ Scope!Candidate(mem, before, trusted) = candidate
  BY DEF Scope!Candidate
<1> QED
  BY <1>1, <1>2, <1>3

\* Settling a removal changes the record of the one that was moving.
LEMMA Settled ==
    ASSUME session.mem \in ChildStates, IsMoving(session.mem),
           NEW status \in {"quarantined", "aborted"}
    PROVE  LET settled == Scope!Settle(session.mem, status)
           IN  /\ settled \in ChildStates
               /\ settled.failed = session.mem.failed /\ settled.done = session.mem.done
               /\ settled.stop = session.mem.stop
                  /\ settled.pending = session.mem.pending
               /\ settled.saw = session.mem.saw
                  /\ settled.approved = session.mem.approved
<1> DEFINE moving == Scope!Moving
           records == (session.mem.records \ {moving}) \cup {[moving EXCEPT !.status = status]}
<1>1. moving \in session.mem.records
  BY DEF IsMoving, Scope!Moving, Scope!Mem
<1>2. session.mem.records \in SUBSET Removals
  BY ChildFields
<1> HIDE DEF moving
<1>3. [moving EXCEPT !.status = status] \in Removals
  BY <1>1, <1>2 DEF Removals
<1>4. records \in SUBSET Removals
  BY <1>2, <1>3
<1>5. Scope!Settle(session.mem, status) = [session.mem EXCEPT !.records = records]
  BY DEF Scope!Settle, moving
<1> HIDE DEF records
<1> QED
  BY <1>4, <1>5 DEF ChildStates

LEMMA Scope_Resume ==
    ASSUME ScopeInv, Scope!Resume
    PROVE  ScopeInv' /\ saved'.stop >= saved.stop
<1>1. session.pc = "idle"
  BY DEF Scope!Resume, Scope!At
<1>2. /\ saved \in ChildStates /\ worktree \in FileTrees
      /\ snapshots \in SnapshotPairs /\ count \in Counts /\ SessionTypes
  BY DEF ScopeInv, ScopeTypes
<1>3. /\ session' = [pc |-> "recover", mem |-> saved, id |-> count.resumes,
              agent |-> "none"]
      /\ ~saved.failed /\ ~saved.done
  BY DEF Scope!Resume
<1>4. SessionTypes' /\ session'.pc = "recover" /\ session'.mem = saved
  BY <1>2, <1>3 DEF SessionTypes, ResumedSessions, BetweenPlaces, Counts
<1>5. worktree' = worktree /\ saved' = saved /\ snapshots' = snapshots
      /\ count' \in Counts
  BY <1>2 DEF Scope!Resume, Scope!Spend, Counts
<1> USE DEF ScopeInv, ScopeTypes, MemoryFollowsFile, StopEnds, AuditIsReady,
   WritesAreAudited, AuditOwed, OwedSnapshot, Untouched, RemovalIsRecorded, IsMoving,
   Scope!At, Scope!Mem
<1>6. ScopeTypes'
  BY <1>1, <1>2, <1>3, <1>4, <1>5
<1>7. MemoryFollowsFile'
  BY <1>1, <1>2, <1>3, <1>4, <1>5
<1>8. StopEnds'
  BY <1>1, <1>2, <1>3, <1>4, <1>5
<1>9. AuditIsReady'
  BY <1>1, <1>2, <1>3, <1>4, <1>5
<1>10. WritesAreAudited'
  BY <1>1, <1>2, <1>3, <1>4, <1>5
<1>11. RemovalIsRecorded'
  BY <1>1, <1>2, <1>3, <1>4, <1>5
<1>12. saved'.stop >= saved.stop
  BY <1>1, <1>2, <1>3, <1>4, <1>5, ChildFields
<1> QED
  BY <1>6, <1>7, <1>8, <1>9, <1>10, <1>11, <1>12 DEF ScopeInv

LEMMA Scope_ResetFailed ==
    ASSUME ScopeInv, Scope!ResetFailed
    PROVE  ScopeInv' /\ saved'.stop >= saved.stop
<1>1. session.pc = "idle"
  BY DEF Scope!ResetFailed, Scope!At
<1>2. /\ saved \in ChildStates /\ worktree \in FileTrees
      /\ snapshots \in SnapshotPairs /\ count \in Counts /\ SessionTypes
  BY DEF ScopeInv, ScopeTypes
<1>3. saved' = [saved EXCEPT !.failed = FALSE] /\ saved.stop = 0
  BY DEF Scope!ResetFailed
<1>4. /\ saved' \in ChildStates /\ ~saved'.failed /\ saved'.done = saved.done
      /\ saved'.stop = saved.stop /\ saved'.pending = saved.pending
      /\ saved'.records = saved.records /\ saved'.approved = saved.approved
      /\ saved'.saw = saved.saw
  BY <1>2, <1>3 DEF ChildStates
<1>5. worktree' = worktree /\ session' = session /\ snapshots' = snapshots
      /\ count' = count
  BY DEF Scope!ResetFailed
<1>6. SessionTypes'
  BY <1>2, <1>5 DEF SessionTypes
<1> USE DEF ScopeInv, ScopeTypes, MemoryFollowsFile, StopEnds, AuditIsReady,
   WritesAreAudited, AuditOwed, OwedSnapshot, Untouched, RemovalIsRecorded, IsMoving,
   Scope!At, Scope!Mem
<1>7. ScopeTypes'
  BY <1>1, <1>2, <1>3, <1>4, <1>5, <1>6
<1>8. MemoryFollowsFile'
  BY <1>1, <1>2, <1>3, <1>4, <1>5, <1>6
<1>9. StopEnds'
  BY <1>1, <1>2, <1>3, <1>4, <1>5, <1>6
<1>10. AuditIsReady'
  BY <1>1, <1>2, <1>3, <1>4, <1>5, <1>6
<1>11. WritesAreAudited'
  BY <1>1, <1>2, <1>3, <1>4, <1>5, <1>6
<1>12. RemovalIsRecorded'
  BY <1>1, <1>2, <1>3, <1>4, <1>5, <1>6
<1>13. saved'.stop >= saved.stop
  BY <1>1, <1>2, <1>3, <1>4, <1>5, <1>6, ChildFields
<1> QED
  BY <1>7, <1>8, <1>9, <1>10, <1>11, <1>12, <1>13 DEF ScopeInv

LEMMA Scope_Recover ==
    ASSUME ScopeInv, Scope!Recover
    PROVE  ScopeInv' /\ saved'.stop >= saved.stop
<1>1. session \in ResumedSessions /\ session.pc = "recover"
      /\ session.mem \in ChildStates
  BY ResumedAt, HasMemory DEF ScopeInv, ScopeTypes, Scope!Recover, Scope!At
<1>2. /\ saved \in ChildStates /\ worktree \in FileTrees
      /\ snapshots \in SnapshotPairs /\ count \in Counts /\ SessionTypes
  BY DEF ScopeInv, ScopeTypes
<1>4. /\ session.mem.failed = saved.failed /\ session.mem.done = saved.done
      /\ session.mem.stop = saved.stop /\ session.mem.pending = saved.pending
      /\ session.mem.records = saved.records /\ session.mem.saw = saved.saw
      /\ session.mem.approved => saved.approved
  BY <1>1 DEF ScopeInv, MemoryFollowsFile, Scope!Mem
<1> DEFINE before == IF session.mem.pending # Scope!None
                     /\ session.mem.pending.boundary = "attempt"
                      THEN snapshots.attempt ELSE snapshots.outer
<1>5. worktree' = worktree /\ snapshots' = snapshots /\ count' = count
  BY DEF Scope!Recover
<1>6. \/ /\ session.mem.pending = Scope!None /\ Scope!Goto("recovered")
            /\ UNCHANGED saved
      \/ Scope!Save(Scope!SetStop(session.mem, Scope!ScopeViolation), "clear")
      \/ /\ session.mem.pending # Scope!None /\ before # Scope!None
         /\ ~Scope!Violates(session.mem.pending, before.files, worktree)
         /\ Scope!Save(session.mem, "clear")
  BY DEF Scope!Recover, Scope!Mem
<1>7. CASE session.mem.pending = Scope!None /\ Scope!Goto("recovered")
           /\ UNCHANGED saved
  <2>1. SessionTypes' /\ session'.pc = "recovered" /\ session'.mem = session.mem
    BY <1>1, <1>2, <1>7, GoesTo DEF Scope!Goto
  <2>2. saved' = saved /\ saved.pending = Scope!None
    BY <1>4, <1>7
  <2> USE DEF ScopeInv, ScopeTypes, MemoryFollowsFile, StopEnds, AuditIsReady,
     WritesAreAudited, AuditOwed, OwedSnapshot, Untouched, RemovalIsRecorded, IsMoving,
     Scope!At, Scope!Mem
  <2>3. ScopeTypes'
    BY <1>1, <1>2, <1>4, <1>5, <2>1, <2>2
  <2>4. MemoryFollowsFile'
    BY <1>1, <1>2, <1>4, <1>5, <2>1, <2>2
  <2>5. StopEnds'
    BY <1>1, <1>2, <1>4, <1>5, <2>1, <2>2
  <2>6. AuditIsReady'
    BY <1>1, <1>2, <1>4, <1>5, <2>1, <2>2
  <2>7. WritesAreAudited'
    BY <1>1, <1>2, <1>4, <1>5, <2>1, <2>2
  <2>8. RemovalIsRecorded'
    BY <1>1, <1>2, <1>4, <1>5, <2>1, <2>2
  <2>9. saved'.stop >= saved.stop
    BY <1>1, <1>2, <1>4, <1>5, <2>1, <2>2, ChildFields
  <2> QED
    BY <2>3, <2>4, <2>5, <2>6, <2>7, <2>8, <2>9 DEF ScopeInv
<1>8. CASE Scope!Save(Scope!SetStop(session.mem, Scope!ScopeViolation), "clear")
  <2> DEFINE m == Scope!SetStop(session.mem, Scope!ScopeViolation)
  <2>1. /\ m \in ChildStates /\ m.failed = TRUE /\ m.done = FALSE
        /\ m.stop >= session.mem.stop /\ m.stop # 0 /\ m.pending = session.mem.pending
        /\ m.records = session.mem.records /\ m.approved = session.mem.approved
        /\ m.saw = session.mem.saw
    BY <1>1, ViolationStops
  <2>2. session' = [session EXCEPT !.mem = m, !.pc = "clear"] /\ saved' = m
    BY <1>8 DEF Scope!Save
  <2> HIDE DEF m
  <2>3. SessionTypes' /\ session'.pc = "clear" /\ session'.mem = m
    BY <1>1, <1>2, <2>1, <2>2, GoesOn
  <2> USE DEF ScopeInv, ScopeTypes, MemoryFollowsFile, StopEnds, AuditIsReady,
     WritesAreAudited, AuditOwed, OwedSnapshot, Untouched, RemovalIsRecorded, IsMoving,
     Scope!At, Scope!Mem
  <2>4. ScopeTypes'
    BY <1>1, <1>2, <1>4, <1>5, <2>1, <2>2, <2>3
  <2>5. MemoryFollowsFile'
    BY <1>1, <1>2, <1>4, <1>5, <2>1, <2>2, <2>3
  <2>6. StopEnds'
    BY <1>1, <1>2, <1>4, <1>5, <2>1, <2>2, <2>3
  <2>7. AuditIsReady'
    BY <1>1, <1>2, <1>4, <1>5, <2>1, <2>2, <2>3
  <2>8. WritesAreAudited'
    BY <1>1, <1>2, <1>4, <1>5, <2>1, <2>2, <2>3
  <2>9. RemovalIsRecorded'
    BY <1>1, <1>2, <1>4, <1>5, <2>1, <2>2, <2>3
  <2>10. saved'.stop >= saved.stop
    BY <1>1, <1>2, <1>4, <1>5, <2>1, <2>2, <2>3, ChildFields
  <2> QED
    BY <2>4, <2>5, <2>6, <2>7, <2>8, <2>9, <2>10 DEF ScopeInv
<1>9. CASE /\ session.mem.pending # Scope!None /\ before # Scope!None
           /\ ~Scope!Violates(session.mem.pending, before.files, worktree)
           /\ Scope!Save(session.mem, "clear")
  <2>1. session' = [session EXCEPT !.mem = session.mem, !.pc = "clear"]
        /\ saved' = session.mem
    BY <1>9 DEF Scope!Save
  <2>2. SessionTypes' /\ session'.pc = "clear" /\ session'.mem = session.mem
    BY <1>1, <1>2, <2>1, GoesOn
  <2>3. saved.stop = 0 => Untouched(worktree)
    <3> SUFFICES ASSUME saved.stop = 0, ~Untouched(worktree) PROVE FALSE
      OBVIOUS
    <3>1. AuditOwed
      BY <1>1 DEF ScopeInv, WritesAreAudited
    <3>2. before = OwedSnapshot
      BY <1>4, <1>9 DEF OwedSnapshot
    <3>3. saved.pending \in AuditPolicies /\ before.files \in FileTrees
      BY <1>2, <1>4, <1>9, ChildFields DEF SnapshotPairs, AuditSnapshots
    <3> QED
      BY <1>2, <1>4, <1>9, <3>1, <3>2, <3>3, ViolationSeen DEF AuditOwed
  <2> HIDE DEF before
  <2> USE DEF ScopeInv, ScopeTypes, MemoryFollowsFile, StopEnds, AuditIsReady,
     WritesAreAudited, AuditOwed, OwedSnapshot, Untouched, RemovalIsRecorded, IsMoving,
     Scope!At, Scope!Mem
  <2>4. ScopeTypes'
    BY <1>1, <1>2, <1>4, <1>5, <2>1, <2>2, <2>3
  <2>5. MemoryFollowsFile'
    BY <1>1, <1>2, <1>4, <1>5, <2>1, <2>2, <2>3
  <2>6. StopEnds'
    BY <1>1, <1>2, <1>4, <1>5, <2>1, <2>2, <2>3
  <2>7. AuditIsReady'
    BY <1>1, <1>2, <1>4, <1>5, <2>1, <2>2, <2>3
  <2>8. WritesAreAudited'
    BY <1>1, <1>2, <1>4, <1>5, <2>1, <2>2, <2>3
  <2>9. RemovalIsRecorded'
    BY <1>1, <1>2, <1>4, <1>5, <2>1, <2>2, <2>3
  <2>10. saved'.stop >= saved.stop
    BY <1>1, <1>2, <1>4, <1>5, <2>1, <2>2, <2>3, ChildFields
  <2> QED
    BY <2>4, <2>5, <2>6, <2>7, <2>8, <2>9, <2>10 DEF ScopeInv
<1> QED
  BY <1>6, <1>7, <1>8, <1>9

LEMMA Scope_Recovered ==
    ASSUME ScopeInv, Scope!Recovered
    PROVE  ScopeInv' /\ saved'.stop >= saved.stop
<1>1. session.pc = "recovered" /\ session.mem \in ChildStates
  BY HasMemory DEF ScopeInv, ScopeTypes, Scope!Recovered, Scope!At
<1>2. /\ saved \in ChildStates /\ worktree \in FileTrees
      /\ snapshots \in SnapshotPairs /\ count \in Counts /\ SessionTypes
  BY DEF ScopeInv, ScopeTypes
<1>4. /\ session.mem.failed = saved.failed /\ session.mem.done = saved.done
      /\ session.mem.stop = saved.stop /\ session.mem.pending = saved.pending
      /\ session.mem.records = saved.records /\ session.mem.saw = saved.saw
      /\ session.mem.approved => saved.approved
  BY <1>1 DEF ScopeInv, MemoryFollowsFile, Scope!Mem
<1> DEFINE agentFailed == session.agent \notin {"none", "tool"}
                          /\ session.outcome # "ok"
           raised == Scope!RaiseStops(session.mem)
           moving == \E r \in session.mem.records : r.status = "moving"
           gone == [[raised EXCEPT !.failed = @ \/ agentFailed] EXCEPT !.failed = @ \/ moving]
<1>5. /\ raised \in ChildStates /\ raised.stop >= session.mem.stop
      /\ raised.stop # 0 => raised.failed = TRUE /\ raised.done = FALSE
      /\ raised.stop = 0 => raised = session.mem
      /\ raised.pending = session.mem.pending /\ raised.records = session.mem.records
      /\ raised.approved = session.mem.approved /\ raised.saw = session.mem.saw
  BY <1>1, StopRaised
<1>6. /\ saved' = gone
      /\ session' = [pc |-> IF gone.failed THEN "ended" ELSE "ready", mem |-> gone,
                     id |-> session.id, agent |-> "none"]
      /\ worktree' = worktree /\ snapshots' = snapshots /\ count' = count
  <2>1. \A r \in session.mem.records : TRUE
    OBVIOUS
  <2> QED
    BY DEF Scope!Recovered, Scope!Mem
<1> HIDE DEF agentFailed, raised
<1>7. /\ gone \in ChildStates /\ gone.stop = raised.stop /\ gone.done = raised.done
      /\ (gone.failed <=> raised.failed \/ agentFailed \/ moving)
      /\ gone.pending = raised.pending /\ gone.records = raised.records
      /\ gone.approved = raised.approved /\ gone.saw = raised.saw
  BY <1>5 DEF ChildStates
<1> HIDE DEF gone
<1>8. session.id \in Nat
  BY <1>1, <1>2, HasMemory DEF ResumedSessions, WorkingSessions, IsWorking
<1>9. /\ SessionTypes' /\ session'.mem = gone
      /\ session'.pc = IF gone.failed THEN "ended" ELSE "ready"
  BY <1>6, <1>7, <1>8 DEF SessionTypes, ResumedSessions, BetweenPlaces
<1>10. session.mem.stop = 0 \/ saved.stop # 0
  BY <1>4
<1>11. raised.stop = 0 => saved.stop = 0
  BY <1>1, <1>2, <1>4, <1>5, ChildFields
<1> USE DEF ScopeInv, ScopeTypes, MemoryFollowsFile, StopEnds, AuditIsReady,
   WritesAreAudited, AuditOwed, OwedSnapshot, Untouched, RemovalIsRecorded, IsMoving,
   Scope!At, Scope!Mem
<1>12. ScopeTypes'
  BY <1>1, <1>2, <1>4, <1>5, <1>6, <1>7, <1>9, <1>11
<1>13. MemoryFollowsFile'
  BY <1>1, <1>2, <1>4, <1>5, <1>6, <1>7, <1>9, <1>11
<1>14. StopEnds'
  BY <1>1, <1>2, <1>4, <1>5, <1>6, <1>7, <1>9, <1>11
<1>15. AuditIsReady'
  BY <1>1, <1>2, <1>4, <1>5, <1>6, <1>7, <1>9, <1>11
<1>16. WritesAreAudited'
  BY <1>1, <1>2, <1>4, <1>5, <1>6, <1>7, <1>9, <1>11
<1>17. RemovalIsRecorded'
  BY <1>1, <1>2, <1>4, <1>5, <1>6, <1>7, <1>9, <1>11
<1>18. saved'.stop >= saved.stop
  BY <1>1, <1>2, <1>4, <1>5, <1>6, <1>7, <1>9, <1>11, ChildFields
<1> QED
  BY <1>12, <1>13, <1>14, <1>15, <1>16, <1>17, <1>18 DEF ScopeInv

LEMMA Scope_End ==
    ASSUME ScopeInv, Scope!End
    PROVE  ScopeInv' /\ saved'.stop >= saved.stop
<1>1. session.pc \in {"ended", "ready"}
  BY DEF Scope!End, Scope!At
<1>2. /\ saved \in ChildStates /\ worktree \in FileTrees
      /\ snapshots \in SnapshotPairs /\ count \in Counts /\ SessionTypes
  BY DEF ScopeInv, ScopeTypes
<1>3. session' = Scope!NoSession
  BY DEF Scope!End
<1>4. SessionTypes' /\ session'.pc = "idle"
  BY <1>3 DEF SessionTypes, Scope!NoSession
<1>5. worktree' = worktree /\ saved' = saved /\ snapshots' = snapshots
      /\ count' \in Counts
  BY <1>2 DEF Scope!End, Scope!Spend, Counts
<1> USE DEF ScopeInv, ScopeTypes, MemoryFollowsFile, StopEnds, AuditIsReady,
   WritesAreAudited, AuditOwed, OwedSnapshot, Untouched, RemovalIsRecorded, IsMoving,
   Scope!At, Scope!Mem
<1>6. ScopeTypes'
  BY <1>1, <1>2, <1>4, <1>5
<1>7. MemoryFollowsFile'
  BY <1>1, <1>2, <1>4, <1>5
<1>8. StopEnds'
  BY <1>1, <1>2, <1>4, <1>5
<1>9. AuditIsReady'
  BY <1>1, <1>2, <1>4, <1>5
<1>10. WritesAreAudited'
  BY <1>1, <1>2, <1>4, <1>5
<1>11. RemovalIsRecorded'
  BY <1>1, <1>2, <1>4, <1>5
<1>12. saved'.stop >= saved.stop
  BY <1>1, <1>2, <1>4, <1>5, ChildFields
<1> QED
  BY <1>6, <1>7, <1>8, <1>9, <1>10, <1>11, <1>12 DEF ScopeInv

LEMMA Scope_Kill ==
    ASSUME ScopeInv, Scope!Kill
    PROVE  ScopeInv' /\ saved'.stop >= saved.stop
<1>1. session.pc # "idle"
  BY DEF Scope!Kill, Scope!At
<1>2. /\ saved \in ChildStates /\ worktree \in FileTrees
      /\ snapshots \in SnapshotPairs /\ count \in Counts /\ SessionTypes
  BY DEF ScopeInv, ScopeTypes
<1>3. session' = Scope!NoSession
  BY DEF Scope!Kill
<1>4. SessionTypes' /\ session'.pc = "idle"
  BY <1>3 DEF SessionTypes, Scope!NoSession
<1>5. worktree' = worktree /\ saved' = saved /\ snapshots' = snapshots
      /\ count' \in Counts
  BY <1>2 DEF Scope!Kill, Scope!Spend, Counts
<1> USE DEF ScopeInv, ScopeTypes, MemoryFollowsFile, StopEnds, AuditIsReady,
   WritesAreAudited, AuditOwed, OwedSnapshot, Untouched, RemovalIsRecorded, IsMoving,
   Scope!At, Scope!Mem
<1>6. ScopeTypes'
  BY <1>1, <1>2, <1>4, <1>5
<1>7. MemoryFollowsFile'
  BY <1>1, <1>2, <1>4, <1>5
<1>8. StopEnds'
  BY <1>1, <1>2, <1>4, <1>5
<1>9. AuditIsReady'
  BY <1>1, <1>2, <1>4, <1>5
<1>10. WritesAreAudited'
  BY <1>1, <1>2, <1>4, <1>5
<1>11. RemovalIsRecorded'
  BY <1>1, <1>2, <1>4, <1>5
<1>12. saved'.stop >= saved.stop
  BY <1>1, <1>2, <1>4, <1>5, ChildFields
<1> QED
  BY <1>6, <1>7, <1>8, <1>9, <1>10, <1>11, <1>12 DEF ScopeInv

LEMMA Scope_StartAgent ==
    ASSUME ScopeInv, NEW agent \in Writers, NEW errors \in {"none", "build", "test", "check"},
           Scope!StartAgent(agent, errors)
    PROVE  ScopeInv' /\ saved'.stop >= saved.stop
<1>1. session \in ResumedSessions /\ session.pc = "ready" /\ session.mem \in ChildStates
  BY ResumedAt, HasMemory DEF ScopeInv, ScopeTypes, Scope!StartAgent, Scope!At
<1>2. /\ saved \in ChildStates /\ worktree \in FileTrees
      /\ snapshots \in SnapshotPairs /\ count \in Counts /\ SessionTypes
  BY DEF ScopeInv, ScopeTypes
<1>4. /\ session.mem.failed = saved.failed /\ session.mem.done = saved.done
      /\ session.mem.stop = saved.stop /\ session.mem.pending = saved.pending
      /\ session.mem.records = saved.records /\ session.mem.saw = saved.saw
      /\ session.mem.approved => saved.approved
  BY <1>1 DEF ScopeInv, MemoryFollowsFile, Scope!Mem
<1> DEFINE policy == Scope!Policy(agent, errors)
           own == session.mem.candidate # Scope!None /\ session.mem.candidate.session = session.id
           m == [session.mem EXCEPT !.pending = policy,
                                    !.candidate = IF own THEN @ ELSE Scope!None]
<1>5. policy \in AuditPolicies /\ policy.agent = agent /\ policy.boundary = "outer"
  BY DEF Scope!Policy, AuditPolicies, Scope!Declared
<1>6. /\ saved' = m
      /\ session' = [pc |-> "outer", mem |-> m, id |-> session.id, agent |-> agent,
                     errors |-> errors, policy |-> policy, before |-> worktree,
                     base |-> worktree, attempt |-> 0, outcome |-> "none",
                     confirmed |-> FALSE, stopped |-> FALSE, verified |-> FALSE]
      /\ worktree' = worktree /\ snapshots' = snapshots /\ count' = count
      /\ ~session.mem.done
  BY DEF Scope!StartAgent, Scope!Mem
<1> HIDE DEF policy, own
<1>7. /\ m \in ChildStates /\ m.pending = policy /\ m.failed = session.mem.failed
      /\ m.done = session.mem.done /\ m.stop = session.mem.stop
      /\ m.records = session.mem.records /\ m.saw = session.mem.saw
      /\ m.approved = session.mem.approved
  BY <1>1, <1>5 DEF ChildStates
<1> HIDE DEF m
<1>8. session.id \in Nat
  BY <1>1 DEF ResumedSessions
<1>9. /\ IsWorking(session') /\ SessionTypes' /\ session'.pc = "outer"
         /\ session'.mem = m
      /\ session'.policy = policy
  BY <1>2, <1>5, <1>6, <1>7, <1>8
     DEF IsWorking, WorkingSessions, WorkingPlaces, SessionTypes
<1> USE DEF ScopeInv, ScopeTypes, MemoryFollowsFile, StopEnds, AuditIsReady,
   WritesAreAudited, AuditOwed, OwedSnapshot, Untouched, RemovalIsRecorded, IsMoving,
   Scope!At, Scope!Mem
<1>10. ScopeTypes'
  BY <1>1, <1>2, <1>4, <1>5, <1>6, <1>7, <1>9
<1>11. MemoryFollowsFile'
  BY <1>1, <1>2, <1>4, <1>5, <1>6, <1>7, <1>9
<1>12. StopEnds'
  BY <1>1, <1>2, <1>4, <1>5, <1>6, <1>7, <1>9
<1>13. AuditIsReady'
  BY <1>1, <1>2, <1>4, <1>5, <1>6, <1>7, <1>9
<1>14. WritesAreAudited'
  BY <1>1, <1>2, <1>4, <1>5, <1>6, <1>7, <1>9
<1>15. RemovalIsRecorded'
  BY <1>1, <1>2, <1>4, <1>5, <1>6, <1>7, <1>9
<1>16. saved'.stop >= saved.stop
  BY <1>1, <1>2, <1>4, <1>5, <1>6, <1>7, <1>9, ChildFields
<1> QED
  BY <1>10, <1>11, <1>12, <1>13, <1>14, <1>15, <1>16 DEF ScopeInv

LEMMA Scope_TakeOuterSnapshot ==
    ASSUME ScopeInv, Scope!TakeOuterSnapshot
    PROVE  ScopeInv' /\ saved'.stop >= saved.stop
<1>1. session \in WorkingSessions /\ IsWorking(session) /\ session.pc = "outer"
  BY WorkingAt
     DEF ScopeInv, ScopeTypes, Scope!TakeOuterSnapshot, Scope!At, WorkingPlaces
<1>2. /\ saved \in ChildStates /\ worktree \in FileTrees
      /\ snapshots \in SnapshotPairs /\ count \in Counts /\ SessionTypes
  BY DEF ScopeInv, ScopeTypes
<1>3. /\ session.mem \in ChildStates /\ session.agent \in Writers
      /\ session.policy \in AuditPolicies /\ session.before \in FileTrees
      /\ session.policy.agent = session.agent /\ session.policy.boundary = "outer"
  BY <1>1, WorkingFields
<1>4. /\ session.mem.failed = saved.failed /\ session.mem.done = saved.done
      /\ session.mem.stop = saved.stop /\ session.mem.pending = saved.pending
      /\ session.mem.records = saved.records /\ session.mem.saw = saved.saw
      /\ session.mem.approved => saved.approved
  BY <1>1 DEF ScopeInv, MemoryFollowsFile, Scope!Mem
<1>5. worktree' = worktree
  BY DEF Scope!TakeOuterSnapshot
<1>6. CASE /\ Scope!SnapshotWorks
           /\ snapshots' = [snapshots EXCEPT !.outer = [agent |-> session.agent,
                   files |-> worktree]]
           /\ session' = [session EXCEPT !.pc = IF session.agent = "tool" THEN "writing" ELSE "call",
                                         !.before = worktree]
           /\ UNCHANGED saved
  <2>1. /\ snapshots' \in SnapshotPairs /\ snapshots'.outer.files = worktree
        /\ snapshots'.outer # Scope!None
    <3> DEFINE snapshot == [agent |-> session.agent, files |-> worktree]
    <3>1. snapshot \in AuditSnapshots /\ snapshot # Scope!None
          /\ snapshot.files = worktree
      BY <1>2, <1>3, SnapshotFields
    <3>2. snapshots' = [snapshots EXCEPT !.outer = snapshot]
      BY <1>6
    <3> HIDE DEF snapshot
    <3> QED
      BY <1>2, <3>1, <3>2 DEF SnapshotPairs
  <2>2. /\ IsWorking(session') /\ SessionTypes' /\ session'.mem = session.mem
        /\ session'.pc = IF session.agent = "tool" THEN "writing" ELSE "call"
        /\ session'.agent = session.agent /\ session'.before = worktree
        /\ session'.policy = session.policy
    BY <1>1, <1>2, <1>3, <1>6
       DEF IsWorking, WorkingSessions, SessionTypes, WorkingPlaces
  <2>3. saved' = saved /\ count' = count
    BY <1>6 DEF Scope!SnapshotWorks
  <2>4. saved.pending = session.policy /\ saved.pending # Scope!None
    BY <1>1, <1>3, PolicyFields DEF ScopeInv, AuditIsReady, Scope!At
  <2> USE DEF ScopeInv, ScopeTypes, MemoryFollowsFile, StopEnds, AuditIsReady,
     WritesAreAudited, AuditOwed, OwedSnapshot, Untouched, RemovalIsRecorded, IsMoving,
     Scope!At, Scope!Mem
  <2>5. ScopeTypes'
    BY <1>1, <1>2, <1>3, <1>4, <1>5, <2>1, <2>2, <2>3, <2>4
  <2>6. MemoryFollowsFile'
    BY <1>1, <1>2, <1>3, <1>4, <1>5, <2>1, <2>2, <2>3, <2>4
  <2>7. StopEnds'
    BY <1>1, <1>2, <1>3, <1>4, <1>5, <2>1, <2>2, <2>3, <2>4
  <2>8. AuditIsReady'
    BY <1>1, <1>2, <1>3, <1>4, <1>5, <2>1, <2>2, <2>3, <2>4
  <2>9. WritesAreAudited'
    BY <1>1, <1>2, <1>3, <1>4, <1>5, <2>1, <2>2, <2>3, <2>4
  <2>10. RemovalIsRecorded'
    BY <1>1, <1>2, <1>3, <1>4, <1>5, <2>1, <2>2, <2>3, <2>4
  <2>11. saved'.stop >= saved.stop
    BY <1>1, <1>2, <1>3, <1>4, <1>5, <2>1, <2>2, <2>3, <2>4, ChildFields
  <2> QED
    BY <2>5, <2>6, <2>7, <2>8, <2>9, <2>10, <2>11 DEF ScopeInv
<1>7. CASE /\ Scope!SnapshotFails
           /\ Scope!Save(Scope!SetStop(session.mem, Scope!ScopeViolation), "clear")
           /\ UNCHANGED snapshots
  <2> DEFINE m == Scope!SetStop(session.mem, Scope!ScopeViolation)
  <2>1. /\ m \in ChildStates /\ m.failed = TRUE /\ m.done = FALSE
        /\ m.stop >= session.mem.stop /\ m.stop # 0 /\ m.pending = session.mem.pending
        /\ m.records = session.mem.records /\ m.approved = session.mem.approved
        /\ m.saw = session.mem.saw
    BY <1>3, ViolationStops
  <2>2. session' = [session EXCEPT !.mem = m, !.pc = "clear"] /\ saved' = m
    BY <1>7 DEF Scope!Save
  <2> HIDE DEF m
  <2>3. SessionTypes' /\ session'.pc = "clear" /\ session'.mem = m
    BY <1>1, <1>2, <2>1, <2>2, GoesOn
  <2>4. snapshots' = snapshots /\ count' \in Counts
    BY <1>2, <1>7 DEF Scope!SnapshotFails, Scope!Spend, Counts
  <2> USE DEF ScopeInv, ScopeTypes, MemoryFollowsFile, StopEnds, AuditIsReady,
     WritesAreAudited, AuditOwed, OwedSnapshot, Untouched, RemovalIsRecorded, IsMoving,
     Scope!At, Scope!Mem
  <2>5. ScopeTypes'
    BY <1>1, <1>2, <1>4, <1>5, <2>1, <2>2, <2>3, <2>4
  <2>6. MemoryFollowsFile'
    BY <1>1, <1>2, <1>4, <1>5, <2>1, <2>2, <2>3, <2>4
  <2>7. StopEnds'
    BY <1>1, <1>2, <1>4, <1>5, <2>1, <2>2, <2>3, <2>4
  <2>8. AuditIsReady'
    BY <1>1, <1>2, <1>4, <1>5, <2>1, <2>2, <2>3, <2>4
  <2>9. WritesAreAudited'
    BY <1>1, <1>2, <1>4, <1>5, <2>1, <2>2, <2>3, <2>4
  <2>10. RemovalIsRecorded'
    BY <1>1, <1>2, <1>4, <1>5, <2>1, <2>2, <2>3, <2>4
  <2>11. saved'.stop >= saved.stop
    BY <1>1, <1>2, <1>4, <1>5, <2>1, <2>2, <2>3, <2>4, ChildFields
  <2> QED
    BY <2>5, <2>6, <2>7, <2>8, <2>9, <2>10, <2>11 DEF ScopeInv
<1> QED
  BY <1>6, <1>7 DEF Scope!TakeOuterSnapshot, Scope!Mem

LEMMA Scope_BeginCall ==
    ASSUME ScopeInv, Scope!BeginCall
    PROVE  ScopeInv' /\ saved'.stop >= saved.stop
<1>1. session \in WorkingSessions /\ IsWorking(session) /\ session.pc = "call"
  BY WorkingAt DEF ScopeInv, ScopeTypes, Scope!BeginCall, Scope!At, WorkingPlaces
<1>2. /\ saved \in ChildStates /\ worktree \in FileTrees
      /\ snapshots \in SnapshotPairs /\ count \in Counts /\ SessionTypes
  BY DEF ScopeInv, ScopeTypes
<1>3. /\ session.mem \in ChildStates /\ session.agent \in Writers
      /\ session.policy \in AuditPolicies /\ session.before \in FileTrees
      /\ session.policy.agent = session.agent /\ session.policy.boundary = "outer"
  BY <1>1, WorkingFields
<1>4. /\ session.mem.failed = saved.failed /\ session.mem.done = saved.done
      /\ session.mem.stop = saved.stop /\ session.mem.pending = saved.pending
      /\ session.mem.records = saved.records /\ session.mem.saw = saved.saw
      /\ session.mem.approved => saved.approved
  BY <1>1 DEF ScopeInv, MemoryFollowsFile, Scope!Mem
<1>5. session' = [session EXCEPT !.pc = "attempt", !.base = worktree, !.attempt = 0]
  BY DEF Scope!BeginCall, Scope!Mem
<1>6. /\ IsWorking(session') /\ SessionTypes' /\ session'.pc = "attempt"
      /\ session'.mem = session.mem /\ session'.agent = session.agent
      /\ session'.policy = session.policy /\ session'.before = session.before
  BY <1>1, <1>2, <1>3, <1>4, <1>5
     DEF IsWorking, WorkingSessions, SessionTypes, WorkingPlaces
<1>7. worktree' = worktree /\ saved' = saved /\ snapshots' = snapshots /\ count' = count
  BY <1>1, <1>2, <1>3, <1>4, <1>5, <1>6 DEF Scope!BeginCall
<1> USE DEF ScopeInv, ScopeTypes, MemoryFollowsFile, StopEnds, AuditIsReady,
   WritesAreAudited, AuditOwed, OwedSnapshot, Untouched, RemovalIsRecorded, IsMoving,
   Scope!At, Scope!Mem
<1>8. ScopeTypes'
  BY <1>1, <1>2, <1>3, <1>4, <1>5, <1>6, <1>7
<1>9. MemoryFollowsFile'
  BY <1>1, <1>2, <1>3, <1>4, <1>5, <1>6, <1>7
<1>10. StopEnds'
  BY <1>1, <1>2, <1>3, <1>4, <1>5, <1>6, <1>7
<1>11. AuditIsReady'
  BY <1>1, <1>2, <1>3, <1>4, <1>5, <1>6, <1>7
<1>12. WritesAreAudited'
  BY <1>1, <1>2, <1>3, <1>4, <1>5, <1>6, <1>7
<1>13. RemovalIsRecorded'
  BY <1>1, <1>2, <1>3, <1>4, <1>5, <1>6, <1>7
<1>14. saved'.stop >= saved.stop
  BY <1>1, <1>2, <1>3, <1>4, <1>5, <1>6, <1>7, ChildFields
<1> QED
  BY <1>8, <1>9, <1>10, <1>11, <1>12, <1>13, <1>14 DEF ScopeInv

LEMMA Scope_SnapshotAttempt ==
    ASSUME ScopeInv, Scope!SnapshotAttempt
    PROVE  ScopeInv' /\ saved'.stop >= saved.stop
<1>1. session \in WorkingSessions /\ IsWorking(session) /\ session.pc = "attempt"
  BY WorkingAt DEF ScopeInv, ScopeTypes, Scope!SnapshotAttempt, Scope!At, WorkingPlaces
<1>2. /\ saved \in ChildStates /\ worktree \in FileTrees
      /\ snapshots \in SnapshotPairs /\ count \in Counts /\ SessionTypes
  BY DEF ScopeInv, ScopeTypes
<1>3. /\ session.mem \in ChildStates /\ session.agent \in Writers
      /\ session.policy \in AuditPolicies /\ session.before \in FileTrees
      /\ session.policy.agent = session.agent /\ session.policy.boundary = "outer"
  BY <1>1, WorkingFields
<1>4. /\ session.mem.failed = saved.failed /\ session.mem.done = saved.done
      /\ session.mem.stop = saved.stop /\ session.mem.pending = saved.pending
      /\ session.mem.records = saved.records /\ session.mem.saw = saved.saw
      /\ session.mem.approved => saved.approved
  BY <1>1 DEF ScopeInv, MemoryFollowsFile, Scope!Mem
<1>5. worktree' = worktree
  BY DEF Scope!SnapshotAttempt
<1>6. CASE /\ Scope!SnapshotWorks
           /\ snapshots' = [snapshots EXCEPT !.attempt = [agent |-> session.agent,
                   files |-> worktree]]
           /\ session' = [session EXCEPT !.pc = "pend", !.before = worktree,
                                         !.attempt = @ + 1, !.verified = FALSE]
           /\ UNCHANGED saved
  <2>1. /\ snapshots' \in SnapshotPairs /\ snapshots'.attempt.files = worktree
        /\ snapshots'.attempt # Scope!None
    <3> DEFINE snapshot == [agent |-> session.agent, files |-> worktree]
    <3>1. snapshot \in AuditSnapshots /\ snapshot # Scope!None
          /\ snapshot.files = worktree
      BY <1>2, <1>3, SnapshotFields
    <3>2. snapshots' = [snapshots EXCEPT !.attempt = snapshot]
      BY <1>6
    <3> HIDE DEF snapshot
    <3> QED
      BY <1>2, <3>1, <3>2 DEF SnapshotPairs
  <2>2. /\ IsWorking(session') /\ SessionTypes' /\ session'.pc = "pend"
        /\ session'.mem = session.mem /\ session'.agent = session.agent
        /\ session'.policy = session.policy /\ session'.before = worktree
    <3> DEFINE next == session.attempt + 1
    <3>1. next \in Nat
      BY <1>1 DEF WorkingSessions
    <3>2. session' = [session EXCEPT !.pc = "pend", !.before = worktree,
                                     !.attempt = next, !.verified = FALSE]
      BY <1>6
    <3> HIDE DEF next
    <3> QED
      BY <1>1, <1>2, <1>3, <3>1, <3>2
         DEF IsWorking, WorkingSessions, SessionTypes, WorkingPlaces
  <2>3. saved' = saved /\ count' = count
    BY <1>6 DEF Scope!SnapshotWorks
  <2> USE DEF ScopeInv, ScopeTypes, MemoryFollowsFile, StopEnds, AuditIsReady,
     WritesAreAudited, AuditOwed, OwedSnapshot, Untouched, RemovalIsRecorded, IsMoving,
     Scope!At, Scope!Mem
  <2>4. ScopeTypes'
    BY <1>1, <1>2, <1>3, <1>4, <1>5, <2>1, <2>2, <2>3
  <2>5. MemoryFollowsFile'
    BY <1>1, <1>2, <1>3, <1>4, <1>5, <2>1, <2>2, <2>3
  <2>6. StopEnds'
    BY <1>1, <1>2, <1>3, <1>4, <1>5, <2>1, <2>2, <2>3
  <2>7. AuditIsReady'
    BY <1>1, <1>2, <1>3, <1>4, <1>5, <2>1, <2>2, <2>3
  <2>8. WritesAreAudited'
    BY <1>1, <1>2, <1>3, <1>4, <1>5, <2>1, <2>2, <2>3
  <2>9. RemovalIsRecorded'
    BY <1>1, <1>2, <1>3, <1>4, <1>5, <2>1, <2>2, <2>3
  <2>10. saved'.stop >= saved.stop
    BY <1>1, <1>2, <1>3, <1>4, <1>5, <2>1, <2>2, <2>3, ChildFields
  <2> QED
    BY <2>4, <2>5, <2>6, <2>7, <2>8, <2>9, <2>10 DEF ScopeInv
<1>7. CASE /\ Scope!SnapshotFails
           /\ saved' = Scope!SetStop(session.mem, Scope!ScopeViolation)
           /\ session' = [session EXCEPT !.pc = "restored",
                            !.mem = Scope!SetStop(session.mem, Scope!ScopeViolation),
                            !.stopped = TRUE, !.verified = FALSE]
           /\ UNCHANGED snapshots
  <2> DEFINE m == Scope!SetStop(session.mem, Scope!ScopeViolation)
  <2>1. /\ m \in ChildStates /\ m.failed = TRUE /\ m.done = FALSE
        /\ m.stop >= session.mem.stop /\ m.stop # 0 /\ m.pending = session.mem.pending
        /\ m.records = session.mem.records /\ m.approved = session.mem.approved
        /\ m.saw = session.mem.saw
    BY <1>3, ViolationStops
  <2>2. saved' = m /\ session' = [session EXCEPT !.pc = "restored", !.mem = m,
                                                 !.stopped = TRUE, !.verified = FALSE]
    BY <1>7
  <2> HIDE DEF m
  <2>3. /\ IsWorking(session') /\ SessionTypes' /\ session'.pc = "restored"
        /\ session'.mem = m /\ session'.agent = session.agent
        /\ session'.policy = session.policy /\ session'.before = session.before
    BY <1>1, <1>2, <1>3, <2>1, <2>2
       DEF IsWorking, WorkingSessions, SessionTypes, WorkingPlaces
  <2>4. snapshots' = snapshots /\ count' \in Counts
    BY <1>2, <1>7 DEF Scope!SnapshotFails, Scope!Spend, Counts
  <2> USE DEF ScopeInv, ScopeTypes, MemoryFollowsFile, StopEnds, AuditIsReady,
     WritesAreAudited, AuditOwed, OwedSnapshot, Untouched, RemovalIsRecorded, IsMoving,
     Scope!At, Scope!Mem
  <2>5. ScopeTypes'
    BY <1>1, <1>2, <1>4, <1>5, <2>1, <2>2, <2>3, <2>4
  <2>6. MemoryFollowsFile'
    BY <1>1, <1>2, <1>4, <1>5, <2>1, <2>2, <2>3, <2>4
  <2>7. StopEnds'
    BY <1>1, <1>2, <1>4, <1>5, <2>1, <2>2, <2>3, <2>4
  <2>8. AuditIsReady'
    BY <1>1, <1>2, <1>4, <1>5, <2>1, <2>2, <2>3, <2>4
  <2>9. WritesAreAudited'
    BY <1>1, <1>2, <1>4, <1>5, <2>1, <2>2, <2>3, <2>4
  <2>10. RemovalIsRecorded'
    BY <1>1, <1>2, <1>4, <1>5, <2>1, <2>2, <2>3, <2>4
  <2>11. saved'.stop >= saved.stop
    BY <1>1, <1>2, <1>4, <1>5, <2>1, <2>2, <2>3, <2>4, ChildFields
  <2> QED
    BY <2>5, <2>6, <2>7, <2>8, <2>9, <2>10, <2>11 DEF ScopeInv
<1> QED
  BY <1>6, <1>7 DEF Scope!SnapshotAttempt, Scope!Mem

LEMMA Scope_PendAttempt ==
    ASSUME ScopeInv, Scope!PendAttempt
    PROVE  ScopeInv' /\ saved'.stop >= saved.stop
<1>1. session \in WorkingSessions /\ IsWorking(session) /\ session.pc = "pend"
  BY WorkingAt DEF ScopeInv, ScopeTypes, Scope!PendAttempt, Scope!At, WorkingPlaces
<1>2. /\ saved \in ChildStates /\ worktree \in FileTrees
      /\ snapshots \in SnapshotPairs /\ count \in Counts /\ SessionTypes
  BY DEF ScopeInv, ScopeTypes
<1>3. /\ session.mem \in ChildStates /\ session.agent \in Writers
      /\ session.policy \in AuditPolicies /\ session.before \in FileTrees
      /\ session.policy.agent = session.agent /\ session.policy.boundary = "outer"
  BY <1>1, WorkingFields
<1>4. /\ session.mem.failed = saved.failed /\ session.mem.done = saved.done
      /\ session.mem.stop = saved.stop /\ session.mem.pending = saved.pending
      /\ session.mem.records = saved.records /\ session.mem.saw = saved.saw
      /\ session.mem.approved => saved.approved
  BY <1>1 DEF ScopeInv, MemoryFollowsFile, Scope!Mem
<1> DEFINE policy == Scope!AttemptPolicy
           m == [session.mem EXCEPT !.pending = policy]
<1>5. /\ policy \in AuditPolicies /\ policy.agent = session.agent
      /\ policy.boundary = "attempt" /\ policy # Scope!None
  <2>1. policy \in AuditPolicies /\ policy.agent = session.agent
        /\ policy.boundary = "attempt"
    BY <1>3 DEF Scope!AttemptPolicy, AuditPolicies
  <2> QED
    BY <2>1, PolicyFields
<1>6. saved' = m /\ session' = [session EXCEPT !.mem = m, !.pc = "writing"]
  BY DEF Scope!PendAttempt, Scope!Save, Scope!Mem
<1> HIDE DEF policy
<1>7. /\ m \in ChildStates /\ m.pending = policy /\ m.failed = session.mem.failed
      /\ m.done = session.mem.done /\ m.stop = session.mem.stop
      /\ m.records = session.mem.records /\ m.saw = session.mem.saw
      /\ m.approved = session.mem.approved
  BY <1>3, <1>5 DEF ChildStates
<1> HIDE DEF m
<1>8. /\ IsWorking(session') /\ SessionTypes' /\ session'.pc = "writing"
      /\ session'.mem = m /\ session'.agent = session.agent
      /\ session'.policy = session.policy /\ session'.before = session.before
  BY <1>1, <1>3, <1>6, <1>7 DEF IsWorking, WorkingSessions, SessionTypes, WorkingPlaces
<1>9. worktree' = worktree /\ snapshots' = snapshots /\ count' = count
  BY DEF Scope!PendAttempt
<1>10. /\ session.before = snapshots.attempt.files /\ snapshots.attempt # Scope!None
       /\ session.before = worktree
  BY <1>1 DEF ScopeInv, AuditIsReady, Scope!At
<1> USE DEF ScopeInv, ScopeTypes, MemoryFollowsFile, StopEnds, AuditIsReady,
   WritesAreAudited, AuditOwed, OwedSnapshot, Untouched, RemovalIsRecorded, IsMoving,
   Scope!At, Scope!Mem
<1>11. ScopeTypes'
  BY <1>1, <1>2, <1>3, <1>4, <1>5, <1>6, <1>7, <1>8, <1>9, <1>10
<1>12. MemoryFollowsFile'
  BY <1>1, <1>2, <1>3, <1>4, <1>5, <1>6, <1>7, <1>8, <1>9, <1>10
<1>13. StopEnds'
  BY <1>1, <1>2, <1>3, <1>4, <1>5, <1>6, <1>7, <1>8, <1>9, <1>10
<1>14. AuditIsReady'
  BY <1>1, <1>2, <1>3, <1>4, <1>5, <1>6, <1>7, <1>8, <1>9, <1>10
<1>15. WritesAreAudited'
  BY <1>1, <1>2, <1>3, <1>4, <1>5, <1>6, <1>7, <1>8, <1>9, <1>10
<1>16. RemovalIsRecorded'
  BY <1>1, <1>2, <1>3, <1>4, <1>5, <1>6, <1>7, <1>8, <1>9, <1>10
<1>17. saved'.stop >= saved.stop
  BY <1>1, <1>2, <1>3, <1>4, <1>5, <1>6, <1>7, <1>8, <1>9, <1>10, ChildFields
<1> QED
  BY <1>11, <1>12, <1>13, <1>14, <1>15, <1>16, <1>17 DEF ScopeInv

LEMMA Scope_Write ==
    ASSUME ScopeInv, NEW f \in Scope!Files, Scope!Write(f)
    PROVE  ScopeInv' /\ saved'.stop >= saved.stop
<1>1. session \in WorkingSessions /\ IsWorking(session) /\ session.pc = "writing"
  BY WorkingAt DEF ScopeInv, ScopeTypes, Scope!Write, Scope!At, WorkingPlaces
<1>2. /\ saved \in ChildStates /\ worktree \in FileTrees
      /\ snapshots \in SnapshotPairs /\ count \in Counts /\ SessionTypes
  BY DEF ScopeInv, ScopeTypes
<1>3. /\ session.mem \in ChildStates /\ session.agent \in Writers
      /\ session.policy \in AuditPolicies /\ session.before \in FileTrees
      /\ session.policy.agent = session.agent /\ session.policy.boundary = "outer"
  BY <1>1, WorkingFields
<1>4. /\ session.mem.failed = saved.failed /\ session.mem.done = saved.done
      /\ session.mem.stop = saved.stop /\ session.mem.pending = saved.pending
      /\ session.mem.records = saved.records /\ session.mem.saw = saved.saw
      /\ session.mem.approved => saved.approved
  BY <1>1 DEF ScopeInv, MemoryFollowsFile, Scope!Mem
<1> DEFINE content == [by |-> session.agent, n |-> count.edits + 1,
                       id |-> IF worktree[f] = Scope!Absent THEN count.edits + 1
                              ELSE worktree[f].id]
<1>5. content \in FileContents /\ content.by = session.agent /\ content # Scope!Absent
  <2>1. count.edits + 1 \in Nat /\ worktree[f].id \in Nat
    BY <1>2 DEF Counts, FileTrees, FileContents
  <2>2. session.agent \in Writers /\ "nobody" \notin Writers
    BY <1>3 DEF Writers
  <2> QED
    BY <2>1, <2>2 DEF FileContents, Scope!Absent
<1>6. worktree' = [worktree EXCEPT ![f] = content]
  BY DEF Scope!Write
<1> HIDE DEF content
<1>7. /\ worktree' \in FileTrees
      /\ \A g \in Scope!Files : worktree'[g] = IF g = f THEN content ELSE worktree[g]
  BY <1>2, <1>5, <1>6 DEF FileTrees
<1>8. "new" \in Scope!Files /\ "test" \in Scope!Files
  BY DEF Scope!Files
<1>9. session' = session /\ saved' = saved /\ snapshots' = snapshots
      /\ count' \in Counts
  BY <1>2 DEF Scope!Write, Scope!Spend, Counts
<1>10. SessionTypes'
  BY <1>2, <1>9 DEF SessionTypes
<1> USE DEF ScopeInv, ScopeTypes, MemoryFollowsFile, StopEnds, AuditIsReady,
   WritesAreAudited, AuditOwed, OwedSnapshot, Untouched, RemovalIsRecorded, IsMoving,
   Scope!At, Scope!Mem
<1>11. ScopeTypes'
  BY <1>1, <1>2, <1>3, <1>4, <1>5, <1>7, <1>8, <1>9, <1>10
<1>12. MemoryFollowsFile'
  BY <1>1, <1>2, <1>3, <1>4, <1>5, <1>7, <1>8, <1>9, <1>10
<1>13. StopEnds'
  BY <1>1, <1>2, <1>3, <1>4, <1>5, <1>7, <1>8, <1>9, <1>10
<1>14. AuditIsReady'
  BY <1>1, <1>2, <1>3, <1>4, <1>5, <1>7, <1>8, <1>9, <1>10
<1>15. WritesAreAudited'
  BY <1>1, <1>2, <1>3, <1>4, <1>5, <1>7, <1>8, <1>9, <1>10
<1>16. RemovalIsRecorded'
  BY <1>1, <1>2, <1>3, <1>4, <1>5, <1>7, <1>8, <1>9, <1>10
<1>17. saved'.stop >= saved.stop
  BY <1>1, <1>2, <1>3, <1>4, <1>5, <1>7, <1>8, <1>9, <1>10, ChildFields
<1> QED
  BY <1>11, <1>12, <1>13, <1>14, <1>15, <1>16, <1>17 DEF ScopeInv

LEMMA Scope_ProviderEnds ==
    ASSUME ScopeInv, NEW outcome \in {"ok", "transient", "fatal"}, Scope!ProviderEnds(outcome)
    PROVE  ScopeInv' /\ saved'.stop >= saved.stop
<1>1. session \in WorkingSessions /\ IsWorking(session) /\ session.pc = "writing"
  BY WorkingAt DEF ScopeInv, ScopeTypes, Scope!ProviderEnds, Scope!At, WorkingPlaces
<1>2. /\ saved \in ChildStates /\ worktree \in FileTrees
      /\ snapshots \in SnapshotPairs /\ count \in Counts /\ SessionTypes
  BY DEF ScopeInv, ScopeTypes
<1>3. /\ session.mem \in ChildStates /\ session.agent \in Writers
      /\ session.policy \in AuditPolicies /\ session.before \in FileTrees
      /\ session.policy.agent = session.agent /\ session.policy.boundary = "outer"
  BY <1>1, WorkingFields
<1>4. /\ session.mem.failed = saved.failed /\ session.mem.done = saved.done
      /\ session.mem.stop = saved.stop /\ session.mem.pending = saved.pending
      /\ session.mem.records = saved.records /\ session.mem.saw = saved.saw
      /\ session.mem.approved => saved.approved
  BY <1>1 DEF ScopeInv, MemoryFollowsFile, Scope!Mem
<1>5. /\ session' = [session EXCEPT !.pc = "audit", !.outcome = outcome]
      /\ worktree' = worktree /\ saved' = saved /\ snapshots' = snapshots
         /\ count' = count
  BY DEF Scope!ProviderEnds
<1>6. /\ IsWorking(session') /\ SessionTypes' /\ session'.pc = "audit"
      /\ session'.mem = session.mem /\ session'.agent = session.agent
      /\ session'.policy = session.policy /\ session'.before = session.before
  BY <1>1, <1>2, <1>3, <1>5 DEF IsWorking, WorkingSessions, SessionTypes, WorkingPlaces
<1> USE DEF ScopeInv, ScopeTypes, MemoryFollowsFile, StopEnds, AuditIsReady,
   WritesAreAudited, AuditOwed, OwedSnapshot, Untouched, RemovalIsRecorded, IsMoving,
   Scope!At, Scope!Mem
<1>7. ScopeTypes'
  BY <1>1, <1>2, <1>3, <1>4, <1>5, <1>6
<1>8. MemoryFollowsFile'
  BY <1>1, <1>2, <1>3, <1>4, <1>5, <1>6
<1>9. StopEnds'
  BY <1>1, <1>2, <1>3, <1>4, <1>5, <1>6
<1>10. AuditIsReady'
  BY <1>1, <1>2, <1>3, <1>4, <1>5, <1>6
<1>11. WritesAreAudited'
  BY <1>1, <1>2, <1>3, <1>4, <1>5, <1>6
<1>12. RemovalIsRecorded'
  BY <1>1, <1>2, <1>3, <1>4, <1>5, <1>6
<1>13. saved'.stop >= saved.stop
  BY <1>1, <1>2, <1>3, <1>4, <1>5, <1>6, ChildFields
<1> QED
  BY <1>7, <1>8, <1>9, <1>10, <1>11, <1>12, <1>13 DEF ScopeInv

LEMMA Scope_Audit ==
    ASSUME ScopeInv, Scope!Audit
    PROVE  ScopeInv' /\ saved'.stop >= saved.stop
<1>1. session \in WorkingSessions /\ IsWorking(session) /\ session.pc = "audit"
  BY WorkingAt DEF ScopeInv, ScopeTypes, Scope!Audit, Scope!At, WorkingPlaces
<1>2. /\ saved \in ChildStates /\ worktree \in FileTrees
      /\ snapshots \in SnapshotPairs /\ count \in Counts /\ SessionTypes
  BY DEF ScopeInv, ScopeTypes
<1>3. /\ session.mem \in ChildStates /\ session.agent \in Writers
      /\ session.policy \in AuditPolicies /\ session.before \in FileTrees
      /\ session.policy.agent = session.agent /\ session.policy.boundary = "outer"
  BY <1>1, WorkingFields
<1>4. /\ session.mem.failed = saved.failed /\ session.mem.done = saved.done
      /\ session.mem.stop = saved.stop /\ session.mem.pending = saved.pending
      /\ session.mem.records = saved.records /\ session.mem.saw = saved.saw
      /\ session.mem.approved => saved.approved
  BY <1>1 DEF ScopeInv, MemoryFollowsFile, Scope!Mem
<1> DEFINE bad(trusted) == ~trusted \/ Scope!Violates(session.mem.pending,
         session.before, worktree)
           owned(trusted) == IF trusted /\ session.agent # "tool"
                             THEN [session.mem EXCEPT !.candidate =
                                     Scope!Candidate(session.mem, session.before,
                                        session.outcome = "ok" /\ ~bad(trusted))]
                             ELSE session.mem
           m(trusted) == IF bad(trusted) THEN Scope!SetStop(owned(trusted), Scope!ScopeViolation)
                         ELSE owned(trusted)
<1>5. PICK trusted \in BOOLEAN :
        /\ IF trusted THEN Scope!SnapshotWorks ELSE Scope!SnapshotFails
        /\ saved' = m(trusted)
        /\ session' = [session EXCEPT !.mem = m(trusted), !.stopped = bad(trusted),
                          !.pc = IF session.agent = "tool" THEN "clear" ELSE "restore"]
  BY DEF Scope!Audit, Scope!Mem
<1>6. /\ owned(trusted) \in ChildStates /\ owned(trusted).failed = session.mem.failed
      /\ owned(trusted).done = session.mem.done
         /\ owned(trusted).stop = session.mem.stop
      /\ owned(trusted).pending = session.mem.pending
      /\ owned(trusted).records = session.mem.records
      /\ owned(trusted).approved = session.mem.approved
         /\ owned(trusted).saw = session.mem.saw
  <2> DEFINE candidate == Scope!Candidate(session.mem, session.before,
                                          session.outcome = "ok" /\ ~bad(trusted))
  <2>1. candidate \in OwnedFiles \cup {Scope!None}
    BY <1>1, <1>2, <1>3, OwnedCandidate
  <2> HIDE DEF candidate
  <2>2. owned(trusted) = [session.mem EXCEPT !.candidate = candidate]
        \/ owned(trusted) = session.mem
    BY DEF candidate
  <2> HIDE DEF owned
  <2> QED
    BY <1>3, <2>1, <2>2 DEF ChildStates
<1>7. /\ m(trusted) \in ChildStates /\ m(trusted).stop >= session.mem.stop
      /\ m(trusted).pending = session.mem.pending
         /\ m(trusted).records = session.mem.records
      /\ m(trusted).approved = session.mem.approved /\ m(trusted).saw = session.mem.saw
      /\ m(trusted).stop # 0 /\ bad(trusted) => m(trusted).failed = TRUE
         /\ m(trusted).done = FALSE
      /\ bad(trusted) => m(trusted).stop # 0
      /\ ~bad(trusted) => /\ m(trusted).stop = session.mem.stop
                          /\ m(trusted).failed = session.mem.failed
                          /\ m(trusted).done = session.mem.done
  <2> HIDE DEF bad, owned
  <2>1. CASE bad(trusted)
    BY <1>6, <2>1, ViolationStops
  <2>2. CASE ~bad(trusted)
    BY <1>3, <1>6, <2>2, ChildFields
  <2> QED
    BY <2>1, <2>2
<1>8. ~bad(trusted) => ~Scope!Violates(saved.pending, session.before, worktree)
  BY <1>4
<1> DEFINE b == bad(trusted)
           n == m(trusted)
<1>9. b \in BOOLEAN
  OBVIOUS
<1>10. saved' = n /\ session' = [session EXCEPT !.mem = n, !.stopped = b,
                          !.pc = IF session.agent = "tool" THEN "clear" ELSE "restore"]
  BY <1>5
<1> HIDE DEF n, b, m, bad, owned
<1>11. /\ n \in ChildStates /\ n.stop >= session.mem.stop
          /\ n.pending = session.mem.pending
       /\ n.records = session.mem.records
       /\ n.approved = session.mem.approved /\ n.saw = session.mem.saw
       /\ b => n.stop # 0 /\ n.failed = TRUE /\ n.done = FALSE
       /\ ~b => /\ n.stop = session.mem.stop /\ n.failed = session.mem.failed
                /\ n.done = session.mem.done
                /\ ~Scope!Violates(saved.pending, session.before, worktree)
  BY <1>7, <1>8 DEF n, b
<1>12. /\ IsWorking(session') /\ SessionTypes' /\ session'.mem = n
       /\ session'.pc = IF session.agent = "tool" THEN "clear" ELSE "restore"
  BY <1>1, <1>2, <1>3, <1>9, <1>10, <1>11
     DEF IsWorking, WorkingSessions, SessionTypes, WorkingPlaces
<1>13. worktree' = worktree /\ snapshots' = snapshots /\ count' \in Counts
  BY <1>2, <1>5
     DEF Scope!Audit, Scope!SnapshotWorks, Scope!SnapshotFails, Scope!Spend, Counts
<1>14. saved.stop = 0 /\ ~b => Untouched(worktree)
  <2> SUFFICES ASSUME saved.stop = 0, ~b, ~Untouched(worktree) PROVE FALSE
    OBVIOUS
  <2>1. AuditOwed /\ session.before = OwedSnapshot.files
    BY <1>1 DEF ScopeInv, WritesAreAudited, AuditIsReady
  <2>2. saved.pending \in AuditPolicies
    BY <1>2, <2>1, ChildFields DEF AuditOwed
  <2> QED
    BY <1>2, <1>3, <1>11, <2>1, <2>2, ViolationSeen DEF AuditOwed
<1> USE DEF ScopeInv, ScopeTypes, MemoryFollowsFile, StopEnds, AuditIsReady,
   WritesAreAudited, AuditOwed, OwedSnapshot, Untouched, RemovalIsRecorded, IsMoving,
   Scope!At, Scope!Mem
<1>15. ScopeTypes'
  BY <1>1, <1>2, <1>3, <1>4, <1>10, <1>11, <1>12, <1>13, <1>14
<1>16. MemoryFollowsFile'
  BY <1>1, <1>2, <1>3, <1>4, <1>10, <1>11, <1>12, <1>13, <1>14
<1>17. StopEnds'
  BY <1>1, <1>2, <1>3, <1>4, <1>10, <1>11, <1>12, <1>13, <1>14
<1>18. AuditIsReady'
  BY <1>1, <1>2, <1>3, <1>4, <1>10, <1>11, <1>12, <1>13, <1>14
<1>19. WritesAreAudited'
  BY <1>1, <1>2, <1>3, <1>4, <1>10, <1>11, <1>12, <1>13, <1>14
<1>20. RemovalIsRecorded'
  BY <1>1, <1>2, <1>3, <1>4, <1>10, <1>11, <1>12, <1>13, <1>14
<1>21. saved'.stop >= saved.stop
  BY <1>1, <1>2, <1>3, <1>4, <1>10, <1>11, <1>12, <1>13, <1>14, ChildFields
<1> QED
  BY <1>15, <1>16, <1>17, <1>18, <1>19, <1>20, <1>21 DEF ScopeInv

LEMMA Scope_RestoreOuter ==
    ASSUME ScopeInv, Scope!RestoreOuter
    PROVE  ScopeInv' /\ saved'.stop >= saved.stop
<1>1. session \in WorkingSessions /\ IsWorking(session) /\ session.pc = "restore"
  BY WorkingAt DEF ScopeInv, ScopeTypes, Scope!RestoreOuter, Scope!At, WorkingPlaces
<1>2. /\ saved \in ChildStates /\ worktree \in FileTrees
      /\ snapshots \in SnapshotPairs /\ count \in Counts /\ SessionTypes
  BY DEF ScopeInv, ScopeTypes
<1>3. /\ session.mem \in ChildStates /\ session.agent \in Writers
      /\ session.policy \in AuditPolicies /\ session.before \in FileTrees
      /\ session.policy.agent = session.agent /\ session.policy.boundary = "outer"
  BY <1>1, WorkingFields
<1>4. /\ session.mem.failed = saved.failed /\ session.mem.done = saved.done
      /\ session.mem.stop = saved.stop /\ session.mem.pending = saved.pending
      /\ session.mem.records = saved.records /\ session.mem.saw = saved.saw
      /\ session.mem.approved => saved.approved
  BY <1>1 DEF ScopeInv, MemoryFollowsFile, Scope!Mem
<1> DEFINE m == [session.mem EXCEPT !.pending = session.policy]
<1>5. saved' = m /\ session' = [session EXCEPT !.mem = m, !.pc = "restored"]
  BY DEF Scope!RestoreOuter, Scope!Save, Scope!Mem
<1>6. /\ m \in ChildStates
      /\ m.failed = session.mem.failed
      /\ m.done = session.mem.done
      /\ m.stop = session.mem.stop
      /\ m.pending = session.policy
      /\ m.records = session.mem.records
      /\ m.approved = session.mem.approved
      /\ m.saw = session.mem.saw
  BY <1>1, <1>2, <1>3, <1>4 DEF ChildStates
<1> HIDE DEF m
<1>7. /\ IsWorking(session') /\ SessionTypes' /\ session'.pc = "restored"
      /\ session'.mem = m /\ session'.agent = session.agent
      /\ session'.policy = session.policy /\ session'.before = session.before
  BY <1>1, <1>2, <1>3, <1>4, <1>5, <1>6
     DEF IsWorking, WorkingSessions, SessionTypes, WorkingPlaces
<1>8. worktree' = worktree /\ snapshots' = snapshots /\ count' = count
  BY <1>2 DEF Scope!RestoreOuter
<1> USE DEF ScopeInv, ScopeTypes, MemoryFollowsFile, StopEnds, AuditIsReady,
   WritesAreAudited, AuditOwed, OwedSnapshot, Untouched, RemovalIsRecorded, IsMoving,
   Scope!At, Scope!Mem
<1>9. ScopeTypes'
  BY <1>1, <1>2, <1>3, <1>4, <1>5, <1>6, <1>7, <1>8
<1>10. MemoryFollowsFile'
  BY <1>1, <1>2, <1>3, <1>4, <1>5, <1>6, <1>7, <1>8
<1>11. StopEnds'
  BY <1>1, <1>2, <1>3, <1>4, <1>5, <1>6, <1>7, <1>8
<1>12. AuditIsReady'
  BY <1>1, <1>2, <1>3, <1>4, <1>5, <1>6, <1>7, <1>8
<1>13. WritesAreAudited'
  BY <1>1, <1>2, <1>3, <1>4, <1>5, <1>6, <1>7, <1>8
<1>14. RemovalIsRecorded'
  BY <1>1, <1>2, <1>3, <1>4, <1>5, <1>6, <1>7, <1>8
<1>15. saved'.stop >= saved.stop
  BY <1>1, <1>2, <1>3, <1>4, <1>5, <1>6, <1>7, <1>8, ChildFields
<1> QED
  BY <1>9, <1>10, <1>11, <1>12, <1>13, <1>14, <1>15 DEF ScopeInv

LEMMA Scope_AttemptOver ==
    ASSUME ScopeInv, Scope!AttemptOver
    PROVE  ScopeInv' /\ saved'.stop >= saved.stop
<1>1. session \in WorkingSessions /\ IsWorking(session) /\ session.pc = "restored"
  BY WorkingAt DEF ScopeInv, ScopeTypes, Scope!AttemptOver, Scope!At, WorkingPlaces
<1>2. /\ saved \in ChildStates /\ worktree \in FileTrees
      /\ snapshots \in SnapshotPairs /\ count \in Counts /\ SessionTypes
  BY DEF ScopeInv, ScopeTypes
<1>3. /\ session.mem \in ChildStates /\ session.agent \in Writers
      /\ session.policy \in AuditPolicies /\ session.before \in FileTrees
      /\ session.policy.agent = session.agent /\ session.policy.boundary = "outer"
  BY <1>1, WorkingFields
<1>4. /\ session.mem.failed = saved.failed /\ session.mem.done = saved.done
      /\ session.mem.stop = saved.stop /\ session.mem.pending = saved.pending
      /\ session.mem.records = saved.records /\ session.mem.saw = saved.saw
      /\ session.mem.approved => saved.approved
  BY <1>1 DEF ScopeInv, MemoryFollowsFile, Scope!Mem
<1> DEFINE ok == ~session.stopped /\ session.outcome = "ok"
           again == ~session.stopped /\ Scope!MayRetry
           pc == IF ok THEN "answered" ELSE IF again THEN "attempt" ELSE "agent_over"
<1>5. /\ session' = [session EXCEPT !.verified = ok, !.pc = pc]
      /\ snapshots' = [snapshots EXCEPT !.attempt = Scope!None]
      /\ worktree' = worktree /\ saved' = saved /\ count' = count
  BY DEF Scope!AttemptOver
<1>6. ok \in BOOLEAN /\ pc \in {"answered", "attempt", "agent_over"}
  OBVIOUS
<1> HIDE DEF ok, pc
<1>7. /\ IsWorking(session') /\ SessionTypes' /\ session'.pc = pc
      /\ session'.mem = session.mem
  BY <1>1, <1>2, <1>3, <1>5, <1>6
     DEF IsWorking, WorkingSessions, SessionTypes, WorkingPlaces
<1>8. snapshots' \in SnapshotPairs
  BY <1>2, <1>5 DEF SnapshotPairs
<1> USE DEF ScopeInv, ScopeTypes, MemoryFollowsFile, StopEnds, AuditIsReady,
   WritesAreAudited, AuditOwed, OwedSnapshot, Untouched, RemovalIsRecorded, IsMoving,
   Scope!At, Scope!Mem
<1>9. ScopeTypes'
  BY <1>1, <1>2, <1>3, <1>4, <1>5, <1>6, <1>7, <1>8
<1>10. MemoryFollowsFile'
  BY <1>1, <1>2, <1>3, <1>4, <1>5, <1>6, <1>7, <1>8
<1>11. StopEnds'
  BY <1>1, <1>2, <1>3, <1>4, <1>5, <1>6, <1>7, <1>8
<1>12. AuditIsReady'
  BY <1>1, <1>2, <1>3, <1>4, <1>5, <1>6, <1>7, <1>8
<1>13. WritesAreAudited'
  BY <1>1, <1>2, <1>3, <1>4, <1>5, <1>6, <1>7, <1>8
<1>14. RemovalIsRecorded'
  BY <1>1, <1>2, <1>3, <1>4, <1>5, <1>6, <1>7, <1>8
<1>15. saved'.stop >= saved.stop
  BY <1>1, <1>2, <1>3, <1>4, <1>5, <1>6, <1>7, <1>8, ChildFields
<1> QED
  BY <1>9, <1>10, <1>11, <1>12, <1>13, <1>14, <1>15 DEF ScopeInv

LEMMA Scope_Answer ==
    ASSUME ScopeInv, NEW claim \in 0..2, Scope!Answer(claim)
    PROVE  ScopeInv' /\ saved'.stop >= saved.stop
<1>1. session \in WorkingSessions /\ IsWorking(session) /\ session.pc = "answered"
  BY WorkingAt DEF ScopeInv, ScopeTypes, Scope!Answer, Scope!At, WorkingPlaces
<1>2. /\ saved \in ChildStates /\ worktree \in FileTrees
      /\ snapshots \in SnapshotPairs /\ count \in Counts /\ SessionTypes
  BY DEF ScopeInv, ScopeTypes
<1>3. /\ session.mem \in ChildStates /\ session.agent \in Writers
      /\ session.policy \in AuditPolicies /\ session.before \in FileTrees
      /\ session.policy.agent = session.agent /\ session.policy.boundary = "outer"
  BY <1>1, WorkingFields
<1>4. /\ session.mem.failed = saved.failed /\ session.mem.done = saved.done
      /\ session.mem.stop = saved.stop /\ session.mem.pending = saved.pending
      /\ session.mem.records = saved.records /\ session.mem.saw = saved.saw
      /\ session.mem.approved => saved.approved
  BY <1>1 DEF ScopeInv, MemoryFollowsFile, Scope!Mem
<1> DEFINE approved == session.mem.approved /\ snapshots.outer.files = worktree
           m == [session.mem EXCEPT !.claim = claim, !.approved = approved]
<1>5. approved \in BOOLEAN /\ (approved => session.mem.approved)
  BY <1>3, ChildFields
<1>0. claim \in 0..4
  OBVIOUS
<1>6. session' = [session EXCEPT !.mem = m, !.pc = "agent_over"] /\ saved' = saved
  BY DEF Scope!Answer, Scope!Remember, Scope!Mem
<1> HIDE DEF approved
<1>7. /\ m \in ChildStates /\ m.failed = session.mem.failed /\ m.done = session.mem.done
      /\ m.stop = session.mem.stop /\ m.pending = session.mem.pending
      /\ m.records = session.mem.records /\ m.approved = approved
      /\ m.saw = session.mem.saw
  BY <1>0, <1>3, <1>5 DEF ChildStates
<1> HIDE DEF m
<1>8. /\ IsWorking(session') /\ SessionTypes' /\ session'.pc = "agent_over"
      /\ session'.mem = m /\ session'.agent = session.agent
      /\ session'.policy = session.policy /\ session'.before = session.before
  BY <1>1, <1>2, <1>3, <1>6, <1>7
     DEF IsWorking, WorkingSessions, SessionTypes, WorkingPlaces
<1>9. worktree' = worktree /\ snapshots' = snapshots /\ count' = count
  BY DEF Scope!Answer
<1> USE DEF ScopeInv, ScopeTypes, MemoryFollowsFile, StopEnds, AuditIsReady,
   WritesAreAudited, AuditOwed, OwedSnapshot, Untouched, RemovalIsRecorded, IsMoving,
   Scope!At, Scope!Mem
<1>10. ScopeTypes'
  BY <1>1, <1>2, <1>3, <1>4, <1>5, <1>6, <1>7, <1>8, <1>9
<1>11. MemoryFollowsFile'
  BY <1>1, <1>2, <1>3, <1>4, <1>5, <1>6, <1>7, <1>8, <1>9
<1>12. StopEnds'
  BY <1>1, <1>2, <1>3, <1>4, <1>5, <1>6, <1>7, <1>8, <1>9
<1>13. AuditIsReady'
  BY <1>1, <1>2, <1>3, <1>4, <1>5, <1>6, <1>7, <1>8, <1>9
<1>14. WritesAreAudited'
  BY <1>1, <1>2, <1>3, <1>4, <1>5, <1>6, <1>7, <1>8, <1>9
<1>15. RemovalIsRecorded'
  BY <1>1, <1>2, <1>3, <1>4, <1>5, <1>6, <1>7, <1>8, <1>9
<1>16. saved'.stop >= saved.stop
  BY <1>1, <1>2, <1>3, <1>4, <1>5, <1>6, <1>7, <1>8, <1>9, ChildFields
<1> QED
  BY <1>10, <1>11, <1>12, <1>13, <1>14, <1>15, <1>16 DEF ScopeInv

LEMMA Scope_ConfirmProduction ==
    ASSUME ScopeInv, Scope!ConfirmProduction
    PROVE  ScopeInv' /\ saved'.stop >= saved.stop
<1>1. session \in WorkingSessions /\ IsWorking(session) /\ session.pc = "answered"
  BY WorkingAt
     DEF ScopeInv, ScopeTypes, Scope!ConfirmProduction, Scope!At, WorkingPlaces
<1>2. /\ saved \in ChildStates /\ worktree \in FileTrees
      /\ snapshots \in SnapshotPairs /\ count \in Counts /\ SessionTypes
  BY DEF ScopeInv, ScopeTypes
<1>3. /\ session.mem \in ChildStates /\ session.agent \in Writers
      /\ session.policy \in AuditPolicies /\ session.before \in FileTrees
      /\ session.policy.agent = session.agent /\ session.policy.boundary = "outer"
  BY <1>1, WorkingFields
<1>4. /\ session.mem.failed = saved.failed /\ session.mem.done = saved.done
      /\ session.mem.stop = saved.stop /\ session.mem.pending = saved.pending
      /\ session.mem.records = saved.records /\ session.mem.saw = saved.saw
      /\ session.mem.approved => saved.approved
  BY <1>1 DEF ScopeInv, MemoryFollowsFile, Scope!Mem
<1>5. session' = [session EXCEPT !.pc = "call", !.confirmed = TRUE]
  BY DEF Scope!ConfirmProduction, Scope!Mem
<1>6. /\ IsWorking(session') /\ SessionTypes' /\ session'.pc = "call"
      /\ session'.mem = session.mem /\ session'.agent = session.agent
      /\ session'.policy = session.policy /\ session'.before = session.before
  BY <1>1, <1>2, <1>3, <1>4, <1>5
     DEF IsWorking, WorkingSessions, SessionTypes, WorkingPlaces
<1>7. worktree' = worktree /\ saved' = saved /\ snapshots' = snapshots /\ count' = count
  BY <1>1, <1>2, <1>3, <1>4, <1>5, <1>6 DEF Scope!ConfirmProduction
<1> USE DEF ScopeInv, ScopeTypes, MemoryFollowsFile, StopEnds, AuditIsReady,
   WritesAreAudited, AuditOwed, OwedSnapshot, Untouched, RemovalIsRecorded, IsMoving,
   Scope!At, Scope!Mem
<1>8. ScopeTypes'
  BY <1>1, <1>2, <1>3, <1>4, <1>5, <1>6, <1>7
<1>9. MemoryFollowsFile'
  BY <1>1, <1>2, <1>3, <1>4, <1>5, <1>6, <1>7
<1>10. StopEnds'
  BY <1>1, <1>2, <1>3, <1>4, <1>5, <1>6, <1>7
<1>11. AuditIsReady'
  BY <1>1, <1>2, <1>3, <1>4, <1>5, <1>6, <1>7
<1>12. WritesAreAudited'
  BY <1>1, <1>2, <1>3, <1>4, <1>5, <1>6, <1>7
<1>13. RemovalIsRecorded'
  BY <1>1, <1>2, <1>3, <1>4, <1>5, <1>6, <1>7
<1>14. saved'.stop >= saved.stop
  BY <1>1, <1>2, <1>3, <1>4, <1>5, <1>6, <1>7, ChildFields
<1> QED
  BY <1>8, <1>9, <1>10, <1>11, <1>12, <1>13, <1>14 DEF ScopeInv

LEMMA Scope_AgentOver ==
    ASSUME ScopeInv, Scope!AgentOver
    PROVE  ScopeInv' /\ saved'.stop >= saved.stop
<1>1. session \in WorkingSessions /\ IsWorking(session) /\ session.pc = "agent_over"
  BY WorkingAt DEF ScopeInv, ScopeTypes, Scope!AgentOver, Scope!At, WorkingPlaces
<1>2. /\ saved \in ChildStates /\ worktree \in FileTrees
      /\ snapshots \in SnapshotPairs /\ count \in Counts /\ SessionTypes
  BY DEF ScopeInv, ScopeTypes
<1>3. /\ session.mem \in ChildStates /\ session.agent \in Writers
      /\ session.policy \in AuditPolicies /\ session.before \in FileTrees
      /\ session.policy.agent = session.agent /\ session.policy.boundary = "outer"
  BY <1>1, WorkingFields
<1>4. /\ session.mem.failed = saved.failed /\ session.mem.done = saved.done
      /\ session.mem.stop = saved.stop /\ session.mem.pending = saved.pending
      /\ session.mem.records = saved.records /\ session.mem.saw = saved.saw
      /\ session.mem.approved => saved.approved
  BY <1>1 DEF ScopeInv, MemoryFollowsFile, Scope!Mem
<1>5. PICK trusted \in BOOLEAN :
        /\ IF trusted \/ session.stopped THEN Scope!SnapshotWorks ELSE Scope!SnapshotFails
        /\ \/ Scope!Save(Scope!SetStop(session.mem, Scope!ScopeViolation), "clear")
           \/ Scope!Remember(session.mem, "clear")
  BY DEF Scope!AgentOver, Scope!Mem
<1>6. worktree' = worktree /\ snapshots' = snapshots /\ count' \in Counts
  BY <1>2, <1>5
     DEF Scope!AgentOver, Scope!SnapshotWorks, Scope!SnapshotFails, Scope!Spend, Counts
<1>7. CASE Scope!Save(Scope!SetStop(session.mem, Scope!ScopeViolation), "clear")
  <2> DEFINE m == Scope!SetStop(session.mem, Scope!ScopeViolation)
  <2>1. /\ m \in ChildStates /\ m.failed = TRUE /\ m.done = FALSE
        /\ m.stop >= session.mem.stop /\ m.stop # 0 /\ m.pending = session.mem.pending
        /\ m.records = session.mem.records /\ m.approved = session.mem.approved
        /\ m.saw = session.mem.saw
    BY <1>3, ViolationStops
  <2>2. session' = [session EXCEPT !.mem = m, !.pc = "clear"] /\ saved' = m
    BY <1>7 DEF Scope!Save
  <2> HIDE DEF m
  <2>3. SessionTypes' /\ session'.pc = "clear" /\ session'.mem = m
    BY <1>1, <1>2, <2>1, <2>2, GoesOn
  <2> USE DEF ScopeInv, ScopeTypes, MemoryFollowsFile, StopEnds, AuditIsReady,
     WritesAreAudited, AuditOwed, OwedSnapshot, Untouched, RemovalIsRecorded, IsMoving,
     Scope!At, Scope!Mem
  <2>4. ScopeTypes'
    BY <1>1, <1>2, <1>4, <1>6, <2>1, <2>2, <2>3
  <2>5. MemoryFollowsFile'
    BY <1>1, <1>2, <1>4, <1>6, <2>1, <2>2, <2>3
  <2>6. StopEnds'
    BY <1>1, <1>2, <1>4, <1>6, <2>1, <2>2, <2>3
  <2>7. AuditIsReady'
    BY <1>1, <1>2, <1>4, <1>6, <2>1, <2>2, <2>3
  <2>8. WritesAreAudited'
    BY <1>1, <1>2, <1>4, <1>6, <2>1, <2>2, <2>3
  <2>9. RemovalIsRecorded'
    BY <1>1, <1>2, <1>4, <1>6, <2>1, <2>2, <2>3
  <2>10. saved'.stop >= saved.stop
    BY <1>1, <1>2, <1>4, <1>6, <2>1, <2>2, <2>3, ChildFields
  <2> QED
    BY <2>4, <2>5, <2>6, <2>7, <2>8, <2>9, <2>10 DEF ScopeInv
<1>8. CASE Scope!Remember(session.mem, "clear")
  <2>1. session' = [session EXCEPT !.mem = session.mem, !.pc = "clear"]
        /\ saved' = saved
    BY <1>8 DEF Scope!Remember
  <2>2. SessionTypes' /\ session'.pc = "clear" /\ session'.mem = session.mem
    BY <1>1, <1>2, <1>3, <2>1, GoesOn
  <2> USE DEF ScopeInv, ScopeTypes, MemoryFollowsFile, StopEnds, AuditIsReady,
     WritesAreAudited, AuditOwed, OwedSnapshot, Untouched, RemovalIsRecorded, IsMoving,
     Scope!At, Scope!Mem
  <2>3. ScopeTypes'
    BY <1>1, <1>2, <1>4, <1>6, <2>1, <2>2
  <2>4. MemoryFollowsFile'
    BY <1>1, <1>2, <1>4, <1>6, <2>1, <2>2
  <2>5. StopEnds'
    BY <1>1, <1>2, <1>4, <1>6, <2>1, <2>2
  <2>6. AuditIsReady'
    BY <1>1, <1>2, <1>4, <1>6, <2>1, <2>2
  <2>7. WritesAreAudited'
    BY <1>1, <1>2, <1>4, <1>6, <2>1, <2>2
  <2>8. RemovalIsRecorded'
    BY <1>1, <1>2, <1>4, <1>6, <2>1, <2>2
  <2>9. saved'.stop >= saved.stop
    BY <1>1, <1>2, <1>4, <1>6, <2>1, <2>2, ChildFields
  <2> QED
    BY <2>3, <2>4, <2>5, <2>6, <2>7, <2>8, <2>9 DEF ScopeInv
<1> QED
  BY <1>5, <1>7, <1>8

LEMMA Scope_ClearPending ==
    ASSUME ScopeInv, Scope!ClearPending
    PROVE  ScopeInv' /\ saved'.stop >= saved.stop
<1>1. session.pc = "clear" /\ session.mem \in ChildStates
  BY HasMemory DEF ScopeInv, ScopeTypes, Scope!ClearPending, Scope!At
<1>2. /\ saved \in ChildStates /\ worktree \in FileTrees
      /\ snapshots \in SnapshotPairs /\ count \in Counts /\ SessionTypes
  BY DEF ScopeInv, ScopeTypes
<1>4. /\ session.mem.failed = saved.failed /\ session.mem.done = saved.done
      /\ session.mem.stop = saved.stop /\ session.mem.pending = saved.pending
      /\ session.mem.records = saved.records /\ session.mem.saw = saved.saw
      /\ session.mem.approved => saved.approved
  BY <1>1 DEF ScopeInv, MemoryFollowsFile, Scope!Mem
<1> DEFINE m == [session.mem EXCEPT !.pending = Scope!None]
<1>5. saved' = m /\ session' = [session EXCEPT !.mem = m, !.pc = "cleared"]
  BY DEF Scope!ClearPending, Scope!Save, Scope!Mem
<1>6. /\ m \in ChildStates
      /\ m.failed = session.mem.failed
      /\ m.done = session.mem.done
      /\ m.stop = session.mem.stop
      /\ m.pending = Scope!None
      /\ m.records = session.mem.records
      /\ m.approved = session.mem.approved
      /\ m.saw = session.mem.saw
  BY <1>1 DEF ChildStates
<1> HIDE DEF m
<1>7. SessionTypes' /\ session'.pc = "cleared" /\ session'.mem = m
  BY <1>1, <1>2, <1>5, <1>6, GoesOn
<1>8. worktree' = worktree /\ snapshots' = snapshots /\ count' = count
  BY DEF Scope!ClearPending
<1> USE DEF ScopeInv, ScopeTypes, MemoryFollowsFile, StopEnds, AuditIsReady,
   WritesAreAudited, AuditOwed, OwedSnapshot, Untouched, RemovalIsRecorded, IsMoving,
   Scope!At, Scope!Mem
<1>9. ScopeTypes'
  BY <1>1, <1>2, <1>4, <1>5, <1>6, <1>7, <1>8
<1>10. MemoryFollowsFile'
  BY <1>1, <1>2, <1>4, <1>5, <1>6, <1>7, <1>8
<1>11. StopEnds'
  BY <1>1, <1>2, <1>4, <1>5, <1>6, <1>7, <1>8
<1>12. AuditIsReady'
  BY <1>1, <1>2, <1>4, <1>5, <1>6, <1>7, <1>8
<1>13. WritesAreAudited'
  BY <1>1, <1>2, <1>4, <1>5, <1>6, <1>7, <1>8
<1>14. RemovalIsRecorded'
  BY <1>1, <1>2, <1>4, <1>5, <1>6, <1>7, <1>8
<1>15. saved'.stop >= saved.stop
  BY <1>1, <1>2, <1>4, <1>5, <1>6, <1>7, <1>8, ChildFields
<1> QED
  BY <1>9, <1>10, <1>11, <1>12, <1>13, <1>14, <1>15 DEF ScopeInv

LEMMA Scope_Cleared ==
    ASSUME ScopeInv, Scope!Cleared
    PROVE  ScopeInv' /\ saved'.stop >= saved.stop
<1>1. session.pc = "cleared" /\ session.mem \in ChildStates
  BY HasMemory DEF ScopeInv, ScopeTypes, Scope!Cleared, Scope!At
<1>2. /\ saved \in ChildStates /\ worktree \in FileTrees
      /\ snapshots \in SnapshotPairs /\ count \in Counts /\ SessionTypes
  BY DEF ScopeInv, ScopeTypes
<1>4. /\ session.mem.failed = saved.failed /\ session.mem.done = saved.done
      /\ session.mem.stop = saved.stop /\ session.mem.pending = saved.pending
      /\ session.mem.records = saved.records /\ session.mem.saw = saved.saw
      /\ session.mem.approved => saved.approved
  BY <1>1 DEF ScopeInv, MemoryFollowsFile, Scope!Mem
<1>5. /\ session' = [session EXCEPT !.pc = "recovered"]
      /\ snapshots' = [outer |-> Scope!None, attempt |-> Scope!None]
      /\ worktree' = worktree /\ saved' = saved /\ count' = count
  BY DEF Scope!Cleared, Scope!Goto
<1>6. SessionTypes' /\ session'.pc = "recovered" /\ session'.mem = session.mem
  BY <1>1, <1>2, <1>5, GoesTo
<1>7. snapshots' \in SnapshotPairs
  BY <1>5 DEF SnapshotPairs
<1> USE DEF ScopeInv, ScopeTypes, MemoryFollowsFile, StopEnds, AuditIsReady,
   WritesAreAudited, AuditOwed, OwedSnapshot, Untouched, RemovalIsRecorded, IsMoving,
   Scope!At, Scope!Mem
<1>8. ScopeTypes'
  BY <1>1, <1>2, <1>4, <1>5, <1>6, <1>7
<1>9. MemoryFollowsFile'
  BY <1>1, <1>2, <1>4, <1>5, <1>6, <1>7
<1>10. StopEnds'
  BY <1>1, <1>2, <1>4, <1>5, <1>6, <1>7
<1>11. AuditIsReady'
  BY <1>1, <1>2, <1>4, <1>5, <1>6, <1>7
<1>12. WritesAreAudited'
  BY <1>1, <1>2, <1>4, <1>5, <1>6, <1>7
<1>13. RemovalIsRecorded'
  BY <1>1, <1>2, <1>4, <1>5, <1>6, <1>7
<1>14. saved'.stop >= saved.stop
  BY <1>1, <1>2, <1>4, <1>5, <1>6, <1>7, ChildFields
<1> QED
  BY <1>8, <1>9, <1>10, <1>11, <1>12, <1>13, <1>14 DEF ScopeInv

LEMMA Scope_Approve ==
    ASSUME ScopeInv, Scope!Approve
    PROVE  ScopeInv' /\ saved'.stop >= saved.stop
<1>1. session \in ResumedSessions /\ session.pc = "ready" /\ session.mem \in ChildStates
  BY ResumedAt, HasMemory DEF ScopeInv, ScopeTypes, Scope!Approve, Scope!At
<1>2. /\ saved \in ChildStates /\ worktree \in FileTrees
      /\ snapshots \in SnapshotPairs /\ count \in Counts /\ SessionTypes
  BY DEF ScopeInv, ScopeTypes
<1>4. /\ session.mem.failed = saved.failed /\ session.mem.done = saved.done
      /\ session.mem.stop = saved.stop /\ session.mem.pending = saved.pending
      /\ session.mem.records = saved.records /\ session.mem.saw = saved.saw
      /\ session.mem.approved => saved.approved
  BY <1>1 DEF ScopeInv, MemoryFollowsFile, Scope!Mem
<1> DEFINE m == [session.mem EXCEPT !.approved = TRUE,
                     !.saw = (worktree["new"] # Scope!Absent)]
<1>5. saved' = m /\ session' = [session EXCEPT !.mem = m, !.pc = "ready"]
      /\ ~session.mem.done
  BY DEF Scope!Approve, Scope!Save, Scope!Mem
<1>6. /\ m \in ChildStates
      /\ m.failed = session.mem.failed
      /\ m.done = session.mem.done
      /\ m.stop = session.mem.stop
      /\ m.pending = session.mem.pending
      /\ m.records = session.mem.records
      /\ m.approved = TRUE
      /\ m.saw = (worktree["new"] # Scope!Absent)
  BY <1>1 DEF ChildStates
<1> HIDE DEF m
<1>7. SessionTypes' /\ session'.pc = "ready" /\ session'.mem = m
  BY <1>1, <1>2, <1>5, <1>6 DEF SessionTypes, ResumedSessions, BetweenPlaces
<1>8. worktree' = worktree /\ snapshots' = snapshots /\ count' = count
  BY DEF Scope!Approve
<1> USE DEF ScopeInv, ScopeTypes, MemoryFollowsFile, StopEnds, AuditIsReady,
   WritesAreAudited, AuditOwed, OwedSnapshot, Untouched, RemovalIsRecorded, IsMoving,
   Scope!At, Scope!Mem
<1>9. ScopeTypes'
  BY <1>1, <1>2, <1>4, <1>5, <1>6, <1>7, <1>8
<1>10. MemoryFollowsFile'
  BY <1>1, <1>2, <1>4, <1>5, <1>6, <1>7, <1>8
<1>11. StopEnds'
  BY <1>1, <1>2, <1>4, <1>5, <1>6, <1>7, <1>8
<1>12. AuditIsReady'
  BY <1>1, <1>2, <1>4, <1>5, <1>6, <1>7, <1>8
<1>13. WritesAreAudited'
  BY <1>1, <1>2, <1>4, <1>5, <1>6, <1>7, <1>8
<1>14. RemovalIsRecorded'
  BY <1>1, <1>2, <1>4, <1>5, <1>6, <1>7, <1>8
<1>15. saved'.stop >= saved.stop
  BY <1>1, <1>2, <1>4, <1>5, <1>6, <1>7, <1>8, ChildFields
<1> QED
  BY <1>9, <1>10, <1>11, <1>12, <1>13, <1>14, <1>15 DEF ScopeInv

LEMMA Scope_Finish ==
    ASSUME ScopeInv, Scope!Finish
    PROVE  ScopeInv' /\ saved'.stop >= saved.stop
<1>1. session \in ResumedSessions /\ session.pc = "ready" /\ session.mem \in ChildStates
  BY ResumedAt, HasMemory DEF ScopeInv, ScopeTypes, Scope!Finish, Scope!At
<1>2. /\ saved \in ChildStates /\ worktree \in FileTrees
      /\ snapshots \in SnapshotPairs /\ count \in Counts /\ SessionTypes
  BY DEF ScopeInv, ScopeTypes
<1>4. /\ session.mem.failed = saved.failed /\ session.mem.done = saved.done
      /\ session.mem.stop = saved.stop /\ session.mem.pending = saved.pending
      /\ session.mem.records = saved.records /\ session.mem.saw = saved.saw
      /\ session.mem.approved => saved.approved
  BY <1>1 DEF ScopeInv, MemoryFollowsFile, Scope!Mem
<1> DEFINE m == [session.mem EXCEPT !.done = TRUE]
<1>5. saved' = m /\ session' = [session EXCEPT !.mem = m, !.pc = "ready"]
      /\ ~session.mem.done
  BY DEF Scope!Finish, Scope!Save, Scope!Mem
<1>6. /\ m \in ChildStates
      /\ m.failed = session.mem.failed
      /\ m.done = TRUE
      /\ m.stop = session.mem.stop
      /\ m.pending = session.mem.pending
      /\ m.records = session.mem.records
      /\ m.approved = session.mem.approved
      /\ m.saw = session.mem.saw
  BY <1>1 DEF ChildStates
<1> HIDE DEF m
<1>7. SessionTypes' /\ session'.pc = "ready" /\ session'.mem = m
  BY <1>1, <1>2, <1>5, <1>6 DEF SessionTypes, ResumedSessions, BetweenPlaces
<1>8. worktree' = worktree /\ snapshots' = snapshots /\ count' = count
  BY DEF Scope!Finish
<1> USE DEF ScopeInv, ScopeTypes, MemoryFollowsFile, StopEnds, AuditIsReady,
   WritesAreAudited, AuditOwed, OwedSnapshot, Untouched, RemovalIsRecorded, IsMoving,
   Scope!At, Scope!Mem
<1>9. ScopeTypes'
  BY <1>1, <1>2, <1>4, <1>5, <1>6, <1>7, <1>8
<1>10. MemoryFollowsFile'
  BY <1>1, <1>2, <1>4, <1>5, <1>6, <1>7, <1>8
<1>11. StopEnds'
  BY <1>1, <1>2, <1>4, <1>5, <1>6, <1>7, <1>8
<1>12. AuditIsReady'
  BY <1>1, <1>2, <1>4, <1>5, <1>6, <1>7, <1>8
<1>13. WritesAreAudited'
  BY <1>1, <1>2, <1>4, <1>5, <1>6, <1>7, <1>8
<1>14. RemovalIsRecorded'
  BY <1>1, <1>2, <1>4, <1>5, <1>6, <1>7, <1>8
<1>15. saved'.stop >= saved.stop
  BY <1>1, <1>2, <1>4, <1>5, <1>6, <1>7, <1>8, ChildFields
<1> QED
  BY <1>9, <1>10, <1>11, <1>12, <1>13, <1>14, <1>15 DEF ScopeInv

LEMMA Scope_ReviewerStops ==
    ASSUME ScopeInv, Scope!ReviewerStops
    PROVE  ScopeInv' /\ saved'.stop >= saved.stop
<1>1. session \in ResumedSessions /\ session.pc = "ready" /\ session.mem \in ChildStates
  BY ResumedAt, HasMemory DEF ScopeInv, ScopeTypes, Scope!ReviewerStops, Scope!At
<1>2. /\ saved \in ChildStates /\ worktree \in FileTrees
      /\ snapshots \in SnapshotPairs /\ count \in Counts /\ SessionTypes
  BY DEF ScopeInv, ScopeTypes
<1>4. /\ session.mem.failed = saved.failed /\ session.mem.done = saved.done
      /\ session.mem.stop = saved.stop /\ session.mem.pending = saved.pending
      /\ session.mem.records = saved.records /\ session.mem.saw = saved.saw
      /\ session.mem.approved => saved.approved
  BY <1>1 DEF ScopeInv, MemoryFollowsFile, Scope!Mem
<1>5. PICK claim \in {Scope!Stops.external_dependency_gap,
           Scope!Stops.scope_amendment_required} :
        Scope!Remember([session.mem EXCEPT !.claim = claim], "recovered")
  BY DEF Scope!ReviewerStops, Scope!Mem
<1>6. claim \in 0..4
  BY DEF Scope!Stops
<1> DEFINE m == [session.mem EXCEPT !.claim = claim]
<1>7. saved' = saved /\ session' = [session EXCEPT !.mem = m, !.pc = "recovered"]
      /\ ~session.mem.done
  BY <1>5 DEF Scope!Remember, Scope!ReviewerStops, Scope!Mem
<1>8. /\ m \in ChildStates
      /\ m.failed = session.mem.failed
      /\ m.done = session.mem.done
      /\ m.stop = session.mem.stop
      /\ m.pending = session.mem.pending
      /\ m.records = session.mem.records
      /\ m.approved = session.mem.approved
      /\ m.saw = session.mem.saw
  BY <1>1, <1>6 DEF ChildStates
<1> HIDE DEF m
<1>9. SessionTypes' /\ session'.pc = "recovered" /\ session'.mem = m
  BY <1>1, <1>2, <1>7, <1>8, GoesOn
<1>10. worktree' = worktree /\ snapshots' = snapshots /\ count' = count
  BY DEF Scope!ReviewerStops
<1> USE DEF ScopeInv, ScopeTypes, MemoryFollowsFile, StopEnds, AuditIsReady,
   WritesAreAudited, AuditOwed, OwedSnapshot, Untouched, RemovalIsRecorded, IsMoving,
   Scope!At, Scope!Mem
<1>11. ScopeTypes'
  BY <1>1, <1>2, <1>4, <1>7, <1>8, <1>9, <1>10
<1>12. MemoryFollowsFile'
  BY <1>1, <1>2, <1>4, <1>7, <1>8, <1>9, <1>10
<1>13. StopEnds'
  BY <1>1, <1>2, <1>4, <1>7, <1>8, <1>9, <1>10
<1>14. AuditIsReady'
  BY <1>1, <1>2, <1>4, <1>7, <1>8, <1>9, <1>10
<1>15. WritesAreAudited'
  BY <1>1, <1>2, <1>4, <1>7, <1>8, <1>9, <1>10
<1>16. RemovalIsRecorded'
  BY <1>1, <1>2, <1>4, <1>7, <1>8, <1>9, <1>10
<1>17. saved'.stop >= saved.stop
  BY <1>1, <1>2, <1>4, <1>7, <1>8, <1>9, <1>10, ChildFields
<1> QED
  BY <1>11, <1>12, <1>13, <1>14, <1>15, <1>16, <1>17 DEF ScopeInv

LEMMA Scope_IntendQuarantine ==
    ASSUME ScopeInv, Scope!IntendQuarantine
    PROVE  ScopeInv' /\ saved'.stop >= saved.stop
<1>1. session \in WorkingSessions /\ IsWorking(session) /\ session.pc = "answered"
  BY WorkingAt DEF ScopeInv, ScopeTypes, Scope!IntendQuarantine, Scope!At, WorkingPlaces
<1>2. /\ saved \in ChildStates /\ worktree \in FileTrees
      /\ snapshots \in SnapshotPairs /\ count \in Counts /\ SessionTypes
  BY DEF ScopeInv, ScopeTypes
<1>3. /\ session.mem \in ChildStates /\ session.agent \in Writers
      /\ session.policy \in AuditPolicies /\ session.before \in FileTrees
      /\ session.policy.agent = session.agent /\ session.policy.boundary = "outer"
  BY <1>1, WorkingFields
<1>4. /\ session.mem.failed = saved.failed /\ session.mem.done = saved.done
      /\ session.mem.stop = saved.stop /\ session.mem.pending = saved.pending
      /\ session.mem.records = saved.records /\ session.mem.saw = saved.saw
      /\ session.mem.approved => saved.approved
  BY <1>1 DEF ScopeInv, MemoryFollowsFile, Scope!Mem
<1> DEFINE record == [content |-> worktree["new"], status |-> "moving"]
           intent == [session.mem EXCEPT !.candidate = Scope!None, !.records = @ \cup {record}]
           approved == session.mem.approved /\ snapshots.outer.files = worktree
           refusal == [session.mem EXCEPT !.approved = approved]
<1>5. worktree' = worktree /\ snapshots' = snapshots /\ count' = count
  BY DEF Scope!IntendQuarantine
<1>6. \/ /\ session.mem.candidate # Scope!None
         /\ session.mem.candidate.content = worktree["new"]
         /\ saved' = intent
         /\ session' = [session EXCEPT !.mem = intent, !.pc = "move",
                 !.verified = FALSE]
      \/ /\ session' = [session EXCEPT !.pc = "agent_over", !.verified = FALSE,
                                       !.outcome = "refused", !.mem = refusal]
         /\ saved' = saved
  BY DEF Scope!IntendQuarantine, Scope!Mem
<1>7. record \in Removals /\ record.status = "moving"
  BY <1>2 DEF Removals, FileTrees, Scope!Files
<1>8. approved \in BOOLEAN /\ (approved => session.mem.approved)
  BY <1>3, ChildFields
<1> HIDE DEF record, approved
<1>9. /\ intent \in ChildStates /\ intent.failed = session.mem.failed
      /\ intent.done = session.mem.done /\ intent.stop = session.mem.stop
      /\ intent.pending = session.mem.pending
      /\ intent.records = session.mem.records \cup {record}
      /\ intent.approved = session.mem.approved /\ intent.saw = session.mem.saw
  BY <1>3, <1>7 DEF ChildStates
<1>10. /\ refusal \in ChildStates /\ refusal.failed = session.mem.failed
       /\ refusal.done = session.mem.done /\ refusal.stop = session.mem.stop
       /\ refusal.pending = session.mem.pending /\ refusal.records = session.mem.records
       /\ refusal.approved = approved /\ refusal.saw = session.mem.saw
  BY <1>3, <1>8 DEF ChildStates
<1> HIDE DEF intent, refusal
<1>11. CASE /\ session.mem.candidate # Scope!None
            /\ session.mem.candidate.content = worktree["new"]
            /\ saved' = intent
            /\ session' = [session EXCEPT !.mem = intent, !.pc = "move",
                    !.verified = FALSE]
  <2>1. /\ IsWorking(session') /\ SessionTypes' /\ session'.pc = "move"
        /\ session'.mem = intent /\ session'.agent = session.agent
        /\ session'.policy = session.policy /\ session'.before = session.before
    BY <1>1, <1>2, <1>3, <1>9, <1>11
       DEF IsWorking, WorkingSessions, SessionTypes, WorkingPlaces
  <2>2. worktree["new"] # Scope!Absent
    BY <1>3, <1>11 DEF ChildStates, OwnedFiles
  <2>3. saved' = intent
    BY <1>11
  <2> USE DEF ScopeInv, ScopeTypes, MemoryFollowsFile, StopEnds, AuditIsReady,
     WritesAreAudited, AuditOwed, OwedSnapshot, Untouched, RemovalIsRecorded, IsMoving,
     Scope!At, Scope!Mem
  <2>4. ScopeTypes'
    BY <1>1, <1>2, <1>3, <1>4, <1>5, <1>7, <1>9, <2>1, <2>2, <2>3
  <2>5. MemoryFollowsFile'
    BY <1>1, <1>2, <1>3, <1>4, <1>5, <1>7, <1>9, <2>1, <2>2, <2>3
  <2>6. StopEnds'
    BY <1>1, <1>2, <1>3, <1>4, <1>5, <1>7, <1>9, <2>1, <2>2, <2>3
  <2>7. AuditIsReady'
    BY <1>1, <1>2, <1>3, <1>4, <1>5, <1>7, <1>9, <2>1, <2>2, <2>3
  <2>8. WritesAreAudited'
    BY <1>1, <1>2, <1>3, <1>4, <1>5, <1>7, <1>9, <2>1, <2>2, <2>3
  <2>9. RemovalIsRecorded'
    BY <1>1, <1>2, <1>3, <1>4, <1>5, <1>7, <1>9, <2>1, <2>2, <2>3
  <2>10. saved'.stop >= saved.stop
    BY <1>1, <1>2, <1>3, <1>4, <1>5, <1>7, <1>9, <2>1, <2>2, <2>3, ChildFields
  <2> QED
    BY <2>4, <2>5, <2>6, <2>7, <2>8, <2>9, <2>10 DEF ScopeInv
<1>12. CASE /\ session' = [session EXCEPT !.pc = "agent_over", !.verified = FALSE,
                                          !.outcome = "refused", !.mem = refusal]
            /\ saved' = saved
  <2>1. /\ IsWorking(session') /\ SessionTypes' /\ session'.pc = "agent_over"
        /\ session'.mem = refusal /\ session'.agent = session.agent
        /\ session'.policy = session.policy /\ session'.before = session.before
    BY <1>1, <1>2, <1>3, <1>10, <1>12
       DEF IsWorking, WorkingSessions, SessionTypes, WorkingPlaces
  <2>2. saved' = saved
    BY <1>12
  <2> USE DEF ScopeInv, ScopeTypes, MemoryFollowsFile, StopEnds, AuditIsReady,
     WritesAreAudited, AuditOwed, OwedSnapshot, Untouched, RemovalIsRecorded, IsMoving,
     Scope!At, Scope!Mem
  <2>3. ScopeTypes'
    BY <1>1, <1>2, <1>3, <1>4, <1>5, <1>8, <1>10, <2>1, <2>2
  <2>4. MemoryFollowsFile'
    BY <1>1, <1>2, <1>3, <1>4, <1>5, <1>8, <1>10, <2>1, <2>2
  <2>5. StopEnds'
    BY <1>1, <1>2, <1>3, <1>4, <1>5, <1>8, <1>10, <2>1, <2>2
  <2>6. AuditIsReady'
    BY <1>1, <1>2, <1>3, <1>4, <1>5, <1>8, <1>10, <2>1, <2>2
  <2>7. WritesAreAudited'
    BY <1>1, <1>2, <1>3, <1>4, <1>5, <1>8, <1>10, <2>1, <2>2
  <2>8. RemovalIsRecorded'
    BY <1>1, <1>2, <1>3, <1>4, <1>5, <1>8, <1>10, <2>1, <2>2
  <2>9. saved'.stop >= saved.stop
    BY <1>1, <1>2, <1>3, <1>4, <1>5, <1>8, <1>10, <2>1, <2>2, ChildFields
  <2> QED
    BY <2>3, <2>4, <2>5, <2>6, <2>7, <2>8, <2>9 DEF ScopeInv
<1> QED
  BY <1>6, <1>11, <1>12

LEMMA Scope_MoveFile ==
    ASSUME ScopeInv, Scope!MoveFile
    PROVE  ScopeInv' /\ saved'.stop >= saved.stop
<1>1. session \in WorkingSessions /\ IsWorking(session) /\ session.pc = "move"
  BY WorkingAt DEF ScopeInv, ScopeTypes, Scope!MoveFile, Scope!At, WorkingPlaces
<1>2. /\ saved \in ChildStates /\ worktree \in FileTrees
      /\ snapshots \in SnapshotPairs /\ count \in Counts /\ SessionTypes
  BY DEF ScopeInv, ScopeTypes
<1>3. /\ session.mem \in ChildStates /\ session.agent \in Writers
      /\ session.policy \in AuditPolicies /\ session.before \in FileTrees
      /\ session.policy.agent = session.agent /\ session.policy.boundary = "outer"
  BY <1>1, WorkingFields
<1>4. /\ session.mem.failed = saved.failed /\ session.mem.done = saved.done
      /\ session.mem.stop = saved.stop /\ session.mem.pending = saved.pending
      /\ session.mem.records = saved.records /\ session.mem.saw = saved.saw
      /\ session.mem.approved => saved.approved
  BY <1>1 DEF ScopeInv, MemoryFollowsFile, Scope!Mem
<1>5. IsMoving(saved) /\ IsMoving(session.mem) /\ worktree["new"] # Scope!Absent
  BY <1>1, <1>4 DEF ScopeInv, RemovalIsRecorded, Scope!At, IsMoving
<1>6. CASE worktree["new"] = Scope!Moving.content
  <2>1. /\ worktree' = [worktree EXCEPT !["new"] = Scope!Absent]
        /\ session' = [session EXCEPT !.pc = "moved"] /\ saved' = saved
        /\ snapshots' = snapshots /\ count' = count
    BY <1>6 DEF Scope!MoveFile, Scope!Goto
  <2>2. worktree' \in FileTrees /\ worktree'["foreign"] = worktree["foreign"]
        /\ worktree'["test"] = worktree["test"]
    BY <1>2, <2>1 DEF FileTrees, FileContents, Scope!Absent, Scope!Files
  <2>3. /\ IsWorking(session') /\ SessionTypes' /\ session'.pc = "moved"
        /\ session'.mem = session.mem /\ session'.agent = session.agent
        /\ session'.policy = session.policy /\ session'.before = session.before
    BY <1>1, <1>2, <1>3, <2>1
       DEF IsWorking, WorkingSessions, SessionTypes, WorkingPlaces
  <2> USE DEF ScopeInv, ScopeTypes, MemoryFollowsFile, StopEnds, AuditIsReady,
     WritesAreAudited, AuditOwed, OwedSnapshot, Untouched, RemovalIsRecorded, IsMoving,
     Scope!At, Scope!Mem
  <2>4. ScopeTypes'
    BY <1>1, <1>2, <1>3, <1>4, <1>5, <2>1, <2>2, <2>3
  <2>5. MemoryFollowsFile'
    BY <1>1, <1>2, <1>3, <1>4, <1>5, <2>1, <2>2, <2>3
  <2>6. StopEnds'
    BY <1>1, <1>2, <1>3, <1>4, <1>5, <2>1, <2>2, <2>3
  <2>7. AuditIsReady'
    BY <1>1, <1>2, <1>3, <1>4, <1>5, <2>1, <2>2, <2>3
  <2>8. WritesAreAudited'
    BY <1>1, <1>2, <1>3, <1>4, <1>5, <2>1, <2>2, <2>3
  <2>9. RemovalIsRecorded'
    BY <1>1, <1>2, <1>3, <1>4, <1>5, <2>1, <2>2, <2>3
  <2>10. saved'.stop >= saved.stop
    BY <1>1, <1>2, <1>3, <1>4, <1>5, <2>1, <2>2, <2>3, ChildFields
  <2> QED
    BY <2>4, <2>5, <2>6, <2>7, <2>8, <2>9, <2>10 DEF ScopeInv
<1>7. CASE worktree["new"] # Scope!Moving.content
  <2> DEFINE m == Scope!Settle(session.mem, "aborted")
  <2>1. /\ saved' = m
        /\ session' = [session EXCEPT !.mem = m, !.pc = "agent_over",
                !.outcome = "refused"]
        /\ worktree' = worktree /\ snapshots' = snapshots /\ count' = count
    BY <1>7 DEF Scope!MoveFile, Scope!Mem
  <2>2. /\ m \in ChildStates /\ m.failed = session.mem.failed
           /\ m.done = session.mem.done
        /\ m.stop = session.mem.stop /\ m.pending = session.mem.pending
        /\ m.saw = session.mem.saw /\ m.approved = session.mem.approved
    BY <1>3, <1>5, Settled
  <2> HIDE DEF m
  <2>3. /\ IsWorking(session') /\ SessionTypes' /\ session'.pc = "agent_over"
        /\ session'.mem = m /\ session'.agent = session.agent
        /\ session'.policy = session.policy /\ session'.before = session.before
    BY <1>1, <1>2, <1>3, <2>1, <2>2
       DEF IsWorking, WorkingSessions, SessionTypes, WorkingPlaces
  <2> USE DEF ScopeInv, ScopeTypes, MemoryFollowsFile, StopEnds, AuditIsReady,
     WritesAreAudited, AuditOwed, OwedSnapshot, Untouched, RemovalIsRecorded, IsMoving,
     Scope!At, Scope!Mem
  <2>4. ScopeTypes'
    BY <1>1, <1>2, <1>3, <1>4, <1>5, <2>1, <2>2, <2>3
  <2>5. MemoryFollowsFile'
    BY <1>1, <1>2, <1>3, <1>4, <1>5, <2>1, <2>2, <2>3
  <2>6. StopEnds'
    BY <1>1, <1>2, <1>3, <1>4, <1>5, <2>1, <2>2, <2>3
  <2>7. AuditIsReady'
    BY <1>1, <1>2, <1>3, <1>4, <1>5, <2>1, <2>2, <2>3
  <2>8. WritesAreAudited'
    BY <1>1, <1>2, <1>3, <1>4, <1>5, <2>1, <2>2, <2>3
  <2>9. RemovalIsRecorded'
    BY <1>1, <1>2, <1>3, <1>4, <1>5, <2>1, <2>2, <2>3
  <2>10. saved'.stop >= saved.stop
    BY <1>1, <1>2, <1>3, <1>4, <1>5, <2>1, <2>2, <2>3, ChildFields
  <2> QED
    BY <2>4, <2>5, <2>6, <2>7, <2>8, <2>9, <2>10 DEF ScopeInv
<1> QED
  BY <1>6, <1>7

LEMMA Scope_RecordMove ==
    ASSUME ScopeInv, Scope!RecordMove
    PROVE  ScopeInv' /\ saved'.stop >= saved.stop
<1>1. session \in WorkingSessions /\ IsWorking(session) /\ session.pc = "moved"
  BY WorkingAt DEF ScopeInv, ScopeTypes, Scope!RecordMove, Scope!At, WorkingPlaces
<1>2. /\ saved \in ChildStates /\ worktree \in FileTrees
      /\ snapshots \in SnapshotPairs /\ count \in Counts /\ SessionTypes
  BY DEF ScopeInv, ScopeTypes
<1>3. /\ session.mem \in ChildStates /\ session.agent \in Writers
      /\ session.policy \in AuditPolicies /\ session.before \in FileTrees
      /\ session.policy.agent = session.agent /\ session.policy.boundary = "outer"
  BY <1>1, WorkingFields
<1>4. /\ session.mem.failed = saved.failed /\ session.mem.done = saved.done
      /\ session.mem.stop = saved.stop /\ session.mem.pending = saved.pending
      /\ session.mem.records = saved.records /\ session.mem.saw = saved.saw
      /\ session.mem.approved => saved.approved
  BY <1>1 DEF ScopeInv, MemoryFollowsFile, Scope!Mem
<1>5. IsMoving(saved) /\ IsMoving(session.mem)
  BY <1>1, <1>4 DEF ScopeInv, RemovalIsRecorded, IsMoving
<1> DEFINE s == Scope!Settle(session.mem, "quarantined")
           m == [s EXCEPT !.approved = FALSE]
<1>6. /\ s \in ChildStates /\ s.failed = session.mem.failed /\ s.done = session.mem.done
      /\ s.stop = session.mem.stop /\ s.pending = session.mem.pending
      /\ s.saw = session.mem.saw
  BY <1>3, <1>5, Settled
<1>7. saved' = m /\ session' = [session EXCEPT !.mem = m, !.pc = "agent_over"]
  BY DEF Scope!RecordMove, Scope!Save, Scope!Mem
<1> HIDE DEF s
<1>8. /\ m \in ChildStates /\ m.failed = session.mem.failed /\ m.done = session.mem.done
      /\ m.stop = session.mem.stop /\ m.pending = session.mem.pending
      /\ m.saw = session.mem.saw /\ m.approved = FALSE
  BY <1>6 DEF ChildStates
<1> HIDE DEF m
<1>9. /\ IsWorking(session') /\ SessionTypes' /\ session'.pc = "agent_over"
      /\ session'.mem = m /\ session'.agent = session.agent
      /\ session'.policy = session.policy /\ session'.before = session.before
  BY <1>1, <1>2, <1>3, <1>7, <1>8
     DEF IsWorking, WorkingSessions, SessionTypes, WorkingPlaces
<1>10. worktree' = worktree /\ snapshots' = snapshots /\ count' = count
  BY DEF Scope!RecordMove
<1> USE DEF ScopeInv, ScopeTypes, MemoryFollowsFile, StopEnds, AuditIsReady,
   WritesAreAudited, AuditOwed, OwedSnapshot, Untouched, RemovalIsRecorded, IsMoving,
   Scope!At, Scope!Mem
<1>11. ScopeTypes'
  BY <1>1, <1>2, <1>3, <1>4, <1>5, <1>7, <1>8, <1>9, <1>10
<1>12. MemoryFollowsFile'
  BY <1>1, <1>2, <1>3, <1>4, <1>5, <1>7, <1>8, <1>9, <1>10
<1>13. StopEnds'
  BY <1>1, <1>2, <1>3, <1>4, <1>5, <1>7, <1>8, <1>9, <1>10
<1>14. AuditIsReady'
  BY <1>1, <1>2, <1>3, <1>4, <1>5, <1>7, <1>8, <1>9, <1>10
<1>15. WritesAreAudited'
  BY <1>1, <1>2, <1>3, <1>4, <1>5, <1>7, <1>8, <1>9, <1>10
<1>16. RemovalIsRecorded'
  BY <1>1, <1>2, <1>3, <1>4, <1>5, <1>7, <1>8, <1>9, <1>10
<1>17. saved'.stop >= saved.stop
  BY <1>1, <1>2, <1>3, <1>4, <1>5, <1>7, <1>8, <1>9, <1>10, ChildFields
<1> QED
  BY <1>11, <1>12, <1>13, <1>14, <1>15, <1>16, <1>17 DEF ScopeInv

LEMMA Scope_ForeignWrite ==
    ASSUME ScopeInv, Scope!ForeignWrite
    PROVE  ScopeInv' /\ saved'.stop >= saved.stop
<1>1. session \in WorkingSessions /\ IsWorking(session) /\ session.pc = "move"
  BY WorkingAt DEF ScopeInv, ScopeTypes, Scope!ForeignWrite, Scope!At, WorkingPlaces
<1>2. /\ saved \in ChildStates /\ worktree \in FileTrees
      /\ snapshots \in SnapshotPairs /\ count \in Counts /\ SessionTypes
  BY DEF ScopeInv, ScopeTypes
<1>3. /\ session.mem \in ChildStates /\ session.agent \in Writers
      /\ session.policy \in AuditPolicies /\ session.before \in FileTrees
      /\ session.policy.agent = session.agent /\ session.policy.boundary = "outer"
  BY <1>1, WorkingFields
<1>4. /\ session.mem.failed = saved.failed /\ session.mem.done = saved.done
      /\ session.mem.stop = saved.stop /\ session.mem.pending = saved.pending
      /\ session.mem.records = saved.records /\ session.mem.saw = saved.saw
      /\ session.mem.approved => saved.approved
  BY <1>1 DEF ScopeInv, MemoryFollowsFile, Scope!Mem
<1> DEFINE content == [by |-> "user", n |-> count.edits + 1, id |-> count.edits + 1]
<1>5. content \in FileContents /\ content # Scope!Absent
  BY <1>2 DEF Counts, FileContents, Scope!Absent
<1>6. worktree' = [worktree EXCEPT !["new"] = content]
  BY DEF Scope!ForeignWrite
<1> HIDE DEF content
<1>7. /\ worktree' \in FileTrees /\ worktree'["new"] = content
      /\ worktree'["foreign"] = worktree["foreign"]
         /\ worktree'["test"] = worktree["test"]
  BY <1>2, <1>5, <1>6 DEF FileTrees, Scope!Files
<1>8. session' = session /\ saved' = saved /\ snapshots' = snapshots /\ SessionTypes'
  BY <1>2 DEF Scope!ForeignWrite, SessionTypes
<1>9. count' \in Counts
  <2>1. count.edits + 1 \in Nat /\ count.faults + 1 \in Nat
    BY <1>2 DEF Counts
  <2>2. count' = [count EXCEPT !.edits = count.edits + 1, !.faults = count.faults + 1]
    BY DEF Scope!ForeignWrite
  <2> QED
    BY <1>2, <2>1, <2>2 DEF Counts
<1> USE DEF ScopeInv, ScopeTypes, MemoryFollowsFile, StopEnds, AuditIsReady,
   WritesAreAudited, AuditOwed, OwedSnapshot, Untouched, RemovalIsRecorded, IsMoving,
   Scope!At, Scope!Mem
<1>10. ScopeTypes'
  BY <1>1, <1>2, <1>3, <1>4, <1>5, <1>7, <1>8, <1>9
<1>11. MemoryFollowsFile'
  BY <1>1, <1>2, <1>3, <1>4, <1>5, <1>7, <1>8, <1>9
<1>12. StopEnds'
  BY <1>1, <1>2, <1>3, <1>4, <1>5, <1>7, <1>8, <1>9
<1>13. AuditIsReady'
  BY <1>1, <1>2, <1>3, <1>4, <1>5, <1>7, <1>8, <1>9
<1>14. WritesAreAudited'
  BY <1>1, <1>2, <1>3, <1>4, <1>5, <1>7, <1>8, <1>9
<1>15. RemovalIsRecorded'
  BY <1>1, <1>2, <1>3, <1>4, <1>5, <1>7, <1>8, <1>9
<1>16. saved'.stop >= saved.stop
  BY <1>1, <1>2, <1>3, <1>4, <1>5, <1>7, <1>8, <1>9, ChildFields
<1> QED
  BY <1>10, <1>11, <1>12, <1>13, <1>14, <1>15, <1>16 DEF ScopeInv

LEMMA Scope_CleanupQuarantine ==
    ASSUME ScopeInv, Scope!CleanupQuarantine
    PROVE  ScopeInv' /\ saved'.stop >= saved.stop
<1>1. session.pc = "idle"
  BY DEF Scope!CleanupQuarantine, Scope!At
<1>2. /\ saved \in ChildStates /\ worktree \in FileTrees
      /\ snapshots \in SnapshotPairs /\ count \in Counts /\ SessionTypes
  BY DEF ScopeInv, ScopeTypes
<1>3. session' = [pc |-> "cleanup"]
  BY DEF Scope!CleanupQuarantine
<1>4. SessionTypes' /\ session'.pc = "cleanup"
  BY <1>3 DEF SessionTypes
<1>5. worktree' = worktree /\ saved' = saved /\ snapshots' = snapshots /\ count' = count
  BY DEF Scope!CleanupQuarantine
<1> USE DEF ScopeInv, ScopeTypes, MemoryFollowsFile, StopEnds, AuditIsReady,
   WritesAreAudited, AuditOwed, OwedSnapshot, Untouched, RemovalIsRecorded, IsMoving,
   Scope!At, Scope!Mem
<1>6. ScopeTypes'
  BY <1>1, <1>2, <1>4, <1>5
<1>7. MemoryFollowsFile'
  BY <1>1, <1>2, <1>4, <1>5
<1>8. StopEnds'
  BY <1>1, <1>2, <1>4, <1>5
<1>9. AuditIsReady'
  BY <1>1, <1>2, <1>4, <1>5
<1>10. WritesAreAudited'
  BY <1>1, <1>2, <1>4, <1>5
<1>11. RemovalIsRecorded'
  BY <1>1, <1>2, <1>4, <1>5
<1>12. saved'.stop >= saved.stop
  BY <1>1, <1>2, <1>4, <1>5, ChildFields
<1> QED
  BY <1>6, <1>7, <1>8, <1>9, <1>10, <1>11, <1>12 DEF ScopeInv

LEMMA Scope_RecordCleanup ==
    ASSUME ScopeInv, Scope!RecordCleanup
    PROVE  ScopeInv' /\ saved'.stop >= saved.stop
<1>1. session.pc = "cleanup"
  BY DEF Scope!RecordCleanup, Scope!At
<1>2. /\ saved \in ChildStates /\ worktree \in FileTrees
      /\ snapshots \in SnapshotPairs /\ count \in Counts /\ SessionTypes
  BY DEF ScopeInv, ScopeTypes
<1> DEFINE records == {[r EXCEPT !.status = "cleaned"] : r \in saved.records}
           approved == saved.approved /\ ~\E r \in saved.records : r.status = "moving"
<1>3. saved' = [saved EXCEPT !.candidate = Scope!None, !.records = records,
           !.approved = approved]
  BY DEF Scope!RecordCleanup
<1>4. records \in SUBSET Removals /\ \A r \in records : r.status # "moving"
  BY <1>2, ChildFields DEF Removals
<1>5. approved \in BOOLEAN /\ (approved => saved.approved /\ ~IsMoving(saved))
  BY <1>2, ChildFields DEF IsMoving
<1> HIDE DEF records, approved
<1>6. /\ saved' \in ChildStates /\ saved'.failed = saved.failed
         /\ saved'.done = saved.done
      /\ saved'.stop = saved.stop /\ saved'.pending = saved.pending
      /\ saved'.records = records /\ saved'.approved = approved
         /\ saved'.saw = saved.saw
  BY <1>2, <1>3, <1>4, <1>5 DEF ChildStates
<1>7. SessionTypes' /\ session'.pc = "idle"
  BY DEF SessionTypes, Scope!RecordCleanup, Scope!NoSession
<1>8. worktree' = worktree /\ snapshots' = snapshots /\ count' = count
  BY DEF Scope!RecordCleanup
<1> USE DEF ScopeInv, ScopeTypes, MemoryFollowsFile, StopEnds, AuditIsReady,
   WritesAreAudited, AuditOwed, OwedSnapshot, Untouched, RemovalIsRecorded, IsMoving,
   Scope!At, Scope!Mem
<1>9. ScopeTypes'
  BY <1>1, <1>2, <1>4, <1>5, <1>6, <1>7, <1>8
<1>10. MemoryFollowsFile'
  BY <1>1, <1>2, <1>4, <1>5, <1>6, <1>7, <1>8
<1>11. StopEnds'
  BY <1>1, <1>2, <1>4, <1>5, <1>6, <1>7, <1>8
<1>12. AuditIsReady'
  BY <1>1, <1>2, <1>4, <1>5, <1>6, <1>7, <1>8
<1>13. WritesAreAudited'
  BY <1>1, <1>2, <1>4, <1>5, <1>6, <1>7, <1>8
<1>14. RemovalIsRecorded'
  BY <1>1, <1>2, <1>4, <1>5, <1>6, <1>7, <1>8
<1>15. saved'.stop >= saved.stop
  BY <1>1, <1>2, <1>4, <1>5, <1>6, <1>7, <1>8, ChildFields
<1> QED
  BY <1>9, <1>10, <1>11, <1>12, <1>13, <1>14, <1>15 DEF ScopeInv

LEMMA ScopeComponentStep ==
    ASSUME ScopeInv, Scope!Next
    PROVE  ScopeInv' /\ saved'.stop >= saved.stop
<1>1. CASE \E agent \in Writers, errors \in {"none", "build", "test", "check"} :
             Scope!StartAgent(agent, errors)
  BY <1>1, Scope_StartAgent
<1>2. CASE \E f \in Scope!Files : Scope!Write(f)
  BY <1>2, Scope_Write
<1>3. CASE \E outcome \in {"ok", "transient", "fatal"} : Scope!ProviderEnds(outcome)
  BY <1>3, Scope_ProviderEnds
<1>4. CASE \E claim \in 0..2 : Scope!Answer(claim)
  BY <1>4, Scope_Answer
<1>5. ASSUME Scope!StartAgent("implementer", "none") \/ Scope!StartAgent("tool", "none")
      PROVE  \E agent \in Writers, errors \in {"none", "build", "test", "check"} :
               Scope!StartAgent(agent, errors)
  BY <1>5 DEF Writers
<1>6. ASSUME NEW errors \in {"build", "test", "check"}, Scope!StartAgent("fixer",
                  errors)
      PROVE  \E agent \in Writers, e \in {"none", "build", "test", "check"} :
               Scope!StartAgent(agent, e)
  BY <1>6 DEF Writers
<1> QED
  BY <1>1, <1>2, <1>3, <1>4, <1>5, <1>6, Scope_Resume, Scope_ResetFailed,
     Scope_Recover, Scope_Recovered, Scope_End, Scope_Kill, Scope_TakeOuterSnapshot,
     Scope_BeginCall, Scope_SnapshotAttempt, Scope_PendAttempt, Scope_Audit,
     Scope_RestoreOuter, Scope_AttemptOver, Scope_ConfirmProduction, Scope_AgentOver,
     Scope_ClearPending, Scope_Cleared, Scope_Approve, Scope_Finish,
     Scope_ReviewerStops, Scope_IntendQuarantine, Scope_MoveFile, Scope_RecordMove,
     Scope_ForeignWrite, Scope_CleanupQuarantine, Scope_RecordCleanup DEF Scope!Next

LEMMA ScopeStep ==
    ScopeInv /\ [Next]_vars => ScopeInv' /\ (saved'.stop >= saved.stop \/ UNCHANGED Scope!scopeVars)
<1> SUFFICES ASSUME ScopeInv, [Next]_vars
             PROVE  ScopeInv'
                    /\ (saved'.stop >= saved.stop \/ UNCHANGED Scope!scopeVars)
  OBVIOUS
<1>1. Scope!Next \/ UNCHANGED Scope!scopeVars
  BY DEF Next, vars, Amend, RunChild, RunAgent, KeepAlive, Prepare, AuthorPlan,
     UseWorktree,
         ReviewCandidate, ShapePlan, AnswerQuestions, scopeVars, Scope!scopeVars
<1>2. CASE Scope!Next
  BY <1>2, ScopeComponentStep
<1>3. CASE UNCHANGED Scope!scopeVars
  <2> USE DEF Scope!scopeVars
  <2>1. ScopeTypes'
    BY <1>3 DEF ScopeInv, ScopeTypes, SessionTypes
  <2>2. (MemoryFollowsFile /\ StopEnds /\ AuditIsReady)'
    BY <1>3
       DEF ScopeInv, MemoryFollowsFile, StopEnds, AuditIsReady, OwedSnapshot, Scope!At,
           Scope!Mem
  <2>3. WritesAreAudited'
    BY <1>3 DEF ScopeInv, WritesAreAudited, AuditOwed, OwedSnapshot, Untouched
  <2>4. RemovalIsRecorded'
    BY <1>3 DEF ScopeInv, RemovalIsRecorded, IsMoving, Scope!At
  <2> QED
    BY <1>3, <2>1, <2>2, <2>3, <2>4 DEF ScopeInv
<1> QED
  BY <1>1, <1>2, <1>3

LEMMA ScopeInit == Init => ScopeInv
<1> SUFFICES ASSUME Scope!Init PROVE ScopeInv
  BY DEF Init
<1>1. worktree \in FileTrees
  BY DEF Scope!Init, Scope!Base, FileTrees, FileContents, Scope!Absent, Scope!Original
<1>2. /\ saved \in ChildStates /\ saved.stop = 0 /\ ~saved.done /\ ~saved.failed
         /\ ~saved.approved
  BY DEF Scope!Init, Scope!NewChild, ChildStates
<1>3. snapshots \in SnapshotPairs /\ count \in Counts
  BY DEF Scope!Init, SnapshotPairs, Counts
<1>4. session.pc = "idle" /\ SessionTypes
  BY DEF Scope!Init, Scope!NoSession, SessionTypes
<1>5. Untouched(worktree)
  BY DEF Scope!Init, Scope!Base, Scope!Files, Scope!Original, Untouched
<1> QED
  BY <1>1, <1>2, <1>3, <1>4, <1>5
     DEF ScopeInv, ScopeTypes, MemoryFollowsFile, StopEnds, AuditIsReady,
       WritesAreAudited, RemovalIsRecorded, Scope!At, Scope!Mem

LEMMA ScopeInvariant == Spec => []ScopeInv
<1>1. ScopeInv /\ [Next]_vars => ScopeInv'
  BY ScopeStep
<1> QED
  BY <1>1, ScopeInit, PTL DEF Spec

\* A delivery child goes on, or is done, only with a worktree in which nothing
\* but the declared paths was written, and tests by the fixer only, for any
\* number of attempts, writes, sessions, kills and failing snapshots.
THEOREM ScopeAccepted == Spec => []AcceptedWithinScope
<1>1. ScopeInv => AcceptedWithinScope
  <2> SUFFICES ASSUME ScopeInv, Scope!Accepted
               PROVE  worktree["foreign"] = Scope!Original
                      /\ worktree["test"].by \in {"base", "fixer"}
    BY DEF AcceptedWithinScope, Scope!AcceptedWithinScope
  <2>1. CASE saved.done
    BY <2>1 DEF ScopeInv, WritesAreAudited, Untouched
  <2>2. CASE Scope!At("ready")
    BY <2>2 DEF ScopeInv, StopEnds, WritesAreAudited, Untouched, Scope!At
  <2> QED
    BY <2>1, <2>2 DEF Scope!Accepted
<1> QED
  BY <1>1, ScopeInvariant, PTL

\* An approval that read a file is not carried past the removal of that file,
\* wherever the move is interrupted and however it is cleaned up.
THEOREM ScopeRemovals == Spec => []RemovalIsReviewed
<1>1. ScopeInv => RemovalIsReviewed
  <2> DEFINE child == IF Scope!At("ready") THEN Scope!Mem ELSE saved
  <2> SUFFICES ASSUME ScopeInv, Scope!Accepted, child.approved, child.saw,
                    worktree["new"] = Scope!Absent
               PROVE  FALSE
    BY DEF RemovalIsReviewed, Scope!RemovalIsReviewed
  <2>1. saved.approved /\ saved.saw
    BY DEF ScopeInv, MemoryFollowsFile, Scope!At, Scope!Mem
  <2> QED
    BY <2>1 DEF ScopeInv, RemovalIsRecorded, Scope!Accepted
<1> QED
  BY <1>1, ScopeInvariant, PTL

\* A terminal stop outlives every later save, kill, resume and --reset-failed:
\* no step weakens it, and no step starts the child again.
THEOREM ScopeStopIsFinal == Spec => StopIsFinal
<1>1. ScopeInv /\ ScopeInv' /\ [Next]_vars =>
        [saved.stop # 0 => /\ saved'.stop >= saved.stop /\ saved'.failed /\ ~saved'.done
                           /\ ~(Scope!At("idle")
                              /\ session'.pc = "recover")]_(Scope!scopeVars)
  <2> SUFFICES ASSUME ScopeInv, ScopeInv', saved'.stop >= saved.stop, saved.stop # 0
               PROVE  saved'.failed /\ ~saved'.done /\ session'.pc # "recover"
    BY ScopeStep
  <2>1. saved.stop \in 0..4 /\ saved'.stop \in 0..4
    BY DEF ScopeInv, ScopeTypes, ChildStates
  <2>2. saved'.stop # 0
    BY <2>1
  <2> QED
    BY <2>2 DEF ScopeInv, StopEnds, Scope!At
<1> QED
  BY <1>1, ScopeInvariant, PTL DEF Spec, StopIsFinal, Scope!StopIsFinal

(***************************************************************************)
(* The subprocess of an agent.  What a stream was sent is what was         *)
(* recorded of it, then what the queue has of it, then what is in its      *)
(* pipe; and the main thread sees the process, the readers and the queue   *)
(* end in an order in which nothing can be on its way behind it.           *)
(***************************************************************************)
ProcessChunks == Process!Streams \X Nat

ProcessPlaces == {"drain", "writer", "poll", "readers", "queue", "wait", "join", "last_check",
                  "timing_out", "completed", "timeout", "provider_error", "environment_error"}

ProcessTypes ==
    /\ provider \in {"running", "exited", "killed"}
    /\ descendant \in {"none", "holding", "detached", "killed"}
    /\ pipe \in [Process!Streams -> Seq(ProcessChunks)]
    /\ reader \in [Process!Streams -> {"alive", "done"}]
    /\ writer \in {"alive", "failed", "done"}
    /\ chunks \in Seq(ProcessChunks)
    /\ parts \in [Process!Streams -> Seq(ProcessChunks)]
    /\ sent \in [Process!Streams -> Seq(ProcessChunks)]
    /\ late \in BOOLEAN /\ caller \in ProcessPlaces

\* Recording the chunks of a queue, in turn, takes a stream's parts so far.
Leads(queue, s, from, to) ==
    \E f \in [0..Len(queue) -> Seq(ProcessChunks)] :
        /\ f[0] = from /\ f[Len(queue)] = to
        /\ \A i \in 1..Len(queue) :
             f[i] = IF queue[i][1] = s THEN Append(f[i - 1], queue[i]) ELSE f[i - 1]

\* No chunk is lost, doubled or out of order on its way to the main thread.
OnItsWay(s) ==
    \E to \in Seq(ProcessChunks) : Leads(chunks, s, parts[s], to) /\ sent[s] = to \o pipe[s]

OwnPipe(s) == \A i \in 1..Len(pipe[s]) : pipe[s][i][1] = s

\* A reader that has ended left nothing in its pipe, and nobody can add to it.
ReadToTheEnd(s) == reader[s] = "done" => pipe[s] = <<>> /\ ~Process!Live

EndWasSeen ==
    /\ caller \in {"queue", "join", "last_check", "completed"} => Process!ReadersDone
    /\ caller \in {"join", "last_check", "completed"} => chunks = <<>>

FailureWasKilled ==
    caller \in {"timing_out", "timeout", "provider_error", "environment_error"} =>
        provider # "running" /\ descendant \notin {"holding", "detached"}

ProcessInv ==
    /\ ProcessTypes /\ EndWasSeen /\ FailureWasKilled
    /\ \A s \in Process!Streams : OnItsWay(s) /\ OwnPipe(s) /\ ReadToTheEnd(s)

LEMMA ChunkFields ==
    ASSUME NEW x \in ProcessChunks
    PROVE  x[1] \in Process!Streams /\ x[2] \in Nat
BY DEF ProcessChunks

LEMMA NoneLeads ==
    ASSUME NEW s, NEW from \in Seq(ProcessChunks), NEW to
    PROVE  Leads(<<>>, s, from, to) <=> from = to
<1>1. ASSUME Leads(<<>>, s, from, to) PROVE from = to
  BY <1>1 DEF Leads
<1>2. ASSUME from = to PROVE Leads(<<>>, s, from, to)
  <2> DEFINE f == [i \in 0..Len(<<>>) |-> from]
  <2>1. f \in [0..Len(<<>>) -> Seq(ProcessChunks)] /\ f[0] = from /\ f[Len(<<>>)] = to
    BY <1>2
  <2>2. \A i \in 1..Len(<<>>) : FALSE
    OBVIOUS
  <2> QED
    BY <2>1, <2>2 DEF Leads
<1> QED
  BY <1>1, <1>2

\* A chunk at the end of the queue is recorded last,
LEMMA LeadsOn ==
    ASSUME NEW queue \in Seq(ProcessChunks), NEW s, NEW from, NEW to, NEW x \in ProcessChunks,
           Leads(queue, s, from, to)
    PROVE  Leads(Append(queue, x), s, from, IF x[1] = s THEN Append(to, x) ELSE to)
<1> DEFINE n == Len(queue)
           after == IF x[1] = s THEN Append(to, x) ELSE to
<1>1. PICK f \in [0..n -> Seq(ProcessChunks)] :
        /\ f[0] = from /\ f[n] = to
        /\ \A i \in 1..n : f[i] = IF queue[i][1] = s THEN Append(f[i - 1], queue[i]) ELSE f[i - 1]
  BY DEF Leads
<1> DEFINE g == [i \in 0..(n + 1) |-> IF i = n + 1 THEN after ELSE f[i]]
<1>2. n \in Nat /\ Len(Append(queue, x)) = n + 1 /\ to \in Seq(ProcessChunks)
  BY <1>1
<1>3. after \in Seq(ProcessChunks)
  BY <1>2
<1>4. g \in [0..(n + 1) -> Seq(ProcessChunks)]
  BY <1>1, <1>2, <1>3
<1>5. g[0] = from /\ g[n + 1] = after
  BY <1>1, <1>2
<1>6. ASSUME NEW i \in 1..(n + 1)
      PROVE  g[i] = IF Append(queue, x)[i][1] = s THEN Append(g[i - 1], Append(queue, x)[i])
                    ELSE g[i - 1]
  <2>1. CASE i = n + 1
    <3>1. Append(queue, x)[i] = x
      BY <2>1
    <3>2. g[i - 1] = to /\ g[i] = after
      BY <1>1, <1>2, <2>1
    <3> QED
      BY <3>1, <3>2
  <2>2. CASE i # n + 1
    <3>1. i \in 1..n /\ i - 1 \in 0..n /\ i \in 0..n
      BY <1>2, <2>2
    <3>2. Append(queue, x)[i] = queue[i]
      BY <3>1
    <3>3. g[i - 1] = f[i - 1] /\ g[i] = f[i]
      BY <1>2, <3>1
    <3> QED
      BY <1>1, <3>1, <3>2, <3>3
  <2> QED
    BY <2>1, <2>2
<1> HIDE DEF g, after
<1>7. \E h \in [0..(n + 1) -> Seq(ProcessChunks)] :
        /\ h[0] = from /\ h[n + 1] = after
        /\ \A i \in 1..(n + 1) :
             h[i] = IF Append(queue, x)[i][1] = s THEN Append(h[i - 1], Append(queue, x)[i])
                    ELSE h[i - 1]
  BY <1>4, <1>5, <1>6
<1> QED
  BY <1>2, <1>7 DEF Leads, after

\* and one at its head first.
LEMMA LeadsFrom ==
    ASSUME NEW queue \in Seq(ProcessChunks), NEW s, NEW from, NEW to,
           Leads(queue, s, from, to), queue # <<>>
    PROVE  Leads(Tail(queue), s, IF Head(queue)[1] = s THEN Append(from, Head(queue)) ELSE from, to)
<1> DEFINE n == Len(queue)
           first == IF Head(queue)[1] = s THEN Append(from, Head(queue)) ELSE from
<1>1. PICK f \in [0..n -> Seq(ProcessChunks)] :
        /\ f[0] = from /\ f[n] = to
        /\ \A i \in 1..n : f[i] = IF queue[i][1] = s THEN Append(f[i - 1], queue[i]) ELSE f[i - 1]
  BY DEF Leads
<1>2. n \in Nat \ {0} /\ Len(Tail(queue)) = n - 1 /\ Head(queue) = queue[1]
  OBVIOUS
<1> DEFINE g == [i \in 0..(n - 1) |-> f[i + 1]]
<1>3. g \in [0..(n - 1) -> Seq(ProcessChunks)]
  BY <1>1, <1>2
<1>4. g[0] = first /\ g[n - 1] = to
  <2>1. g[0] = f[1] /\ g[n - 1] = f[n]
    BY <1>2
  <2>2. f[1] = IF queue[1][1] = s THEN Append(f[0], queue[1]) ELSE f[0]
    BY <1>1, <1>2
  <2> QED
    BY <1>1, <1>2, <2>1, <2>2
<1>5. ASSUME NEW i \in 1..(n - 1)
      PROVE  g[i] = IF Tail(queue)[i][1] = s THEN Append(g[i - 1], Tail(queue)[i]) ELSE g[i - 1]
  <2>1. i + 1 \in 1..n /\ i \in 0..(n - 1) /\ i - 1 \in 0..(n - 1) /\ (i + 1) - 1 = i
    BY <1>2
  <2>2. Tail(queue)[i] = queue[i + 1]
    BY <1>2
  <2>3. g[i] = f[i + 1] /\ g[i - 1] = f[i]
    BY <2>1
  <2> QED
    BY <1>1, <2>1, <2>2, <2>3
<1> HIDE DEF g, first
<1>6. \E h \in [0..(n - 1) -> Seq(ProcessChunks)] :
        /\ h[0] = first /\ h[n - 1] = to
        /\ \A i \in 1..(n - 1) :
             h[i] = IF Tail(queue)[i][1] = s THEN Append(h[i - 1], Tail(queue)[i]) ELSE h[i - 1]
  BY <1>3, <1>4, <1>5
<1> QED
  BY <1>2, <1>6 DEF Leads, first

LEMMA PipeFacts ==
    ASSUME NEW p \in Seq(ProcessChunks), NEW to \in Seq(ProcessChunks)
    PROVE  /\ to \o <<>> = to
           /\ \A x \in ProcessChunks : to \o Append(p, x) = Append(to \o p, x)
           /\ p # <<>> => /\ Append(to, Head(p)) \o Tail(p) = to \o p
                          /\ Head(p) \in ProcessChunks /\ Tail(p) \in Seq(ProcessChunks)
                          /\ Head(p) = p[1] /\ Len(Tail(p)) = Len(p) - 1
                          /\ \A i \in 1..Len(Tail(p)) : Tail(p)[i] = p[i + 1]
<1>1. to \o <<>> = to
  OBVIOUS
<1>2. ASSUME NEW x \in ProcessChunks PROVE to \o Append(p, x) = Append(to \o p, x)
  OBVIOUS
<1>3. ASSUME p # <<>>
      PROVE  /\ Head(p) \in ProcessChunks /\ Tail(p) \in Seq(ProcessChunks)
             /\ Head(p) = p[1] /\ Len(Tail(p)) = Len(p) - 1
             /\ \A i \in 1..Len(Tail(p)) : Tail(p)[i] = p[i + 1]
  BY <1>3
<1>4. ASSUME p # <<>> PROVE Append(to, Head(p)) \o Tail(p) = to \o p
  BY <1>4
<1> QED
  BY <1>1, <1>2, <1>3, <1>4

LEMMA ProcessStarts == Process!Init => ProcessInv
<1> SUFFICES ASSUME Process!Init PROVE ProcessInv
  OBVIOUS
<1>1. ProcessTypes
  <2>1. <<>> \in Seq(ProcessChunks)
    OBVIOUS
  <2>2. [s \in Process!Streams |-> <<>>] \in [Process!Streams -> Seq(ProcessChunks)]
    BY <2>1
  <2>3. [s \in Process!Streams |-> "alive"] \in [Process!Streams -> {"alive", "done"}]
    OBVIOUS
  <2> QED
    BY <2>1, <2>2, <2>3 DEF Process!Init, ProcessTypes, ProcessPlaces
<1>2. EndWasSeen /\ FailureWasKilled
  BY DEF Process!Init, EndWasSeen, FailureWasKilled
<1>3. ASSUME NEW s \in Process!Streams PROVE OnItsWay(s) /\ OwnPipe(s) /\ ReadToTheEnd(s)
  <2>1. chunks = <<>> /\ parts[s] = <<>> /\ sent[s] = <<>> /\ pipe[s] = <<>> /\ reader[s] = "alive"
    BY <1>3 DEF Process!Init
  <2>2. <<>> \in Seq(ProcessChunks)
    OBVIOUS
  <2>3. OnItsWay(s)
    <3>0. Leads(<<>>, s, <<>>, <<>>)
      BY <2>2, NoneLeads
    <3>1. Leads(chunks, s, parts[s], <<>>)
      BY <2>1, <3>0
    <3>2. sent[s] = <<>> \o pipe[s]
      BY <2>1, <2>2, PipeFacts
    <3> QED
      BY <2>2, <3>1, <3>2 DEF OnItsWay
  <2>4. OwnPipe(s) /\ ReadToTheEnd(s)
    BY <2>1 DEF OwnPipe, ReadToTheEnd
  <2> QED
    BY <2>3, <2>4
<1> QED
  BY <1>1, <1>2, <1>3 DEF ProcessInv

StreamsHold == \A s \in Process!Streams : OnItsWay(s) /\ OwnPipe(s) /\ ReadToTheEnd(s)

LEMMA EmitSteps ==
    ASSUME ProcessInv, NEW s \in Process!Streams, NEW fatal \in BOOLEAN, Process!Emit(s, fatal)
    PROVE  ProcessInv'
<1> DEFINE x == <<s, IF fatal THEN 0 ELSE Len(sent[s]) + 1>>
<1>1. /\ Process!Live /\ pipe' = [pipe EXCEPT ![s] = Append(@, x)]
      /\ sent' = [sent EXCEPT ![s] = Append(@, x)]
      /\ UNCHANGED <<provider, descendant, reader, writer, chunks, parts, late, caller>>
  BY DEF Process!Emit, Process!Workers
<1>2. ProcessTypes
  BY DEF ProcessInv
<1>3. x \in ProcessChunks /\ x[1] = s
  BY <1>2 DEF ProcessTypes, ProcessChunks
<1> HIDE DEF x
<1>4. ProcessTypes'
  BY <1>1, <1>2, <1>3 DEF ProcessTypes
<1>5. EndWasSeen' /\ FailureWasKilled'
  BY <1>1 DEF ProcessInv, EndWasSeen, FailureWasKilled, Process!ReadersDone
<1>6. ASSUME NEW q \in Process!Streams PROVE (OnItsWay(q) /\ OwnPipe(q) /\ ReadToTheEnd(q))'
  <2>1. OnItsWay(q) /\ OwnPipe(q) /\ ReadToTheEnd(q)
    BY DEF ProcessInv
  <2>2. CASE q # s
    <3>1. pipe'[q] = pipe[q] /\ sent'[q] = sent[q]
      BY <1>1, <1>2, <2>2 DEF ProcessTypes
    <3>2. OnItsWay(q)'
      BY <1>1, <2>1, <3>1 DEF OnItsWay
    <3>3. OwnPipe(q)'
      BY <2>1, <3>1 DEF OwnPipe
    <3>4. ReadToTheEnd(q)'
      BY <1>1, <2>1, <3>1 DEF ReadToTheEnd, Process!Live
    <3> QED
      BY <3>2, <3>3, <3>4
  <2>3. CASE q = s
    <3>1. pipe'[q] = Append(pipe[q], x) /\ sent'[q] = Append(sent[q], x) /\ pipe[q] \in Seq(ProcessChunks)
      BY <1>1, <1>2, <2>3 DEF ProcessTypes
    <3>2. OnItsWay(q)'
      <4>1. PICK to \in Seq(ProcessChunks) : Leads(chunks, q, parts[q], to) /\ sent[q] = to \o pipe[q]
        BY <2>1 DEF OnItsWay
      <4>2. to \o Append(pipe[q], x) = Append(to \o pipe[q], x)
        BY <1>3, <3>1, PipeFacts
      <4>3. sent'[q] = to \o pipe'[q]
        BY <3>1, <4>1, <4>2
      <4> QED
        BY <1>1, <4>1, <4>3 DEF OnItsWay
    <3>3. OwnPipe(q)'
      BY <1>3, <2>1, <2>3, <3>1 DEF OwnPipe
    <3>4. ReadToTheEnd(q)'
      BY <1>1, <2>1 DEF ReadToTheEnd
    <3> QED
      BY <3>2, <3>3, <3>4
  <2> QED
    BY <2>2, <2>3
<1> QED
  BY <1>4, <1>5, <1>6 DEF ProcessInv

LEMMA ReadSteps ==
    ASSUME ProcessInv, NEW s \in Process!Streams, Process!Read(s)
    PROVE  ProcessInv'
<1>1. /\ reader[s] = "alive"
      /\ UNCHANGED <<provider, descendant, sent, writer, parts, late, caller>>
  BY DEF Process!Read
<1>2. ProcessTypes
  BY DEF ProcessInv
<1>3. CASE pipe[s] # <<>>
  <2>1. /\ chunks' = Append(chunks, Head(pipe[s])) /\ pipe' = [pipe EXCEPT ![s] = Tail(@)]
        /\ reader' = reader
    BY <1>3 DEF Process!Read
  <2>2. pipe[s] \in Seq(ProcessChunks)
    BY <1>2 DEF ProcessTypes
  <2>3. Head(pipe[s]) \in ProcessChunks /\ Tail(pipe[s]) \in Seq(ProcessChunks)
        /\ Head(pipe[s])[1] = s
    <3>1. Head(pipe[s]) = pipe[s][1] /\ 1 \in 1..Len(pipe[s])
      BY <1>3, <2>2
    <3> QED
      BY <1>3, <2>2, <3>1, PipeFacts DEF ProcessInv, OwnPipe
  <2>4. ProcessTypes'
    BY <1>1, <1>2, <2>1, <2>3 DEF ProcessTypes
  <2>5. EndWasSeen' /\ FailureWasKilled'
    <3>1. caller \notin {"queue", "join", "last_check", "completed"}
      BY <1>1 DEF ProcessInv, EndWasSeen, Process!ReadersDone
    <3> QED
      BY <1>1, <3>1 DEF ProcessInv, EndWasSeen, FailureWasKilled
  <2>6. ASSUME NEW q \in Process!Streams PROVE (OnItsWay(q) /\ OwnPipe(q) /\ ReadToTheEnd(q))'
    <3>1. OnItsWay(q) /\ OwnPipe(q) /\ ReadToTheEnd(q)
      BY DEF ProcessInv
    <3>2. PICK to \in Seq(ProcessChunks) : Leads(chunks, q, parts[q], to) /\ sent[q] = to \o pipe[q]
      BY <3>1 DEF OnItsWay
    <3>3. Leads(chunks', q, parts'[q], IF q = s THEN Append(to, Head(pipe[s])) ELSE to)
      <4>1. Leads(Append(chunks, Head(pipe[s])), q, parts[q],
                  IF Head(pipe[s])[1] = q THEN Append(to, Head(pipe[s])) ELSE to)
        BY <1>2, <2>3, <3>2, LeadsOn DEF ProcessTypes
      <4> QED
        BY <1>1, <2>1, <2>3, <4>1
    <3>4. CASE q # s
      <4>1. pipe'[q] = pipe[q]
        BY <1>2, <2>1, <3>4 DEF ProcessTypes
      <4>2. OnItsWay(q)'
        BY <1>1, <3>2, <3>3, <3>4, <4>1 DEF OnItsWay
      <4> QED
        BY <1>1, <2>1, <3>1, <4>1, <4>2 DEF OwnPipe, ReadToTheEnd, Process!Live
    <3>5. CASE q = s
      <4>1. pipe'[q] = Tail(pipe[q])
        BY <1>2, <2>1, <3>5 DEF ProcessTypes
      <4>2. sent'[q] = Append(to, Head(pipe[q])) \o pipe'[q] /\ Append(to, Head(pipe[q])) \in Seq(ProcessChunks)
        <5>1. Append(to, Head(pipe[q])) \o Tail(pipe[q]) = to \o pipe[q]
          BY <1>3, <2>2, <3>5, PipeFacts
        <5>2. Append(to, Head(pipe[q])) \in Seq(ProcessChunks)
          BY <2>3, <3>5
        <5> QED
          BY <1>1, <3>2, <4>1, <5>1, <5>2
      <4>3. OnItsWay(q)'
        BY <3>3, <3>5, <4>2 DEF OnItsWay
      <4>4. OwnPipe(q)'
        <5>1. Len(Tail(pipe[q])) = Len(pipe[q]) - 1 /\ Len(pipe[q]) \in Nat
              /\ \A i \in 1..Len(Tail(pipe[q])) : Tail(pipe[q])[i] = pipe[q][i + 1]
          BY <1>3, <2>2, <3>5, PipeFacts
        <5> QED
          BY <3>1, <4>1, <5>1 DEF OwnPipe
      <4>5. ReadToTheEnd(q)'
        BY <1>1, <2>1, <3>5 DEF ReadToTheEnd
      <4> QED
        BY <4>3, <4>4, <4>5
    <3> QED
      BY <3>4, <3>5
  <2> QED
    BY <2>4, <2>5, <2>6 DEF ProcessInv
<1>4. CASE pipe[s] = <<>>
  <2>1. /\ ~Process!Live /\ reader' = [reader EXCEPT ![s] = "done"]
        /\ chunks' = chunks /\ pipe' = pipe
    BY <1>4 DEF Process!Read
  <2>2. ProcessTypes'
    BY <1>1, <1>2, <2>1 DEF ProcessTypes
  <2>3. EndWasSeen' /\ FailureWasKilled'
    BY <1>1, <1>2, <2>1 DEF ProcessTypes, ProcessInv, EndWasSeen, FailureWasKilled, Process!ReadersDone
  <2>4. ASSUME NEW q \in Process!Streams PROVE (OnItsWay(q) /\ OwnPipe(q) /\ ReadToTheEnd(q))'
    BY <1>1, <1>2, <1>4, <2>1 DEF ProcessInv, ProcessTypes, OnItsWay, OwnPipe, ReadToTheEnd, Process!Live
  <2> QED
    BY <2>2, <2>3, <2>4 DEF ProcessInv
<1> QED
  BY <1>3, <1>4

\* What leaves the chunks alone keeps them on their way, as long as nobody
\* takes up writing again.
LEMMA ChunksStay ==
    ASSUME ProcessInv, UNCHANGED <<pipe, sent, reader, chunks, parts>>, Process!Live' => Process!Live
    PROVE  StreamsHold'
BY DEF ProcessInv, StreamsHold, OnItsWay, OwnPipe, ReadToTheEnd

LEMMA OutsideSteps ==
    ASSUME ProcessInv, Process!Fork \/ Process!Exit \/ Process!Deadline \/ Process!FeedPrompt
    PROVE  ProcessInv'
<1>1. /\ UNCHANGED <<pipe, sent, reader, chunks, parts, caller>>
      /\ Process!Live' => Process!Live
  BY DEF Process!Fork, Process!Exit, Process!Deadline, Process!FeedPrompt, Process!Workers,
         Process!Child, Process!Live
<1>2. StreamsHold'
  BY <1>1, ChunksStay
<1>3. ProcessTypes'
  BY <1>1 DEF ProcessInv, ProcessTypes, Process!Fork, Process!Exit, Process!Deadline,
              Process!FeedPrompt, Process!Workers, Process!Child
<1>4. EndWasSeen' /\ FailureWasKilled'
  BY <1>1 DEF ProcessInv, EndWasSeen, FailureWasKilled, Process!ReadersDone, Process!Fork,
              Process!Exit, Process!Deadline, Process!FeedPrompt, Process!Workers, Process!Child
<1> QED
  BY <1>2, <1>3, <1>4 DEF ProcessInv, StreamsHold

(* The main thread.                                                        *)
ProcessFailures == {"timing_out", "timeout", "provider_error", "environment_error"}

LEMMA TerminateEffect ==
    ASSUME ProcessInv, NEW pc \in ProcessFailures, Process!Terminate(pc)
    PROVE  /\ pipe' = pipe /\ sent' = sent /\ caller' = pc
           /\ provider' \in {"exited", "killed"} /\ descendant' \in {"none", "killed"}
           /\ ~Process!Live' 
BY DEF ProcessInv, ProcessTypes, Process!Terminate, Process!Live

LEMMA GoEffect ==
    ASSUME NEW pc, Process!Go(pc)
    PROVE  /\ caller' = pc /\ UNCHANGED <<provider, descendant, pipe, sent>>
           /\ Process!Live' = Process!Live
BY DEF Process!Go, Process!Child, Process!Live

LEMMA CallGoesOn ==
    ASSUME ProcessInv, NEW pc \in ProcessPlaces, Process!Go(pc),
           UNCHANGED <<reader, chunks, parts, late>>, writer' \in {"alive", "failed", "done"},
           pc \in ProcessFailures => caller \in ProcessFailures,
           pc \in {"queue", "join", "last_check", "completed"} => Process!ReadersDone,
           pc \in {"join", "last_check", "completed"} => chunks = <<>>
    PROVE  ProcessInv'
<1>1. /\ caller' = pc /\ UNCHANGED <<provider, descendant, pipe, sent>>
      /\ Process!Live' = Process!Live
  BY GoEffect
<1>2. StreamsHold'
  BY <1>1, ChunksStay
<1>3. ProcessTypes'
  BY <1>1 DEF ProcessInv, ProcessTypes
<1>4. EndWasSeen' /\ FailureWasKilled'
  BY <1>1 DEF ProcessInv, EndWasSeen, FailureWasKilled, Process!ReadersDone, ProcessFailures
<1> QED
  BY <1>2, <1>3, <1>4 DEF ProcessInv, StreamsHold

LEMMA EndsAll ==
    ASSUME ProcessInv, NEW pc \in ProcessFailures, Process!Terminate(pc),
           UNCHANGED <<reader, chunks, parts, late>>, writer' \in {"alive", "failed", "done"}
    PROVE  ProcessInv'
<1>1. /\ pipe' = pipe /\ sent' = sent /\ caller' = pc
      /\ provider' \in {"exited", "killed"} /\ descendant' \in {"none", "killed"}
      /\ ~Process!Live' 
  BY TerminateEffect
<1>2. StreamsHold'
  BY <1>1, ChunksStay
<1>3. ProcessTypes'
  BY <1>1 DEF ProcessInv, ProcessTypes, ProcessPlaces, ProcessFailures
<1>4. EndWasSeen' /\ FailureWasKilled'
  BY <1>1 DEF EndWasSeen, FailureWasKilled, ProcessFailures
<1> QED
  BY <1>2, <1>3, <1>4 DEF ProcessInv, StreamsHold

LEMMA RecordSteps ==
    ASSUME ProcessInv, NEW pc \in {"drain", "timing_out"}, chunks # <<>>, Process!Record(pc),
           pc = "timing_out" => caller = "timing_out"
    PROVE  ProcessInv'
<1> DEFINE x == Head(chunks)
<1>1. /\ parts' = [parts EXCEPT ![x[1]] = Append(@, x)] /\ chunks' = Tail(chunks)
      /\ UNCHANGED <<reader, writer, late>>
      /\ IF x[2] = 0 THEN Process!Terminate("provider_error") ELSE Process!Go(pc)
  BY DEF Process!Record
<1>2. ProcessTypes
  BY DEF ProcessInv
<1>3. x \in ProcessChunks /\ Tail(chunks) \in Seq(ProcessChunks)
  BY <1>2, PipeFacts DEF ProcessTypes
<1>4. x[1] \in Process!Streams
  BY <1>3, ChunkFields
<1> HIDE DEF x
<1>5. /\ pipe' = pipe /\ sent' = sent
      /\ provider' \in {"running", "exited", "killed"}
      /\ descendant' \in {"none", "holding", "detached", "killed"}
      /\ Process!Live' => Process!Live
      /\ caller' \in {"drain", "timing_out", "provider_error"}
      /\ FailureWasKilled'
  <2>1. CASE x[2] = 0
    <3>1. Process!Terminate("provider_error")
      BY <1>1, <2>1
    <3>2. "provider_error" \in ProcessFailures
      BY DEF ProcessFailures
    <3>3. /\ pipe' = pipe /\ sent' = sent /\ caller' = "provider_error"
          /\ provider' \in {"exited", "killed"} /\ descendant' \in {"none", "killed"}
          /\ ~Process!Live' 
      BY <3>1, <3>2, TerminateEffect
    <3> QED
      BY <3>3 DEF FailureWasKilled
  <2>2. CASE x[2] # 0
    <3>1. /\ caller' = pc /\ UNCHANGED <<provider, descendant, pipe, sent>>
          /\ Process!Live' = Process!Live
      BY <1>1, <2>2, GoEffect
    <3> QED
      BY <1>2, <3>1 DEF ProcessInv, ProcessTypes, FailureWasKilled
  <2> QED
    BY <2>1, <2>2
<1>6. ProcessTypes'
  BY <1>1, <1>2, <1>3, <1>4, <1>5 DEF ProcessTypes, ProcessPlaces
<1>7. EndWasSeen'
  BY <1>5 DEF EndWasSeen
<1>8. ASSUME NEW q \in Process!Streams PROVE (OnItsWay(q) /\ OwnPipe(q) /\ ReadToTheEnd(q))'
  <2>1. OnItsWay(q) /\ OwnPipe(q) /\ ReadToTheEnd(q)
    BY DEF ProcessInv
  <2>2. PICK to \in Seq(ProcessChunks) : Leads(chunks, q, parts[q], to) /\ sent[q] = to \o pipe[q]
    BY <2>1 DEF OnItsWay
  <2>3. parts'[q] = IF x[1] = q THEN Append(parts[q], x) ELSE parts[q]
    BY <1>1, <1>2, <1>4 DEF ProcessTypes
  <2>4. Leads(chunks', q, parts'[q], to)
    <3>1. Leads(Tail(chunks), q, IF Head(chunks)[1] = q THEN Append(parts[q], Head(chunks)) ELSE parts[q], to)
      BY <1>2, <2>2, LeadsFrom DEF ProcessTypes
    <3> QED
      BY <1>1, <2>3, <3>1 DEF x
  <2>5. OnItsWay(q)'
    BY <1>5, <2>2, <2>4 DEF OnItsWay
  <2>6. OwnPipe(q)' /\ ReadToTheEnd(q)'
    BY <1>1, <1>5, <2>1 DEF OwnPipe, ReadToTheEnd
  <2> QED
    BY <2>5, <2>6
<1> QED
  BY <1>5, <1>6, <1>7, <1>8 DEF ProcessInv

LEMMA CallerSteps ==
    ASSUME ProcessInv,
           \/ Process!Drain \/ Process!CheckWriter("writer", "poll") \/ Process!EndSeen
           \/ Process!Wait \/ Process!Join \/ Process!CheckWriter("last_check", "completed")
           \/ Process!TimingOut
    PROVE  ProcessInv'
<1>1. writer \in {"alive", "failed", "done"} /\ EndWasSeen /\ caller \in ProcessPlaces
  BY DEF ProcessInv, ProcessTypes
<1>2. CASE Process!Drain
  <2>1. CASE late
    BY <1>1, <1>2, <2>1, EndsAll DEF Process!Drain, ProcessFailures
  <2>2. CASE ~late /\ chunks # <<>>
    BY <1>2, <2>2, RecordSteps DEF Process!Drain
  <2>3. CASE ~late /\ chunks = <<>>
    BY <1>1, <1>2, <2>3, CallGoesOn DEF Process!Drain, ProcessPlaces, ProcessFailures
  <2> QED
    BY <2>1, <2>2, <2>3
<1>3. ASSUME NEW pc, NEW next \in ProcessPlaces, Process!CheckWriter(pc, next),
             \/ pc = "writer" /\ next = "poll"
             \/ pc = "last_check" /\ next = "completed"
      PROVE  ProcessInv'
  <2>1. caller = pc /\ UNCHANGED <<reader, chunks, parts, late>>
    BY <1>3 DEF Process!CheckWriter, Process!At
  <2>2. CASE writer = "failed"
    BY <1>3, <2>1, <2>2, EndsAll DEF Process!CheckWriter, ProcessFailures
  <2>3. CASE writer # "failed"
    <3>1. Process!Go(next) /\ writer' = writer
      BY <1>3, <2>3 DEF Process!CheckWriter
    <3> QED
      BY <1>1, <1>3, <2>1, <3>1, CallGoesOn DEF EndWasSeen, ProcessFailures
  <2> QED
    BY <2>2, <2>3
<1>4. CASE Process!EndSeen
  <2>1. CASE Process!Test("poll", provider # "running", "readers")
    BY <1>1, <2>1, CallGoesOn DEF Process!Test, Process!At, ProcessPlaces, ProcessFailures
  <2>2. CASE Process!Test("readers", Process!ReadersDone, "queue")
    BY <1>1, <2>2, CallGoesOn DEF Process!Test, Process!At, ProcessPlaces, ProcessFailures
  <2>3. CASE Process!Test("queue", chunks = <<>>, "join")
    BY <1>1, <2>3, CallGoesOn DEF Process!Test, Process!At, ProcessPlaces, ProcessFailures, EndWasSeen
  <2> QED
    BY <1>4, <2>1, <2>2, <2>3 DEF Process!EndSeen
<1>5. CASE Process!Wait
  <2>1. CASE late
    BY <1>1, <1>5, <2>1, EndsAll DEF Process!Wait, ProcessFailures
  <2>2. CASE ~late /\ chunks # <<>> /\ Process!Record("drain")
    BY <1>5, <2>2, RecordSteps
  <2>3. CASE ~late /\ Process!Go("drain") /\ UNCHANGED <<chunks, parts, reader, writer, late>>
    BY <1>1, <1>5, <2>3, CallGoesOn DEF ProcessPlaces, ProcessFailures
  <2> QED
    BY <1>5, <2>1, <2>2, <2>3 DEF Process!Wait
<1>6. CASE Process!Join
  <2>0. caller = "join" /\ UNCHANGED <<reader, writer, chunks, parts, late>>
    BY <1>6 DEF Process!Join, Process!At
  <2>1. CASE writer # "alive"
    <3>1. Process!Go("last_check")
      BY <1>6, <2>1 DEF Process!Join
    <3> QED
      BY <1>1, <2>0, <3>1, CallGoesOn DEF ProcessPlaces, ProcessFailures, EndWasSeen
  <2>2. CASE writer = "alive" /\ late
    <3>1. Process!Terminate("timing_out")
      BY <1>6, <2>2 DEF Process!Join
    <3> QED
      BY <1>1, <2>0, <3>1, EndsAll DEF ProcessFailures
  <2>3. CASE writer = "alive" /\ ~late
    <3>1. Process!Go("join")
      BY <1>6, <2>3 DEF Process!Join
    <3> QED
      BY <1>1, <2>0, <3>1, CallGoesOn DEF ProcessPlaces, ProcessFailures, EndWasSeen
  <2> QED
    BY <2>1, <2>2, <2>3
<1>7. CASE Process!TimingOut
  <2>0. caller = "timing_out"
    BY <1>7 DEF Process!TimingOut, Process!At
  <2>1. CASE chunks # <<>>
    BY <1>7, <2>0, <2>1, RecordSteps DEF Process!TimingOut
  <2>2. CASE chunks = <<>>
    BY <1>1, <1>7, <2>0, <2>2, CallGoesOn DEF Process!TimingOut, ProcessPlaces, ProcessFailures
  <2> QED
    BY <2>1, <2>2
<1>8. "poll" \in ProcessPlaces /\ "completed" \in ProcessPlaces
  BY DEF ProcessPlaces
<1> QED
  BY <1>2, <1>3, <1>4, <1>5, <1>6, <1>7, <1>8

LEMMA ProcessSteps == ProcessInv /\ [Next]_vars => ProcessInv'
<1> SUFFICES ASSUME ProcessInv, [Next]_vars PROVE ProcessInv'
  OBVIOUS
<1>1. CASE UNCHANGED processVars
  BY <1>1, ChunksStay DEF ProcessInv, ProcessTypes, EndWasSeen, FailureWasKilled, StreamsHold,
        Process!ReadersDone, Process!Live, processVars
<1>2. CASE RunAgent
  <2>1. Process!Next
    BY <1>2 DEF RunAgent
  <2> QED
    BY <2>1, EmitSteps, ReadSteps, OutsideSteps, CallerSteps DEF Process!Next
<1> QED
  BY <1>1, <1>2 DEF Next, vars, processVars, Amend, RunChild, KeepAlive, Prepare, AuthorPlan,
        UseWorktree, ReviewCandidate, ShapePlan, AnswerQuestions

LEMMA EmptyQueueIsWhole ==
    ASSUME ProcessInv, chunks = <<>>, Process!ReadersDone
    PROVE  parts = sent
<1>1. ASSUME NEW s \in Process!Streams PROVE parts[s] = sent[s]
  <2>1. PICK to \in Seq(ProcessChunks) : Leads(<<>>, s, parts[s], to) /\ sent[s] = to \o pipe[s]
    BY DEF ProcessInv, OnItsWay
  <2>2. pipe[s] = <<>> /\ parts[s] \in Seq(ProcessChunks)
    BY DEF ProcessInv, ProcessTypes, ReadToTheEnd, Process!ReadersDone
  <2>3. parts[s] = to
    BY <2>1, <2>2, NoneLeads
  <2> QED
    BY <2>1, <2>2, <2>3, PipeFacts
<1> QED
  BY <1>1 DEF ProcessInv, ProcessTypes

\* A completed call returns all that either stream was ever sent, in order,
\* and a failed one has killed all it started, whatever the threads, the
\* provider and its descendant do (_run_agent_subprocess_streaming).
THEOREM CallSettled == Spec => []CallIsSettled
<1>1. Init => ProcessInv
  BY ProcessStarts DEF Init
<1>2. ProcessInv => CallIsSettled
  <2> SUFFICES ASSUME ProcessInv PROVE Process!CallIsSettled
    BY DEF CallIsSettled
  <2>1. Process!CompletedIsWhole
    BY EmptyQueueIsWhole DEF Process!CompletedIsWhole, Process!At, ProcessInv, EndWasSeen
  <2>2. Process!FailedCallIsKilled
    BY DEF Process!FailedCallIsKilled, Process!Over, Process!At, ProcessInv, FailureWasKilled
  <2> QED
    BY <2>1, <2>2 DEF Process!CallIsSettled
<1> QED
  BY <1>1, <1>2, ProcessSteps, PTL DEF Spec

(***************************************************************************)
(* Amendments.  A command, or a recovery, knows what it has written so     *)
(* far, and as long as nobody else writes and no interrupt hides a write   *)
(* from it, the files are as it found them but for that.  An undo takes    *)
(* this back, from the branch to the journal.                              *)
(***************************************************************************)
AmendChanges == {"none", "unit", "other", "later", "amend"}
AmendCommits == SUBSET AmendChanges
Splits == Amendment!Range(Replacements)
AmendEvents == Amendment!OtherEvents \cup Splits
PlanTexts == [text : {"a", "b"}, amended : BOOLEAN]
TaskFiles == [Splits -> {"absent", "new", "edited"}]
ProgressRecords == [has : BOOLEAN, assembled : AmendCommits, failed : BOOLEAN, work : BOOLEAN]
Findings == [plan : PlanTexts, tasks : TaskFiles, progress : ProgressRecords,
             branch : AmendCommits, log : Seq(AmendEvents), torn : BOOLEAN]
ProposalRecords == [plan : {"a", "b"}, contract : {"a", "b"}, progress : ProgressRecords,
                    assembled : AmendCommits]

Publishing == {"started", "tasks", "commit", "record", "journal"}
Reconciling == {"reintegrate", "rerecord", "rejournal"}
Undoing == {"undo_ref", "undo_progress", "undo_plan", "undo_log", "failed"}
Transacting == Publishing \cup Reconciling \cup Undoing \cup {"applied"}
Holding == Transacting \cup {"preflight", "blocked"}
AmendPlaces == Holding \cup {"author", "recheck"}

AmendCommands ==
    [pc : AmendPlaces, wrote : SUBSET Splits, planned : BOOLEAN, made : BOOLEAN,
     prev : AmendCommits, bad : BOOLEAN, before : Findings, quiet : BOOLEAN, cut : BOOLEAN]

AmendTypes ==
    /\ plan \in PlanTexts /\ contract \in {"a", "b"} /\ tasks \in TaskFiles
    /\ progress \in ProgressRecords /\ branch \in AmendCommits
    /\ log \in Seq(AmendEvents) /\ torn \in BOOLEAN /\ locked \in BOOLEAN
    /\ proposal = Amendment!NoProposal \/ proposal \in ProposalRecords
    /\ amend = Amendment!NoCommand \/ amend \in AmendCommands

\* An apply holds the lock, and is of a proposal.
LockIsHeld == amend.pc \in Holding => locked /\ proposal \in ProposalRecords

\* It found the plan without the replacements and their files, or amended.
FoundFresh == ~amend.before.plan.amended /\ \A r \in Splits : amend.before.tasks[r] = "absent"
FoundApplied == amend.before.plan = Amendment!AmendedPlan
FoundEither ==
    /\ amend.pc \in Transacting => FoundFresh \/ FoundApplied
    /\ amend.pc \in Publishing \cup {"undo_plan"} => FoundFresh
    /\ amend.pc \in Reconciling => FoundApplied /\ ~amend.planned /\ amend.wrote = {}
    /\ amend.pc \in Transacting /\ FoundApplied => ~amend.planned /\ amend.wrote = {}

\* The plan has its task files, and so have the ones it is going to name.
TasksFirst ==
    /\ Amendment!PlanHasContracts
    /\ amend.pc = "tasks" => \A r \in amend.wrote : tasks[r] # "absent"

Integrated == proposal.assembled \cup {"amend"}

PlanAsWritten == plan = IF amend.planned THEN Amendment!AmendedPlan ELSE amend.before.plan
TasksAsWritten ==
    \A r \in Splits : tasks[r] = IF r \in amend.wrote THEN "new" ELSE amend.before.tasks[r]
BranchAsWritten ==
    /\ branch = IF amend.made THEN Integrated ELSE amend.before.branch
    /\ amend.made => amend.prev = amend.before.branch
LogAsFound == log = amend.before.log /\ torn = amend.before.torn

\* What a command has done so far, and what it has undone.
DoneSoFar ==
    /\ amend.pc \in Publishing \cup Reconciling \cup {"preflight"} => ~amend.cut
    /\ amend.quiet /\ ~amend.cut =>
        /\ amend.pc \in Publishing \cup Reconciling \cup {"undo_ref", "undo_progress", "undo_plan"} =>
             PlanAsWritten /\ TasksAsWritten
        /\ amend.pc \in Publishing \cup Reconciling \cup {"undo_ref"} => BranchAsWritten
        /\ amend.pc \in {"started", "tasks", "commit", "record", "reintegrate", "rerecord"} =>
             progress = amend.before.progress
        /\ amend.pc \in Publishing \cup Reconciling => LogAsFound
        /\ ~amend.bad =>
            /\ amend.pc \in Undoing \ {"undo_ref"} => branch = amend.before.branch
            /\ amend.pc \in {"undo_plan", "undo_log", "failed"} => progress = amend.before.progress
            /\ amend.pc \in {"undo_log", "failed"} =>
                 plan = amend.before.plan /\ tasks = amend.before.tasks
            /\ amend.pc = "failed" => LogAsFound

\* How far the publication has come.
PublishedSoFar ==
    /\ amend.pc \in {"preflight", "started", "tasks"} => ~amend.planned /\ ~amend.made
    /\ amend.pc \in {"preflight", "started"} => amend.wrote = {}
    /\ amend.pc = "reintegrate" => ~amend.made
    /\ amend.pc = "commit" => amend.planned /\ ~amend.made
    /\ amend.pc \in {"record", "journal"} => amend.planned /\ amend.made
    /\ amend.quiet =>
        /\ amend.pc \in {"tasks", "commit", "record", "journal"} => ~torn
        /\ amend.pc \in {"rerecord"} => "amend" \in branch
        /\ amend.pc \in {"journal", "rejournal", "applied"} =>
             "amend" \in branch /\ progress.assembled = branch
        /\ amend.pc = "applied" =>
             /\ plan = Amendment!AmendedPlan
             /\ Amendment!Range(Amendment!Success) \subseteq Amendment!Range(log) /\ ~torn

\* A journal that ends with the start of an application has no delivery behind
\* the proposal: the branch has later work only if the proposal knew of it.
WorkIsKnown(commit) == "later" \in commit => "later" \in proposal.assembled
EndsStarted(events) == events # <<>> /\ events[Len(events)] = "started"
NothingBehind ==
    /\ proposal # Amendment!NoProposal /\ EndsStarted(log) => WorkIsKnown(branch)
    /\ amend.pc \in Publishing => WorkIsKnown(branch)
    /\ amend.pc \in Transacting =>
        /\ EndsStarted(amend.before.log) => WorkIsKnown(branch)
        /\ amend.made => WorkIsKnown(amend.prev)

AmendInv ==
    /\ AmendTypes /\ LockIsHeld /\ FoundEither /\ TasksFirst /\ DoneSoFar
    /\ PublishedSoFar /\ NothingBehind

\* Induction over a set of numbers instead of a predicate.
LEMMA NatSetInduction ==
    ASSUME NEW T, 0 \in T, \A n \in Nat : n \in T => n + 1 \in T
    PROVE  Nat \subseteq T
<1> SUFFICES ASSUME Nat \ T # {} PROVE FALSE
  OBVIOUS
<1>1. PICK n \in Nat \ T : \A m \in Nat \ T : ~ <<m, n>> \in OpToRel(<, Nat)
  BY NatLessThanWellFounded, WFMin
<1>2. n # 0 /\ n - 1 \in Nat
  OBVIOUS
<1>3. n - 1 \in T
  <2>1. n - 1 < n
    BY <1>2
  <2>2. <<n - 1, n>> \in OpToRel(<, Nat)
    BY <1>2, <2>1 DEF OpToRel
  <2> QED
    BY <1>1, <1>2, <2>2
<1>4. (n - 1) + 1 \in T
  BY <1>2, <1>3
<1> QED
  BY <1>4

(* Missing, for any sequence and any set of events that are there.         *)
IsSelection(f, s, drop) ==
    f = [i \in 0..Len(s) |->
            IF i = 0 THEN <<>>
            ELSE IF s[i] \in drop THEN f[i - 1] ELSE Append(f[i - 1], s[i])]

LEMMA RecursionOnNumbers ==
    ASSUME NEW s, Len(s) \in Nat, NEW drop
    PROVE  \E f : IsSelection(f, s, drop)
<1> DEFINE T == {n \in Nat : \E f : f = [i \in 0..n |->
                        IF i = 0 THEN <<>>
                        ELSE IF s[i] \in drop THEN f[i - 1] ELSE Append(f[i - 1], s[i])]}
<1>1. 0 \in T
  <2> DEFINE f == [i \in 0..0 |-> <<>>]
  <2>1. f = [i \in 0..0 |-> IF i = 0 THEN <<>>
                        ELSE IF s[i] \in drop THEN f[i - 1] ELSE Append(f[i - 1], s[i])]
    OBVIOUS
  <2> HIDE DEF f
  <2> QED
    BY <2>1
<1>2. ASSUME NEW n \in Nat, n \in T PROVE n + 1 \in T
  <2>1. PICK f : f = [i \in 0..n |-> IF i = 0 THEN <<>>
                        ELSE IF s[i] \in drop THEN f[i - 1] ELSE Append(f[i - 1], s[i])]
    BY <1>2
  <2> DEFINE value(i, g) == IF i = 0 THEN <<>>
                        ELSE IF s[i] \in drop THEN g[i - 1] ELSE Append(g[i - 1], s[i])
             next == IF s[n + 1] \in drop THEN f[n] ELSE Append(f[n], s[n + 1])
             g == [i \in 0..(n + 1) |-> IF i = n + 1 THEN next ELSE f[i]]
  <2>2. ASSUME NEW i \in 0..(n + 1) PROVE g[i] = value(i, g)
    <3>1. CASE i = n + 1
      <4>1. g[i] = next /\ g[i - 1] = f[n] /\ i # 0 /\ s[i] = s[n + 1]
        BY <1>2, <3>1
      <4> HIDE DEF g
      <4> QED
        BY <4>1, <3>1
    <3>2. CASE i # n + 1
      <4>1. i \in 0..n /\ g[i] = f[i]
        BY <1>2, <3>2
      <4>2. i # 0 => i - 1 \in 0..n /\ g[i - 1] = f[i - 1]
        BY <1>2, <3>2
      <4>3. f[i] = value(i, f)
        BY <2>1, <4>1
      <4> HIDE DEF g
      <4> QED
        BY <4>1, <4>2, <4>3
    <3> QED
      BY <3>1, <3>2
  <2>3. g = [i \in 0..(n + 1) |-> g[i]]
    OBVIOUS
  <2> HIDE DEF g
  <2>4. g = [i \in 0..(n + 1) |-> IF i = 0 THEN <<>>
                        ELSE IF s[i] \in drop THEN g[i - 1] ELSE Append(g[i - 1], s[i])]
    BY <2>2, <2>3
  <2> QED
    BY <1>2, <2>4
<1>3. Nat \subseteq T
  BY <1>1, <1>2, NatSetInduction
<1> QED
  BY <1>3 DEF IsSelection

Kept(s, drop, f, n) ==
    /\ f[n] \in Seq({s[i] : i \in 1..Len(s)})
    /\ \A i \in 1..n : s[i] \in drop \/ \E j \in 1..Len(f[n]) : f[n][j] = s[i]

LEMMA RecursionKeeps ==
    ASSUME NEW E, NEW s \in Seq(E), NEW drop, NEW f,
           f[0] = <<>>,
           \A n \in Nat : n + 1 <= Len(s) =>
                f[n + 1] = IF s[n + 1] \in drop THEN f[n] ELSE Append(f[n], s[n + 1])
    PROVE  Kept(s, drop, f, Len(s))
<1> DEFINE K == {s[i] : i \in 1..Len(s)}
           T == {n \in Nat : n <= Len(s) => Kept(s, drop, f, n)}
<1>1. 0 \in T
  <2>1. <<>> \in Seq(K)
    OBVIOUS
  <2>2. Kept(s, drop, f, 0)
    <3>1. f[0] \in Seq(K)
      BY <2>1
    <3>2. \A i \in 1..0 : FALSE
      OBVIOUS
    <3> QED
      BY <3>1, <3>2 DEF Kept
  <2> QED
    BY <2>2
<1>2. ASSUME NEW n \in Nat, n \in T PROVE n + 1 \in T
  <2> SUFFICES ASSUME n + 1 <= Len(s) PROVE Kept(s, drop, f, n + 1)
    OBVIOUS
  <2>1. Kept(s, drop, f, n)
    BY <1>2
  <2>2. n + 1 \in 1..Len(s) /\ n + 1 # 0 /\ (n + 1) - 1 = n
    BY <1>2
  <2>3. f[n + 1] = IF s[n + 1] \in drop THEN f[n] ELSE Append(f[n], s[n + 1])
    BY <1>2
  <2>4. s[n + 1] \in K
    BY <2>2
  <2>5. f[n] \in Seq(K)
    BY <2>1 DEF Kept
  <2> HIDE DEF K
  <2>6. CASE s[n + 1] \in drop
    <3>1. f[n + 1] = f[n]
      BY <2>3, <2>6
    <3>2. ASSUME NEW i \in 1..(n + 1)
          PROVE  s[i] \in drop \/ \E j \in 1..Len(f[n + 1]) : f[n + 1][j] = s[i]
      <4>1. i \in 1..n \/ i = n + 1
        BY <1>2
      <4> QED
        BY <2>1, <2>6, <3>1, <4>1 DEF Kept
    <3> QED
      BY <2>5, <3>1, <3>2 DEF Kept, K
  <2>7. CASE s[n + 1] \notin drop
    <3>1. f[n + 1] = Append(f[n], s[n + 1])
      BY <2>3, <2>7
    <3>2. /\ f[n + 1] \in Seq(K) /\ Len(f[n]) \in Nat /\ Len(f[n + 1]) = Len(f[n]) + 1
          /\ f[n + 1][Len(f[n]) + 1] = s[n + 1]
          /\ \A j \in 1..Len(f[n]) : f[n + 1][j] = f[n][j]
      <4> DEFINE p == f[n]
                 x == s[n + 1]
      <4>1. p \in Seq(K) /\ x \in K /\ f[n + 1] = Append(p, x)
        BY <2>4, <2>5, <3>1
      <4> HIDE DEF p, x
      <4>2. /\ Append(p, x) \in Seq(K) /\ Len(p) \in Nat /\ Len(Append(p, x)) = Len(p) + 1
            /\ Append(p, x)[Len(p) + 1] = x
            /\ \A j \in 1..Len(p) : Append(p, x)[j] = p[j]
        BY <4>1
      <4> QED
        BY <4>1, <4>2 DEF p, x
    <3>3. ASSUME NEW i \in 1..(n + 1)
          PROVE  s[i] \in drop \/ \E j \in 1..Len(f[n + 1]) : f[n + 1][j] = s[i]
      <4>1. CASE i = n + 1
        <5>1. Len(f[n]) + 1 \in 1..Len(f[n + 1])
          BY <3>2
        <5> QED
          BY <3>2, <4>1, <5>1
      <4>2. CASE i \in 1..n /\ s[i] \notin drop
        <5>1. PICK j \in 1..Len(f[n]) : f[n][j] = s[i]
          BY <2>1, <4>2 DEF Kept
        <5>2. j \in 1..Len(f[n + 1]) /\ f[n + 1][j] = s[i]
          BY <3>2, <5>1
        <5> QED
          BY <5>2
      <4>3. i \in 1..n \/ i = n + 1
        BY <1>2
      <4> QED
        BY <4>1, <4>2, <4>3
    <3> QED
      BY <3>2, <3>3 DEF Kept, K
  <2> QED
    BY <2>6, <2>7
<1>3. Len(s) \in Nat /\ Len(s) \in T
  <2> HIDE DEF T
  <2> QED
    BY <1>1, <1>2, NatSetInduction
<1> QED
  BY <1>3

LEMMA SuccessFacts ==
    ASSUME Amendment!AmendmentConstants
    PROVE  /\ Amendment!Success \in Seq(AmendEvents) /\ Len(Amendment!Success) \in Nat
           /\ \A i \in 1..Len(Amendment!Success) : Amendment!Success[i] \in AmendEvents \ {"started"}
<1> DEFINE E == AmendEvents \ {"started"}
<1>1. Replacements \in Seq(E)
  <2>1. Replacements \in Seq(Splits) /\ Splits \cap Amendment!OtherEvents = {}
    BY DEF Amendment!AmendmentConstants, Splits
  <2>2. Splits \subseteq E
    BY <2>1 DEF AmendEvents, Amendment!OtherEvents
  <2> QED
    BY <2>1, <2>2
<1>2. <<"split", "superseded">> \in Seq(E) /\ <<"amended">> \in Seq(E)
  <2>1. "split" \in E /\ "superseded" \in E /\ "amended" \in E
    BY DEF AmendEvents, Amendment!OtherEvents
  <2> HIDE DEF E
  <2> QED
    BY <2>1
<1> HIDE DEF E
<1>3. Amendment!Success \in Seq(E)
  BY <1>1, <1>2 DEF Amendment!Success
<1>4. \A q \in Seq(E) : q \in Seq(AmendEvents) /\ Len(q) \in Nat /\ \A i \in 1..Len(q) : q[i] \in E
  BY DEF E
<1> QED
  BY <1>3, <1>4 DEF E

LEMMA MissingFacts ==
    ASSUME Amendment!AmendmentConstants
    PROVE  /\ Amendment!Missing \in Seq({Amendment!Success[i] : i \in 1..Len(Amendment!Success)})
           /\ \A i \in 1..Len(Amendment!Success) :
                \/ Amendment!Success[i] \in Amendment!Range(log)
                \/ \E j \in 1..Len(Amendment!Missing) : Amendment!Missing[j] = Amendment!Success[i]
<1> DEFINE s == Amendment!Success
           drop == Amendment!Range(log)
           f == CHOOSE g : g = [i \in 0..Len(s) |->
                            IF i = 0 THEN <<>>
                            ELSE IF s[i] \in drop THEN g[i - 1] ELSE Append(g[i - 1], s[i])]
<1>1. s \in Seq(AmendEvents) /\ Len(s) \in Nat
  BY SuccessFacts
<1>2. Amendment!Missing = f[Len(s)]
  BY DEF Amendment!Missing
<1> HIDE DEF s, drop
<1>3. f = [i \in 0..Len(s) |->
             IF i = 0 THEN <<>>
             ELSE IF s[i] \in drop THEN f[i - 1] ELSE Append(f[i - 1], s[i])]
  <2>1. \E g : IsSelection(g, s, drop)
    BY <1>1, RecursionOnNumbers
  <2> QED
    BY <2>1, Zenon DEF IsSelection
<1> HIDE DEF f
<1>4. \A i \in 0..Len(s) :
        f[i] = IF i = 0 THEN <<>>
               ELSE IF s[i] \in drop THEN f[i - 1] ELSE Append(f[i - 1], s[i])
  BY <1>3, Zenon
<1>5. f[0] = <<>>
  BY <1>1, <1>4
<1>6. ASSUME NEW n \in Nat, n + 1 <= Len(s)
      PROVE  f[n + 1] = IF s[n + 1] \in drop THEN f[n] ELSE Append(f[n], s[n + 1])
  <2>1. n + 1 \in 0..Len(s) /\ n + 1 # 0 /\ (n + 1) - 1 = n
    BY <1>1, <1>6
  <2> QED
    BY <1>4, <2>1
<1>7. Kept(s, drop, f, Len(s))
  BY <1>1, <1>5, <1>6, RecursionKeeps
<1> QED
  BY <1>2, <1>7 DEF Kept, s, drop

(* The journal.                                                            *)
LEMMA JournalFacts ==
    ASSUME NEW a \in Seq(AmendEvents), NEW b \in Seq(AmendEvents)
    PROVE  /\ a \o b \in Seq(AmendEvents)
           /\ b = <<>> => a \o b = a
           /\ b # <<>> => a \o b # <<>> /\ (a \o b)[Len(a \o b)] = b[Len(b)] /\ Len(b) \in 1..Len(b)
           /\ Amendment!Range(a) \subseteq Amendment!Range(a \o b)
           /\ Amendment!Range(b) \subseteq Amendment!Range(a \o b)
           /\ Amendment!Range(a) = {a[i] : i \in 1..Len(a)}
<1>1. a \o b \in Seq(AmendEvents) /\ (b = <<>> => a \o b = a)
  OBVIOUS
<1>2. ASSUME b # <<>>
      PROVE  a \o b # <<>> /\ (a \o b)[Len(a \o b)] = b[Len(b)] /\ Len(b) \in 1..Len(b)
  BY <1>2
<1>3. \A q \in Seq(AmendEvents) : Amendment!Range(q) = {q[i] : i \in 1..Len(q)}
  BY DEF Amendment!Range
<1>4. ASSUME NEW i \in 1..Len(a) PROVE i \in 1..Len(a \o b) /\ (a \o b)[i] = a[i]
  OBVIOUS
<1>5. ASSUME NEW i \in 1..Len(b)
      PROVE  Len(a) + i \in 1..Len(a \o b) /\ (a \o b)[Len(a) + i] = b[i]
  OBVIOUS
<1>6. Amendment!Range(a) \subseteq Amendment!Range(a \o b)
  <2>1. ASSUME NEW x \in Amendment!Range(a) PROVE x \in Amendment!Range(a \o b)
    <3>1. PICK i \in 1..Len(a) : x = a[i]
      BY <1>3
    <3> QED
      BY <1>1, <1>3, <1>4, <3>1
  <2> QED
    BY <2>1
<1>7. Amendment!Range(b) \subseteq Amendment!Range(a \o b)
  <2>1. ASSUME NEW x \in Amendment!Range(b) PROVE x \in Amendment!Range(a \o b)
    <3>1. PICK i \in 1..Len(b) : x = b[i]
      BY <1>3
    <3> QED
      BY <1>1, <1>3, <1>5, <3>1
  <2> QED
    BY <2>1
<1> QED
  BY <1>1, <1>2, <1>3, <1>6, <1>7

\* Of some events nothing, or the last of which is not the start, was appended.
Appended(events, events2) ==
    /\ events2 \in Seq(AmendEvents)
    /\ EndsStarted(events2) => events2 = events

LEMMA PartAppended ==
    ASSUME log \in Seq(AmendEvents), NEW b \in Seq(AmendEvents),
           \A i \in 1..Len(b) : b[i] # "started"
    PROVE  Appended(log, log \o b)
BY JournalFacts DEF Appended, EndsStarted

(* What becomes of the command.                                            *)
SameWrites ==
    /\ amend' \in AmendCommands /\ amend'.wrote = amend.wrote /\ amend'.planned = amend.planned
    /\ amend'.made = amend.made /\ amend'.prev = amend.prev /\ amend'.before = amend.before

LEMMA CommandNow ==
    ASSUME AmendTypes, amend.pc # "idle"
    PROVE  amend \in AmendCommands /\ amend.before \in Findings /\ amend.pc \in AmendPlaces
BY DEF AmendTypes, AmendCommands, Amendment!NoCommand

LEMMA AmendGoes ==
    ASSUME amend \in AmendCommands, NEW pc \in AmendPlaces, Amendment!Go(pc)
    PROVE  /\ SameWrites /\ amend'.pc = pc /\ amend'.bad = amend.bad
           /\ amend'.quiet = amend.quiet /\ amend'.cut = amend.cut
BY DEF Amendment!Go, AmendCommands, SameWrites

LEMMA AmendCut ==
    ASSUME amend \in AmendCommands, Amendment!Interrupted
    PROVE  /\ SameWrites /\ amend'.pc = "undo_ref" /\ amend'.bad = amend.bad
           /\ amend'.quiet = amend.quiet /\ amend'.cut
BY DEF Amendment!Interrupted, AmendCommands, SameWrites, AmendPlaces, Holding, Transacting, Undoing

LEMMA AmendThen ==
    ASSUME amend \in AmendCommands, NEW pc \in AmendPlaces, NEW ok \in BOOLEAN, Amendment!Then(pc, ok)
    PROVE  /\ SameWrites /\ amend'.pc = pc /\ amend'.bad = (amend.bad \/ ~ok)
           /\ amend'.quiet = amend.quiet /\ amend'.cut = amend.cut
BY DEF Amendment!Then, AmendCommands, SameWrites

LEMMA AmendTree ==
    ASSUME AmendTypes
    PROVE  /\ Amendment!Tree \in Findings
           /\ Amendment!Tree.plan = plan /\ Amendment!Tree.tasks = tasks
           /\ Amendment!Tree.progress = progress /\ Amendment!Tree.branch = branch
           /\ Amendment!Tree.log = log /\ Amendment!Tree.torn = torn
BY DEF AmendTypes, Amendment!Tree, Findings

LEMMA AmendBegins ==
    ASSUME AmendTypes, NEW pc \in AmendPlaces, Amendment!Command(pc)
    PROVE  /\ amend.pc = "idle"
           /\ amend' \in AmendCommands /\ amend'.pc = pc /\ amend'.wrote = {} /\ ~amend'.planned
           /\ ~amend'.made /\ ~amend'.bad /\ ~amend'.cut /\ amend'.quiet
           /\ amend'.before = Amendment!Tree
<1>1. Amendment!Tree \in Findings
  BY AmendTree
<1>2. amend' = [Amendment!NoCommand EXCEPT !.pc = pc, !.before = Amendment!Tree] /\ amend.pc = "idle"
  BY DEF Amendment!Command, Amendment!At
<1>3. amend' = [pc |-> pc, wrote |-> {}, planned |-> FALSE, made |-> FALSE, prev |-> {"none"},
                bad |-> FALSE, before |-> Amendment!Tree, quiet |-> TRUE, cut |-> FALSE]
  BY <1>2 DEF Amendment!NoCommand, Amendment!NoCommit
<1>4. {"none"} \in AmendCommits /\ {} \in SUBSET Splits
  BY DEF AmendCommits, AmendChanges
<1>5. amend' \in AmendCommands
  BY <1>1, <1>3, <1>4 DEF AmendCommands
<1>6. /\ amend'.pc = pc /\ amend'.wrote = {} /\ amend'.planned = FALSE /\ amend'.made = FALSE
      /\ amend'.bad = FALSE /\ amend'.cut = FALSE /\ amend'.quiet = TRUE
      /\ amend'.before = Amendment!Tree
  BY <1>3
<1> QED
  BY <1>2, <1>5, <1>6

\* An exit leaves what others go by.
LEMMA AmendEnds ==
    ASSUME AmendInv, Amendment!End, UNCHANGED <<plan, contract, tasks, progress, branch, proposal>>,
           log' \in Seq(AmendEvents), Appended(log, log') \/ WorkIsKnown(branch),
           torn' \in BOOLEAN, locked' \in BOOLEAN
    PROVE  AmendInv'
<1>1. amend' = Amendment!NoCommand /\ amend'.pc = "idle"
  BY DEF Amendment!End, Amendment!NoCommand
<1>2. AmendTypes'
  BY <1>1 DEF AmendInv, AmendTypes
<1>3. LockIsHeld' /\ FoundEither' /\ DoneSoFar' /\ PublishedSoFar'
  BY <1>1 DEF LockIsHeld, FoundEither, DoneSoFar, PublishedSoFar, Holding, Transacting, Publishing,
              Reconciling, Undoing
<1>4. TasksFirst'
  BY <1>1 DEF AmendInv, TasksFirst, Amendment!PlanHasContracts
<1>5. NothingBehind'
  BY <1>1 DEF AmendInv, NothingBehind, Appended, EndsStarted, WorkIsKnown, Transacting, Publishing,
              Reconciling, Undoing
<1> QED
  BY <1>2, <1>3, <1>4, <1>5 DEF AmendInv

Writing == {"tasks", "commit", "record", "journal"} \cup Reconciling

LEMMA WritingPlaces ==
    /\ Writing \subseteq Transacting /\ Writing \subseteq Publishing \cup Reconciling
    /\ Transacting \subseteq Holding /\ Holding \subseteq AmendPlaces /\ "idle" \notin AmendPlaces
    /\ Undoing \subseteq Transacting
BY DEF Writing, Transacting, Publishing, Reconciling, Undoing, Holding, AmendPlaces

\* A step that fails before it wrote goes to the undo with all as written.
LEMMA FailsBefore ==
    ASSUME AmendInv, amend.pc \in Writing, Amendment!Go("undo_ref"),
           UNCHANGED <<plan, contract, tasks, progress, branch, log, torn, locked, proposal>>
    PROVE  AmendInv'
<1> USE DEF Writing, Transacting, Publishing, Reconciling, Undoing, Holding, AmendPlaces
<1>1. amend \in AmendCommands
  BY CommandNow DEF AmendInv
<1>2. /\ SameWrites /\ amend'.pc = "undo_ref" /\ amend'.bad = amend.bad
      /\ amend'.quiet = amend.quiet /\ amend'.cut = amend.cut
  BY <1>1, AmendGoes
<1>3. AmendTypes'
  BY <1>2 DEF AmendInv, AmendTypes, SameWrites
<1>4. LockIsHeld' /\ TasksFirst'
  BY <1>2 DEF AmendInv, LockIsHeld, TasksFirst, Amendment!PlanHasContracts
<1>5. FoundEither'
  BY <1>2 DEF AmendInv, FoundEither, FoundFresh, FoundApplied, Amendment!AmendedPlan, SameWrites
<1>6. DoneSoFar'
  BY <1>2 DEF AmendInv, DoneSoFar, PlanAsWritten, TasksAsWritten, BranchAsWritten, Integrated,
              Amendment!AmendedPlan, SameWrites
<1>7. PublishedSoFar'
  BY <1>2 DEF PublishedSoFar
<1>8. NothingBehind'
  BY <1>2 DEF AmendInv, NothingBehind, EndsStarted, WorkIsKnown, SameWrites
<1> QED
  BY <1>3, <1>4, <1>5, <1>6, <1>7, <1>8 DEF AmendInv

\* An interrupt behind the write of a step: the command does not know of it.
LEMMA CutBehind ==
    ASSUME AmendInv, amend.pc \in Writing, Amendment!Interrupted,
           UNCHANGED <<contract, locked, proposal>>, plan' \in PlanTexts, tasks' \in TaskFiles,
           progress' \in ProgressRecords, branch' \in {branch, Integrated}, torn' \in BOOLEAN,
           Appended(log, log'), Amendment!PlanHasContracts'
    PROVE  AmendInv'
<1> USE DEF Writing, Transacting, Publishing, Reconciling, Undoing, Holding, AmendPlaces
<1>1. amend \in AmendCommands /\ proposal \in ProposalRecords
  BY CommandNow DEF AmendInv, LockIsHeld
<1>2. /\ SameWrites /\ amend'.pc = "undo_ref" /\ amend'.bad = amend.bad
      /\ amend'.quiet = amend.quiet /\ amend'.cut
  BY <1>1, AmendCut
<1>3. AmendTypes'
  <2>1. branch' \in AmendCommits
    BY <1>1 DEF AmendInv, AmendTypes, Integrated, ProposalRecords, AmendCommits, AmendChanges
  <2> QED
    BY <1>2, <2>1 DEF AmendInv, AmendTypes, SameWrites, Appended
<1>4. LockIsHeld' /\ TasksFirst'
  BY <1>2 DEF AmendInv, LockIsHeld, TasksFirst
<1>5. FoundEither'
  BY <1>2 DEF AmendInv, FoundEither, FoundFresh, FoundApplied, Amendment!AmendedPlan, SameWrites
<1>6. DoneSoFar'
  BY <1>2 DEF DoneSoFar
<1>7. PublishedSoFar'
  BY <1>2 DEF PublishedSoFar
<1>8. NothingBehind'
  <2>1. WorkIsKnown(branch) => WorkIsKnown(branch')
    BY DEF WorkIsKnown, Integrated
  <2>2. amend.pc \in Transacting /\ proposal # Amendment!NoProposal
    BY <1>1 DEF AmendInv, ProposalRecords, Amendment!NoProposal
  <2> QED
    BY <1>2, <2>1, <2>2 DEF AmendInv, NothingBehind, EndsStarted, WorkIsKnown, SameWrites, Appended
<1> QED
  BY <1>3, <1>4, <1>5, <1>6, <1>7, <1>8 DEF AmendInv

(* amend prepare.                                                          *)
LEMMA PrepareSteps ==
    ASSUME AmendInv,
           Amendment!StartPrepare \/ Amendment!StoreProposal \/ Amendment!RecheckProposal
    PROVE  AmendInv'
<1> USE DEF Transacting, Publishing, Reconciling, Undoing, Holding, AmendPlaces
<1>0. AmendTypes
  BY DEF AmendInv
<1>1. CASE Amendment!StartPrepare
  <2>1. /\ Amendment!Command("author")
        /\ UNCHANGED <<plan, contract, tasks, progress, branch, log, torn, locked, proposal>>
    BY <1>1 DEF Amendment!StartPrepare
  <2>2. amend' \in AmendCommands /\ amend'.pc = "author"
    BY <1>0, <2>1, AmendBegins
  <2>3. AmendTypes'
    BY <2>1, <2>2 DEF AmendInv, AmendTypes
  <2>4. LockIsHeld' /\ FoundEither' /\ DoneSoFar' /\ PublishedSoFar'
    BY <2>2 DEF LockIsHeld, FoundEither, DoneSoFar, PublishedSoFar
  <2>5. TasksFirst' /\ NothingBehind'
    BY <2>1, <2>2 DEF AmendInv, TasksFirst, Amendment!PlanHasContracts, NothingBehind, EndsStarted,
                      WorkIsKnown
  <2> QED
    BY <2>3, <2>4, <2>5 DEF AmendInv
<1>2. CASE Amendment!StoreProposal \/ Amendment!RecheckProposal
  <2>1. /\ amend.pc \in {"author", "recheck"}
        /\ UNCHANGED <<plan, contract, tasks, progress, branch, log, torn, locked>>
    BY <1>2 DEF Amendment!StoreProposal, Amendment!RecheckProposal, Amendment!At
  <2>2. amend \in AmendCommands /\ amend.before \in Findings
    BY <1>0, <2>1, CommandNow
  <2>3. amend' = Amendment!NoCommand \/ (amend' \in AmendCommands /\ amend'.pc = "recheck")
    <3>1. amend' = Amendment!NoCommand \/ Amendment!Go("recheck")
      BY <1>2 DEF Amendment!StoreProposal, Amendment!RecheckProposal, Amendment!End
    <3>2. "recheck" \in AmendPlaces
      OBVIOUS
    <3> HIDE DEF AmendPlaces
    <3>3. Amendment!Go("recheck") => SameWrites /\ amend'.pc = "recheck"
      BY <2>2, <3>2, AmendGoes
    <3> QED
      BY <3>1, <3>3 DEF SameWrites
  <2>4. /\ proposal' \in ProposalRecords \cup {proposal, Amendment!NoProposal}
        /\ proposal' # proposal => proposal' = Amendment!NoProposal \/ WorkIsKnown(branch)'
    <3>1. CASE proposal' \in {proposal, Amendment!NoProposal}
      BY <3>1
    <3>2. CASE proposal' \notin {proposal, Amendment!NoProposal}
      <4> DEFINE b == amend.before
                 snapshot == [plan |-> b.plan.text, contract |-> contract,
                              progress |-> b.progress, assembled |-> Amendment!Or(b.branch, {})]
      <4>1. Amendment!Sources = snapshot /\ proposal' = snapshot
        BY <1>2, <3>2 DEF Amendment!StoreProposal, Amendment!RecheckProposal
      <4>2. proposal'.assembled = Amendment!Assembled
        BY <4>1 DEF Amendment!Sources
      <4>3. WorkIsKnown(branch)'
        BY <2>1, <4>2 DEF WorkIsKnown, Amendment!Assembled, Amendment!NoCommit
      <4>4. snapshot \in ProposalRecords
        <5>1. b.plan.text \in {"a", "b"} /\ b.progress \in ProgressRecords /\ b.branch \in AmendCommits
          BY <2>2 DEF Findings, PlanTexts
        <5>2. Amendment!Or(b.branch, {}) \in AmendCommits
          BY <5>1 DEF Amendment!Or, AmendCommits
        <5> QED
          BY <1>0, <5>1, <5>2 DEF AmendTypes, ProposalRecords
      <4> QED
        BY <4>1, <4>3, <4>4
    <3> QED
      BY <3>1, <3>2
  <2>5. AmendTypes'
    BY <2>1, <2>3, <2>4 DEF AmendInv, AmendTypes
  <2>6. amend'.pc \in {"idle", "recheck"}
    BY <2>3 DEF Amendment!NoCommand
  <2>7. LockIsHeld' /\ FoundEither' /\ DoneSoFar' /\ PublishedSoFar'
    BY <2>6 DEF LockIsHeld, FoundEither, DoneSoFar, PublishedSoFar
  <2>8. TasksFirst'
    BY <2>1, <2>6 DEF AmendInv, TasksFirst, Amendment!PlanHasContracts
  <2>9. NothingBehind'
    BY <2>1, <2>4, <2>6 DEF AmendInv, NothingBehind, EndsStarted, WorkIsKnown
  <2> QED
    BY <2>5, <2>7, <2>8, <2>9 DEF AmendInv
<1> QED
  BY <1>1, <1>2

(* amend apply: before the first write.                                    *)
LEMMA ApplyBegins ==
    ASSUME AmendInv, Amendment!StartApply
    PROVE  AmendInv'
<1> USE DEF Transacting, Publishing, Reconciling, Undoing, Holding, AmendPlaces
<1>1. /\ proposal # Amendment!NoProposal /\ locked' = TRUE /\ Amendment!Command("preflight")
      /\ UNCHANGED <<plan, contract, tasks, progress, branch, log, torn, proposal>>
  BY DEF Amendment!StartApply
<1>2. /\ amend' \in AmendCommands /\ amend'.pc = "preflight" /\ amend'.wrote = {} /\ ~amend'.planned
      /\ ~amend'.made /\ ~amend'.cut
  BY <1>1, AmendBegins DEF AmendInv
<1>3. AmendTypes' /\ LockIsHeld'
  BY <1>1, <1>2 DEF AmendInv, AmendTypes, LockIsHeld
<1>4. FoundEither' /\ DoneSoFar' /\ PublishedSoFar'
  BY <1>2 DEF FoundEither, DoneSoFar, PublishedSoFar
<1>5. TasksFirst' /\ NothingBehind'
  BY <1>1, <1>2 DEF AmendInv, TasksFirst, Amendment!PlanHasContracts, NothingBehind, EndsStarted,
                    WorkIsKnown
<1> QED
  BY <1>3, <1>4, <1>5 DEF AmendInv

LEMMA PreflightSteps ==
    ASSUME AmendInv, Amendment!Preflight
    PROVE  AmendInv'
<1> USE DEF Transacting, Publishing, Reconciling, Undoing, Holding, AmendPlaces
<1> DEFINE pc == IF Amendment!AppliedHere
                 THEN IF Amendment!AppliedReady THEN "reintegrate" ELSE "blocked"
                 ELSE IF Amendment!FreshReady THEN "started" ELSE "blocked"
<1>1. /\ amend.pc = "preflight"
      /\ amend' = [amend EXCEPT !.before = Amendment!Tree, !.pc = pc]
      /\ UNCHANGED <<plan, contract, tasks, progress, branch, log, torn, locked, proposal>>
  BY DEF Amendment!Preflight, Amendment!At
<1>2. pc \in {"reintegrate", "blocked", "started"}
  OBVIOUS
<1>3. /\ pc = "reintegrate" => Amendment!AppliedHere
      /\ pc = "started" => Amendment!FreshReady
  OBVIOUS
<1> HIDE DEF pc
<1>4. amend \in AmendCommands /\ proposal \in ProposalRecords /\ AmendTypes
  BY <1>1, CommandNow DEF AmendInv, LockIsHeld
<1>5. /\ amend' \in AmendCommands /\ amend'.pc = pc /\ amend'.wrote = amend.wrote
      /\ amend'.planned = amend.planned /\ amend'.made = amend.made /\ amend'.prev = amend.prev
      /\ amend'.cut = amend.cut /\ amend'.before = Amendment!Tree
  BY <1>1, <1>2, <1>4, AmendTree DEF AmendCommands
<1>6. amend.wrote = {} /\ ~amend.planned /\ ~amend.made /\ ~amend.cut
  BY <1>1 DEF AmendInv, PublishedSoFar, DoneSoFar
<1>7. AmendTypes' /\ LockIsHeld' /\ TasksFirst'
  BY <1>1, <1>2, <1>5 DEF AmendInv, AmendTypes, LockIsHeld, TasksFirst, Amendment!PlanHasContracts
<1>8. FoundEither'
  <2>1. CASE pc = "reintegrate"
    <3>1. FoundApplied'
      BY <1>1, <1>3, <1>4, <1>5, <2>1, AmendTree DEF FoundApplied, Amendment!AppliedHere,
         Amendment!AmendedPlan
    <3> QED
      BY <1>5, <1>6, <2>1, <3>1 DEF FoundEither
  <2>2. CASE pc = "started"
    <3>1. ~plan.amended /\ \A r \in DOMAIN tasks : tasks[r] = "absent"
      BY <1>3, <2>2 DEF Amendment!FreshReady, Amendment!Inspect, Amendment!TasksAvailable
    <3>2. FoundFresh'
      BY <1>4, <1>5, <3>1, AmendTree DEF FoundFresh, AmendTypes, TaskFiles
    <3> QED
      BY <1>5, <1>6, <2>2, <3>2 DEF FoundEither
  <2>3. CASE pc = "blocked"
    BY <1>5, <2>3 DEF FoundEither
  <2> QED
    BY <1>2, <2>1, <2>2, <2>3
<1>9. DoneSoFar'
  <2>1. PlanAsWritten' /\ TasksAsWritten' /\ BranchAsWritten' /\ LogAsFound'
        /\ progress' = amend'.before.progress
    BY <1>1, <1>4, <1>5, <1>6, AmendTree DEF PlanAsWritten, TasksAsWritten, BranchAsWritten, LogAsFound
  <2> QED
    BY <1>2, <1>5, <1>6, <2>1 DEF DoneSoFar
<1>10. PublishedSoFar'
  BY <1>2, <1>5, <1>6 DEF PublishedSoFar
<1>11. NothingBehind'
  <2>1. pc = "started" => WorkIsKnown(branch)
    <3>1. ASSUME pc = "started" PROVE proposal.assembled = Amendment!Assembled
      BY <1>3, <3>1 DEF Amendment!FreshReady, Amendment!Sources
    <3> QED
      BY <3>1 DEF WorkIsKnown, Amendment!Assembled, Amendment!NoCommit
  <2>2. proposal # Amendment!NoProposal
    BY <1>4 DEF ProposalRecords, Amendment!NoProposal
  <2>3. amend'.before.log = log
    BY <1>4, <1>5, AmendTree
  <2> QED
    BY <1>1, <1>2, <1>5, <1>6, <2>1, <2>2, <2>3 DEF AmendInv, NothingBehind, EndsStarted, WorkIsKnown
<1> QED
  BY <1>7, <1>8, <1>9, <1>10, <1>11 DEF AmendInv

(* What is appended to the journal.                                        *)
LEMMA Appends ==
    ASSUME AmendTypes, NEW events \in Seq(AmendEvents), Amendment!Append2Log(events)
    PROVE  /\ log' \in Seq(AmendEvents) /\ torn' \in BOOLEAN
           /\ events = <<>> => log' = log
           /\ events # <<>> => ~torn' /\ log' # <<>>
           /\ events # <<>> => \/ log'[Len(log')] = events[Len(events)]
                               \/ log'[Len(log')] = "corrupt"
           /\ ~torn => log' = log \o events
<1>1. log \in Seq(AmendEvents) /\ torn \in BOOLEAN
  BY DEF AmendTypes
<1>2. "corrupt" \in AmendEvents
  BY DEF AmendEvents, Amendment!OtherEvents
<1> DEFINE added == IF torn /\ events # <<>> THEN <<"corrupt">> \o Tail(events) ELSE events
<1>3. log' = log \o added /\ torn' = (torn /\ events = <<>>)
  BY DEF Amendment!Append2Log
<1>4. /\ added \in Seq(AmendEvents) /\ (events = <<>> => added = <<>>)
      /\ events # <<>> => /\ added # <<>>
                          /\ added[Len(added)] = events[Len(events)] \/ added[Len(added)] = "corrupt"
  <2>1. ASSUME torn, events # <<>>
        PROVE  /\ <<"corrupt">> \o Tail(events) \in Seq(AmendEvents)
               /\ <<"corrupt">> \o Tail(events) # <<>>
               /\ \/ (<<"corrupt">> \o Tail(events))[Len(<<"corrupt">> \o Tail(events))] = events[Len(events)]
                  \/ (<<"corrupt">> \o Tail(events))[Len(<<"corrupt">> \o Tail(events))] = "corrupt"
    <3>1. /\ <<"corrupt">> \in Seq(AmendEvents) /\ Len(<<"corrupt">>) = 1 /\ <<"corrupt">>[1] = "corrupt"
          /\ Tail(events) \in Seq(AmendEvents) /\ Len(Tail(events)) = Len(events) - 1
          /\ Len(events) \in Nat \ {0}
          /\ \A i \in 1..(Len(events) - 1) : Tail(events)[i] = events[i + 1]
      BY <1>2, <2>1
    <3>2. /\ <<"corrupt">> \o Tail(events) \in Seq(AmendEvents)
          /\ Tail(events) = <<>> => <<"corrupt">> \o Tail(events) = <<"corrupt">>
          /\ Tail(events) # <<>> =>
                /\ <<"corrupt">> \o Tail(events) # <<>>
                /\ (<<"corrupt">> \o Tail(events))[Len(<<"corrupt">> \o Tail(events))]
                     = Tail(events)[Len(Tail(events))]
      BY <3>1, JournalFacts
    <3>3. CASE Tail(events) = <<>>
      BY <3>1, <3>2, <3>3
    <3>4. CASE Tail(events) # <<>>
      <4>1. Len(Tail(events)) \in 1..(Len(events) - 1) /\ Len(Tail(events)) + 1 = Len(events)
        BY <3>1, <3>4
      <4>2. Tail(events)[Len(Tail(events))] = events[Len(events)]
        BY <3>1, <4>1
      <4> QED
        BY <3>2, <3>4, <4>2
    <3> QED
      BY <3>3, <3>4
  <2> QED
    BY <1>1, <2>1
<1>5. ~torn => added = events
  OBVIOUS
<1> HIDE DEF added
<1> QED
  BY <1>1, <1>3, <1>4, <1>5, JournalFacts

Closing == AmendEvents \ {"started"}

LEMMA ClosingEvents ==
    ASSUME Amendment!AmendmentConstants
    PROVE  /\ Amendment!Success \in Seq(Closing) /\ Amendment!Missing \in Seq(Closing)
           /\ Amendment!Success # <<>> /\ Closing \subseteq AmendEvents
           /\ Seq(Closing) \subseteq Seq(AmendEvents)
           /\ \A q \in Seq(Closing) : \A i \in 1..Len(q) : q[i] # "started"
<1>1. /\ Amendment!Success \in Seq(AmendEvents) /\ Len(Amendment!Success) \in Nat
      /\ \A i \in 1..Len(Amendment!Success) : Amendment!Success[i] \in Closing
  BY SuccessFacts DEF Closing
<1>2. Amendment!Success \in Seq(Closing)
  BY <1>1
<1>3. Amendment!Missing \in Seq(Closing)
  <2> DEFINE F == {Amendment!Success[i] : i \in 1..Len(Amendment!Success)}
  <2>1. Amendment!Missing \in Seq(F)
    BY MissingFacts
  <2>2. F \subseteq Closing
    BY <1>1
  <2> HIDE DEF F
  <2>3. Seq(F) \subseteq Seq(Closing)
    BY <2>2
  <2> QED
    BY <2>1, <2>3
<1>4. Closing \subseteq AmendEvents /\ \A q \in Seq(Closing) : \A i \in 1..Len(q) : q[i] # "started"
  BY DEF Closing
<1>5. Seq(Closing) \subseteq Seq(AmendEvents)
  BY <1>4
<1>6. Amendment!Success # <<>>
  <2>1. Replacements \in Seq(Splits)
    BY DEF Amendment!AmendmentConstants, Splits
  <2>2. Len(<<"split", "superseded">> \o Replacements \o <<"amended">>) # 0
    BY <2>1
  <2> QED
    BY <2>2 DEF Amendment!Success
<1> QED
  BY <1>2, <1>3, <1>4, <1>5, <1>6

\* An event at the end that is not the start of an application.
LEMMA ClosingAppends ==
    ASSUME AmendTypes, NEW events \in Seq(AmendEvents), Amendment!Append2Log(events),
           events # <<>> => events[Len(events)] # "started"
    PROVE  Appended(log, log') /\ torn' \in BOOLEAN
BY Appends DEF Appended, EndsStarted

\* An append that was cut short: a part of closing events closes, too.
LEMMA PartAppends ==
    ASSUME AmendTypes, NEW S \in {Closing, AmendEvents}, NEW events \in Seq(S),
           NEW broken \in BOOLEAN, Amendment!AppendPart(events, broken)
    PROVE  /\ log' \in Seq(AmendEvents) /\ torn' \in BOOLEAN
           /\ S = Closing => Appended(log, log')
<1>1. log \in Seq(AmendEvents) /\ "corrupt" \in S /\ S \subseteq AmendEvents
  BY DEF AmendTypes, Closing, AmendEvents, Amendment!OtherEvents
<1>2. PICK n \in 0..Len(events) :
        /\ log' = log \o (IF broken /\ n > 0 THEN <<"corrupt">> \o Tail(SubSeq(events, 1, n))
                                            ELSE SubSeq(events, 1, n))
        /\ torn' \in IF n < Len(events) THEN IF broken /\ n = 0 THEN {TRUE} ELSE BOOLEAN
                                       ELSE {broken /\ n = 0}
  BY DEF Amendment!AppendPart
<1> DEFINE part == SubSeq(events, 1, n)
           b == IF broken /\ n > 0 THEN <<"corrupt">> \o Tail(part) ELSE part
<1>3. part \in Seq(S) /\ Len(part) = n
  OBVIOUS
<1>4. log' = log \o b
  BY <1>2
<1>5. b \in Seq(S)
  <2> HIDE DEF part
  <2>1. CASE broken /\ n > 0
    <3>1. part # <<>>
      BY <1>3, <2>1
    <3>2. Tail(part) \in Seq(S) /\ <<"corrupt">> \in Seq(S)
      BY <1>1, <1>3, <3>1
    <3> QED
      BY <2>1, <3>2
  <2> QED
    BY <1>3, <2>1
<1>6. torn' \in BOOLEAN
  BY <1>2
<1> HIDE DEF b, part
<1>7. b \in Seq(AmendEvents) /\ log' \in Seq(AmendEvents)
  BY <1>1, <1>4, <1>5
<1>8. ASSUME S = Closing PROVE Appended(log, log')
  <2>1. \A i \in 1..Len(b) : b[i] # "started"
    BY <1>5, <1>8 DEF Closing
  <2> QED
    BY <1>1, <1>4, <1>7, <2>1, PartAppended
<1> QED
  BY <1>6, <1>7, <1>8

LEMMA ShortEvents ==
    /\ Amendment!Blocked \in Seq(Closing) /\ <<"failed">> \in Seq(Closing)
    /\ <<>> \in Seq(Closing) /\ <<"started">> \in Seq(AmendEvents)
    /\ Seq(Closing) \subseteq Seq(AmendEvents)
    /\ \A q \in Seq(Closing) : q # <<>> => q[Len(q)] # "started"
<1>1. /\ "blocked" \in Closing /\ "failed" \in Closing /\ "started" \in AmendEvents
      /\ Closing \subseteq AmendEvents /\ "started" \notin Closing
  BY DEF Closing, AmendEvents, Amendment!OtherEvents
<1> HIDE DEF Closing
<1>2. /\ <<"failed">> \in Seq(Closing) /\ <<>> \in Seq(Closing)
      /\ <<"blocked", "failed">> \in Seq(Closing) /\ <<"started">> \in Seq(AmendEvents)
  BY <1>1
<1>3. Seq(Closing) \subseteq Seq(AmendEvents)
  BY <1>1
<1>4. \A q \in Seq(Closing) : q # <<>> => q[Len(q)] # "started"
  BY <1>1
<1> QED
  BY <1>2, <1>3, <1>4 DEF Amendment!Blocked

LEMMA ApplyEnds ==
    ASSUME AmendInv,
           Amendment!RecordBlocked \/ Amendment!Applied \/ Amendment!RecordFailure
    PROVE  AmendInv'
<1>1. /\ Amendment!End /\ locked' = FALSE
      /\ UNCHANGED <<plan, contract, tasks, progress, branch, proposal>>
  BY DEF Amendment!RecordBlocked, Amendment!Applied, Amendment!RecordFailure, Amendment!Release
<1>2. AmendTypes /\ torn \in BOOLEAN
  BY DEF AmendInv, AmendTypes
<1>3. \/ UNCHANGED <<log, torn>>
      \/ \E events \in {Amendment!Blocked, <<"failed">>, <<>>} :
            Amendment!Append2Log(events) \/ Amendment!AppendPart(events, torn)
  BY DEF Amendment!RecordBlocked, Amendment!Applied, Amendment!RecordFailure
<1>4. Appended(log, log') /\ torn' \in BOOLEAN
  <2>1. CASE UNCHANGED <<log, torn>>
    BY <2>1 DEF Appended, EndsStarted, AmendInv, AmendTypes
  <2>2. ASSUME NEW events \in {Amendment!Blocked, <<"failed">>, <<>>},
               Amendment!Append2Log(events) \/ Amendment!AppendPart(events, torn)
        PROVE  Appended(log, log') /\ torn' \in BOOLEAN
    <3>1. events \in Seq(Closing)
      BY ShortEvents
    <3>2. CASE Amendment!Append2Log(events)
      BY <1>2, <3>1, <3>2, ShortEvents, ClosingAppends
    <3>3. CASE Amendment!AppendPart(events, torn)
      BY <1>2, <3>1, <3>3, PartAppends
    <3> QED
      BY <2>2, <3>2, <3>3
  <2> QED
    BY <1>3, <2>1, <2>2
<1>5. log' \in Seq(AmendEvents)
  BY <1>4 DEF Appended
<1> QED
  BY <1>1, <1>4, <1>5, AmendEnds

\* A kill may leave the start of an application at the end of the journal only
\* where nothing was delivered behind the proposal.
LEMMA KillEnds ==
    ASSUME AmendInv, Amendment!AmendmentConstants, Amendment!Kill
    PROVE  AmendInv'
<1> DEFINE broken == torn /\ amend.pc # "rejournal"
           events == Amendment!Appending
<1>1. /\ Amendment!End
      /\ UNCHANGED <<plan, contract, tasks, progress, branch, locked, proposal>>
      /\ UNCHANGED <<log, torn>> \/ Amendment!AppendPart(events, broken)
  BY DEF Amendment!Kill, Amendment!At
<1>2. AmendTypes /\ broken \in BOOLEAN /\ locked \in BOOLEAN
  BY DEF AmendInv, AmendTypes
<1>3. events \in Seq(Closing) \/ (amend.pc = "started" /\ events = <<"started">>)
  <2>1. /\ Amendment!Success \in Seq(Closing) /\ Amendment!Missing \in Seq(Closing)
    BY ClosingEvents
  <2>2. \/ events = Amendment!Blocked
        \/ amend.pc = "started" /\ events = <<"started">>
        \/ events = Amendment!Success \/ events = Amendment!Missing
        \/ events = <<"failed">> \/ events = <<>>
    BY DEF Amendment!Appending, Amendment!At
  <2> QED
    BY <2>1, <2>2, ShortEvents
<1> HIDE DEF broken, events
<1>4. log' \in Seq(AmendEvents) /\ torn' \in BOOLEAN /\ (Appended(log, log') \/ WorkIsKnown(branch))
  <2>1. CASE UNCHANGED <<log, torn>>
    BY <1>2, <2>1 DEF Appended, EndsStarted, AmendTypes
  <2>2. CASE Amendment!AppendPart(events, broken) /\ events \in Seq(Closing)
    BY <1>2, <2>2, PartAppends
  <2>3. CASE Amendment!AppendPart(events, broken) /\ amend.pc = "started" /\ events = <<"started">>
    <3>1. WorkIsKnown(branch)
      BY <2>3 DEF AmendInv, NothingBehind, Publishing
    <3>2. events \in Seq(AmendEvents)
      BY <2>3, ShortEvents
    <3> QED
      BY <1>2, <2>3, <3>1, <3>2, PartAppends
  <2> QED
    BY <1>1, <1>3, <2>1, <2>2, <2>3
<1>5. locked' \in BOOLEAN
  BY <1>1, <1>2
<1> QED
  BY <1>1, <1>4, <1>5, AmendEnds

LEMMA ApplyIsStarted ==
    ASSUME AmendInv, Amendment!RecordStarted
    PROVE  AmendInv'
<1> USE DEF Transacting, Publishing, Reconciling, Undoing, Holding, AmendPlaces
<1>1. /\ amend.pc = "started" /\ UNCHANGED <<plan, contract, tasks, progress, branch, proposal>>
      /\ \/ /\ Amendment!Append2Log(<<"started">>) /\ UNCHANGED locked
            /\ amend' = [amend EXCEPT !.pc = "tasks", !.before.log = log', !.before.torn = torn']
         \/ /\ Amendment!AppendPart(<<"started">>, torn)
            /\ Amendment!End /\ locked' = FALSE
  BY DEF Amendment!RecordStarted, Amendment!At, Amendment!Release
<1>2. CASE Amendment!AppendPart(<<"started">>, torn) /\ Amendment!End /\ locked' = FALSE
  <2>1. WorkIsKnown(branch)
    BY <1>1 DEF AmendInv, NothingBehind
  <2> HIDE DEF Transacting, Publishing, Reconciling, Undoing, Holding, AmendPlaces
  <2>2. AmendTypes /\ torn \in BOOLEAN /\ <<"started">> \in Seq(AmendEvents)
    BY ShortEvents DEF AmendInv, AmendTypes
  <2>3. log' \in Seq(AmendEvents) /\ torn' \in BOOLEAN
    BY <1>2, <2>2, PartAppends
  <2> QED
    BY <1>1, <1>2, <2>1, <2>3, AmendEnds
<1>3. CASE /\ Amendment!Append2Log(<<"started">>) /\ UNCHANGED locked
           /\ amend' = [amend EXCEPT !.pc = "tasks", !.before.log = log', !.before.torn = torn']
  <2>1. log' \in Seq(AmendEvents) /\ ~torn' /\ torn' \in BOOLEAN
    <3>1. "started" \in AmendEvents
      BY DEF AmendEvents, Amendment!OtherEvents
    <3>2. <<"started">> \in Seq(AmendEvents) /\ <<"started">> # <<>>
      BY <3>1
    <3> HIDE DEF Transacting, Publishing, Reconciling, Undoing, Holding, AmendPlaces
    <3> QED
      BY <1>3, <3>2, Appends DEF AmendInv
  <2>2. amend \in AmendCommands /\ amend.before \in Findings /\ AmendTypes
    BY <1>1, CommandNow DEF AmendInv
  <2>3. /\ amend' \in AmendCommands /\ amend'.pc = "tasks" /\ amend'.wrote = amend.wrote
        /\ amend'.planned = amend.planned /\ amend'.made = amend.made /\ amend'.prev = amend.prev
        /\ amend'.cut = amend.cut /\ amend'.quiet = amend.quiet /\ amend'.bad = amend.bad
        /\ amend'.before.plan = amend.before.plan /\ amend'.before.tasks = amend.before.tasks
        /\ amend'.before.progress = amend.before.progress /\ amend'.before.branch = amend.before.branch
        /\ amend'.before.log = log' /\ amend'.before.torn = torn'
    <3>1. [amend.before EXCEPT !.log = log', !.torn = torn'] \in Findings
      BY <2>1, <2>2 DEF Findings
    <3>2. amend' = [amend EXCEPT !.pc = "tasks",
                                 !.before = [amend.before EXCEPT !.log = log', !.torn = torn']]
      BY <1>3, <2>2 DEF AmendCommands
    <3>3. amend'.before = [amend.before EXCEPT !.log = log', !.torn = torn'] /\ amend'.pc = "tasks"
      BY <2>2, <3>2 DEF AmendCommands
    <3>4. amend' \in AmendCommands
      BY <2>2, <3>1, <3>2 DEF AmendCommands
    <3>5. /\ amend'.wrote = amend.wrote
        /\ amend'.planned = amend.planned /\ amend'.made = amend.made /\ amend'.prev = amend.prev
        /\ amend'.cut = amend.cut /\ amend'.quiet = amend.quiet /\ amend'.bad = amend.bad
      BY <2>2, <3>2 DEF AmendCommands
    <3>6. /\ amend'.before.plan = amend.before.plan /\ amend'.before.tasks = amend.before.tasks
        /\ amend'.before.progress = amend.before.progress /\ amend'.before.branch = amend.before.branch
        /\ amend'.before.log = log' /\ amend'.before.torn = torn'
      BY <2>2, <3>3 DEF Findings
    <3> QED
      BY <3>3, <3>4, <3>5, <3>6
  <2>4. AmendTypes' /\ LockIsHeld'
    BY <1>1, <1>3, <2>1, <2>3 DEF AmendInv, AmendTypes, LockIsHeld
  <2>5. amend.wrote = {} /\ ~amend.planned /\ ~amend.made /\ FoundFresh
    BY <1>1 DEF AmendInv, PublishedSoFar, FoundEither
  <2>6. FoundEither'
    <3>1. FoundFresh' /\ ~FoundApplied'
      BY <2>3, <2>5 DEF FoundFresh, FoundApplied, Amendment!AmendedPlan
    <3> QED
      BY <2>3, <2>5, <3>1 DEF FoundEither
  <2>7. TasksFirst'
    BY <1>1, <2>3, <2>5 DEF AmendInv, TasksFirst, Amendment!PlanHasContracts
  <2>8. DoneSoFar'
    <3>1. amend.quiet /\ ~amend.cut =>
            PlanAsWritten /\ TasksAsWritten /\ BranchAsWritten /\ progress = amend.before.progress
      BY <1>1 DEF AmendInv, DoneSoFar
    <3>2. amend'.quiet /\ ~amend'.cut =>
            /\ PlanAsWritten' /\ TasksAsWritten' /\ BranchAsWritten' /\ LogAsFound'
            /\ progress' = amend'.before.progress
      BY <1>1, <2>3, <2>5, <3>1 DEF PlanAsWritten, TasksAsWritten, BranchAsWritten, LogAsFound
    <3>3. ~amend'.cut
      BY <1>1, <2>3 DEF AmendInv, DoneSoFar
    <3> QED
      BY <2>3, <3>2, <3>3 DEF DoneSoFar
  <2>9. PublishedSoFar'
    BY <2>1, <2>3, <2>5 DEF PublishedSoFar
  <2>10. NothingBehind'
    BY <1>1, <2>3, <2>5 DEF AmendInv, NothingBehind, WorkIsKnown
  <2> QED
    BY <2>4, <2>6, <2>7, <2>8, <2>9, <2>10 DEF AmendInv
<1> QED
  BY <1>1, <1>2, <1>3

(* amend apply: the steps of the transaction.                              *)
LEMMA TransactionNow ==
    ASSUME AmendInv, amend.pc \in Transacting
    PROVE  /\ amend \in AmendCommands /\ amend.before \in Findings /\ AmendTypes
           /\ proposal \in ProposalRecords /\ proposal # Amendment!NoProposal
           /\ Amendment!AmendedPlan \in PlanTexts /\ Integrated \in AmendCommits
<1>1. amend \in AmendCommands /\ amend.before \in Findings /\ AmendTypes
  <2>1. amend.pc # "idle"
    BY WritingPlaces
  <2> QED
    BY <2>1, CommandNow DEF AmendInv
<1>2. proposal \in ProposalRecords
  BY WritingPlaces DEF AmendInv, LockIsHeld
<1>3. proposal # Amendment!NoProposal
  BY <1>2 DEF ProposalRecords, Amendment!NoProposal
<1>4. Amendment!AmendedPlan \in PlanTexts
  BY <1>2 DEF ProposalRecords, Amendment!AmendedPlan, PlanTexts
<1>5. Integrated \in AmendCommits
  BY <1>2 DEF ProposalRecords, Integrated, AmendCommits, AmendChanges
<1> QED
  BY <1>1, <1>2, <1>3, <1>4, <1>5

LEMMA TaskIsPublished ==
    ASSUME AmendInv, NEW r \in Splits, Amendment!PublishTask(r)
    PROVE  AmendInv'
<1>1. /\ amend.pc = "tasks" /\ r \notin amend.wrote
      /\ UNCHANGED <<plan, contract, progress, branch, log, torn, locked, proposal>>
      /\ \/ /\ tasks[r] = "absent" /\ tasks' = [tasks EXCEPT ![r] = "new"]
            /\ amend' = [amend EXCEPT !.wrote = @ \cup {r}] \/ Amendment!Interrupted
         \/ UNCHANGED tasks /\ Amendment!Go("undo_ref")
  BY DEF Amendment!PublishTask, Amendment!At, Amendment!Failing, Amendment!Refused
<1>2. amend.pc \in Writing
  BY <1>1 DEF Writing
<1>3. amend \in AmendCommands /\ amend.before \in Findings /\ AmendTypes
  BY <1>2, WritingPlaces, TransactionNow
<1>4. CASE UNCHANGED tasks /\ Amendment!Go("undo_ref")
  BY <1>1, <1>2, <1>4, FailsBefore
<1>5. ASSUME tasks[r] = "absent", tasks' = [tasks EXCEPT ![r] = "new"]
      PROVE  /\ tasks' \in TaskFiles /\ Amendment!PlanHasContracts'
             /\ tasks'[r] = "new" /\ \A s \in Splits \ {r} : tasks'[s] = tasks[s]
  BY <1>1, <1>3, <1>5 DEF AmendInv, AmendTypes, TaskFiles, TasksFirst, Amendment!PlanHasContracts
<1>6. CASE tasks[r] = "absent" /\ tasks' = [tasks EXCEPT ![r] = "new"] /\ Amendment!Interrupted
  <2>1. Appended(log, log') /\ torn' \in BOOLEAN /\ plan' \in PlanTexts
        /\ progress' \in ProgressRecords /\ branch' \in {branch, Integrated}
    BY <1>1, <1>3 DEF AmendTypes, Appended, EndsStarted
  <2> QED
    BY <1>1, <1>2, <1>5, <1>6, <2>1, CutBehind
<1>7. CASE /\ tasks[r] = "absent" /\ tasks' = [tasks EXCEPT ![r] = "new"]
           /\ amend' = [amend EXCEPT !.wrote = @ \cup {r}]
  <2> USE DEF Transacting, Publishing, Reconciling, Undoing, Holding, AmendPlaces
  <2>1. /\ amend' \in AmendCommands /\ amend'.pc = "tasks" /\ amend'.wrote = amend.wrote \cup {r}
        /\ amend'.planned = amend.planned /\ amend'.made = amend.made /\ amend'.prev = amend.prev
        /\ amend'.cut = amend.cut /\ amend'.quiet = amend.quiet /\ amend'.bad = amend.bad
        /\ amend'.before = amend.before
    BY <1>1, <1>3, <1>7 DEF AmendCommands
  <2>2. AmendTypes' /\ LockIsHeld'
    BY <1>1, <1>3, <1>5, <1>7, <2>1 DEF AmendInv, AmendTypes, LockIsHeld
  <2>3. FoundEither'
    <3>1. FoundFresh
      BY <1>1 DEF AmendInv, FoundEither
    <3>2. FoundFresh' /\ ~FoundApplied'
      BY <2>1, <3>1 DEF FoundFresh, FoundApplied, Amendment!AmendedPlan
    <3> QED
      BY <2>1, <3>2 DEF FoundEither
  <2>4. TasksFirst'
    BY <1>1, <1>5, <1>7, <2>1 DEF AmendInv, TasksFirst
  <2>5. DoneSoFar'
    <3>1. amend.quiet /\ ~amend.cut =>
            /\ PlanAsWritten /\ TasksAsWritten /\ BranchAsWritten /\ LogAsFound
            /\ progress = amend.before.progress
      BY <1>1 DEF AmendInv, DoneSoFar
    <3>2. TasksAsWritten => TasksAsWritten'
      BY <1>5, <1>7, <2>1 DEF TasksAsWritten
    <3>3. PlanAsWritten /\ BranchAsWritten /\ LogAsFound => PlanAsWritten' /\ BranchAsWritten' /\ LogAsFound'
      BY <1>1, <2>1 DEF PlanAsWritten, BranchAsWritten, LogAsFound, Amendment!AmendedPlan, Integrated
    <3>4. ~amend.cut
      BY <1>1 DEF AmendInv, DoneSoFar
    <3> QED
      BY <1>1, <2>1, <3>1, <3>2, <3>3, <3>4 DEF DoneSoFar
  <2>6. PublishedSoFar' /\ NothingBehind'
    BY <1>1, <2>1 DEF AmendInv, PublishedSoFar, NothingBehind, EndsStarted, WorkIsKnown
  <2> QED
    BY <2>2, <2>3, <2>4, <2>5, <2>6 DEF AmendInv
<1> QED
  BY <1>1, <1>4, <1>6, <1>7

LEMMA PlanIsReplaced ==
    ASSUME AmendInv, Amendment!ReplacePlan
    PROVE  AmendInv'
<1>1. /\ amend.pc = "tasks" /\ amend.wrote = Splits
      /\ UNCHANGED <<contract, tasks, progress, branch, log, torn, locked, proposal>>
      /\ \/ /\ plan' = Amendment!AmendedPlan
            /\ \/ amend' = [amend EXCEPT !.pc = "commit", !.planned = TRUE]
               \/ Amendment!Interrupted
         \/ UNCHANGED plan /\ Amendment!Go("undo_ref")
  BY DEF Amendment!ReplacePlan, Amendment!At, Amendment!Failing, Amendment!Refused, Splits
<1>2. amend.pc \in Writing
  BY <1>1 DEF Writing
<1>3. amend \in AmendCommands /\ amend.before \in Findings /\ AmendTypes
      /\ Amendment!AmendedPlan \in PlanTexts
  BY <1>2, WritingPlaces, TransactionNow
<1>4. CASE UNCHANGED plan /\ Amendment!Go("undo_ref")
  BY <1>1, <1>2, <1>4, FailsBefore
<1>5. Amendment!PlanHasContracts'
  BY <1>1, <1>3 DEF AmendInv, AmendTypes, TaskFiles, TasksFirst, Amendment!PlanHasContracts
<1>6. CASE plan' = Amendment!AmendedPlan /\ Amendment!Interrupted
  <2>1. Appended(log, log') /\ torn' \in BOOLEAN /\ plan' \in PlanTexts
        /\ progress' \in ProgressRecords /\ branch' \in {branch, Integrated} /\ tasks' \in TaskFiles
    BY <1>1, <1>3, <1>6 DEF AmendTypes, Appended, EndsStarted
  <2> QED
    BY <1>1, <1>2, <1>5, <1>6, <2>1, CutBehind
<1>7. CASE /\ plan' = Amendment!AmendedPlan
           /\ amend' = [amend EXCEPT !.pc = "commit", !.planned = TRUE]
  <2> USE DEF Transacting, Publishing, Reconciling, Undoing, Holding, AmendPlaces
  <2>1. /\ amend' \in AmendCommands /\ amend'.pc = "commit" /\ amend'.wrote = amend.wrote
        /\ amend'.planned = TRUE /\ amend'.made = amend.made /\ amend'.prev = amend.prev
        /\ amend'.cut = amend.cut /\ amend'.quiet = amend.quiet /\ amend'.bad = amend.bad
        /\ amend'.before = amend.before
    BY <1>1, <1>3, <1>7 DEF AmendCommands
  <2>2. AmendTypes' /\ LockIsHeld'
    BY <1>1, <1>3, <1>7, <2>1 DEF AmendInv, AmendTypes, LockIsHeld
  <2>3. FoundEither'
    <3>1. FoundFresh
      BY <1>1 DEF AmendInv, FoundEither
    <3>2. FoundFresh' /\ ~FoundApplied'
      BY <2>1, <3>1 DEF FoundFresh, FoundApplied, Amendment!AmendedPlan
    <3> QED
      BY <2>1, <3>2 DEF FoundEither
  <2>4. TasksFirst'
    BY <1>5, <2>1 DEF TasksFirst
  <2>5. DoneSoFar'
    <3>1. amend.quiet /\ ~amend.cut =>
            /\ TasksAsWritten /\ BranchAsWritten /\ LogAsFound
            /\ progress = amend.before.progress
      BY <1>1 DEF AmendInv, DoneSoFar
    <3>2. PlanAsWritten'
      BY <1>1, <1>7, <2>1 DEF PlanAsWritten, Amendment!AmendedPlan
    <3>3. TasksAsWritten /\ BranchAsWritten /\ LogAsFound => TasksAsWritten' /\ BranchAsWritten' /\ LogAsFound'
      BY <1>1, <2>1 DEF TasksAsWritten, BranchAsWritten, LogAsFound, Integrated
    <3>4. ~amend.cut
      BY <1>1 DEF AmendInv, DoneSoFar
    <3> QED
      BY <1>1, <2>1, <3>1, <3>2, <3>3, <3>4 DEF DoneSoFar
  <2>6. PublishedSoFar' /\ NothingBehind'
    BY <1>1, <2>1 DEF AmendInv, PublishedSoFar, NothingBehind, EndsStarted, WorkIsKnown
  <2> QED
    BY <2>2, <2>3, <2>4, <2>5, <2>6 DEF AmendInv
<1> QED
  BY <1>1, <1>4, <1>6, <1>7

LEMMA BranchIsMoved ==
    ASSUME AmendInv, Amendment!IntegrateArtifacts \/ Amendment!Reintegrate
    PROVE  AmendInv'
<1> DEFINE next == IF amend.pc = "commit" THEN "record" ELSE "rerecord"
<1>1. /\ amend.pc \in {"commit", "reintegrate"}
      /\ UNCHANGED <<plan, contract, tasks, progress, log, torn, locked, proposal>>
      /\ \/ /\ Amendment!CanIntegrate /\ branch' = Integrated
            /\ \/ amend' = [amend EXCEPT !.pc = next, !.made = TRUE, !.prev = branch]
               \/ Amendment!Interrupted
         \/ UNCHANGED branch /\ Amendment!Go("undo_ref")
         \/ /\ amend.pc = "reintegrate" /\ Amendment!AmendmentFound /\ UNCHANGED branch
            /\ Amendment!Go("rerecord")
  BY DEF Amendment!IntegrateArtifacts, Amendment!Reintegrate, Amendment!At, Amendment!Failing,
         Amendment!Refused, Amendment!Integrate, Integrated
<1>2. amend.pc \in Writing /\ next \in {"record", "rerecord"}
      /\ (amend.pc = "commit" <=> next = "record")
  BY <1>1 DEF Writing, Reconciling
<1> HIDE DEF next
<1>3. /\ amend \in AmendCommands /\ amend.before \in Findings /\ AmendTypes
      /\ Integrated \in AmendCommits /\ proposal # Amendment!NoProposal
  BY <1>2, WritingPlaces, TransactionNow
<1>4. CASE UNCHANGED branch /\ Amendment!Go("undo_ref")
  BY <1>1, <1>2, <1>4, FailsBefore
<1>5. CASE branch' = Integrated /\ Amendment!Interrupted
  <2>1. Appended(log, log') /\ torn' \in BOOLEAN /\ plan' \in PlanTexts
        /\ progress' \in ProgressRecords /\ branch' \in {branch, Integrated} /\ tasks' \in TaskFiles
    BY <1>1, <1>3, <1>5 DEF AmendTypes, Appended, EndsStarted
  <2>2. Amendment!PlanHasContracts'
    BY <1>1 DEF AmendInv, TasksFirst, Amendment!PlanHasContracts
  <2> QED
    BY <1>1, <1>2, <1>5, <2>1, <2>2, CutBehind
<1>6. CASE /\ Amendment!CanIntegrate /\ branch' = Integrated
           /\ amend' = [amend EXCEPT !.pc = next, !.made = TRUE, !.prev = branch]
  <2> USE DEF Transacting, Publishing, Reconciling, Undoing, Holding, AmendPlaces
  <2>1. /\ amend' \in AmendCommands /\ amend'.pc = next /\ amend'.wrote = amend.wrote
        /\ amend'.planned = amend.planned /\ amend'.made = TRUE /\ amend'.prev = branch
        /\ amend'.cut = amend.cut /\ amend'.quiet = amend.quiet /\ amend'.bad = amend.bad
        /\ amend'.before = amend.before
    <3>1. branch \in AmendCommits
      BY <1>3 DEF AmendTypes
    <3>2. next \in AmendPlaces
      BY <1>2
    <3> HIDE DEF AmendPlaces
    <3> QED
      BY <1>3, <1>6, <3>1, <3>2 DEF AmendCommands
  <2>2. AmendTypes' /\ LockIsHeld' /\ TasksFirst'
    BY <1>1, <1>2, <1>3, <1>6, <2>1 DEF AmendInv, AmendTypes, LockIsHeld, TasksFirst,
                                        Amendment!PlanHasContracts
  <2>3. FoundEither'
    <3>1. /\ amend.pc = "commit" => FoundFresh
          /\ amend.pc = "reintegrate" => FoundApplied /\ ~amend.planned /\ amend.wrote = {}
      BY <1>1 DEF AmendInv, FoundEither
    <3>2. /\ FoundFresh => FoundFresh' /\ ~FoundApplied'
          /\ FoundApplied => FoundApplied'
      BY <1>1, <2>1 DEF FoundFresh, FoundApplied, Amendment!AmendedPlan
    <3> QED
      BY <1>1, <1>2, <2>1, <3>1, <3>2 DEF FoundEither
  <2>4. ~amend.cut /\ ~amend.made
    BY <1>1 DEF AmendInv, DoneSoFar, PublishedSoFar
  <2>5. DoneSoFar'
    <3>1. amend.quiet /\ ~amend.cut =>
            /\ PlanAsWritten /\ TasksAsWritten /\ BranchAsWritten /\ LogAsFound
            /\ progress = amend.before.progress
      BY <1>1 DEF AmendInv, DoneSoFar
    <3>2. PlanAsWritten /\ TasksAsWritten /\ LogAsFound =>
            PlanAsWritten' /\ TasksAsWritten' /\ LogAsFound'
      BY <1>1, <2>1 DEF PlanAsWritten, TasksAsWritten, LogAsFound, Amendment!AmendedPlan
    <3>3. BranchAsWritten => BranchAsWritten'
      BY <1>1, <1>6, <2>1, <2>4 DEF BranchAsWritten, Integrated
    <3> QED
      BY <1>1, <1>2, <2>1, <2>4, <3>1, <3>2, <3>3 DEF DoneSoFar
  <2>6. PublishedSoFar'
    <3>1. "amend" \in branch'
      BY <1>6 DEF Integrated
    <3>2. amend.pc = "commit" => amend.planned /\ (amend.quiet => ~torn)
      BY DEF AmendInv, PublishedSoFar
    <3> QED
      BY <1>1, <1>2, <2>1, <3>1, <3>2 DEF PublishedSoFar
  <2>7. NothingBehind'
    <3>1. WorkIsKnown(branch)
      BY <1>6 DEF Amendment!CanIntegrate, Amendment!NoCommit, WorkIsKnown
    <3>2. WorkIsKnown(branch)' /\ WorkIsKnown(amend.prev)'
      BY <1>1, <1>6, <2>1, <3>1 DEF WorkIsKnown, Integrated
    <3> QED
      BY <3>2 DEF NothingBehind
  <2> QED
    BY <2>2, <2>3, <2>5, <2>6, <2>7 DEF AmendInv
<1>7. CASE /\ amend.pc = "reintegrate" /\ Amendment!AmendmentFound /\ UNCHANGED branch
           /\ Amendment!Go("rerecord")
  <2> USE DEF Transacting, Publishing, Reconciling, Undoing, Holding, AmendPlaces
  <2>1. /\ SameWrites /\ amend'.pc = "rerecord" /\ amend'.bad = amend.bad
        /\ amend'.quiet = amend.quiet /\ amend'.cut = amend.cut
    <3>1. "rerecord" \in AmendPlaces
      OBVIOUS
    <3> HIDE DEF AmendPlaces
    <3> QED
      BY <1>3, <1>7, <3>1, AmendGoes
  <2>2. AmendTypes' /\ LockIsHeld' /\ TasksFirst'
    BY <1>1, <1>3, <1>7, <2>1 DEF AmendInv, AmendTypes, LockIsHeld, TasksFirst,
                                  Amendment!PlanHasContracts, SameWrites
  <2>3. FoundEither'
    BY <1>1, <1>7, <2>1 DEF AmendInv, FoundEither, FoundFresh, FoundApplied, Amendment!AmendedPlan, SameWrites
  <2>4. DoneSoFar'
    BY <1>1, <1>7, <2>1 DEF AmendInv, DoneSoFar, PlanAsWritten, TasksAsWritten, BranchAsWritten,
       LogAsFound, Integrated, Amendment!AmendedPlan, SameWrites
  <2>5. PublishedSoFar'
    BY <1>7, <2>1 DEF PublishedSoFar, Amendment!AmendmentFound
  <2>6. NothingBehind'
    BY <1>1, <1>7, <2>1 DEF AmendInv, NothingBehind, EndsStarted, WorkIsKnown, SameWrites
  <2> QED
    BY <2>2, <2>3, <2>4, <2>5, <2>6 DEF AmendInv
<1> QED
  BY <1>1, <1>4, <1>5, <1>6, <1>7

LEMMA ProgressIsRecorded ==
    ASSUME AmendInv, Amendment!RecordAssembly \/ Amendment!Rerecord
    PROVE  AmendInv'
<1> DEFINE next == IF amend.pc = "record" THEN "journal" ELSE "rejournal"
           head == IF amend.pc = "record" THEN branch
                   ELSE IF amend.made THEN Integrated ELSE amend.before.branch
<1>1. /\ amend.pc \in {"record", "rerecord"}
      /\ UNCHANGED <<plan, contract, tasks, branch, log, torn, locked, proposal>>
      /\ \/ /\ amend.pc = "record" => branch = Integrated
            /\ progress' = Amendment!Recorded(head)
            /\ Amendment!Go(next) \/ Amendment!Interrupted
         \/ UNCHANGED progress /\ Amendment!Go("undo_ref")
  BY DEF Amendment!RecordAssembly, Amendment!Rerecord, Amendment!At, Amendment!Failing,
         Amendment!Refused, Amendment!GoOrCut, Integrated
<1>2. amend.pc \in Writing /\ next \in {"journal", "rejournal"}
      /\ (amend.pc = "record" <=> next = "journal")
  BY <1>1 DEF Writing, Reconciling
<1>3. /\ amend \in AmendCommands /\ amend.before \in Findings /\ AmendTypes
      /\ Integrated \in AmendCommits /\ proposal # Amendment!NoProposal
  BY <1>2, WritingPlaces, TransactionNow
<1>4. head \in AmendCommits
  BY <1>3 DEF Findings, AmendTypes
<1>5. /\ amend.pc = "record" => head = branch
      /\ amend.pc = "rerecord" => head = IF amend.made THEN Integrated ELSE amend.before.branch
  OBVIOUS
<1> HIDE DEF next, head
<1>6. ASSUME progress' = Amendment!Recorded(head)
      PROVE  progress' \in ProgressRecords /\ progress'.assembled = head
  BY <1>3, <1>4, <1>6 DEF AmendTypes, ProgressRecords, Amendment!Recorded
<1>7. CASE UNCHANGED progress /\ Amendment!Go("undo_ref")
  BY <1>1, <1>2, <1>7, FailsBefore
<1>8. CASE progress' = Amendment!Recorded(head) /\ Amendment!Interrupted
  <2>1. Appended(log, log') /\ torn' \in BOOLEAN /\ plan' \in PlanTexts
        /\ branch' \in {branch, Integrated} /\ tasks' \in TaskFiles
    BY <1>1, <1>3, <1>8 DEF AmendTypes, Appended, EndsStarted
  <2>2. Amendment!PlanHasContracts'
    BY <1>1 DEF AmendInv, TasksFirst, Amendment!PlanHasContracts
  <2> QED
    BY <1>1, <1>2, <1>6, <1>8, <2>1, <2>2, CutBehind
<1>9. CASE /\ progress' = Amendment!Recorded(head) /\ Amendment!Go(next)
           /\ amend.pc = "record" => branch = Integrated
  <2> USE DEF Transacting, Publishing, Reconciling, Undoing, Holding, AmendPlaces
  <2>1. /\ SameWrites /\ amend'.pc = next /\ amend'.bad = amend.bad
        /\ amend'.quiet = amend.quiet /\ amend'.cut = amend.cut
    <3>1. next \in AmendPlaces
      BY <1>2
    <3> HIDE DEF AmendPlaces
    <3> QED
      BY <1>3, <1>9, <3>1, AmendGoes
  <2>2. AmendTypes' /\ LockIsHeld' /\ TasksFirst'
    BY <1>1, <1>2, <1>3, <1>6, <1>9, <2>1 DEF AmendInv, AmendTypes, LockIsHeld, TasksFirst,
                                  Amendment!PlanHasContracts, SameWrites
  <2>3. FoundEither'
    BY <1>1, <1>2, <2>1 DEF AmendInv, FoundEither, FoundFresh, FoundApplied, Amendment!AmendedPlan, SameWrites
  <2>4. amend.quiet => BranchAsWritten
    BY <1>1 DEF AmendInv, DoneSoFar
  <2>5. DoneSoFar'
    BY <1>1, <1>2, <2>1 DEF AmendInv, DoneSoFar, PlanAsWritten, TasksAsWritten, BranchAsWritten,
       LogAsFound, Integrated, Amendment!AmendedPlan, SameWrites
  <2>6. PublishedSoFar'
    <3>1. amend.quiet => "amend" \in branch /\ head = branch
      BY <1>1, <1>5, <1>9, <2>4 DEF AmendInv, PublishedSoFar, BranchAsWritten, Integrated
    <3>2. amend.pc = "record" => amend.planned /\ amend.made /\ (amend.quiet => ~torn)
      BY DEF AmendInv, PublishedSoFar
    <3> QED
      BY <1>1, <1>2, <1>6, <1>9, <2>1, <3>1, <3>2 DEF PublishedSoFar, SameWrites
  <2>7. NothingBehind'
    BY <1>1, <1>2, <2>1 DEF AmendInv, NothingBehind, EndsStarted, WorkIsKnown, SameWrites
  <2> QED
    BY <2>2, <2>3, <2>5, <2>6, <2>7 DEF AmendInv
<1> QED
  BY <1>1, <1>7, <1>8, <1>9

\* All events of the application are in the journal that a step completes.
LEMMA JournalIsComplete ==
    ASSUME Amendment!AmendmentConstants, AmendTypes,
           \/ ~torn /\ Amendment!Append2Log(Amendment!Success)
           \/ log' = log \o Amendment!Missing /\ torn' = FALSE
    PROVE  /\ Appended(log, log') /\ torn' \in BOOLEAN /\ ~torn'
           /\ Amendment!Range(Amendment!Success) \subseteq Amendment!Range(log')
<1>1. log \in Seq(AmendEvents)
  BY DEF AmendTypes
<1>2. /\ Amendment!Success \in Seq(AmendEvents) /\ Amendment!Missing \in Seq(AmendEvents)
      /\ Amendment!Success # <<>>
      /\ \A i \in 1..Len(Amendment!Success) : Amendment!Success[i] # "started"
      /\ \A i \in 1..Len(Amendment!Missing) : Amendment!Missing[i] # "started"
  BY ClosingEvents
<1>3. CASE ~torn /\ Amendment!Append2Log(Amendment!Success)
  <2>1. log' = log \o Amendment!Success /\ ~torn' /\ torn' \in BOOLEAN
    BY <1>2, <1>3, Appends
  <2> QED
    BY <1>1, <1>2, <2>1, PartAppended, JournalFacts
<1>4. CASE log' = log \o Amendment!Missing /\ torn' = FALSE
  <2>1. Appended(log, log')
    BY <1>1, <1>2, <1>4, PartAppended
  <2>2. /\ Amendment!Range(log) \subseteq Amendment!Range(log')
        /\ Amendment!Range(Amendment!Missing) \subseteq Amendment!Range(log')
        /\ Amendment!Range(Amendment!Missing) = {Amendment!Missing[i] : i \in 1..Len(Amendment!Missing)}
        /\ Amendment!Range(Amendment!Success) = {Amendment!Success[i] : i \in 1..Len(Amendment!Success)}
    BY <1>1, <1>2, <1>4, JournalFacts
  <2>3. ASSUME NEW x \in Amendment!Range(Amendment!Success) PROVE x \in Amendment!Range(log')
    <3>1. PICK i \in 1..Len(Amendment!Success) : x = Amendment!Success[i]
      BY <2>2
    <3>2. \/ x \in Amendment!Range(log)
          \/ \E j \in 1..Len(Amendment!Missing) : Amendment!Missing[j] = x
      BY <3>1, MissingFacts
    <3> QED
      BY <2>2, <3>2
  <2> QED
    BY <1>4, <2>1, <2>3
<1> QED
  BY <1>3, <1>4

LEMMA EventsAreRecorded ==
    ASSUME AmendInv, Amendment!AmendmentConstants, Amendment!RecordSuccess \/ Amendment!Rejournal
    PROVE  AmendInv'
<1>1. /\ amend.pc \in {"journal", "rejournal"}
      /\ UNCHANGED <<plan, contract, tasks, progress, branch, locked, proposal>>
      /\ \/ /\ \/ amend.pc = "journal" /\ Amendment!Append2Log(Amendment!Success)
               \/ amend.pc = "rejournal" /\ log' = log \o Amendment!Missing /\ torn' = FALSE
            /\ Amendment!Go("applied") \/ Amendment!Interrupted
         \/ UNCHANGED <<log, torn>> /\ Amendment!Go("undo_ref")
  BY DEF Amendment!RecordSuccess, Amendment!Rejournal, Amendment!At, Amendment!Failing,
         Amendment!Refused, Amendment!GoOrCut
<1>2. amend.pc \in Writing
  BY <1>1 DEF Writing, Reconciling
<1>3. /\ amend \in AmendCommands /\ amend.before \in Findings /\ AmendTypes
      /\ proposal # Amendment!NoProposal
  BY <1>2, WritingPlaces, TransactionNow
<1>4. CASE UNCHANGED <<log, torn>> /\ Amendment!Go("undo_ref")
  BY <1>1, <1>2, <1>4, FailsBefore
<1>5. CASE \/ amend.pc = "journal" /\ Amendment!Append2Log(Amendment!Success)
           \/ amend.pc = "rejournal" /\ log' = log \o Amendment!Missing /\ torn' = FALSE
  <2>1. Appended(log, log') /\ torn' \in BOOLEAN
    <3>1. CASE Amendment!Append2Log(Amendment!Success)
      <4>1. /\ Amendment!Success \in Seq(AmendEvents)
            /\ Amendment!Success # <<>> =>
                  Amendment!Success[Len(Amendment!Success)] # "started"
        BY ClosingEvents
      <4> QED
        BY <1>3, <3>1, <4>1, ClosingAppends
    <3>2. CASE log' = log \o Amendment!Missing /\ torn' = FALSE
      BY <1>3, <3>2, JournalIsComplete
    <3> QED
      BY <1>5, <3>1, <3>2
  <2>2. CASE Amendment!Interrupted
    <3>1. plan' \in PlanTexts /\ progress' \in ProgressRecords
          /\ branch' \in {branch, Integrated} /\ tasks' \in TaskFiles
      BY <1>1, <1>3 DEF AmendTypes
    <3>2. Amendment!PlanHasContracts'
      BY <1>1 DEF AmendInv, TasksFirst, Amendment!PlanHasContracts
    <3> QED
      BY <1>1, <1>2, <2>1, <2>2, <3>1, <3>2, CutBehind
  <2>3. CASE Amendment!Go("applied")
    <3>1. amend.quiet => /\ ~torn'
                         /\ Amendment!Range(Amendment!Success) \subseteq Amendment!Range(log')
      <4>1. ASSUME amend.quiet
            PROVE  \/ ~torn /\ Amendment!Append2Log(Amendment!Success)
                   \/ log' = log \o Amendment!Missing /\ torn' = FALSE
        BY <1>5, <4>1 DEF AmendInv, PublishedSoFar
      <4> QED
        BY <1>3, <4>1, JournalIsComplete
    <3> USE DEF Transacting, Publishing, Reconciling, Undoing, Holding, AmendPlaces
    <3>2. /\ SameWrites /\ amend'.pc = "applied" /\ amend'.bad = amend.bad
          /\ amend'.quiet = amend.quiet /\ amend'.cut = amend.cut
      <4>1. "applied" \in AmendPlaces
        OBVIOUS
      <4> HIDE DEF AmendPlaces
      <4> QED
        BY <1>3, <2>3, <4>1, AmendGoes
    <3>3. AmendTypes' /\ LockIsHeld' /\ TasksFirst'
      BY <1>1, <1>3, <2>1, <3>2 DEF AmendInv, AmendTypes, LockIsHeld, TasksFirst,
                                    Amendment!PlanHasContracts, SameWrites, Appended
    <3>4. FoundEither'
      BY <1>1, <3>2 DEF AmendInv, FoundEither, FoundFresh, FoundApplied, Amendment!AmendedPlan, SameWrites
    <3>5. DoneSoFar'
      BY <3>2 DEF DoneSoFar
    <3>6. PublishedSoFar'
      <4>1. ~amend.cut /\ (amend.pc = "journal" => amend.planned)
            /\ (amend.pc = "rejournal" => FoundApplied /\ ~amend.planned)
        BY <1>1 DEF AmendInv, DoneSoFar, PublishedSoFar, FoundEither
      <4>2. amend.quiet => PlanAsWritten
        BY <1>1, <4>1 DEF AmendInv, DoneSoFar
      <4>3. amend.quiet => plan = Amendment!AmendedPlan
        BY <1>1, <4>1, <4>2 DEF PlanAsWritten, FoundApplied
      <4>4. amend.quiet => "amend" \in branch /\ progress.assembled = branch
        BY <1>1 DEF AmendInv, PublishedSoFar
      <4> QED
        BY <1>1, <3>1, <3>2, <4>3, <4>4 DEF PublishedSoFar, Amendment!AmendedPlan, Amendment!Success
    <3>7. NothingBehind'
      BY <1>1, <2>1, <3>2 DEF AmendInv, NothingBehind, EndsStarted, WorkIsKnown, SameWrites, Appended
    <3> QED
      BY <3>3, <3>4, <3>5, <3>6, <3>7 DEF AmendInv
  <2> QED
    BY <1>1, <1>4, <2>2, <2>3
<1> QED
  BY <1>1, <1>4, <1>5

(* amend apply: the undo.                                                  *)
LEMMA RefIsUndone ==
    ASSUME AmendInv, Amendment!UndoRef
    PROVE  AmendInv'
<1> USE DEF Transacting, Publishing, Reconciling, Undoing, Holding, AmendPlaces
<1> DEFINE mine == branch = Integrated
           ok == amend.made => mine
<1>1. /\ amend.pc = "undo_ref"
      /\ UNCHANGED <<plan, contract, tasks, progress, log, torn, locked, proposal>>
      /\ branch' = IF amend.made /\ mine THEN amend.prev ELSE branch
      /\ Amendment!Then("undo_progress", ok)
  BY DEF Amendment!UndoRef, Amendment!At, Integrated
<1>2. /\ amend \in AmendCommands /\ amend.before \in Findings /\ AmendTypes
      /\ proposal # Amendment!NoProposal
  <2>1. amend.pc \in Transacting
    BY <1>1
  <2> HIDE DEF Transacting
  <2> QED
    BY <2>1, TransactionNow
<1>3. ok \in BOOLEAN
  BY <1>2 DEF AmendCommands
<1>4. /\ SameWrites /\ amend'.pc = "undo_progress" /\ amend'.bad = (amend.bad \/ ~ok)
      /\ amend'.quiet = amend.quiet /\ amend'.cut = amend.cut
  <2>1. "undo_progress" \in AmendPlaces
    OBVIOUS
  <2> HIDE DEF AmendPlaces, ok
  <2> QED
    BY <1>1, <1>2, <1>3, <2>1, AmendThen
<1>5. amend.prev \in AmendCommits
  BY <1>2 DEF AmendCommands
<1>6. AmendTypes' /\ LockIsHeld' /\ TasksFirst'
  BY <1>1, <1>2, <1>4, <1>5 DEF AmendInv, AmendTypes, LockIsHeld, TasksFirst,
                                Amendment!PlanHasContracts, SameWrites
<1>7. FoundEither'
  BY <1>1, <1>4 DEF AmendInv, FoundEither, FoundFresh, FoundApplied, Amendment!AmendedPlan, SameWrites
<1>8. DoneSoFar'
  <2>1. amend.quiet /\ ~amend.cut => PlanAsWritten /\ TasksAsWritten /\ BranchAsWritten
    BY <1>1 DEF AmendInv, DoneSoFar
  <2>2. PlanAsWritten /\ TasksAsWritten => PlanAsWritten' /\ TasksAsWritten'
    BY <1>1, <1>4 DEF PlanAsWritten, TasksAsWritten, Amendment!AmendedPlan, SameWrites
  <2>3. BranchAsWritten => branch' = amend'.before.branch
    BY <1>1, <1>4 DEF BranchAsWritten, SameWrites
  <2> QED
    BY <1>1, <1>4, <2>1, <2>2, <2>3 DEF DoneSoFar
<1>9. PublishedSoFar'
  BY <1>4 DEF PublishedSoFar
<1>10. NothingBehind'
  <2>1. WorkIsKnown(branch) \/ ~EndsStarted(log)
    BY <1>2 DEF AmendInv, NothingBehind
  <2>2. /\ EndsStarted(amend.before.log) => WorkIsKnown(branch)
        /\ amend.made => WorkIsKnown(amend.prev)
    BY <1>1 DEF AmendInv, NothingBehind
  <2>3. WorkIsKnown(branch) => WorkIsKnown(branch)'
    BY <1>1, <2>2 DEF WorkIsKnown
  <2> QED
    BY <1>1, <1>4, <2>1, <2>2, <2>3 DEF NothingBehind, EndsStarted, WorkIsKnown, SameWrites
<1> QED
  BY <1>6, <1>7, <1>8, <1>9, <1>10 DEF AmendInv

LEMMA ProgressIsUndone ==
    ASSUME AmendInv, Amendment!UndoProgress
    PROVE  AmendInv'
<1> USE DEF Transacting, Publishing, Reconciling, Undoing, Holding, AmendPlaces
<1> DEFINE next == IF Amendment!Recovering THEN "undo_log" ELSE "undo_plan"
<1>1. /\ amend.pc = "undo_progress"
      /\ UNCHANGED <<plan, contract, tasks, branch, log, torn, locked, proposal>>
      /\ \/ progress' = amend.before.progress /\ Amendment!Then(next, TRUE)
         \/ UNCHANGED progress /\ Amendment!Then(next, FALSE)
  BY DEF Amendment!UndoProgress, Amendment!At
<1>2. /\ amend \in AmendCommands /\ amend.before \in Findings /\ AmendTypes
      /\ proposal # Amendment!NoProposal
  <2>1. amend.pc \in Transacting
    BY <1>1
  <2> HIDE DEF Transacting
  <2> QED
    BY <2>1, TransactionNow
<1>3. /\ next \in {"undo_log", "undo_plan"}
      /\ next = "undo_plan" => FoundFresh
      /\ next = "undo_log" => FoundApplied
  <2>1. FoundFresh \/ FoundApplied
    BY <1>1 DEF AmendInv, FoundEither
  <2> QED
    BY <2>1 DEF Amendment!Recovering, FoundFresh, FoundApplied, Amendment!AmendedPlan
<1> HIDE DEF next
<1>4. /\ SameWrites /\ amend'.pc = next
      /\ \/ amend'.bad = amend.bad /\ progress' = amend.before.progress
         \/ amend'.bad = TRUE /\ progress' = progress
      /\ amend'.quiet = amend.quiet /\ amend'.cut = amend.cut
  <2>1. next \in AmendPlaces
    BY <1>3
  <2>2. amend.bad \in BOOLEAN
    BY <1>2 DEF AmendCommands
  <2> HIDE DEF AmendPlaces
  <2> QED
    BY <1>1, <1>2, <2>1, <2>2, AmendThen
<1>5. progress' \in ProgressRecords
  BY <1>2, <1>4 DEF AmendTypes, Findings
<1>6. AmendTypes' /\ LockIsHeld' /\ TasksFirst'
  BY <1>1, <1>2, <1>3, <1>4, <1>5 DEF AmendInv, AmendTypes, LockIsHeld, TasksFirst,
                                Amendment!PlanHasContracts, SameWrites
<1>7. FoundEither'
  BY <1>1, <1>3, <1>4 DEF AmendInv, FoundEither, FoundFresh, FoundApplied, Amendment!AmendedPlan, SameWrites
<1>8. DoneSoFar'
  <2>1. amend.quiet /\ ~amend.cut =>
            /\ PlanAsWritten /\ TasksAsWritten
            /\ ~amend.bad => branch = amend.before.branch
    BY <1>1 DEF AmendInv, DoneSoFar
  <2>2. PlanAsWritten /\ TasksAsWritten => PlanAsWritten' /\ TasksAsWritten'
    BY <1>1, <1>4 DEF PlanAsWritten, TasksAsWritten, Amendment!AmendedPlan, SameWrites
  <2>3. next = "undo_log" /\ PlanAsWritten /\ TasksAsWritten =>
            plan = amend.before.plan /\ tasks = amend.before.tasks
    <3>1. ASSUME next = "undo_log" PROVE ~amend.planned /\ amend.wrote = {}
      BY <1>1, <1>3, <3>1 DEF AmendInv, FoundEither
    <3>2. ASSUME next = "undo_log", TasksAsWritten PROVE tasks = amend.before.tasks
      BY <1>2, <3>1, <3>2 DEF TasksAsWritten, AmendTypes, TaskFiles, Findings
    <3> QED
      BY <3>1, <3>2 DEF PlanAsWritten
  <2> QED
    BY <1>1, <1>3, <1>4, <2>1, <2>2, <2>3 DEF DoneSoFar, SameWrites
<1>9. PublishedSoFar'
  BY <1>3, <1>4 DEF PublishedSoFar
<1>10. NothingBehind'
  BY <1>1, <1>3, <1>4 DEF AmendInv, NothingBehind, EndsStarted, WorkIsKnown, SameWrites
<1> QED
  BY <1>6, <1>7, <1>8, <1>9, <1>10 DEF AmendInv

LEMMA FilesAreUndone ==
    ASSUME AmendInv, Amendment!UndoFiles
    PROVE  AmendInv'
<1> USE DEF Transacting, Publishing, Reconciling, Undoing, Holding, AmendPlaces
<1> DEFINE restored == amend.planned => plan = Amendment!AmendedPlan
           taken == [r \in DOMAIN tasks |->
                        IF r \in amend.wrote /\ tasks[r] = "new" THEN "absent" ELSE tasks[r]]
           ok == \A r \in amend.wrote : tasks[r] # "edited"
           back == plan' = IF amend.planned /\ restored THEN amend.before.plan ELSE plan
<1>1. /\ amend.pc = "undo_plan"
      /\ UNCHANGED <<contract, progress, branch, log, torn, locked, proposal>>
      /\ \/ /\ back /\ restored /\ ~plan'.amended
            /\ tasks' = taken /\ Amendment!Then("undo_log", ok)
         \/ /\ back \/ plan' = plan
            /\ tasks' = tasks /\ Amendment!Then("undo_log", FALSE)
  BY DEF Amendment!UndoFiles, Amendment!At
<1>2. /\ amend \in AmendCommands /\ amend.before \in Findings /\ AmendTypes
      /\ proposal # Amendment!NoProposal
  <2>1. amend.pc \in Transacting
    BY <1>1
  <2> HIDE DEF Transacting
  <2> QED
    BY <2>1, TransactionNow
<1>3. ok \in BOOLEAN
  OBVIOUS
<1>4. /\ SameWrites /\ amend'.pc = "undo_log"
      /\ \/ /\ amend'.bad = (amend.bad \/ ~ok) /\ back /\ restored /\ ~plan'.amended /\ tasks' = taken
         \/ amend'.bad = TRUE /\ (back \/ plan' = plan) /\ tasks' = tasks
      /\ amend'.quiet = amend.quiet /\ amend'.cut = amend.cut
  <2>1. "undo_log" \in AmendPlaces
    OBVIOUS
  <2>2. amend.bad \in BOOLEAN
    BY <1>2 DEF AmendCommands
  <2> HIDE DEF AmendPlaces, ok, back, restored, taken
  <2> QED
    BY <1>1, <1>2, <1>3, <2>1, <2>2, AmendThen
<1>5. plan' \in PlanTexts /\ tasks' \in TaskFiles
  <2>1. plan' \in {plan, amend.before.plan} /\ tasks' \in {tasks, taken}
    BY <1>4
  <2>2. taken \in TaskFiles
    BY <1>2 DEF AmendTypes, TaskFiles
  <2> QED
    BY <1>2, <2>1, <2>2 DEF AmendTypes, Findings
<1>6. FoundFresh
  BY <1>1 DEF AmendInv, FoundEither
<1>7. Amendment!PlanHasContracts'
  <2>1. Amendment!PlanHasContracts
    BY DEF AmendInv, TasksFirst
  <2>2. ~amend.before.plan.amended
    BY <1>6 DEF FoundFresh
  <2> QED
    BY <1>4, <2>1, <2>2 DEF Amendment!PlanHasContracts
<1>8. AmendTypes' /\ LockIsHeld' /\ TasksFirst'
  <2> HIDE DEF taken, ok, back, restored
  <2> QED
    BY <1>1, <1>2, <1>4, <1>5, <1>7 DEF AmendInv, AmendTypes, LockIsHeld, TasksFirst, SameWrites
<1>9. FoundEither'
  <2> HIDE DEF taken, ok, back, restored
  <2> QED
    BY <1>1, <1>4, <1>6 DEF AmendInv, FoundEither, FoundFresh, FoundApplied, Amendment!AmendedPlan, SameWrites
<1>10. DoneSoFar'
  <2>1. amend.quiet /\ ~amend.cut =>
            /\ PlanAsWritten /\ TasksAsWritten
            /\ ~amend.bad => branch = amend.before.branch /\ progress = amend.before.progress
    BY <1>1 DEF AmendInv, DoneSoFar
  <2>2. ASSUME ~amend'.bad, PlanAsWritten, TasksAsWritten
        PROVE  plan' = amend.before.plan /\ tasks' = amend.before.tasks /\ ~amend.bad
    <3>1. ok /\ back /\ restored /\ tasks' = taken /\ ~amend.bad
      BY <1>4, <2>2
    <3>2. plan' = amend.before.plan
      BY <2>2, <3>1 DEF PlanAsWritten
    <3>3. DOMAIN tasks = Splits /\ amend.before.tasks \in TaskFiles /\ amend.wrote \subseteq Splits
      BY <1>2 DEF AmendTypes, TaskFiles, Findings, AmendCommands
    <3>4. ASSUME NEW r \in Splits PROVE taken[r] = amend.before.tasks[r]
      BY <1>6, <2>2, <3>3 DEF TasksAsWritten, FoundFresh
    <3>5. taken = amend.before.tasks
      BY <3>3, <3>4 DEF TaskFiles
    <3> QED
      BY <3>1, <3>2, <3>5
  <2> HIDE DEF taken, ok, back, restored
  <2> QED
    BY <1>1, <1>4, <2>1, <2>2 DEF DoneSoFar, SameWrites
<1>11. PublishedSoFar'
  <2> HIDE DEF taken, ok, back, restored
  <2> QED
    BY <1>4 DEF PublishedSoFar
<1>12. NothingBehind'
  <2> HIDE DEF taken, ok, back, restored
  <2> QED
    BY <1>1, <1>4 DEF AmendInv, NothingBehind, EndsStarted, WorkIsKnown, SameWrites
<1> QED
  BY <1>8, <1>9, <1>10, <1>11, <1>12 DEF AmendInv

LEMMA JournalIsUndone ==
    ASSUME AmendInv, Amendment!UndoLog
    PROVE  AmendInv'
<1> USE DEF Transacting, Publishing, Reconciling, Undoing, Holding, AmendPlaces
<1>1. /\ amend.pc = "undo_log"
      /\ UNCHANGED <<plan, contract, tasks, progress, branch, locked, proposal>>
      /\ \/ /\ log' = amend.before.log /\ torn' = amend.before.torn
            /\ Amendment!Then("failed", TRUE)
         \/ UNCHANGED <<log, torn>> /\ Amendment!Then("failed", FALSE)
  BY DEF Amendment!UndoLog, Amendment!At
<1>2. /\ amend \in AmendCommands /\ amend.before \in Findings /\ AmendTypes
      /\ proposal # Amendment!NoProposal
  <2>1. amend.pc \in Transacting
    BY <1>1
  <2> HIDE DEF Transacting
  <2> QED
    BY <2>1, TransactionNow
<1>3. /\ SameWrites /\ amend'.pc = "failed"
      /\ \/ amend'.bad = amend.bad /\ log' = amend.before.log /\ torn' = amend.before.torn
         \/ amend'.bad = TRUE /\ UNCHANGED <<log, torn>>
      /\ amend'.quiet = amend.quiet /\ amend'.cut = amend.cut
  <2>1. "failed" \in AmendPlaces
    OBVIOUS
  <2>2. amend.bad \in BOOLEAN
    BY <1>2 DEF AmendCommands
  <2> HIDE DEF AmendPlaces
  <2> QED
    BY <1>1, <1>2, <2>1, <2>2, AmendThen
<1>4. log' \in Seq(AmendEvents) /\ torn' \in BOOLEAN
  BY <1>2, <1>3 DEF AmendTypes, Findings
<1>5. AmendTypes' /\ LockIsHeld' /\ TasksFirst'
  BY <1>1, <1>2, <1>3, <1>4 DEF AmendInv, AmendTypes, LockIsHeld, TasksFirst,
                                Amendment!PlanHasContracts, SameWrites
<1>6. FoundEither'
  BY <1>1, <1>3 DEF AmendInv, FoundEither, FoundFresh, FoundApplied, Amendment!AmendedPlan, SameWrites
<1>7. DoneSoFar'
  BY <1>1, <1>3 DEF AmendInv, DoneSoFar, LogAsFound, SameWrites
<1>8. PublishedSoFar'
  BY <1>3 DEF PublishedSoFar
<1>9. NothingBehind'
  BY <1>1, <1>3 DEF AmendInv, NothingBehind, EndsStarted, WorkIsKnown, SameWrites
<1> QED
  BY <1>5, <1>6, <1>7, <1>8, <1>9 DEF AmendInv

(* Everybody else.                                                         *)
LEMMA SomebodyWrites ==
    ASSUME AmendInv, Amendment!Loud,
           UNCHANGED <<contract, plan, tasks>> \/ Amendment!EditFile,
           plan' \in PlanTexts, contract' \in {"a", "b"}, tasks' \in TaskFiles,
           progress' \in ProgressRecords, branch' \in AmendCommits, torn' \in BOOLEAN,
           Appended(log, log'), UNCHANGED <<locked, proposal>>, plan'.amended = plan.amended,
           \A r \in Splits : tasks[r] # "absent" => tasks'[r] # "absent",
           WorkIsKnown(branch) => WorkIsKnown(branch') \/ (~EndsStarted(log') /\ ~locked)
    PROVE  AmendInv'
<1> USE DEF Transacting, Publishing, Reconciling, Undoing, Holding, AmendPlaces
<1>1. amend' = IF amend.pc = "idle" THEN amend ELSE [amend EXCEPT !.quiet = FALSE]
  BY DEF Amendment!Loud, Amendment!At
<1>2. CASE amend.pc = "idle"
  <2>1. amend' = amend
    BY <1>1, <1>2
  <2>2. AmendTypes'
    BY <2>1 DEF AmendInv, AmendTypes, Appended
  <2>3. LockIsHeld' /\ FoundEither' /\ DoneSoFar' /\ PublishedSoFar'
    BY <1>2, <2>1 DEF LockIsHeld, FoundEither, DoneSoFar, PublishedSoFar
  <2>4. TasksFirst'
    BY <1>2, <2>1 DEF AmendInv, AmendTypes, TaskFiles, TasksFirst, Amendment!PlanHasContracts
  <2>5. NothingBehind'
    BY <1>2, <2>1 DEF AmendInv, NothingBehind, Appended, WorkIsKnown
  <2> QED
    BY <2>2, <2>3, <2>4, <2>5 DEF AmendInv
<1>3. CASE amend.pc # "idle"
  <2>1. amend \in AmendCommands
    BY <1>3, CommandNow DEF AmendInv
  <2>2. SameWrites /\ amend'.pc = amend.pc /\ ~amend'.quiet /\ amend'.cut = amend.cut
    BY <1>1, <1>3, <2>1 DEF AmendCommands, SameWrites
  <2>3. AmendTypes'
    BY <2>2 DEF AmendInv, AmendTypes, Appended, SameWrites
  <2>4. LockIsHeld'
    BY <2>2 DEF AmendInv, LockIsHeld
  <2>5. FoundEither'
    BY <2>2 DEF AmendInv, FoundEither, FoundFresh, FoundApplied, Amendment!AmendedPlan, SameWrites
  <2>6. DoneSoFar' /\ PublishedSoFar'
    BY <2>2 DEF AmendInv, DoneSoFar, PublishedSoFar, SameWrites
  <2>7. TasksFirst'
    BY <2>1, <2>2 DEF AmendInv, AmendTypes, TaskFiles, TasksFirst, Amendment!PlanHasContracts, SameWrites,
                AmendCommands
  <2>8. NothingBehind'
    BY <2>2 DEF AmendInv, LockIsHeld, NothingBehind, Appended, WorkIsKnown, SameWrites
  <2> QED
    BY <2>3, <2>4, <2>5, <2>6, <2>7, <2>8 DEF AmendInv
<1> QED
  BY <1>2, <1>3

LEMMA OthersWrite ==
    ASSUME AmendInv,
           \/ Amendment!EditFile \/ Amendment!PushToBranch \/ Amendment!LoseProgress
           \/ Amendment!DeliverUnit
    PROVE  AmendInv'
<1>0. AmendTypes
  BY DEF AmendInv
<1>1. Amendment!Loud /\ UNCHANGED <<locked, proposal>>
  BY DEF Amendment!EditFile, Amendment!PushToBranch, Amendment!LoseProgress, Amendment!DeliverUnit
<1>2. UNCHANGED <<contract, plan, tasks>> \/ Amendment!EditFile
  BY DEF Amendment!PushToBranch, Amendment!LoseProgress, Amendment!DeliverUnit
<1>3. /\ plan' \in PlanTexts /\ contract' \in {"a", "b"} /\ tasks' \in TaskFiles
      /\ plan'.amended = plan.amended
      /\ \A r \in Splits : tasks[r] # "absent" => tasks'[r] # "absent"
  <2>1. CASE UNCHANGED <<contract, plan, tasks>>
    BY <1>0, <2>1 DEF AmendTypes
  <2>2. CASE Amendment!EditFile
    <3>1. CASE /\ plan' = [plan EXCEPT !.text = IF @ = "a" THEN "b" ELSE "a"]
               /\ UNCHANGED <<contract, tasks>>
      BY <1>0, <3>1 DEF AmendTypes, PlanTexts
    <3>2. CASE contract' = (IF contract = "a" THEN "b" ELSE "a") /\ UNCHANGED <<plan, tasks>>
      BY <1>0, <3>2 DEF AmendTypes
    <3>3. CASE /\ \E r \in DOMAIN tasks : tasks[r] # "edited" /\ tasks' = [tasks EXCEPT ![r] = "edited"]
               /\ UNCHANGED <<plan, contract>>
      BY <1>0, <3>3 DEF AmendTypes, TaskFiles
    <3> QED
      BY <2>2, <3>1, <3>2, <3>3 DEF Amendment!EditFile
  <2> QED
    BY <1>2, <2>1, <2>2
<1>4. CASE ~Amendment!DeliverUnit
  <2>1. /\ UNCHANGED <<log, torn>>
        /\ branch' = branch \/ branch' = branch \cup {"other"}
        /\ progress' = progress \/ progress' = Amendment!NoProgress
    BY <1>4 DEF Amendment!EditFile, Amendment!PushToBranch, Amendment!LoseProgress
  <2>2. progress' \in ProgressRecords /\ branch' \in AmendCommits /\ torn' \in BOOLEAN
        /\ Appended(log, log')
    <3>1. Amendment!NoProgress \in ProgressRecords
      BY DEF ProgressRecords, AmendCommits, AmendChanges, Amendment!NoProgress, Amendment!NoCommit
    <3>2. branch \in AmendCommits => branch \cup {"other"} \in AmendCommits
      BY DEF AmendCommits, AmendChanges
    <3> QED
      BY <1>0, <2>1, <3>1, <3>2 DEF AmendTypes, Appended, EndsStarted
  <2>3. WorkIsKnown(branch) => WorkIsKnown(branch')
    BY <2>1 DEF WorkIsKnown
  <2> QED
    BY <1>1, <1>2, <1>3, <2>2, <2>3, SomebodyWrites
<1>5. CASE Amendment!DeliverUnit
  <2>1. ~locked
    BY <1>5 DEF Amendment!DeliverUnit
  <2>2. Amendment!Assembled \in AmendCommits
    BY <1>0 DEF AmendTypes, Amendment!Assembled, AmendCommits
  <2>3. CASE /\ branch' = Amendment!Assembled \cup {"later"}
             /\ progress' = [has |-> TRUE, assembled |-> branch', failed |-> FALSE, work |-> TRUE]
             /\ Amendment!Append2Log(<<"later">>)
    <3>1. branch' \in AmendCommits
      BY <2>2, <2>3 DEF AmendCommits, AmendChanges
    <3>2. progress' \in ProgressRecords
      BY <2>3, <3>1 DEF ProgressRecords
    <3>3. <<"later">> \in Seq(AmendEvents)
      <4>1. "later" \in AmendEvents
        BY DEF AmendEvents, Amendment!OtherEvents
      <4> QED
        BY <4>1
    <3>4. /\ torn' \in BOOLEAN /\ Appended(log, log') /\ log' # <<>>
          /\ log'[Len(log')] = "later" \/ log'[Len(log')] = "corrupt"
      BY <1>0, <2>3, <3>3, ClosingAppends, Appends
    <3>5. ~EndsStarted(log')
      BY <3>4 DEF EndsStarted
    <3> QED
      BY <1>1, <1>2, <1>3, <2>1, <3>1, <3>2, <3>4, <3>5, SomebodyWrites
  <2>4. CASE /\ progress' = [progress EXCEPT !.has = TRUE, !.failed = TRUE, !.assembled = Amendment!Assembled]
             /\ UNCHANGED <<branch, log, torn>>
    <3>1. progress' \in ProgressRecords /\ branch' \in AmendCommits /\ torn' \in BOOLEAN
          /\ Appended(log, log')
      BY <1>0, <2>2, <2>4 DEF AmendTypes, ProgressRecords, Appended
    <3>2. WorkIsKnown(branch) => WorkIsKnown(branch')
      BY <2>4 DEF WorkIsKnown
    <3> QED
      BY <1>1, <1>2, <1>3, <3>1, <3>2, SomebodyWrites
  <2> QED
    BY <1>5, <2>3, <2>4 DEF Amendment!DeliverUnit
<1> QED
  BY <1>4, <1>5

LEMMA AmendStarts == Amendment!Init => AmendInv
<1> SUFFICES ASSUME Amendment!Init PROVE AmendInv
  OBVIOUS
<1>1. /\ plan = [text |-> "a", amended |-> FALSE] /\ contract = "a"
      /\ tasks = [r \in Splits |-> "absent"] /\ log = <<>> /\ torn = FALSE /\ locked = FALSE
      /\ proposal = Amendment!NoProposal /\ amend = Amendment!NoCommand /\ amend.pc = "idle"
  BY DEF Amendment!Init, Splits, Amendment!NoCommand
<1>2. plan \in PlanTexts /\ tasks \in TaskFiles /\ log \in Seq(AmendEvents)
  BY <1>1 DEF PlanTexts, TaskFiles
<1>3. branch \in AmendCommits /\ progress \in ProgressRecords
  <2>1. PICK done \in {Amendment!NoCommit, {"unit"}} :
          /\ branch = done
          /\ progress = IF done = Amendment!NoCommit THEN Amendment!NoProgress
                        ELSE [Amendment!NoProgress EXCEPT !.has = TRUE, !.assembled = done]
    BY DEF Amendment!Init
  <2>2. done \in AmendCommits
    BY DEF AmendCommits, AmendChanges, Amendment!NoCommit
  <2>3. Amendment!NoProgress \in ProgressRecords
    BY DEF ProgressRecords, AmendCommits, AmendChanges, Amendment!NoProgress, Amendment!NoCommit
  <2> QED
    BY <2>1, <2>2, <2>3 DEF ProgressRecords
<1>4. AmendTypes
  BY <1>1, <1>2, <1>3 DEF AmendTypes
<1>5. LockIsHeld /\ FoundEither /\ DoneSoFar /\ PublishedSoFar
  BY <1>1 DEF LockIsHeld, FoundEither, DoneSoFar, PublishedSoFar, Holding, Transacting, Publishing,
              Reconciling, Undoing
<1>6. TasksFirst
  BY <1>1 DEF TasksFirst, Amendment!PlanHasContracts
<1>7. NothingBehind
  BY <1>1 DEF NothingBehind, EndsStarted, Transacting, Publishing, Reconciling, Undoing
<1> QED
  BY <1>4, <1>5, <1>6, <1>7 DEF AmendInv

LEMMA AmendSteps == AmendInv /\ [Next]_vars => AmendInv'
<1> SUFFICES ASSUME AmendInv, [Next]_vars PROVE AmendInv'
  OBVIOUS
<1>0. Amendment!AmendmentConstants
  BY ComponentConstants
<1>1. CASE UNCHANGED amendVars
  BY <1>1 DEF amendVars, AmendInv, AmendTypes, LockIsHeld, FoundEither, FoundFresh, FoundApplied,
       TasksFirst, DoneSoFar, PublishedSoFar, NothingBehind, PlanAsWritten, TasksAsWritten,
       BranchAsWritten, LogAsFound, WorkIsKnown, EndsStarted, Integrated, Amendment!PlanHasContracts,
       Amendment!AmendedPlan
<1>2. CASE Amendment!Next
  <2>1. CASE Amendment!RemoveStaleLock
    <3>1. /\ amend.pc = "idle" /\ locked' = FALSE
          /\ UNCHANGED <<plan, contract, tasks, progress, branch, log, torn, proposal, amend>>
      BY <2>1 DEF Amendment!RemoveStaleLock, Amendment!At
    <3> QED
      BY <3>1 DEF AmendInv, AmendTypes, LockIsHeld, FoundEither, FoundFresh, FoundApplied,
         TasksFirst, DoneSoFar, PublishedSoFar, NothingBehind, WorkIsKnown, EndsStarted,
         Amendment!PlanHasContracts, Transacting, Publishing, Reconciling, Undoing, Holding
  <2>2. CASE \/ Amendment!StartPrepare \/ Amendment!StoreProposal \/ Amendment!RecheckProposal
             \/ Amendment!StartApply \/ Amendment!Preflight \/ Amendment!RecordStarted
    BY <2>2, PrepareSteps, ApplyBegins, PreflightSteps, ApplyIsStarted
  <2>3. CASE \/ Amendment!RecordBlocked \/ Amendment!Applied \/ Amendment!RecordFailure
             \/ Amendment!Kill
    BY <1>0, <2>3, ApplyEnds, KillEnds
  <2>4. CASE \/ \E r \in Amendment!Range(Replacements) : Amendment!PublishTask(r)
             \/ Amendment!ReplacePlan
    BY <2>4, TaskIsPublished, PlanIsReplaced DEF Splits
  <2>5. CASE \/ Amendment!IntegrateArtifacts \/ Amendment!Reintegrate
             \/ Amendment!RecordAssembly \/ Amendment!Rerecord
    BY <2>5, BranchIsMoved, ProgressIsRecorded
  <2>6. CASE Amendment!RecordSuccess \/ Amendment!Rejournal
    BY <1>0, <2>6, EventsAreRecorded
  <2>7. CASE \/ Amendment!UndoRef \/ Amendment!UndoProgress \/ Amendment!UndoFiles
             \/ Amendment!UndoLog
    BY <2>7, RefIsUndone, ProgressIsUndone, FilesAreUndone, JournalIsUndone
  <2>8. CASE \/ Amendment!EditFile \/ Amendment!PushToBranch \/ Amendment!LoseProgress
             \/ Amendment!DeliverUnit
    BY <2>8, OthersWrite
  <2> QED
    BY <1>2, <2>1, <2>2, <2>3, <2>4, <2>5, <2>6, <2>7, <2>8 DEF Amendment!Next, Amendment!AmendStep
<1> QED
  BY <1>1, <1>2 DEF Next, vars, amendVars, Amend, RunChild, RunAgent, KeepAlive, Prepare, AuthorPlan,
        UseWorktree, ReviewCandidate, ShapePlan, AnswerQuestions

LEMMA AmendInvariant == Spec => []AmendInv
BY AmendStarts, AmendSteps, PTL DEF Spec, Init

\* However many replacements a unit is split into, whatever fails, is killed or
\* interrupted and whoever writes meanwhile: an amended plan finds its task
\* files, a failure that reports no failed undo has undone everything, and a
\* success has published everything (delivery_amendment.py, apply).
THEOREM PublicationWhole == Spec => []PublicationIsWhole
<1>1. AmendInv => PublicationIsWhole
  <2> SUFFICES ASSUME AmendInv PROVE Amendment!PublicationIsWhole
    BY DEF PublicationIsWhole
  <2>1. Amendment!PlanHasContracts
    BY DEF AmendInv, TasksFirst
  <2>2. ASSUME amend.quiet, amend.pc = "failed", ~amend.bad, ~amend.cut
        PROVE  Amendment!Tree = amend.before
    <3>1. amend.before \in Findings
      BY <2>2, CommandNow DEF AmendInv
    <3>2. /\ plan = amend.before.plan /\ tasks = amend.before.tasks
          /\ progress = amend.before.progress /\ branch = amend.before.branch
          /\ log = amend.before.log /\ torn = amend.before.torn
      BY <2>2 DEF AmendInv, DoneSoFar, LogAsFound, Undoing
    <3> QED
      BY <3>1, <3>2 DEF Amendment!Tree, Findings
  <2>3. ASSUME amend.quiet, amend.pc = "applied"
        PROVE  /\ plan = Amendment!AmendedPlan /\ "amend" \in branch /\ progress.assembled = branch
               /\ Amendment!Range(Amendment!Success) \subseteq Amendment!Range(log) /\ ~torn
    BY <2>3 DEF AmendInv, PublishedSoFar
  <2> QED
    BY <2>1, <2>2, <2>3 DEF Amendment!PublicationIsWhole, Amendment!OutcomeIsTrue, Amendment!At
<1> QED
  BY <1>1, AmendInvariant, PTL

\* A recovery that begins a lost progress record anew never forgets a unit that
\* was delivered since the proposal, unless the journal ends in the first half
\* of what a refused apply appended (_missing_progress_recovery_is_current).
THEOREM WorkNotForgotten == Spec => NoWorkForgotten
<1> DEFINE kept == Amendment!BeginsAnew =>
                     Amendment!NothingDeliveredSince \/ log[Len(log)] = "blocked"
<1>1. ASSUME AmendInv, [Next]_vars PROVE [kept]_amendVars
  <2>1. Amendment!Next \/ UNCHANGED amendVars
    BY <1>1 DEF Next, vars, amendVars, Amend, RunChild, RunAgent, KeepAlive, Prepare, AuthorPlan,
        UseWorktree, ReviewCandidate, ShapePlan, AnswerQuestions
  <2> SUFFICES ASSUME amend.pc = "rerecord", ~progress.has, progress'.has, Amendment!Next,
                      log[Len(log)] # "blocked"
               PROVE  WorkIsKnown(branch)
    BY <2>1 DEF WorkIsKnown, Amendment!BeginsAnew, Amendment!NothingDeliveredSince, Amendment!At
  <2>2. locked /\ proposal \in ProposalRecords /\ proposal # Amendment!NoProposal
    <3>1. amend.pc \in Transacting /\ amend.pc \in Holding
      BY DEF Transacting, Reconciling, Holding
    <3> QED
      BY <1>1, <3>1, TransactionNow DEF AmendInv, LockIsHeld
  <2>3. progress' # progress
    OBVIOUS
  <2>4. Amendment!Rerecord \/ Amendment!LoseProgress
    BY <2>2, <2>3 DEF Amendment!Next, Amendment!AmendStep, Amendment!At, Amendment!StartPrepare,
       Amendment!StoreProposal, Amendment!RecheckProposal, Amendment!StartApply, Amendment!Preflight,
       Amendment!RecordBlocked, Amendment!RecordStarted, Amendment!PublishTask, Amendment!ReplacePlan,
       Amendment!IntegrateArtifacts, Amendment!RecordAssembly, Amendment!RecordSuccess,
       Amendment!Applied, Amendment!UndoRef, Amendment!UndoProgress, Amendment!UndoFiles,
       Amendment!UndoLog, Amendment!RecordFailure, Amendment!Reintegrate, Amendment!Rejournal,
       Amendment!EditFile, Amendment!PushToBranch, Amendment!DeliverUnit, Amendment!Kill,
       Amendment!RemoveStaleLock
  <2>5. Amendment!MissingProgressCurrent
    BY <2>3, <2>4 DEF Amendment!Rerecord, Amendment!LoseProgress
  <2> QED
    BY <1>1, <2>2, <2>5 DEF AmendInv, NothingBehind, EndsStarted, Amendment!MissingProgressCurrent,
                            Amendment!Starts
<1>2. [][kept]_amendVars => NoWorkForgotten
  BY PTL DEF NoWorkForgotten, Amendment!NoWorkForgotten, amendVars, Amendment!amendVars
<1> QED
  BY <1>1, <1>2, AmendInvariant, PTL DEF Spec

=============================================================================
