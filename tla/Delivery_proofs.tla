--------------------------- MODULE Delivery_proofs ---------------------------
(***************************************************************************)
(* The safety of Delivery for every set of processes and units, every plan *)
(* without cycles and every bound.                                         *)
(*                                                                         *)
(* None of the properties of Delivery is inductive: progress.json, the     *)
(* branch, the children and the repair files are written one after the     *)
(* other, a command may be killed between two writes, and others run on    *)
(* what it left.  The inductive invariant IInv has two parts.  Shared says *)
(* what holds of these files whoever reads them.  Knows(p) says what a     *)
(* command may rely on at its place in the code while it holds the lock;   *)
(* a command that does not hold the lock may rely on nothing, so a step of *)
(* one command disturbs no other (OneStep), and a kill or a new command    *)
(* disturbs none at all.  Every step lemma shows that a step keeps Shared  *)
(* and leads the command to a place whose knowledge it has.                *)
(***************************************************************************)
EXTENDS Delivery, TLAPS

(***************************************************************************)
(* Types.                                                                  *)
(***************************************************************************)
AnyCommit == SUBSET (Changes \cup {"none"})
UnitRecord == [status : UnitStatuses, child : BOOLEAN, commit : AnyCommit, failure : FailureCodes]
Verification == [status : VerStatuses, candidate : AnyCommit, cfg : {0, 1}, plan : SUBSET Nodes,
                 attempt : Nat, stop : Stops]
Progress == [units : [AllUnits -> UnitRecord], base : AnyCommit, assembled : AnyCommit,
             assembly : {"none", "ready", "failed"}, ver : [Nodes -> Verification],
             final : AnyCommit]
Child == [st : {"none", "open", "failed", "done"}, wt : BOOLEAN, start : AnyCommit,
          fin : BOOLEAN, stop : {"none", "terminal_stop", "budget"}, worked : Nat]
RepairRecord == [phase : {"none", "authoring", "prepared", "published", "blocked"},
                 attempts : Nat, calls : Nat, reviews : Nat,
                 verdict : {"none", "approved", "rejected"}, ver : Verification, old : Progress]

\* Where a command holds the lock.
AssemblyPlaces == {"assemble", "create", "apply", "assembly_failed", "reconcile"}
ChildPlaces == {"reset_child", "work", "finalize_child", "exited", "exited_with_error", "record_done"}
LockedPlaces ==
    AssemblyPlaces \cup ChildPlaces
    \cup {"select", "start", "create_child", "link", "restore", "worktree"}
    \cup {"capture", "captured", "log_running", "log_verdict"}
    \cup {"repair_check", "author", "draft", "authority", "review",
          "publish", "commit", "mark", "settle"}
    \cup {"finalizing", "log_final"}
FreePlaces == {"idle", "loop", "handoff", "advance", "next", "verify", "finalize",
               "repair", "gate", "persist", "stale"}
Places == LockedPlaces \cup FreePlaces
Thens == {"start", "captured", "terminal"} \cup Entries

Local == [cmd : {"none", "run", "run_next", "verify", "finalize"}, pc : Places, cfg : {0, 1},
          reset : BOOLEAN, node : Nodes, sel : AllUnits \cup {NoUnit}, cur : AnyCommit,
          then : {"none"} \cup Thens, ver : Verification, want : Nodes \cup {"none"},
          units : SUBSET AllUnits]

\* What the commands share.
data == <<appended, prog, ref, child, handoff, repair>>
DataOK ==
    /\ appended \in SUBSET Nodes
    /\ prog \in Progress
    /\ ref \in AnyCommit
    /\ child \in [AllUnits -> Child]
    /\ handoff \in SUBSET AllUnits
    /\ repair \in [Nodes -> RepairRecord]
TypeOK == DataOK /\ config \in {0, 1} /\ loc \in [Procs -> Local]

(***************************************************************************)
(* What holds of the shared state.                                         *)
(***************************************************************************)
DoneIn(pr, u) == pr.units[u].status = "done"
\* The prerequisites of a unit are done, and a commit has their results.
StandsOn(pr, plan, u, commit) ==
    \A d \in Prerequisites(plan, u) : DoneIn(pr, d) /\ pr.units[d].commit \subseteq commit
\* A commit has the artifacts of all published repairs, and of no others than appended ones.
HasPublished(repairs, commit) ==
    \A n \in Nodes : repairs[n].phase = "published" => Artifact[n] \in commit
OnlyAppended(plan, commit) == \A n \in Nodes : Artifact[n] \in commit => n \in plan
AllAssembled ==
    \A u \in ActiveUnits : DoneIn(prog, u) => prog.units[u].commit \subseteq prog.assembled

Budgets ==
    \A n \in Nodes : /\ repair[n].calls <= repair[n].attempts
                     /\ repair[n].attempts <= MaxAuthoring
                     /\ repair[n].reviews <= MaxReviews
Accepted(n) == n \in Renewed => repair[n].verdict = "approved"
AppendedAccepted ==
    \A n \in appended : repair[n].phase \in {"prepared", "published"} /\ Accepted(n)
PublishedIsThere ==
    /\ HasPublished(repair, ref) /\ HasPublished(repair, prog.assembled)
    /\ \A n \in Nodes : repair[n].phase = "published" => n \in appended
    /\ \A n \in Nodes : prog.units[RepairUnit[n]].status # "pending" => repair[n].phase = "published"
CommitsAreAppended ==
    /\ OnlyAppended(appended, ref) /\ OnlyAppended(appended, prog.assembled)
    /\ \A u \in AllUnits : OnlyAppended(appended, prog.units[u].commit) /\ OnlyAppended(appended, child[u].start)
BaseKnown ==
    /\ prog.assembly # "none" => prog.base # NoCommit
    /\ \A n \in Nodes : repair[n].phase # "none" => prog.base # NoCommit
\* What a record of the root is about, and what a gate that runs or passed covers.
About(pr, v) ==
    v.status # "none" => IsBoundaryStop(v) \/ (pr.assembly = "ready" /\ pr.assembled = v.candidate)
Covers(pr, v) ==
    v.status \in {"running", "passed"} =>
        \A u \in UnitsOf(v.plan) : DoneIn(pr, u) /\ pr.units[u].commit \subseteq v.candidate
RootCovered == About(prog, prog.ver["root"]) /\ Covers(prog, prog.ver["root"])
FinalWhole ==
    prog.final # NoCommit =>
        /\ \A n \in Nodes : prog.ver[n].status = "passed"
        /\ prog.ver["root"].candidate = prog.final /\ prog.assembled = prog.final
        /\ prog.ver["root"].plan = appended
        /\ \A u \in ActiveUnits : DoneIn(prog, u) /\ prog.units[u].commit \subseteq prog.final
ChildrenLinked ==
    \A u \in AllUnits :
        /\ prog.units[u].status = "pending" => child[u].worked = 0 /\ ~prog.units[u].child
        /\ child[u].worked <= 1
        /\ child[u].wt => prog.units[u].child
DoneComposes ==
    \A u \in ActiveUnits : DoneIn(prog, u) =>
        u \in handoff /\ u \in prog.units[u].commit /\ StandsOn(prog, appended, u, prog.units[u].commit)
StartedOnPrerequisites ==
    \A u \in ActiveUnits : prog.units[u].child => StandsOn(prog, appended, u, child[u].start)

Shared ==
    /\ Budgets /\ AppendedAccepted /\ PublishedIsThere /\ CommitsAreAppended /\ BaseKnown
    /\ RootCovered /\ FinalWhole /\ ChildrenLinked /\ DoneComposes /\ StartedOnPrerequisites

(***************************************************************************)
(* What a command knows where it holds the lock.                           *)
(***************************************************************************)
\* A unit that is about to be started, and one that has been.
SettledUnit(u) ==
    u \in ActiveUnits /\ \A n \in Nodes : u = RepairUnit[n] => repair[n].phase = "published"
ToStart(u) ==
    /\ SettledUnit(u) /\ prog.units[u].status = "pending"
    /\ \A d \in Prerequisites(appended, u) : DoneIn(prog, d)
Unlinked(u) == prog.units[u].status = "running" /\ ~prog.units[u].child /\ child[u].worked = 0

AssemblyKnows(p) ==
    /\ At(p, "reconcile") \/ At(p, "assemble") \/ prog.base # NoCommit
    /\ loc[p].then \in Thens
    /\ loc[p].then = "start" => ToStart(loc[p].sel)
    /\ loc[p].pc \in {"create", "apply", "assembly_failed"} =>
         HasPublished(repair, loc[p].cur) /\ OnlyAppended(appended, loc[p].cur)
    /\ At(p, "create") => loc[p].cur = NoCommit

ChildKnows(p) ==
    LET u == loc[p].sel IN
    /\ At(p, "start") => ToStart(u)
    /\ loc[p].pc \in {"create_child", "link", "restore"} => SettledUnit(u) /\ Unlinked(u)
    /\ At(p, "create_child") => StandsOn(prog, appended, u, prog.assembled)
    /\ At(p, "link") => StandsOn(prog, appended, u, child[u].start)
    /\ loc[p].pc \in ChildPlaces \cup {"worktree"} =>
         /\ SettledUnit(u) /\ prog.units[u].status \in {"running", "failed"}
         /\ prog.units[u].child
    /\ At(p, "worktree") => child[u].worked = 0
    /\ At(p, "record_done") => u \in handoff

GateKnows(p) ==
    /\ At(p, "captured") => prog.assembly = "ready" /\ AllAssembled
    /\ At(p, "log_running") =>
         /\ prog.ver[loc[p].node] = loc[p].ver /\ loc[p].ver.status = "running"
         /\ prog.assembly = "ready" /\ prog.assembled = loc[p].ver.candidate

RepairKnows(p) ==
    LET n == loc[p].node IN
    /\ At(p, "author") => repair[n].phase \in {"none", "authoring"}
    /\ At(p, "draft") => repair[n].phase = "authoring" /\ repair[n].calls < repair[n].attempts
    /\ loc[p].pc \in {"authority", "review", "publish", "commit", "mark", "settle"} =>
         repair[n].phase = "prepared"
    /\ loc[p].pc \in {"authority", "review"} => n \in Renewed
    /\ At(p, "review") => repair[n].verdict = "none"
    /\ loc[p].pc \in {"publish", "commit", "mark", "settle"} => Accepted(n)
    /\ loc[p].pc \in {"commit", "mark", "settle"} => n \in appended
    /\ loc[p].pc \in {"mark", "settle"} => Artifact[n] \in ref
    /\ At(p, "settle") => Artifact[n] \in prog.assembled

Knows(p) ==
    loc[p].pc \in LockedPlaces =>
        /\ lock = p
        /\ loc[p].pc \in AssemblyPlaces => AssemblyKnows(p)
        /\ ChildKnows(p) /\ GateKnows(p) /\ RepairKnows(p)

IInv == TypeOK /\ Shared /\ \A p \in Procs : Knows(p)
(***************************************************************************)
(* The plan.                                                               *)
(***************************************************************************)
LEMMA UnitsOfPlan ==
    ASSUME NEW plan PROVE UnitsOf(plan) = PlanUnits \cup {RepairUnit[m] : m \in plan}
BY DEF UnitsOf, ScopeUnits

LEMMA RootIsNode == "root" \in Nodes /\ Checkpoints \subseteq Nodes /\ "root" \notin Checkpoints
BY DeliveryConstants DEF Nodes

LEMMA RepairUnitsApart ==
    ASSUME NEW n \in Nodes
    PROVE  /\ RepairUnit[n] \in AllUnits /\ RepairUnit[n] \in RepairUnits
           /\ RepairUnit[n] \notin PlanUnits
           /\ \A m \in Nodes : RepairUnit[m] = RepairUnit[n] => m = n
BY DeliveryConstants DEF AllUnits, RepairUnits

LEMMA ArtifactsApart ==
    ASSUME NEW n \in Nodes
    PROVE  /\ Artifact[n] \in Changes /\ Artifact[n] # Foreign /\ Artifact[n] # "none"
           /\ Artifact[n] \notin AllUnits
           /\ \A m \in Nodes : Artifact[m] = Artifact[n] => m = n
BY DeliveryConstants DEF Changes, Artifacts

LEMMA ActiveRepairUnit ==
    ASSUME NEW plan \in SUBSET Nodes, NEW n \in Nodes
    PROVE  RepairUnit[n] \in UnitsOf(plan) <=> n \in plan
BY UnitsOfPlan, RepairUnitsApart

LEMMA UnitsOfTyped ==
    ASSUME NEW plan \in SUBSET Nodes
    PROVE  UnitsOf(plan) \subseteq AllUnits
BY UnitsOfPlan DEF AllUnits, RepairUnits

\* What a unit depends on.
LEMMA PlanUnitPrerequisites ==
    ASSUME NEW plan \in SUBSET Nodes, NEW u \in PlanUnits
    PROVE  Prerequisites(plan, u) = DependsOn[u] \cup
             {RepairUnit[n] : n \in {m \in plan \cap Checkpoints :
                    u \notin UnitIds[m] /\ DependsOn[u] \cap UnitIds[m] # {}}}
BY DeliveryConstants DEF Prerequisites

LEMMA RepairUnitPrerequisites ==
    ASSUME NEW plan \in SUBSET Nodes, NEW n \in Nodes
    PROVE  Prerequisites(plan, RepairUnit[n]) = ScopeUnits(plan \ {n}, n)
<1>1. {m \in Nodes : RepairUnit[m] = RepairUnit[n]} = {n}
  BY RepairUnitsApart
<1>2. Prerequisites(plan, RepairUnit[n]) =
        UNION {ScopeUnits(plan \ {k}, k) : k \in {m \in Nodes : RepairUnit[m] = RepairUnit[n]}}
  BY RepairUnitsApart DEF Prerequisites
<1> DEFINE scope(k) == ScopeUnits(plan \ {k}, k)
<1>3. UNION {scope(k) : k \in {n}} = scope(n)
  <2> HIDE DEF scope
  <2> QED
    OBVIOUS
<1> QED
  BY <1>1, <1>2, <1>3

LEMMA ScopeOfCheckpoint ==
    ASSUME NEW plan \in SUBSET Nodes, NEW n \in Checkpoints
    PROVE  /\ n \in plan => ScopeUnits(plan, n) = UnitIds[n] \cup {RepairUnit[n]}
           /\ n \notin plan => ScopeUnits(plan, n) = UnitIds[n]
           /\ ScopeUnits(plan \ {n}, n) = UnitIds[n]
           /\ UnitIds[n] \subseteq PlanUnits /\ UnitIds[n] # {}
<1>1. n # "root"
  BY RootIsNode
<1>2. plan \cap {n} = IF n \in plan THEN {n} ELSE {}
  OBVIOUS
<1>3. (plan \ {n}) \cap {n} = {}
  OBVIOUS
<1>4. {RepairUnit[m] : m \in {n}} = {RepairUnit[n]} /\ {RepairUnit[m] : m \in {}} = {}
  OBVIOUS
<1>5. UnitIds[n] \subseteq PlanUnits /\ UnitIds[n] # {}
  BY DeliveryConstants
<1> QED
  BY <1>1, <1>2, <1>3, <1>4, <1>5 DEF ScopeUnits

LEMMA PrerequisitesAreUnits ==
    ASSUME NEW plan \in SUBSET Nodes, NEW u \in UnitsOf(plan)
    PROVE  Prerequisites(plan, u) \subseteq UnitsOf(plan)
<1>1. CASE u \in PlanUnits
  <2>1. DependsOn[u] \subseteq PlanUnits
    BY <1>1, DeliveryConstants
  <2> QED
    BY <1>1, <2>1, PlanUnitPrerequisites, UnitsOfPlan
<1>2. CASE \E n \in plan : u = RepairUnit[n]
  <2>1. PICK n \in plan : u = RepairUnit[n]
    BY <1>2
  <2>2. Prerequisites(plan, u) = ScopeUnits(plan \ {n}, n)
    BY <2>1, RepairUnitPrerequisites
  <2>3. CASE n = "root"
    BY <2>2, <2>3, UnitsOfPlan DEF ScopeUnits
  <2>4. CASE n \in Checkpoints
    BY <2>2, <2>4, ScopeOfCheckpoint, UnitsOfPlan
  <2> QED
    BY <2>3, <2>4 DEF Nodes
<1> QED
  BY <1>1, <1>2, UnitsOfPlan

(***************************************************************************)
(* What a unit builds on: the least closed set.                            *)
(***************************************************************************)
LEMMA BuildsOnMember ==
    ASSUME NEW plan \in SUBSET Nodes, NEW s0 \in SUBSET AllUnits, NEW d
    PROVE  d \in BuildsOn(plan, s0) <=>
             d \in s0 \/ (d \in AllUnits /\ \E u \in s0 : d \in Lineage(plan, u))
<1>1. ASSUME NEW u \in AllUnits, NEW e \in AllUnits
      PROVE  <<plan, u, e>> \in Builds <=> e \in Lineage(plan, u)
  BY <1>1 DEF Builds
<1> QED
  BY <1>1 DEF BuildsOn

LEMMA LineageIsLeast ==
    ASSUME NEW plan \in SUBSET Nodes, NEW u \in AllUnits,
           NEW s \in SUBSET AllUnits, u \in s, Closed(plan, s)
    PROVE  Lineage(plan, u) \subseteq s
BY DEF Lineage

LEMMA LineageIsClosed ==
    ASSUME NEW plan \in SUBSET Nodes, NEW u \in AllUnits, NEW d \in Lineage(plan, u),
           NEW e \in Prerequisites(plan, d), e \in AllUnits
    PROVE  e \in Lineage(plan, u)
BY DEF Lineage, Closed

LEMMA LineageHasUnit ==
    ASSUME NEW plan, NEW u \in AllUnits
    PROVE  u \in Lineage(plan, u)
BY DEF Lineage

LEMMA LineageIsActive ==
    ASSUME NEW plan \in SUBSET Nodes, NEW u \in UnitsOf(plan)
    PROVE  Lineage(plan, u) \subseteq UnitsOf(plan)
<1>1. Closed(plan, UnitsOf(plan)) /\ UnitsOf(plan) \in SUBSET AllUnits
  BY PrerequisitesAreUnits, UnitsOfTyped DEF Closed
<1> QED
  BY <1>1, LineageIsLeast

LEMMA BuildsOnIsLeast ==
    ASSUME NEW plan \in SUBSET Nodes, NEW s0 \in SUBSET AllUnits,
           NEW s \in SUBSET AllUnits, s0 \subseteq s, Closed(plan, s)
    PROVE  BuildsOn(plan, s0) \subseteq s
BY BuildsOnMember, LineageIsLeast

LEMMA ConsumerBuildsOnScope ==
    ASSUME NEW plan \in SUBSET Nodes, NEW n \in Nodes, NEW u
    PROVE  u \in RuntimeConsumers(plan, n) <=>
             /\ u \in UnitsOf(plan) /\ u \notin ScopeUnits(plan, n)
             /\ Lineage(plan, u) \cap ScopeUnits(plan, n) # {}
<1>1. ASSUME u \in UnitsOf(plan)
      PROVE  BuildsOn(plan, {u}) = Lineage(plan, u)
  <2>1. u \in AllUnits
    BY <1>1, UnitsOfTyped
  <2>2. \A d : d \in Lineage(plan, u) => d \in AllUnits
    BY DEF Lineage
  <2> QED
    <3>1. \A d : d \in BuildsOn(plan, {u}) <=> d \in {u} \/ (d \in AllUnits /\ d \in Lineage(plan, u))
      BY <2>1, BuildsOnMember
    <3>2. \A d : d \in BuildsOn(plan, {u}) <=> d \in Lineage(plan, u)
      BY <2>1, <2>2, <3>1, LineageHasUnit
    <3>3. \A d : d \in BuildsOn(plan, {u}) => d \in AllUnits
      BY <2>1, <3>1
    <3> QED
      BY <3>2
<1> QED
  BY <1>1 DEF RuntimeConsumers

\* Who reads a result inside a scope whose repair the plan has, also builds on that repair.
LEMMA ConsumersBuildOnRepair ==
    ASSUME NEW plan \in SUBSET Nodes, NEW n \in plan \cap Checkpoints,
           NEW u \in RuntimeConsumers(plan, n)
    PROVE  RepairUnit[n] \in Lineage(plan, u)
<1> DEFINE scope == ScopeUnits(plan, n)
           s == Lineage(plan, u) \ scope
<1>1. u \in UnitsOf(plan) /\ u \in AllUnits /\ u \notin scope /\ Lineage(plan, u) \cap scope # {}
  BY ConsumerBuildsOnScope, UnitsOfTyped, RootIsNode
<1> SUFFICES ASSUME RepairUnit[n] \notin Lineage(plan, u) PROVE FALSE
  OBVIOUS
<1>2. scope = UnitIds[n] \cup {RepairUnit[n]} /\ UnitIds[n] \subseteq PlanUnits
  BY ScopeOfCheckpoint, RootIsNode
<1>3. ASSUME NEW w \in s, NEW e \in Prerequisites(plan, w) PROVE e \in s
  <2>1. w \in UnitsOf(plan) /\ w \in Lineage(plan, u)
    BY <1>1, LineageIsActive
  <2>2. e \in Lineage(plan, u)
    BY <1>1, <2>1, PrerequisitesAreUnits, UnitsOfTyped, LineageIsClosed
  <2> SUFFICES ASSUME e \in UnitIds[n] PROVE FALSE
    BY <1>2, <2>2
  <2>3. ASSUME RepairUnit[n] \in Prerequisites(plan, w) PROVE FALSE
    BY <1>1, <2>1, <2>3, RepairUnitsApart, RootIsNode, LineageIsClosed
  <2>4. CASE w \in PlanUnits
    <3>1. \A m \in Nodes : e # RepairUnit[m]
      BY <1>2, RepairUnitsApart
    <3>2. e \in DependsOn[w]
      BY <2>4, <3>1, PlanUnitPrerequisites, RootIsNode
    <3>3. w \notin UnitIds[n] /\ DependsOn[w] \cap UnitIds[n] # {}
      BY <1>2, <3>2
    <3>4. RepairUnit[n] \in Prerequisites(plan, w)
      BY <2>4, <3>3, PlanUnitPrerequisites
    <3> QED
      BY <2>3, <3>4
  <2>5. CASE \E m \in plan : w = RepairUnit[m]
    <3>1. PICK m \in plan : w = RepairUnit[m]
      BY <2>5
    <3>2. m # n
      BY <1>2, <3>1
    <3>3. Prerequisites(plan, w) = ScopeUnits(plan \ {m}, m)
      BY <3>1, RepairUnitPrerequisites
    <3>4. CASE m = "root"
      <4>1. RepairUnit[n] \in ScopeUnits(plan \ {m}, m)
        BY <3>2, <3>4 DEF ScopeUnits
      <4> QED
        BY <2>3, <3>3, <4>1
    <3>5. CASE m \in Checkpoints
      <4>1. e \in UnitIds[m]
        BY <3>3, <3>5, ScopeOfCheckpoint
      <4> QED
        BY <3>2, <3>5, <4>1, DeliveryConstants
    <3> QED
      BY <3>4, <3>5 DEF Nodes
  <2> QED
    BY <2>1, <2>4, <2>5, UnitsOfPlan
<1>4. s \in SUBSET AllUnits /\ u \in s
  BY <1>1, LineageHasUnit DEF Lineage
<1>5. Closed(plan, s)
  BY <1>3 DEF Closed
<1>6. Lineage(plan, u) \subseteq s
  <2> HIDE DEF s
  <2> QED
    BY <1>1, <1>4, <1>5, LineageIsLeast
<1> QED
  BY <1>1, <1>6

\* What a repair adds to the prerequisites of a unit of the plan, which then consumes
\* the result of the repaired node, or is the repair of the whole plan.
LEMMA PrerequisitesGrow ==
    ASSUME NEW plan \in SUBSET Nodes, NEW n \in Nodes, n \notin plan, NEW u \in UnitsOf(plan),
           NEW e \in Prerequisites(plan \cup {n}, u), e \notin Prerequisites(plan, u)
    PROVE  /\ n \in Checkpoints /\ e = RepairUnit[n]
           /\ \/ u \in RuntimeConsumers(plan, n)
              \/ u = RepairUnit["root"] /\ "root" \in plan
<1>1. CASE u \in PlanUnits
  <2> DEFINE Rewired(pl) == {RepairUnit[k] : k \in {m \in pl \cap Checkpoints :
                                 u \notin UnitIds[m] /\ DependsOn[u] \cap UnitIds[m] # {}}}
  <2>1. Prerequisites(plan, u) = DependsOn[u] \cup Rewired(plan)
        /\ Prerequisites(plan \cup {n}, u) = DependsOn[u] \cup Rewired(plan \cup {n})
    BY <1>1, PlanUnitPrerequisites
  <2>2. n \in Checkpoints /\ e = RepairUnit[n] /\ u \notin UnitIds[n] /\ DependsOn[u] \cap UnitIds[n] # {}
    BY <2>1
  <2>3. PICK d \in DependsOn[u] : d \in UnitIds[n]
    BY <2>2
  <2>4. d \in Prerequisites(plan, u) /\ d \in AllUnits /\ u \in AllUnits
    BY <1>1, <2>1, DeliveryConstants DEF AllUnits
  <2>5. d \in Lineage(plan, u)
    BY <2>4, LineageHasUnit, LineageIsClosed
  <2>6. ScopeUnits(plan, n) = UnitIds[n]
    BY <2>2, ScopeOfCheckpoint
  <2> QED
    BY <2>2, <2>3, <2>5, <2>6, ConsumerBuildsOnScope
<1>2. CASE \E m \in plan : u = RepairUnit[m]
  <2>1. PICK m \in plan : u = RepairUnit[m]
    BY <1>2
  <2>2. Prerequisites(plan, u) = ScopeUnits(plan \ {m}, m)
        /\ Prerequisites(plan \cup {n}, u) = ScopeUnits((plan \cup {n}) \ {m}, m)
    BY <2>1, RepairUnitPrerequisites
  <2>3. m = "root"
    BY <2>2, ScopeOfCheckpoint DEF Nodes
  <2> QED
    BY <2>1, <2>2, <2>3 DEF ScopeUnits, Nodes
<1> QED
  BY <1>1, <1>2, UnitsOfPlan
(***************************************************************************)
(* The operators on records.                                               *)
(***************************************************************************)
LEMMA SmallCommits == NoCommit \in AnyCommit /\ Base \in AnyCommit /\ Base # NoCommit
BY DEF NoCommit, AnyCommit, Base

LEMMA NoneTyped == NoVerification \in Verification /\ PendingUnit \in UnitRecord
BY SmallCommits DEF NoVerification, Verification, VerStatuses, Stops, PendingUnit, UnitRecord,
                    UnitStatuses, FailureCodes

LEMMA RetainedFacts ==
    ASSUME NEW v \in Verification
    PROVE  /\ Retained(v) \in Verification
           /\ Retained(v) = NoVerification \/ (Retained(v) = v /\ IsBoundaryStop(v))
           /\ IsBoundaryStop(v) => Retained(v) = v
BY NoneTyped DEF Retained

LEMMA UpsertFacts ==
    ASSUME NEW pr \in Progress, NEW u \in AllUnits, NEW unit \in UnitRecord
    PROVE  LET new == UpsertUnit(pr, u, unit) IN
           /\ new \in Progress
           /\ new.units = [pr.units EXCEPT ![u] = unit]
           /\ new.base = pr.base /\ new.assembled = pr.assembled /\ new.assembly = pr.assembly
           /\ \A n \in Checkpoints : new.ver[n] = pr.ver[n]
           /\ \/ new = pr
              \/ new.final = NoCommit /\ new.ver["root"] = Retained(pr.ver["root"])
<1>1. pr.units \in [AllUnits -> UnitRecord] /\ pr.ver \in [Nodes -> Verification]
  BY DEF Progress
<1> DEFINE root == Retained(pr.ver["root"])
           vers == [pr.ver EXCEPT !["root"] = root]
           units == [pr.units EXCEPT ![u] = unit]
           new == [pr EXCEPT !.units[u] = unit, !.final = NoCommit, !.ver["root"] = root]
<1>2. root \in Verification
  BY <1>1, RetainedFacts, RootIsNode
<1>3. units \in [AllUnits -> UnitRecord] /\ vers \in [Nodes -> Verification]
      /\ vers["root"] = root /\ \A n \in Checkpoints : vers[n] = pr.ver[n]
  BY <1>1, <1>2, RootIsNode
<1>4. new = [pr EXCEPT !.units = units, !.final = NoCommit, !.ver = vers]
  <2> HIDE DEF root
  <2> QED
    BY DEF Progress
<1>5. new \in Progress /\ new.units = units /\ new.ver = vers /\ new.final = NoCommit
      /\ new.base = pr.base /\ new.assembled = pr.assembled /\ new.assembly = pr.assembly
  <2> HIDE DEF new, units, vers, root
  <2> QED
    BY <1>3, <1>4, SmallCommits DEF Progress
<1>6. CASE pr.units[u] = unit
  <2>1. UpsertUnit(pr, u, unit) = pr
    BY <1>6 DEF UpsertUnit
  <2>2. pr.units = units
    BY <1>1, <1>6
  <2> QED
    BY <2>1, <2>2
<1>7. CASE pr.units[u] # unit
  <2>1. UpsertUnit(pr, u, unit) = new
    BY <1>7 DEF UpsertUnit
  <2> HIDE DEF new
  <2> QED
    BY <1>3, <1>5, <2>1
<1> QED
  BY <1>6, <1>7

LEMMA MarkAssemblyFacts ==
    ASSUME NEW pr \in Progress, NEW commit \in AnyCommit, NEW status \in {"ready", "failed"}
    PROVE  LET new == MarkAssembly(pr, commit, status) IN
           /\ new \in Progress
           /\ new.units = pr.units /\ new.base = pr.base
           /\ new.assembled = commit /\ new.assembly = status /\ new.final = NoCommit
           /\ \A n \in Checkpoints : new.ver[n] = pr.ver[n]
           /\ \/ new.ver["root"] = Retained(pr.ver["root"])
              \/ /\ new.ver["root"] = pr.ver["root"]
                 /\ pr.assembled = commit /\ pr.assembly = status
<1>1. pr.ver \in [Nodes -> Verification]
  BY DEF Progress
<1> DEFINE same == pr.assembled = commit /\ pr.assembly = status
           root == IF same THEN pr.ver["root"] ELSE Retained(pr.ver["root"])
           vers == [pr.ver EXCEPT !["root"] = root]
           new == MarkAssembly(pr, commit, status)
<1>2. root \in Verification /\ (root = Retained(pr.ver["root"]) \/ (root = pr.ver["root"] /\ same))
  BY <1>1, RetainedFacts, RootIsNode
<1>3. vers \in [Nodes -> Verification] /\ vers["root"] = root
      /\ \A n \in Checkpoints : vers[n] = pr.ver[n]
  BY <1>1, <1>2, RootIsNode
<1>4. new = [pr EXCEPT !.assembled = commit, !.assembly = status, !.final = NoCommit,
                       !.ver["root"] = root]
  BY DEF MarkAssembly
<1>5. new \in Progress /\ new.units = pr.units /\ new.ver = vers /\ new.final = NoCommit
      /\ new.base = pr.base /\ new.assembled = commit /\ new.assembly = status
  <2> HIDE DEF new, root
  <2>1. new = [pr EXCEPT !.assembled = commit, !.assembly = status, !.final = NoCommit, !.ver = vers]
    BY <1>4 DEF Progress
  <2> HIDE DEF vers
  <2> QED
    BY <1>3, <2>1, SmallCommits DEF Progress
<1> QED
  BY <1>2, <1>3, <1>5

LEMMA MarkVerificationFacts ==
    ASSUME NEW pr \in Progress, NEW n \in Nodes, NEW v \in Verification
    PROVE  LET new == MarkVerification(pr, n, v) IN
           /\ new \in Progress
           /\ new.units = pr.units /\ new.base = pr.base
           /\ new.assembled = pr.assembled /\ new.assembly = pr.assembly
           /\ new.final = NoCommit /\ new.ver = [pr.ver EXCEPT ![n] = v]
BY SmallCommits DEF Progress, MarkVerification
(***************************************************************************)
(* The places of the commands.                                             *)
(***************************************************************************)
\* Only p goes on, and when it leaves the locked places it does not take the lock
\* from another command.
OnlyMoves(p) == loc' \in [Procs -> Local] /\ \A q \in Procs \ {p} : loc'[q] = loc[q]
Ends(p) ==
    /\ OnlyMoves(p) /\ loc'[p].pc \notin LockedPlaces
    /\ lock \in {p, "free"} \/ lock' = lock

LEMMA PlacesApart == LockedPlaces \cap FreePlaces = {}
BY DEF LockedPlaces, FreePlaces, AssemblyPlaces, ChildPlaces

LEMMA IdleTyped == Idle \in Local /\ Idle.pc \in FreePlaces
BY NoneTyped, SmallCommits, RootIsNode
   DEF Idle, Local, Places, FreePlaces, Thens, Entries

LEMMA MoveFacts ==
    ASSUME TypeOK, NEW p \in Procs, NEW l \in Local, loc' = [loc EXCEPT ![p] = l]
    PROVE  OnlyMoves(p) /\ loc'[p] = l
BY DEF TypeOK, OnlyMoves

LEMMA GotoFacts ==
    ASSUME TypeOK, NEW p \in Procs, NEW pc \in Places, Goto(p, pc)
    PROVE  /\ OnlyMoves(p) /\ loc'[p] \in Local
           /\ loc'[p].pc = pc /\ loc'[p].sel = loc[p].sel /\ loc'[p].cur = loc[p].cur
           /\ loc'[p].then = loc[p].then /\ loc'[p].ver = loc[p].ver /\ loc'[p].node = loc[p].node
<1> DEFINE l == [loc[p] EXCEPT !.pc = pc]
<1>1. loc[p] \in Local
  BY DEF TypeOK
<1>2. l \in Local /\ l.pc = pc /\ l.sel = loc[p].sel /\ l.cur = loc[p].cur
      /\ l.then = loc[p].then /\ l.ver = loc[p].ver /\ l.node = loc[p].node
  BY <1>1 DEF Local
<1>3. loc' = [loc EXCEPT ![p] = l]
  BY DEF Goto
<1> HIDE DEF l
<1> QED
  BY <1>2, <1>3, MoveFacts

LEMMA ReturnEnds ==
    ASSUME TypeOK, NEW p \in Procs, Return(p)
    PROVE  Ends(p)
BY IdleTyped, PlacesApart, MoveFacts DEF Return, Release, Holds, Ends

LEMMA ContinueEnds ==
    ASSUME TypeOK, NEW p \in Procs, NEW place \in Local, place.pc \in FreePlaces,
           ContinueAs(p, place)
    PROVE  Ends(p)
<1> DEFINE l == IF loc[p].cmd = "run" THEN place ELSE Idle
<1>1. l \in Local /\ l.pc \in FreePlaces
  BY IdleTyped
<1>2. loc' = [loc EXCEPT ![p] = l]
  BY DEF ContinueAs
<1>3. OnlyMoves(p) /\ loc'[p] = l
  <2> HIDE DEF l
  <2> QED BY <1>1, <1>2, MoveFacts
<1>4. lock \in {p, "free"} \/ lock' = lock
  BY DEF ContinueAs, Release, Holds
<1> QED
  BY <1>1, <1>3, <1>4, PlacesApart DEF Ends

LEMMA LoopTyped ==
    ASSUME TypeOK, NEW p \in Procs
    PROVE  Loop(p) \in Local /\ Loop(p).pc = "loop" /\ Loop(p).units = loc[p].units
<1>1. loc[p] \in Local
  BY DEF TypeOK
<1>2. loc[p].cfg \in {0, 1} /\ loc[p].reset \in BOOLEAN /\ loc[p].units \in SUBSET AllUnits
  BY <1>1 DEF Local
<1> QED
  BY <1>2, IdleTyped DEF Loop, Local, Places, FreePlaces, Idle

(***************************************************************************)
(* What a step has to show.                                                *)
(***************************************************************************)
LEMMA SharedSame ==
    ASSUME Shared, UNCHANGED data
    PROVE  Shared'
BY DEF data, Shared, Budgets, AppendedAccepted, Accepted, PublishedIsThere, CommitsAreAppended,
       BaseKnown, RootCovered, FinalWhole, ChildrenLinked, DoneComposes,
       StartedOnPrerequisites, ActiveUnits

LEMMA KnowsSame ==
    ASSUME NEW p, Knows(p), UNCHANGED data, loc'[p] = loc[p], lock' = lock
    PROVE  Knows(p)'
BY DEF data, Knows, AssemblyKnows, ChildKnows, GateKnows, RepairKnows, At, SettledUnit, ToStart,
       Unlinked, AllAssembled, ActiveUnits, Accepted

LEMMA OneStep ==
    ASSUME IInv, NEW p \in Procs, OnlyMoves(p), config' = config, DataOK', Shared', Knows(p)',
           lock \in {p, "free"} \/ (lock' = lock /\ UNCHANGED data)
    PROVE  IInv'
<1>1. TypeOK'
  BY DEF IInv, TypeOK, OnlyMoves
<1>2. ASSUME NEW q \in Procs, q # p PROVE Knows(q)'
  <2>1. Knows(q) /\ loc'[q] = loc[q]
    BY <1>2 DEF IInv, OnlyMoves
  <2>2. CASE lock \in {p, "free"}
    <3>1. lock # q
      BY <1>2, <2>2, StateConstants
    <3> QED
      BY <2>1, <3>1 DEF Knows
  <2> QED
    BY <2>1, <2>2, KnowsSame
<1> QED
  BY <1>1, <1>2 DEF IInv

LEMMA QuietStep ==
    ASSUME IInv, NEW p \in Procs, OnlyMoves(p), UNCHANGED <<config, data>>, Knows(p)',
           lock \in {p, "free"} \/ lock' = lock
    PROVE  IInv'
<1>1. DataOK' /\ UNCHANGED data /\ config' = config
  BY DEF IInv, TypeOK, DataOK, data
<1>2. Shared'
  BY SharedSame, <1>1 DEF IInv
<1> QED
  BY <1>1, <1>2, OneStep

LEMMA QuietEnd ==
    ASSUME IInv, NEW p \in Procs, Ends(p), UNCHANGED <<config, data>>
    PROVE  IInv'
BY QuietStep DEF Ends, Knows

LEMMA LastStep ==
    ASSUME IInv, NEW p \in Procs, Ends(p), config' = config, DataOK', Shared',
           lock \in {p, "free"}
    PROVE  IInv'
BY OneStep DEF Ends, Knows
(***************************************************************************)
(* The steps of the loop and of the users.                                 *)
(***************************************************************************)
LEMMA LoopToEnds ==
    ASSUME TypeOK, NEW p \in Procs, NEW pc \in FreePlaces, NEW node \in Nodes,
           NEW want \in Nodes \cup {"none"}, LoopTo(p, pc, node, want), lock' = lock
    PROVE  Ends(p)
<1> DEFINE l == [loc[p] EXCEPT !.pc = pc, !.node = node, !.want = want]
<1>1. loc[p] \in Local /\ pc \in Places
  BY DEF TypeOK, Places
<1>2. l \in Local /\ l.pc = pc
  BY <1>1 DEF Local
<1>3. loc' = [loc EXCEPT ![p] = l]
  BY DEF LoopTo
<1> HIDE DEF l
<1> QED
  BY <1>2, <1>3, MoveFacts, PlacesApart DEF Ends

LEMMA GotoEnds ==
    ASSUME TypeOK, NEW p \in Procs, NEW pc \in FreePlaces, Goto(p, pc), lock' = lock
    PROVE  Ends(p)
<1>1. pc \in Places
  BY DEF Places
<1> QED
  BY <1>1, GotoFacts, PlacesApart DEF Ends

LEMMA StopRunEnds ==
    ASSUME TypeOK, NEW p \in Procs, StopRun(p), lock' = lock
    PROVE  Ends(p)
BY IdleTyped, PlacesApart, MoveFacts DEF StopRun, Ends

LEMMA CheckpointRoundKeeps ==
    ASSUME IInv, NEW p \in Procs, CheckpointRound(p)
    PROVE  IInv'
<1> DEFINE cfg == loc[p].cfg
           n == CHOOSE c \in Due(cfg) : TRUE
<1>1. lock' = lock /\ UNCHANGED <<config, data>> /\ TypeOK
  BY DEF CheckpointRound, Looping, data, IInv
<1>2. CASE Due(cfg) # {} /\ StopRun(p)
  BY <1>1, <1>2, StopRunEnds, QuietEnd
<1>3. CASE Due(cfg) # {} /\ (LoopTo(p, "repair", n, n) \/ LoopTo(p, "verify", n, "none"))
  <2>1. n \in Nodes
    BY <1>3, RootIsNode DEF Due
  <2> HIDE DEF n
  <2>2. {"repair", "verify"} \subseteq FreePlaces
    BY DEF FreePlaces
  <2>3. Ends(p)
    BY <1>1, <1>3, <2>1, <2>2, LoopToEnds
  <2> QED
    BY <1>1, <2>3, QuietEnd
<1>4. CASE Goto(p, "repair") \/ Goto(p, "advance")
  <2>1. {"repair", "advance"} \subseteq FreePlaces
    BY DEF FreePlaces
  <2>2. Ends(p)
    BY <1>1, <1>4, <2>1, GotoEnds
  <2> QED
    BY <1>1, <2>2, QuietEnd
<1> QED
  BY <1>2, <1>3, <1>4 DEF CheckpointRound

LEMMA CheckHandoffKeeps ==
    ASSUME IInv, NEW p \in Procs, CheckHandoff(p)
    PROVE  IInv'
<1>1. lock' = lock /\ UNCHANGED <<config, data>> /\ TypeOK
  BY DEF CheckHandoff, Looping, data, IInv
<1>2. "loop" \in FreePlaces
  BY DEF FreePlaces
<1>3. Ends(p)
  BY <1>1, <1>2, RootIsNode, LoopToEnds, StopRunEnds DEF CheckHandoff
<1> QED
  BY <1>1, <1>3, QuietEnd

LEMMA AdvanceRoundKeeps ==
    ASSUME IInv, NEW p \in Procs, AdvanceRound(p)
    PROVE  IInv'
<1>1. lock' = lock /\ UNCHANGED <<config, data>> /\ TypeOK
  BY DEF AdvanceRound, Looping, data, IInv
<1>2. {"loop", "finalize", "verify", "next"} \subseteq FreePlaces
  BY DEF FreePlaces
<1>3. \/ StopRun(p) \/ Goto(p, "next") \/ LoopTo(p, "finalize", "root", "none")
      \/ LoopTo(p, "loop", "root", "root") \/ LoopTo(p, "verify", "root", "none")
  BY DEF AdvanceRound
<1>4. Ends(p)
  BY <1>1, <1>2, <1>3, RootIsNode, LoopToEnds, StopRunEnds, GotoEnds
<1> QED
  BY <1>1, <1>4, QuietEnd

LEMMA StopAtLimitKeeps ==
    ASSUME IInv, NEW p \in Procs, StopAtLimit(p)
    PROVE  IInv'
<1>1. lock' = lock /\ UNCHANGED <<config, data>> /\ TypeOK
  BY DEF StopAtLimit, Looping, data, IInv
<1> QED
  BY <1>1, StopRunEnds, QuietEnd DEF StopAtLimit

LEMMA StartCommandKeeps ==
    ASSUME IInv, NEW p \in Procs, StartCommand(p)
    PROVE  IInv'
<1>1. lock' = lock /\ UNCHANGED <<config, data>> /\ TypeOK /\ config \in {0, 1}
  BY DEF StartCommand, data, IInv, TypeOK
<1>2. PICK c \in Commands[p], reset \in BOOLEAN, n \in Nodes :
        loc' = [loc EXCEPT ![p] =
              [Idle EXCEPT !.cmd = c, !.pc = Entry[c], !.cfg = config, !.reset = reset, !.node = n,
                           !.units = IF c # "run" THEN {}
                                     ELSE {u \in ActiveUnits : prog.units[u].status # "done"}]]
  BY DEF StartCommand
<1> DEFINE us == IF c # "run" THEN {} ELSE {u \in ActiveUnits : prog.units[u].status # "done"}
           l == [Idle EXCEPT !.cmd = c, !.pc = Entry[c], !.cfg = config, !.reset = reset, !.node = n,
                             !.units = us]
<1>3. c \in {"run", "run_next", "verify", "finalize"}
  BY StateConstants
<1>4. us \in SUBSET AllUnits
  BY <1>1, UnitsOfTyped DEF TypeOK, DataOK, ActiveUnits
<1>5. Entry[c] \in FreePlaces
  BY <1>3 DEF Entry, FreePlaces
<1>6. l \in Local /\ l.pc \in FreePlaces
  <2> HIDE DEF us
  <2> QED
    BY <1>1, <1>3, <1>4, <1>5, IdleTyped DEF Local, Places, Idle
<1>7. Ends(p)
  <2>1. loc' = [loc EXCEPT ![p] = l]
    BY <1>2
  <2> HIDE DEF l
  <2> QED
    BY <1>1, <1>6, <2>1, MoveFacts, PlacesApart DEF Ends
<1> QED
  BY <1>1, <1>7, QuietEnd

LEMMA KillKeeps ==
    ASSUME IInv, NEW p \in Procs, Kill(p)
    PROVE  IInv'
<1>1. UNCHANGED <<config, data>> /\ TypeOK
  BY DEF Kill, data, IInv
<1>2. Ends(p)
  BY <1>1, IdleTyped, PlacesApart, MoveFacts DEF Kill, Holds, Ends
<1> QED
  BY <1>1, <1>2, QuietEnd

LEMMA UsersKeep ==
    ASSUME IInv, RemoveStaleLock \/ PushToBranch \/ EditSource \/ EditConfig
    PROVE  IInv'
<1>1. CASE RemoveStaleLock
  <2>1. TypeOK' /\ Shared' /\ loc' = loc
    BY <1>1, SharedSame DEF RemoveStaleLock, IInv, TypeOK, DataOK, data
  <2>2. ASSUME NEW q \in Procs PROVE Knows(q)'
    <3>1. loc[q].pc \notin LockedPlaces
      BY <1>1, StateConstants DEF RemoveStaleLock, IInv, Knows
    <3> QED
      BY <2>1, <3>1 DEF Knows
  <2> QED
    BY <2>1, <2>2 DEF IInv
<1>2. CASE EditSource \/ EditConfig
  <2>1. TypeOK' /\ Shared' /\ UNCHANGED <<data, loc, lock>>
    BY <1>2, SharedSame DEF EditSource, EditConfig, IInv, TypeOK, DataOK, data
  <2>2. \A q \in Procs : Knows(q)'
    BY <2>1, KnowsSame DEF IInv
  <2> QED
    BY <2>1, <2>2 DEF IInv
<1>3. CASE PushToBranch
  <2>1. TypeOK /\ UNCHANGED <<appended, config, prog, child, handoff, repair, loc, lock>>
        /\ ref' = IF Foreign \in ref THEN ref \ {Foreign} ELSE ref \cup {Foreign}
    BY <1>3 DEF PushToBranch, IInv
  <2>2. TypeOK'
    BY <2>1 DEF TypeOK, DataOK, AnyCommit, Changes
  <2>3. \A n \in Nodes : Artifact[n] \in ref' <=> Artifact[n] \in ref
    BY <2>1, ArtifactsApart
  <2>4. Shared'
    BY <2>1, <2>3 DEF IInv, Shared, Budgets, AppendedAccepted, Accepted, PublishedIsThere,
          CommitsAreAppended, BaseKnown, RootCovered, FinalWhole, ChildrenLinked, DoneComposes,
          StartedOnPrerequisites, ActiveUnits, HasPublished, OnlyAppended
  <2>5. ASSUME NEW q \in Procs PROVE Knows(q)'
    <3>1. Knows(q) /\ loc[q].node \in Nodes
      BY <2>1 DEF IInv, TypeOK, Local
    <3> QED
      BY <2>1, <2>3, <3>1 DEF Knows, AssemblyKnows, ChildKnows, GateKnows, RepairKnows, At,
            SettledUnit, ToStart, Unlinked, AllAssembled, ActiveUnits, Accepted
  <2> QED
    BY <2>2, <2>4, <2>5 DEF IInv
<1> QED
  BY <1>1, <1>2, <1>3
(***************************************************************************)
(* What changes of the shared state keep.                                  *)
(***************************************************************************)
LEMMA NoRecord == NoVerification.status = "none" /\ ~IsBoundaryStop(NoVerification)
BY DEF NoVerification, IsBoundaryStop

LEMMA AssemblyMarked ==
    ASSUME DataOK, Shared, NEW commit \in AnyCommit, NEW status \in {"ready", "failed"},
           prog' = MarkAssembly(prog, commit, status), prog.base # NoCommit,
           HasPublished(repair, commit), OnlyAppended(appended, commit),
           UNCHANGED <<appended, ref, child, handoff, repair>>
    PROVE  /\ DataOK' /\ Shared'
           /\ prog'.units = prog.units /\ prog'.base = prog.base
           /\ prog'.assembled = commit /\ prog'.assembly = status
<1>1. prog \in Progress /\ prog.ver["root"] \in Verification
  BY RootIsNode DEF DataOK, Progress
<1>2. /\ prog' \in Progress
      /\ prog'.units = prog.units /\ prog'.base = prog.base
      /\ prog'.assembled = commit /\ prog'.assembly = status /\ prog'.final = NoCommit
      /\ \A n \in Checkpoints : prog'.ver[n] = prog.ver[n]
      /\ \/ prog'.ver["root"] = Retained(prog.ver["root"])
         \/ /\ prog'.ver["root"] = prog.ver["root"]
            /\ prog.assembled = commit /\ prog.assembly = status
  BY <1>1, MarkAssemblyFacts
<1>3. DataOK'
  BY <1>2 DEF DataOK
<1>4. RootCovered'
  BY <1>1, <1>2, RetainedFacts, NoRecord DEF Shared, RootCovered, About, Covers, DoneIn, IsBoundaryStop
<1>5. FinalWhole' /\ BaseKnown'
  BY <1>2 DEF FinalWhole, BaseKnown, Shared
<1>6. Budgets' /\ AppendedAccepted' /\ PublishedIsThere' /\ CommitsAreAppended'
  BY <1>2 DEF Shared, Budgets, AppendedAccepted, Accepted, PublishedIsThere, CommitsAreAppended
<1>7. ChildrenLinked' /\ DoneComposes' /\ StartedOnPrerequisites'
  BY <1>2 DEF Shared, ChildrenLinked, DoneComposes, StartedOnPrerequisites, ActiveUnits,
              StandsOn, DoneIn
<1> QED
  BY <1>2, <1>3, <1>4, <1>5, <1>6, <1>7 DEF Shared

LEMMA BaseRecorded ==
    ASSUME DataOK, Shared, prog.base = NoCommit, prog' = [prog EXCEPT !.base = Base],
           UNCHANGED <<appended, ref, child, handoff, repair>>
    PROVE  DataOK' /\ Shared' /\ prog'.base # NoCommit /\ prog'.units = prog.units
<1>1. prog' \in Progress /\ prog'.base # NoCommit /\ prog'.units = prog.units
      /\ prog'.assembled = prog.assembled /\ prog'.assembly = prog.assembly
      /\ prog'.ver = prog.ver /\ prog'.final = prog.final
  BY SmallCommits DEF DataOK, Progress
<1>2. DataOK'
  BY <1>1 DEF DataOK
<1>3. Shared'
  BY <1>1 DEF Shared, Budgets, AppendedAccepted, Accepted, PublishedIsThere, CommitsAreAppended,
       BaseKnown, RootCovered, FinalWhole, ChildrenLinked, DoneComposes,
       StartedOnPrerequisites, ActiveUnits, StandsOn, DoneIn, About, Covers
<1> QED
  BY <1>1, <1>2, <1>3

LEMMA BranchMoved ==
    ASSUME DataOK, Shared, ref' \in AnyCommit, HasPublished(repair, ref'),
           OnlyAppended(appended, ref'), UNCHANGED <<appended, prog, child, handoff, repair>>
    PROVE  DataOK' /\ Shared'
BY DEF DataOK, Shared, Budgets, AppendedAccepted, Accepted, PublishedIsThere, CommitsAreAppended,
       BaseKnown, RootCovered, FinalWhole, ChildrenLinked, DoneComposes,
       StartedOnPrerequisites, ActiveUnits

(***************************************************************************)
(* The steps of an assembly.                                               *)
(***************************************************************************)
LEMMA Typed ==
    ASSUME IInv, NEW p \in Procs
    PROVE  /\ TypeOK /\ DataOK /\ Shared /\ Knows(p) /\ loc[p] \in Local
           /\ loc[p].node \in Nodes /\ loc[p].sel \in AllUnits \cup {NoUnit}
           /\ loc[p].cur \in AnyCommit /\ loc[p].ver \in Verification
           /\ prog \in Progress /\ prog.units \in [AllUnits -> UnitRecord]
           /\ prog.ver \in [Nodes -> Verification]
           /\ appended \subseteq Nodes /\ ActiveUnits \subseteq AllUnits
BY UnitsOfTyped DEF IInv, TypeOK, DataOK, Local, Progress, ActiveUnits

LEMMA RecordBaseKeeps ==
    ASSUME IInv, NEW p \in Procs, RecordBase(p)
    PROVE  IInv'
<1>1. /\ At(p, "assemble") /\ lock = p /\ UNCHANGED <<lock, loc, config>>
      /\ UNCHANGED <<appended, ref, child, handoff, repair>>
      /\ prog.base = NoCommit /\ prog' = [prog EXCEPT !.base = Base]
  BY DEF RecordBase, Assembling, Holds
<1>2. DataOK' /\ Shared' /\ prog'.base # NoCommit /\ prog'.units = prog.units
  BY <1>1, Typed, BaseRecorded
<1>3. OnlyMoves(p)
  BY <1>1, Typed DEF OnlyMoves, TypeOK
<1>4. Knows(p)'
  BY <1>1, <1>2, Typed DEF Knows, AssemblyKnows, ChildKnows, GateKnows, RepairKnows, At,
     AssemblyPlaces, ChildPlaces, LockedPlaces, ToStart, SettledUnit, DoneIn, ActiveUnits
<1> QED
  BY <1>1, <1>2, <1>3, <1>4, OneStep

LEMMA ReadBranchKeeps ==
    ASSUME IInv, NEW p \in Procs, ReadBranch(p)
    PROVE  IInv'
<1> DEFINE pc == IF ~PreviewOK THEN "assembly_failed" ELSE IF ref = NoCommit THEN "create" ELSE "apply"
           l == [loc[p] EXCEPT !.cur = ref, !.pc = pc]
<1>1. /\ At(p, "assemble") /\ lock = p /\ UNCHANGED <<lock, config, data>> /\ prog.base # NoCommit
      /\ loc' = [loc EXCEPT ![p] = l]
  BY DEF ReadBranch, Assembling, Holds, data
<1>2. loc[p] \in Local /\ ref \in AnyCommit
  BY Typed DEF DataOK
<1>3. l \in Local /\ l.pc = pc /\ l.cur = ref /\ l.then = loc[p].then /\ l.sel = loc[p].sel
  <2>1. pc \in Places
    BY DEF Places, LockedPlaces, AssemblyPlaces
  <2> HIDE DEF pc
  <2> QED
    BY <1>2, <2>1 DEF Local
<1>4. OnlyMoves(p) /\ loc'[p] = l
  <2> HIDE DEF l
  <2> QED BY <1>1, <1>3, Typed, MoveFacts
<1>5. HasPublished(repair, ref) /\ OnlyAppended(appended, ref)
  BY Typed DEF Shared, PublishedIsThere, CommitsAreAppended
<1>6. pc \in {"assembly_failed", "create", "apply"} /\ (pc = "create" => ref = NoCommit)
  OBVIOUS
<1>7. Knows(p)'
  <2> HIDE DEF l, pc
  <2> QED
    BY <1>1, <1>3, <1>4, <1>5, <1>6, Typed DEF Knows, AssemblyKnows, ChildKnows, GateKnows,
       RepairKnows, At, AssemblyPlaces, ChildPlaces, LockedPlaces, ToStart, SettledUnit, DoneIn,
       ActiveUnits, data
<1> QED
  BY <1>1, <1>4, <1>7, QuietStep

\* The branch is advanced by a compare-and-swap, to a commit that has what the present
\* one has.
LEMMA AdvanceKeeps ==
    ASSUME IInv, NEW p \in Procs, NEW commit \in AnyCommit, NEW pc \in {"create", "apply"},
           Assembling(p, pc), Advance(p, commit),
           HasPublished(repair, commit), OnlyAppended(appended, commit)
    PROVE  IInv'
<1>1. /\ loc[p].pc = pc /\ lock = p /\ UNCHANGED <<lock, config>>
      /\ UNCHANGED <<appended, prog, child, handoff, repair>>
  BY DEF Assembling, Holds, At, Advance
<1>2. prog.base # NoCommit /\ loc[p].then \in Thens /\ (loc[p].then = "start" => ToStart(loc[p].sel))
      /\ HasPublished(repair, loc[p].cur) /\ OnlyAppended(appended, loc[p].cur)
  BY <1>1, Typed DEF Knows, AssemblyKnows, At, AssemblyPlaces, LockedPlaces
<1>3. CASE ref = loc[p].cur
  <2> DEFINE l == [loc[p] EXCEPT !.cur = commit, !.pc = "apply"]
  <2>1. ref' = commit /\ loc' = [loc EXCEPT ![p] = l]
    BY <1>3 DEF Advance
  <2>2. DataOK' /\ Shared'
    BY <1>1, <2>1, Typed, BranchMoved
  <2>3. l \in Local /\ l.pc = "apply" /\ l.cur = commit /\ l.then = loc[p].then /\ l.sel = loc[p].sel
    <3>1. "apply" \in Places /\ loc[p] \in Local
      BY Typed DEF Places, LockedPlaces, AssemblyPlaces
    <3> QED
      BY <3>1 DEF Local
  <2>4. OnlyMoves(p) /\ loc'[p] = l
    <3> HIDE DEF l
    <3> QED BY <2>1, <2>3, Typed, MoveFacts
  <2>5. Knows(p)'
    <3> HIDE DEF l
    <3> QED
      BY <1>1, <1>2, <2>3, <2>4, Typed DEF Knows, AssemblyKnows, ChildKnows, GateKnows,
         RepairKnows, At, AssemblyPlaces, ChildPlaces, LockedPlaces, ToStart, SettledUnit, DoneIn,
         ActiveUnits
  <2> QED
    BY <1>1, <2>2, <2>4, <2>5, OneStep
<1>4. CASE ref # loc[p].cur
  <2>1. Goto(p, "assembly_failed") /\ UNCHANGED <<config, data>>
    BY <1>1, <1>4 DEF Advance, data
  <2>2. "assembly_failed" \in Places
    BY DEF Places, LockedPlaces, AssemblyPlaces
  <2>3. /\ OnlyMoves(p) /\ loc'[p].pc = "assembly_failed"
        /\ loc'[p].cur = loc[p].cur /\ loc'[p].then = loc[p].then /\ loc'[p].sel = loc[p].sel
    BY <2>1, <2>2, Typed, GotoFacts
  <2>4. Knows(p)'
    BY <1>1, <1>2, <2>1, <2>3, Typed DEF Knows, AssemblyKnows, ChildKnows, GateKnows,
       RepairKnows, At, AssemblyPlaces, ChildPlaces, LockedPlaces, ToStart, SettledUnit, DoneIn,
       ActiveUnits, data
  <2> QED
    BY <1>1, <2>1, <2>3, <2>4, QuietStep
<1> QED
  BY <1>3, <1>4
LEMMA CreateBranchKeeps ==
    ASSUME IInv, NEW p \in Procs, CreateBranch(p)
    PROVE  IInv'
<1>1. Assembling(p, "create") /\ Advance(p, Base) /\ loc[p].pc = "create" /\ loc[p].cur = NoCommit
  BY Typed DEF CreateBranch, Assembling, Knows, AssemblyKnows, At, AssemblyPlaces, LockedPlaces
<1>2. HasPublished(repair, NoCommit)
  BY <1>1, Typed DEF Knows, AssemblyKnows, At, AssemblyPlaces, LockedPlaces
<1>3. HasPublished(repair, Base) /\ OnlyAppended(appended, Base)
  BY <1>2, ArtifactsApart DEF HasPublished, OnlyAppended, NoCommit, Base
<1> QED
  BY <1>1, <1>3, SmallCommits, AdvanceKeeps

LEMMA ApplyUnitKeeps ==
    ASSUME IInv, NEW p \in Procs, ApplyUnit(p)
    PROVE  IInv'
<1>1. PICK u \in NextUnapplied(loc[p].cur) : Advance(p, loc[p].cur \cup prog.units[u].commit)
  BY DEF ApplyUnit
<1>2. Assembling(p, "apply") /\ loc[p].pc = "apply"
  BY DEF ApplyUnit, Assembling, At
<1>3. u \in AllUnits /\ prog.units[u].commit \in AnyCommit /\ loc[p].cur \in AnyCommit
  BY Typed DEF NextUnapplied, Unapplied, UnitRecord
<1>4. HasPublished(repair, loc[p].cur) /\ OnlyAppended(appended, loc[p].cur)
      /\ OnlyAppended(appended, prog.units[u].commit)
  BY <1>2, <1>3, Typed DEF Knows, AssemblyKnows, At, AssemblyPlaces, LockedPlaces, Shared,
     CommitsAreAppended
<1> DEFINE commit == loc[p].cur \cup prog.units[u].commit
<1>5. commit \in AnyCommit
  BY <1>3 DEF AnyCommit
<1>6. HasPublished(repair, commit) /\ OnlyAppended(appended, commit)
  BY <1>4 DEF HasPublished, OnlyAppended
<1> HIDE DEF commit
<1>7. Advance(p, commit)
  BY <1>1 DEF commit
<1> QED
  BY <1>2, <1>5, <1>6, <1>7, AdvanceKeeps

LEMMA MergeConflictKeeps ==
    ASSUME IInv, NEW p \in Procs, MergeConflict(p)
    PROVE  IInv'
<1>1. /\ loc[p].pc = "apply" /\ lock = p /\ UNCHANGED <<lock, config, data>>
      /\ Goto(p, "assembly_failed")
  BY DEF MergeConflict, Assembling, Holds, At, data
<1>2. "assembly_failed" \in Places
  BY DEF Places, LockedPlaces, AssemblyPlaces
<1>3. /\ OnlyMoves(p) /\ loc'[p].pc = "assembly_failed"
      /\ loc'[p].cur = loc[p].cur /\ loc'[p].then = loc[p].then /\ loc'[p].sel = loc[p].sel
  BY <1>1, <1>2, Typed, GotoFacts
<1>4. Knows(p)'
  BY <1>1, <1>3, Typed DEF Knows, AssemblyKnows, ChildKnows, GateKnows,
     RepairKnows, At, AssemblyPlaces, ChildPlaces, LockedPlaces, ToStart, SettledUnit, DoneIn,
     ActiveUnits, data
<1> QED
  BY <1>1, <1>3, <1>4, QuietStep

\* When no unit is next, none is left: some unit of a group depends on no other of it.
LEMMA NothingUnapplied ==
    ASSUME IInv, NEW cur, NextUnapplied(cur) = {}
    PROVE  \A u \in ActiveUnits : DoneIn(prog, u) => prog.units[u].commit \subseteq cur
<1>1. Unapplied(cur) \in SUBSET UnitsOf(appended) /\ appended \in SUBSET Nodes
  BY DEF Unapplied, ActiveUnits, IInv, TypeOK, DataOK
<1>2. Unapplied(cur) # {} => \E u \in Unapplied(cur) : Prerequisites(appended, u) \cap Unapplied(cur) = {}
  BY <1>1, AcyclicPlans
<1>3. Unapplied(cur) = {}
  BY <1>2 DEF NextUnapplied
<1> QED
  BY <1>3 DEF Unapplied, DoneIn

LEMMA RecordAssemblyKeeps ==
    ASSUME IInv, NEW p \in Procs, RecordAssembly(p)
    PROVE  IInv'
<1> DEFINE cur == loc[p].cur
           then == loc[p].then
<1>1. /\ loc[p].pc = "apply" /\ lock = p /\ UNCHANGED <<config, appended, ref, child, handoff, repair>>
      /\ NextUnapplied(cur) = {} /\ prog' = MarkAssembly(prog, cur, "ready")
  BY DEF RecordAssembly, Assembling, Holds, At
<1>2. prog.base # NoCommit /\ then \in Thens /\ (then = "start" => ToStart(loc[p].sel))
      /\ HasPublished(repair, cur) /\ OnlyAppended(appended, cur)
  BY <1>1, Typed DEF Knows, AssemblyKnows, At, AssemblyPlaces, LockedPlaces
<1>3. DataOK' /\ Shared' /\ prog'.units = prog.units /\ prog'.assembled = cur /\ prog'.assembly = "ready"
  BY <1>1, <1>2, Typed, AssemblyMarked
<1>4. CASE then = "terminal"
  <2> DEFINE place == [Loop(p) EXCEPT !.reset = FALSE]
  <2>1. place \in Local /\ place.pc \in FreePlaces
    BY Typed, LoopTyped DEF Local, FreePlaces
  <2>2. Ends(p)
    <3>1. ContinueAs(p, place)
      BY <1>4 DEF RecordAssembly
    <3> HIDE DEF place
    <3> QED
      BY <2>1, <3>1, Typed, ContinueEnds
  <2> QED
    BY <1>1, <1>3, <2>2, LastStep
<1>5. CASE then # "terminal"
  <2> DEFINE l == [loc[p] EXCEPT !.pc = then, !.then = "none", !.cur = NoCommit]
  <2>1. loc' = [loc EXCEPT ![p] = l] /\ lock' = IF then \in Entries THEN "free" ELSE lock
    BY <1>5 DEF RecordAssembly
  <2>2. loc[p] \in Local /\ then \in Places
    BY <1>2, <1>5, Typed DEF Thens, Entries, Places, LockedPlaces, FreePlaces
  <2>3. l \in Local /\ l.pc = then /\ l.sel = loc[p].sel
    BY <2>2, SmallCommits DEF Local
  <2>4. OnlyMoves(p) /\ loc'[p] = l
    <3> HIDE DEF l
    <3> QED BY <2>1, <2>3, Typed, MoveFacts
  <2> HIDE DEF l
  <2>5. CASE then \in Entries
    <3>1. then \in FreePlaces
      BY <2>5 DEF Entries, FreePlaces
    <3>2. Ends(p)
      BY <1>1, <2>3, <2>4, <3>1, PlacesApart DEF Ends
    <3> QED
      BY <1>1, <1>3, <3>2, LastStep
  <2>6. CASE then \in {"start", "captured"}
    <3>1. then \notin Entries
      BY <2>6 DEF Entries
    <3>2. then = "captured" => AllAssembled'
      BY <1>1, <1>3, NothingUnapplied DEF AllAssembled, ActiveUnits, DoneIn
    <3>3. Knows(p)'
      BY <1>1, <1>2, <1>3, <2>1, <2>3, <2>4, <2>6, <3>1, <3>2 DEF Knows, ChildKnows, GateKnows,
         RepairKnows, At, AssemblyPlaces, ChildPlaces, LockedPlaces, ToStart, SettledUnit, DoneIn,
         ActiveUnits
    <3> QED
      BY <1>1, <1>3, <2>4, <3>3, OneStep
  <2> QED
    BY <1>2, <1>5, <2>5, <2>6 DEF Thens
<1> QED
  BY <1>4, <1>5

LEMMA RecordAssemblyFailureKeeps ==
    ASSUME IInv, NEW p \in Procs, RecordAssemblyFailure(p)
    PROVE  IInv'
<1> DEFINE cur == loc[p].cur
<1>1. /\ loc[p].pc = "assembly_failed" /\ lock = p /\ UNCHANGED <<config, appended, ref, child, handoff, repair>>
      /\ prog' = MarkAssembly(prog, cur, "failed") /\ Return(p)
  BY DEF RecordAssemblyFailure, Assembling, Holds, At
<1>2. prog.base # NoCommit /\ HasPublished(repair, cur) /\ OnlyAppended(appended, cur)
  BY <1>1, Typed DEF Knows, AssemblyKnows, At, AssemblyPlaces, LockedPlaces
<1>3. DataOK' /\ Shared'
  BY <1>1, <1>2, Typed, AssemblyMarked
<1> QED
  BY <1>1, <1>3, Typed, ReturnEnds, LastStep

LEMMA StartReconcileKeeps ==
    ASSUME IInv, NEW p \in Procs, StartReconcile(p)
    PROVE  IInv'
<1>1. loc[p].pc \in Entries /\ UNCHANGED <<config, data>>
  BY DEF StartReconcile, data
<1>2. CASE Return(p)
  BY <1>1, <1>2, Typed, ReturnEnds, QuietEnd
<1>3. CASE ~Return(p)
  <2> DEFINE l == [loc[p] EXCEPT !.pc = "reconcile", !.then = loc[p].pc]
  <2>1. loc' = [loc EXCEPT ![p] = l] /\ lock = "free" /\ lock' = p
    BY <1>3 DEF StartReconcile
  <2>2. loc[p] \in Local /\ "reconcile" \in Places /\ loc[p].pc \in Thens
    BY <1>1, Typed DEF Places, LockedPlaces, AssemblyPlaces, Thens
  <2>3. l \in Local /\ l.pc = "reconcile" /\ l.then = loc[p].pc
    BY <2>2 DEF Local
  <2>4. OnlyMoves(p) /\ loc'[p] = l
    <3> HIDE DEF l
    <3> QED BY <2>1, <2>3, Typed, MoveFacts
  <2>5. Knows(p)'
    <3> HIDE DEF l
    <3> QED
      BY <1>1, <2>1, <2>2, <2>3, <2>4 DEF Knows, AssemblyKnows, ChildKnows, GateKnows, RepairKnows,
         At, AssemblyPlaces, ChildPlaces, LockedPlaces, Entries
  <2> QED
    BY <1>1, <2>1, <2>4, <2>5, QuietStep
<1> QED
  BY <1>2, <1>3

LEMMA ReconcileAssemblyKeeps ==
    ASSUME IInv, NEW p \in Procs, ReconcileAssembly(p)
    PROVE  IInv'
<1>1. loc[p].pc = "reconcile" /\ lock = p /\ UNCHANGED <<config, data>>
  BY DEF ReconcileAssembly, Assembling, Holds, At, data
<1>2. CASE Return(p)
  BY <1>1, <1>2, Typed, ReturnEnds, QuietEnd
<1>3. CASE ~Return(p)
  <2>1. Goto(p, "assemble") /\ lock' = lock
    BY <1>3 DEF ReconcileAssembly
  <2>2. "assemble" \in Places
    BY DEF Places, LockedPlaces, AssemblyPlaces
  <2>3. /\ OnlyMoves(p) /\ loc'[p].pc = "assemble"
        /\ loc'[p].then = loc[p].then /\ loc'[p].sel = loc[p].sel
    BY <2>1, <2>2, Typed, GotoFacts
  <2>4. Knows(p)'
    BY <1>1, <2>1, <2>3, Typed DEF Knows, AssemblyKnows, ChildKnows, GateKnows,
       RepairKnows, At, AssemblyPlaces, ChildPlaces, LockedPlaces, ToStart, SettledUnit, DoneIn,
       ActiveUnits, data
  <2> QED
    BY <1>1, <2>1, <2>3, <2>4, QuietStep
<1> QED
  BY <1>2, <1>3

LEMMA AssemblyStepKeeps ==
    ASSUME IInv, NEW p \in Procs, AssemblyStep(p)
    PROVE  IInv'
BY RecordBaseKeeps, ReadBranchKeeps, CreateBranchKeeps, ApplyUnitKeeps, MergeConflictKeeps,
   RecordAssemblyKeeps, RecordAssemblyFailureKeeps, StartReconcileKeeps, ReconcileAssemblyKeeps
   DEF AssemblyStep
(***************************************************************************)
(* Units and their children.                                               *)
(***************************************************************************)
\* A unit that is not done is no prerequisite of one that is, or is being worked on.
LEMMA StandsStill ==
    ASSUME NEW plan \in SUBSET Nodes, NEW pr \in Progress, NEW new, NEW u \in AllUnits, NEW unit,
           new.units = [pr.units EXCEPT ![u] = unit], ~DoneIn(pr, u),
           NEW w \in UnitsOf(plan), NEW commit, StandsOn(pr, plan, w, commit)
    PROVE  StandsOn(new, plan, w, commit)
<1>1. \A d \in Prerequisites(plan, w) : d \in AllUnits /\ d # u
  BY PrerequisitesAreUnits, UnitsOfTyped DEF StandsOn
<1>2. \A d \in AllUnits : d # u => new.units[d] = pr.units[d]
  BY DEF Progress
<1> QED
  BY <1>1, <1>2 DEF StandsOn, DoneIn

LEMMA UnitRecorded ==
    ASSUME DataOK, Shared, NEW u \in AllUnits, NEW unit \in UnitRecord,
           prog' = UpsertUnit(prog, u, unit), UNCHANGED <<appended, ref, child, handoff, repair>>,
           SettledUnit(u), ~DoneIn(prog, u), OnlyAppended(appended, unit.commit),
           unit.status = "pending" => child[u].worked = 0 /\ ~unit.child,
           child[u].wt => unit.child,
           unit.child => StandsOn(prog, appended, u, child[u].start),
           unit.status = "done" =>
               u \in handoff /\ u \in unit.commit /\ StandsOn(prog, appended, u, unit.commit)
    PROVE  /\ DataOK' /\ Shared'
           /\ prog'.units = [prog.units EXCEPT ![u] = unit]
           /\ prog'.base = prog.base
           /\ prog'.assembled = prog.assembled /\ prog'.assembly = prog.assembly
<1>1. /\ prog \in Progress /\ prog.ver["root"] \in Verification
      /\ prog.units \in [AllUnits -> UnitRecord] /\ appended \in SUBSET Nodes
      /\ u \in ActiveUnits /\ ActiveUnits \subseteq AllUnits /\ ActiveUnits = UnitsOf(appended)
  BY RootIsNode, UnitsOfTyped DEF DataOK, Progress, SettledUnit, ActiveUnits
<1>2. /\ prog' \in Progress
      /\ prog'.units = [prog.units EXCEPT ![u] = unit]
      /\ prog'.base = prog.base /\ prog'.assembled = prog.assembled /\ prog'.assembly = prog.assembly
      /\ \/ prog' = prog
         \/ prog'.final = NoCommit /\ prog'.ver["root"] = Retained(prog.ver["root"])
  BY <1>1, UpsertFacts
<1>3. prog'.units[u] = unit /\ \A w \in AllUnits : w # u => prog'.units[w] = prog.units[w]
  BY <1>1, <1>2
<1>4. DataOK'
  BY <1>2 DEF DataOK
<1>5. RootCovered' /\ FinalWhole'
  <2>1. CASE prog' = prog
    BY <2>1 DEF Shared, RootCovered, FinalWhole, ActiveUnits
  <2>2. CASE prog' # prog
    BY <1>1, <1>2, <2>2, RetainedFacts, NoRecord
       DEF RootCovered, FinalWhole, About, Covers, IsBoundaryStop
  <2> QED
    BY <2>1, <2>2
<1>6. Budgets' /\ AppendedAccepted' /\ BaseKnown'
  BY <1>2 DEF Shared, Budgets, AppendedAccepted, Accepted, BaseKnown
<1>7. PublishedIsThere'
  BY <1>2, <1>3, RepairUnitsApart DEF Shared, PublishedIsThere, SettledUnit
<1>8. CommitsAreAppended'
  BY <1>2, <1>3 DEF Shared, CommitsAreAppended
<1>9. ChildrenLinked'
  BY <1>2, <1>3 DEF Shared, ChildrenLinked
<1>10. \A w \in ActiveUnits : \A commit :
         StandsOn(prog, appended, w, commit) => StandsOn(prog, appended, w, commit)'
  BY <1>1, <1>2, StandsStill
<1>11. DoneComposes' /\ StartedOnPrerequisites'
  BY <1>1, <1>3, <1>10 DEF Shared, DoneComposes, StartedOnPrerequisites, DoneIn, ActiveUnits
<1> QED
  BY <1>2, <1>4, <1>5, <1>6, <1>7, <1>8, <1>9, <1>11 DEF Shared

LEMMA ChildMoved ==
    ASSUME DataOK, Shared, NEW u \in AllUnits, NEW c \in Child, child' = [child EXCEPT ![u] = c],
           UNCHANGED <<appended, prog, ref, handoff, repair>>,
           c.worked <= 1, prog.units[u].status = "pending" => c.worked = 0,
           c.wt => prog.units[u].child, OnlyAppended(appended, c.start),
           prog.units[u].child => c.start = child[u].start
    PROVE  DataOK' /\ Shared'
<1>1. child \in [AllUnits -> Child] /\ appended \in SUBSET Nodes
  BY DEF DataOK
<1>2. child'[u] = c /\ \A w \in AllUnits : w # u => child'[w] = child[w]
  BY <1>1
<1>3. DataOK'
  BY <1>1 DEF DataOK
<1>4. Budgets' /\ AppendedAccepted' /\ PublishedIsThere' /\ BaseKnown' /\ RootCovered' /\ FinalWhole'
      /\ DoneComposes'
  BY DEF Shared, Budgets, AppendedAccepted, Accepted, PublishedIsThere, BaseKnown, RootCovered,
         FinalWhole, DoneComposes, ActiveUnits
<1>5. CommitsAreAppended' /\ ChildrenLinked'
  BY <1>2 DEF Shared, CommitsAreAppended, ChildrenLinked
<1>6. StartedOnPrerequisites'
  BY <1>1, <1>2, UnitsOfTyped DEF Shared, StartedOnPrerequisites, ActiveUnits
<1> QED
  BY <1>3, <1>4, <1>5, <1>6 DEF Shared

LEMMA HandoffKept ==
    ASSUME DataOK, Shared, NEW u \in AllUnits, handoff' = handoff \cup {u},
           UNCHANGED <<appended, prog, ref, child, repair>>
    PROVE  DataOK' /\ Shared'
BY DEF DataOK, Shared, Budgets, AppendedAccepted, Accepted, PublishedIsThere, CommitsAreAppended,
       BaseKnown, RootCovered, FinalWhole, ChildrenLinked, DoneComposes,
       StartedOnPrerequisites, ActiveUnits

LEMMA StartedIsSettled ==
    ASSUME Shared, NEW u \in ActiveUnits, prog.units[u].status # "pending"
    PROVE  SettledUnit(u)
BY DEF Shared, PublishedIsThere, SettledUnit

LEMMA SelectFacts ==
    ASSUME TypeOK, NEW p \in Procs, NEW pc \in Places, NEW u \in AllUnits, RunChild(p, u, pc)
    PROVE  OnlyMoves(p) /\ loc'[p].pc = pc /\ loc'[p].sel = u
<1> DEFINE l == [loc[p] EXCEPT !.pc = pc, !.sel = u]
<1>1. loc[p] \in Local
  BY DEF TypeOK
<1>2. l \in Local /\ l.pc = pc /\ l.sel = u
  BY <1>1 DEF Local
<1>3. loc' = [loc EXCEPT ![p] = l]
  BY DEF RunChild
<1> HIDE DEF l
<1> QED
  BY <1>2, <1>3, MoveFacts

(***************************************************************************)
(* The steps of "run-next".                                                *)
(***************************************************************************)
\* A command that takes the lock knows nothing yet.
LEMMA AcquireKeeps ==
    ASSUME IInv, NEW p \in Procs, NEW pc \in {"select", "capture", "finalizing"}, Acquire(p, pc),
           UNCHANGED <<config, data>>
    PROVE  IInv'
<1>1. CASE Return(p)
  BY <1>1, Typed, ReturnEnds, QuietEnd
<1>2. CASE ~Return(p)
  <2>1. lock = "free" /\ lock' = p /\ Goto(p, pc)
    BY <1>2 DEF Acquire
  <2>2. pc \in Places
    BY DEF Places, LockedPlaces
  <2>3. OnlyMoves(p) /\ loc'[p].pc = pc
    BY <2>1, <2>2, Typed, GotoFacts
  <2>4. Knows(p)'
    BY <2>1, <2>3 DEF Knows, ChildKnows, GateKnows, RepairKnows, At, AssemblyPlaces, ChildPlaces
  <2> QED
    BY <2>1, <2>3, <2>4, QuietStep
<1> QED
  BY <1>1, <1>2

LEMMA StartRunNextKeeps ==
    ASSUME IInv, NEW p \in Procs, StartRunNext(p)
    PROVE  IInv'
BY AcquireKeeps DEF StartRunNext, data

LEMMA RefusalsKeep ==
    ASSUME IInv, NEW p \in Procs, RefuseUnit(p) \/ RefuseRecovery(p)
    PROVE  IInv'
<1>1. Return(p) /\ UNCHANGED <<config, data>>
  BY DEF RefuseUnit, RefuseRecovery, InRunNext, data
<1> QED
  BY <1>1, Typed, ReturnEnds, QuietEnd

LEMMA ChildSelected ==
    ASSUME IInv, NEW p \in Procs, NEW u \in ActiveUnits, prog.units[u].child,
           prog.units[u].status \in {"running", "failed"},
           NEW pc \in {"work", "exited", "exited_with_error"}, RunChild(p, u, pc), lock = p,
           UNCHANGED <<config, data, lock>>
    PROVE  IInv'
<1>1. pc \in Places
  BY DEF Places, LockedPlaces, ChildPlaces
<1>2. OnlyMoves(p) /\ loc'[p].pc = pc /\ loc'[p].sel = u
  BY <1>1, Typed, SelectFacts
<1>3. SettledUnit(u)
  BY Typed, StartedIsSettled
<1>4. Knows(p)'
  BY <1>2, <1>3 DEF Knows, ChildKnows, GateKnows, RepairKnows, At, AssemblyPlaces, ChildPlaces,
     SettledUnit, ActiveUnits, data
<1> QED
  BY <1>2, <1>4, QuietStep

LEMMA RecoverableIsStarted ==
    ASSUME NEW p, NEW u \in ActiveUnits,
           \/ CanRecover(p, u) /\ prog.units[u].child
           \/ CanRetry(p, u)
    PROVE  prog.units[u].child /\ prog.units[u].status \in {"running", "failed"}
<1>1. CASE RunningUnits = {u} /\ prog.units[u].child
  BY <1>1 DEF RunningUnits
<1>2. CASE CanRetry(p, u) /\ RunningUnits = {} /\ u \in Selected(p)
  <2>1. Retryable(u, loc[p].cfg)
    BY <1>2 DEF CanRetry, Selected, Foremost
  <2> QED
    BY <2>1 DEF Retryable
<1> QED
  BY <1>1, <1>2 DEF CanRecover, CanRetry

LEMMA ReconcileOrResumeKeeps ==
    ASSUME IInv, NEW p \in Procs, ReconcileChild(p) \/ ResumeChild(p)
    PROVE  IInv'
<1>1. PICK u \in ActiveUnits, pc \in {"work", "exited", "exited_with_error"} :
        /\ (CanRecover(p, u) /\ prog.units[u].child) \/ CanRetry(p, u)
        /\ RunChild(p, u, pc)
  BY DEF ReconcileChild, ResumeChild
<1>2. lock = p /\ UNCHANGED <<config, data, lock>>
  BY DEF ReconcileChild, ResumeChild, InRunNext, Holds, data
<1> QED
  BY <1>1, <1>2, RecoverableIsStarted, ChildSelected
\* Where a command is with a child of the unit that it works on.
LEMMA AtChild ==
    ASSUME IInv, NEW p \in Procs, loc[p].pc \in ChildPlaces \cup {"worktree"}
    PROVE  LET u == loc[p].sel IN
           /\ lock = p /\ SettledUnit(u) /\ u \in AllUnits
           /\ prog.units[u].status \in {"running", "failed"} /\ prog.units[u].child
           /\ prog.units[u] \in UnitRecord /\ child[u] \in Child
           /\ child[u].worked <= 1 /\ StandsOn(prog, appended, u, child[u].start)
           /\ OnlyAppended(appended, child[u].start)
           /\ At(p, "worktree") => child[u].worked = 0
           /\ At(p, "record_done") => u \in handoff
<1>1. lock = p /\ ChildKnows(p)
  BY Typed DEF Knows, LockedPlaces
<1>2. SettledUnit(loc[p].sel) /\ loc[p].sel \in AllUnits
  BY <1>1, Typed DEF ChildKnows, SettledUnit
<1> QED
  BY <1>1, <1>2, Typed DEF ChildKnows, DataOK, Shared, ChildrenLinked, StartedOnPrerequisites,
     CommitsAreAppended, SettledUnit

LEMMA AtNewChild ==
    ASSUME IInv, NEW p \in Procs, loc[p].pc \in {"create_child", "link", "restore"}
    PROVE  LET u == loc[p].sel IN
           /\ lock = p /\ SettledUnit(u) /\ u \in AllUnits /\ Unlinked(u)
           /\ prog.units[u] \in UnitRecord /\ child[u] \in Child /\ ~child[u].wt
           /\ OnlyAppended(appended, child[u].start) /\ OnlyAppended(appended, prog.assembled)
           /\ At(p, "create_child") => StandsOn(prog, appended, u, prog.assembled)
           /\ At(p, "link") => StandsOn(prog, appended, u, child[u].start)
<1>1. lock = p /\ ChildKnows(p)
  BY Typed DEF Knows, LockedPlaces
<1>2. SettledUnit(loc[p].sel) /\ loc[p].sel \in AllUnits
  BY <1>1, Typed DEF ChildKnows, SettledUnit
<1> QED
  BY <1>1, <1>2, Typed DEF ChildKnows, DataOK, Shared, ChildrenLinked, CommitsAreAppended, Unlinked

\* A command that goes on with the child of its unit.
LEMMA ChildStep ==
    ASSUME IInv, NEW p \in Procs, lock = p, lock' = lock, config' = config,
           NEW pc \in ChildPlaces \cup {"worktree"}, pc # "record_done", Goto(p, pc),
           DataOK', Shared', UNCHANGED appended, repair' = repair,
           SettledUnit(loc[p].sel),
           prog'.units[loc[p].sel].status \in {"running", "failed"},
           prog'.units[loc[p].sel].child,
           pc = "worktree" => child'[loc[p].sel].worked = 0
    PROVE  IInv'
<1>1. pc \in Places
  BY DEF Places, LockedPlaces
<1>2. OnlyMoves(p) /\ loc'[p].pc = pc /\ loc'[p].sel = loc[p].sel
  BY <1>1, Typed, GotoFacts
<1>3. Knows(p)'
  BY <1>2 DEF Knows, ChildKnows, GateKnows, RepairKnows, At, AssemblyPlaces, ChildPlaces,
     SettledUnit, ActiveUnits
<1> QED
  BY <1>2, <1>3, OneStep

LEMMA RetryChildKeeps ==
    ASSUME IInv, NEW p \in Procs, RetryChild(p)
    PROVE  IInv'
<1>1. PICK u \in ActiveUnits :
        /\ CanRetry(p, u)
        /\ prog' = UpsertUnit(prog, u, [prog.units[u] EXCEPT !.status = "running",
                                                !.commit = NoCommit, !.failure = "none"])
        /\ RunChild(p, u, "reset_child")
  BY DEF RetryChild
<1> DEFINE unit == [prog.units[u] EXCEPT !.status = "running", !.commit = NoCommit, !.failure = "none"]
<1>2. lock = p /\ UNCHANGED <<config, lock, appended, ref, child, handoff, repair>>
  BY DEF RetryChild, InRunNext, Holds
<1>3. prog.units[u].child /\ prog.units[u].status \in {"running", "failed"} /\ u \in AllUnits
      /\ prog.units[u] \in UnitRecord
  BY <1>1, Typed, RecoverableIsStarted
<1>4. unit \in UnitRecord /\ unit.child /\ unit.status = "running" /\ unit.commit = NoCommit
  BY <1>3, SmallCommits DEF UnitRecord, UnitStatuses, FailureCodes
<1>5. SettledUnit(u)
  BY <1>3, Typed, StartedIsSettled
<1>6. OnlyAppended(appended, NoCommit) /\ StandsOn(prog, appended, u, child[u].start) /\ ~DoneIn(prog, u)
  BY <1>3, Typed, ArtifactsApart DEF OnlyAppended, NoCommit, Shared, StartedOnPrerequisites, DoneIn
<1> HIDE DEF unit
<1>7. DataOK' /\ Shared' /\ prog'.units = [prog.units EXCEPT ![u] = unit]
  <2>1. prog' = UpsertUnit(prog, u, unit)
    BY <1>1 DEF unit
  <2> QED
    BY <1>2, <1>3, <1>4, <1>5, <1>6, <2>1, Typed, UnitRecorded
<1>8. OnlyMoves(p) /\ loc'[p].pc = "reset_child" /\ loc'[p].sel = u
  <2>1. "reset_child" \in Places
    BY DEF Places, LockedPlaces, ChildPlaces
  <2> QED
    BY <1>1, <1>3, <2>1, Typed, SelectFacts
<1>9. Knows(p)'
  <2>1. prog'.units[u] = unit
    BY <1>3, <1>7, Typed
  <2> QED
    BY <1>2, <1>4, <1>5, <1>8, <2>1 DEF Knows, ChildKnows, GateKnows, RepairKnows, At, AssemblyPlaces,
       ChildPlaces, SettledUnit, ActiveUnits
<1> QED
  BY <1>2, <1>7, <1>8, <1>9, OneStep

\* The child's flags change; its worktree, its start and its count do not.
LEMMA ChildFlagsChange ==
    ASSUME IInv, NEW p \in Procs, loc[p].pc \in ChildPlaces, NEW c \in Child,
           child' = [child EXCEPT ![loc[p].sel] = c],
           c.wt = child[loc[p].sel].wt, c.start = child[loc[p].sel].start,
           c.worked = child[loc[p].sel].worked,
           NEW pc \in ChildPlaces, pc # "record_done", Goto(p, pc),
           UNCHANGED <<config, lock, appended, prog, ref, handoff, repair>>
    PROVE  IInv'
<1>1. DataOK' /\ Shared'
  BY Typed, AtChild, ChildMoved DEF Shared, ChildrenLinked
<1> QED
  BY <1>1, AtChild, ChildStep DEF ChildPlaces

LEMMA ChildStays ==
    ASSUME IInv, NEW p \in Procs, loc[p].pc \in ChildPlaces \cup {"worktree"},
           NEW pc \in ChildPlaces, pc # "record_done", Goto(p, pc),
           UNCHANGED <<config, lock, data>>
    PROVE  IInv'
<1>1. DataOK' /\ Shared'
  BY Typed, SharedSame DEF DataOK, data
<1> QED
  BY <1>1, AtChild, ChildStep DEF ChildPlaces, data

LEMMA ResetChildKeeps ==
    ASSUME IInv, NEW p \in Procs, ResetChild(p)
    PROVE  IInv'
<1> DEFINE c == [child[loc[p].sel] EXCEPT !.st = "open"]
<1>1. loc[p].pc = "reset_child" /\ Goto(p, "work") /\ child' = [child EXCEPT ![loc[p].sel] = c]
      /\ UNCHANGED <<config, lock, appended, prog, ref, handoff, repair>>
  BY DEF ResetChild, InRunNext, At
<1>2. {"reset_child", "work"} \subseteq ChildPlaces
  BY DEF ChildPlaces
<1>3. child[loc[p].sel] \in Child
  BY <1>1, <1>2, AtChild
<1>4. c \in Child /\ c.wt = child[loc[p].sel].wt /\ c.start = child[loc[p].sel].start
      /\ c.worked = child[loc[p].sel].worked
  BY <1>3 DEF Child
<1> HIDE DEF c
<1> QED
  BY <1>1, <1>2, <1>4, ChildFlagsChange

LEMMA WorkKeeps ==
    ASSUME IInv, NEW p \in Procs, Work(p)
    PROVE  IInv'
<1> DEFINE u == loc[p].sel
<1>1. loc[p].pc = "work" /\ UNCHANGED <<config, lock, appended, prog, ref, handoff, repair>>
  BY DEF Work, InRunNext, At
<1>2. {"work", "finalize_child", "exited_with_error"} \subseteq ChildPlaces
  BY DEF ChildPlaces
<1>3. child[u] \in Child
  BY <1>1, <1>2, AtChild
<1>4. CASE child' = [child EXCEPT ![u].st = "done"] /\ Goto(p, "finalize_child")
  <2> DEFINE c == [child[u] EXCEPT !.st = "done"]
  <2>1. c \in Child /\ c.wt = child[u].wt /\ c.start = child[u].start /\ c.worked = child[u].worked
    BY <1>3 DEF Child
  <2>2. child' = [child EXCEPT ![u] = c]
    BY <1>4
  <2> HIDE DEF c
  <2> QED
    BY <1>1, <1>2, <1>4, <2>1, <2>2, ChildFlagsChange
<1>5. ASSUME NEW stop \in {"none", "terminal_stop", "budget"}, Goto(p, "exited_with_error"),
             child' = [child EXCEPT ![u].st = "failed", ![u].stop = stop]
      PROVE  IInv'
  <2> DEFINE c == [child[u] EXCEPT !.st = "failed", !.stop = stop]
  <2>1. c \in Child /\ c.wt = child[u].wt /\ c.start = child[u].start /\ c.worked = child[u].worked
    BY <1>3 DEF Child
  <2>2. child' = [child EXCEPT ![u] = c]
    BY <1>3, <1>5
  <2> HIDE DEF c
  <2> QED
    BY <1>1, <1>2, <1>5, <2>1, <2>2, ChildFlagsChange
<1>6. CASE child' = child /\ Goto(p, "exited_with_error")
  BY <1>1, <1>2, <1>6, ChildStays DEF data
<1> QED
  BY <1>4, <1>5, <1>6 DEF Work

LEMMA FinalizeChildKeeps ==
    ASSUME IInv, NEW p \in Procs, FinalizeChild(p)
    PROVE  IInv'
<1> DEFINE u == loc[p].sel
<1>1. loc[p].pc = "finalize_child" /\ UNCHANGED <<config, lock, appended, prog, ref, handoff, repair>>
  BY DEF FinalizeChild, InRunNext, At
<1>2. {"finalize_child", "exited", "exited_with_error"} \subseteq ChildPlaces
  BY DEF ChildPlaces
<1>3. child[u] \in Child
  BY <1>1, <1>2, AtChild
<1>4. CASE child' = [child EXCEPT ![u].fin = TRUE] /\ Goto(p, "exited")
  <2> DEFINE c == [child[u] EXCEPT !.fin = TRUE]
  <2>1. c \in Child /\ c.wt = child[u].wt /\ c.start = child[u].start /\ c.worked = child[u].worked
    BY <1>3 DEF Child
  <2>2. child' = [child EXCEPT ![u] = c]
    BY <1>4
  <2> HIDE DEF c
  <2> QED
    BY <1>1, <1>2, <1>4, <2>1, <2>2, ChildFlagsChange
<1>5. CASE child' = child /\ Goto(p, "exited_with_error")
  BY <1>1, <1>2, <1>5, ChildStays DEF data
<1> QED
  BY <1>4, <1>5 DEF FinalizeChild

LEMMA CreateWorktreeKeeps ==
    ASSUME IInv, NEW p \in Procs, CreateWorktree(p)
    PROVE  IInv'
<1> DEFINE u == loc[p].sel
<1>1. At(p, "worktree") /\ UNCHANGED <<config, lock, appended, prog, ref, handoff, repair>>
  BY DEF CreateWorktree, InRunNext
<1>2. /\ lock = p /\ SettledUnit(u) /\ u \in AllUnits
      /\ prog.units[u].status \in {"running", "failed"} /\ prog.units[u].child
      /\ child[u] \in Child /\ child[u].worked = 0 /\ OnlyAppended(appended, child[u].start)
  BY <1>1, AtChild DEF At
<1>3. {"work", "exited_with_error"} \subseteq ChildPlaces
  BY DEF ChildPlaces
<1>4. CASE child' = [child EXCEPT ![u].wt = TRUE, ![u].worked = @ + 1] /\ Goto(p, "work")
  <2> DEFINE c == [child[u] EXCEPT !.wt = TRUE, !.worked = 1]
  <2>1. c \in Child /\ c.start = child[u].start /\ c.worked = 1 /\ c.worked <= 1
    <3>1. child[u] \in Child /\ 1 \in Nat /\ 1 <= 1
      BY <1>2
    <3> QED
      BY <3>1 DEF Child
  <2>2. child' = [child EXCEPT ![u] = c]
    <3>1. child[u].worked + 1 = 1
      BY <1>2
    <3> QED
      BY <1>2, <1>4, <3>1, Typed DEF DataOK
  <2> HIDE DEF c
  <2>3. DataOK' /\ Shared'
    BY <1>1, <1>2, <2>1, <2>2, Typed, ChildMoved
  <2> QED
    BY <1>1, <1>2, <1>3, <1>4, <2>3, ChildStep
<1>5. ASSUME NEW st \in {"open", "failed"}, child' = [child EXCEPT ![u].st = st],
             Goto(p, "exited_with_error")
      PROVE  IInv'
  <2> DEFINE c == [child[u] EXCEPT !.st = st]
  <2>1. c \in Child /\ c.start = child[u].start /\ c.worked = 0 /\ c.worked <= 1
    BY <1>2 DEF Child
  <2>2. child' = [child EXCEPT ![u] = c]
    BY <1>5
  <2> HIDE DEF c
  <2>3. DataOK' /\ Shared'
    BY <1>1, <1>2, <2>1, <2>2, Typed, ChildMoved
  <2> QED
    BY <1>1, <1>2, <1>3, <1>5, <2>3, ChildStep
<1> QED
  BY <1>4, <1>5 DEF CreateWorktree
LEMMA SelectUnitKeeps ==
    ASSUME IInv, NEW p \in Procs, SelectUnit(p)
    PROVE  IInv'
<1>1. loc[p].pc = "select" /\ lock = p /\ UNCHANGED <<config, data>>
  BY DEF SelectUnit, InRunNext, At, Holds, data
<1>2. CASE Return(p)
  BY <1>1, <1>2, Typed, ReturnEnds, QuietEnd
<1>3. CASE ~Return(p)
  <2>1. PICK u \in Selected(p) :
          loc' = [loc EXCEPT ![p].pc = "assemble", ![p].then = "start", ![p].sel = u] /\ lock' = lock
    BY <1>3 DEF SelectUnit
  <2>2. ~loc[p].reset /\ ~AnyRepairPending
    BY <1>3 DEF SelectUnit, Blocked
  <2>3. u \in ActiveUnits /\ Eligible(u, loc[p].cfg) /\ u \in AllUnits
    BY <2>2, Typed DEF Selected, Foremost
  <2>4. SettledUnit(u)
    <3>1. ASSUME NEW n \in Nodes, u = RepairUnit[n] PROVE repair[n].phase = "published"
      <4>1. n \in appended
        BY <2>3, <3>1, Typed, ActiveRepairUnit DEF ActiveUnits
      <4>2. repair[n].phase \in {"prepared", "published"}
        BY <4>1, Typed DEF Shared, AppendedAccepted
      <4> QED
        BY <2>2, <4>2 DEF AnyRepairPending, RepairPending
    <3> QED
      BY <2>3, <3>1 DEF SettledUnit
  <2>5. ToStart(u)
    BY <2>3, <2>4 DEF ToStart, Eligible, DoneIn
  <2> DEFINE l == [loc[p] EXCEPT !.pc = "assemble", !.then = "start", !.sel = u]
  <2>6. loc[p] \in Local /\ "assemble" \in Places /\ "start" \in Thens
    BY Typed DEF Places, LockedPlaces, AssemblyPlaces, Thens
  <2>7. l \in Local /\ l.pc = "assemble" /\ l.then = "start" /\ l.sel = u
    BY <2>3, <2>6 DEF Local
  <2>8. OnlyMoves(p) /\ loc'[p] = l
    <3>1. loc' = [loc EXCEPT ![p] = l]
      BY <2>1, Typed DEF TypeOK
    <3> HIDE DEF l
    <3> QED BY <2>7, <3>1, Typed, MoveFacts
  <2>9. Knows(p)'
    <3> HIDE DEF l
    <3> QED
      BY <1>1, <2>1, <2>5, <2>6, <2>7, <2>8 DEF Knows, AssemblyKnows, ChildKnows, GateKnows, RepairKnows,
         At, AssemblyPlaces, ChildPlaces, LockedPlaces, ToStart, SettledUnit, DoneIn, ActiveUnits, data
  <2> QED
    BY <1>1, <2>8, <2>9, QuietStep
<1> QED
  BY <1>2, <1>3

LEMMA StartUnitKeeps ==
    ASSUME IInv, NEW p \in Procs, StartUnit(p)
    PROVE  IInv'
<1> DEFINE u == loc[p].sel
           unit == [PendingUnit EXCEPT !.status = "running"]
<1>1. loc[p].pc = "start" /\ lock = p /\ UNCHANGED <<config, appended, ref, child, handoff, repair>>
  BY DEF StartUnit, InRunNext, At, Holds
<1>2. ToStart(u) /\ SettledUnit(u) /\ u \in ActiveUnits /\ u \in AllUnits
  BY <1>1, Typed DEF Knows, LockedPlaces, ChildKnows, At, ToStart, SettledUnit
<1>3. CASE Return(p)
  <2>1. UNCHANGED <<config, data>>
    <3>1. CASE prog' = prog
      BY <1>1, <3>1 DEF data
    <3>2. CASE Goto(p, "create_child") /\ prog' # prog
      <4>1. FALSE
        <5>1. loc'[p].pc = "create_child" /\ loc'[p].pc = "idle"
          BY <1>3, <3>2, Typed DEF Goto, Return, TypeOK, Local, Idle
        <5> QED
          BY <5>1
      <4> QED
        BY <4>1
    <3> QED
      BY <3>1, <3>2 DEF StartUnit
  <2> QED
    BY <1>3, <2>1, Typed, ReturnEnds, QuietEnd
<1>4. CASE ~Return(p)
  <2>1. DependenciesIn(u, prog.assembled) /\ prog' = UpsertUnit(prog, u, unit)
        /\ Goto(p, "create_child") /\ lock' = lock
    BY <1>4 DEF StartUnit
  <2>2. unit \in UnitRecord /\ unit.status = "running" /\ unit.child = FALSE /\ unit.commit = NoCommit
    BY NoneTyped DEF PendingUnit, UnitRecord, UnitStatuses
  <2> HIDE DEF unit
  <2>3. OnlyAppended(appended, NoCommit) /\ ~DoneIn(prog, u) /\ ~child[u].wt
        /\ child[u].worked = 0
    BY <1>2, ArtifactsApart, Typed DEF OnlyAppended, NoCommit, ToStart, DoneIn, Shared, ChildrenLinked
  <2>4. StandsOn(prog, appended, u, prog.assembled)
    BY <1>2, <2>1 DEF StandsOn, ToStart, DependenciesIn, BuildsOn, DoneIn
  <2>5. /\ DataOK' /\ Shared' /\ prog'.units = [prog.units EXCEPT ![u] = unit]
        /\ prog'.assembled = prog.assembled
    BY <1>1, <1>2, <2>1, <2>2, <2>3, Typed, UnitRecorded
  <2>6. StandsOn(prog', appended, u, prog.assembled)
    <3>1. appended \in SUBSET Nodes /\ u \in UnitsOf(appended)
      BY <1>2, Typed DEF ActiveUnits
    <3> QED
      BY <1>2, <2>3, <2>4, <2>5, <3>1, Typed, StandsStill
  <2>7. OnlyMoves(p) /\ loc'[p].pc = "create_child" /\ loc'[p].sel = u
    <3>1. "create_child" \in Places
      BY DEF Places, LockedPlaces
    <3> QED
      BY <2>1, <3>1, Typed, GotoFacts
  <2>8. Knows(p)'
    <3>1. prog'.units[u] = unit
      BY <1>2, <2>5, Typed
    <3> QED
      BY <1>1, <1>2, <2>1, <2>2, <2>3, <2>5, <2>6, <2>7, <3>1 DEF Knows, ChildKnows, GateKnows,
         RepairKnows, At, AssemblyPlaces, ChildPlaces, SettledUnit, ActiveUnits, Unlinked
  <2> QED
    BY <1>1, <2>1, <2>5, <2>7, <2>8, OneStep
<1> QED
  BY <1>3, <1>4

\* A command that gives the unit back.
LEMMA GoesToRestore ==
    ASSUME IInv, NEW p \in Procs, lock = p, lock' = lock, config' = config,
           Goto(p, "restore"), DataOK', Shared', UNCHANGED <<appended, prog, repair>>,
           SettledUnit(loc[p].sel), Unlinked(loc[p].sel), child'[loc[p].sel].worked = 0
    PROVE  IInv'
<1>1. "restore" \in Places
  BY DEF Places, LockedPlaces
<1>2. OnlyMoves(p) /\ loc'[p].pc = "restore" /\ loc'[p].sel = loc[p].sel
  BY <1>1, Typed, GotoFacts
<1>3. Knows(p)'
  BY <1>2 DEF Knows, ChildKnows, GateKnows, RepairKnows, At, AssemblyPlaces, ChildPlaces,
     SettledUnit, ActiveUnits, Unlinked
<1> QED
  BY <1>2, <1>3, OneStep

LEMMA CreateChildKeeps ==
    ASSUME IInv, NEW p \in Procs, CreateChild(p)
    PROVE  IInv'
<1> DEFINE u == loc[p].sel
           c == [NoChild EXCEPT !.st = "open", !.start = prog.assembled, !.worked = child[u].worked]
<1>1. loc[p].pc = "create_child" /\ lock = p
      /\ UNCHANGED <<config, appended, prog, ref, handoff, repair, lock>>
  BY DEF CreateChild, InRunNext, At, Holds
<1>2. /\ SettledUnit(u) /\ u \in AllUnits /\ Unlinked(u) /\ child[u].worked = 0
      /\ OnlyAppended(appended, prog.assembled) /\ StandsOn(prog, appended, u, prog.assembled)
  BY <1>1, AtNewChild DEF At, Unlinked
<1>3. CASE child' = [child EXCEPT ![u] = c] /\ Goto(p, "link")
  <2>1. prog.assembled \in AnyCommit /\ child[u].worked \in Nat
    BY <1>2, Typed DEF Progress, DataOK, Child
  <2>2. c \in Child /\ c.worked = 0 /\ c.start = prog.assembled /\ c.wt = FALSE
    BY <1>2, <2>1 DEF NoChild, Child
  <2>3. 0 <= 1 /\ ~prog.units[u].child
    BY <1>2 DEF Unlinked
  <2> HIDE DEF c
  <2>4. DataOK' /\ Shared'
    BY <1>1, <1>2, <1>3, <2>2, <2>3, Typed, ChildMoved
  <2>5. OnlyMoves(p) /\ loc'[p].pc = "link" /\ loc'[p].sel = u
    <3>1. "link" \in Places
      BY DEF Places, LockedPlaces
    <3> QED
      BY <1>3, <3>1, Typed, GotoFacts
  <2>6. Knows(p)'
    <3>1. child'[u] = c
      BY <1>2, <1>3, Typed DEF DataOK
    <3> QED
      BY <1>1, <1>2, <2>2, <2>5, <3>1 DEF Knows, ChildKnows, GateKnows, RepairKnows, At, AssemblyPlaces,
         ChildPlaces, SettledUnit, ActiveUnits, Unlinked
  <2> QED
    BY <1>1, <2>4, <2>5, <2>6, OneStep
<1>4. CASE child' = child /\ Goto(p, "restore")
  <2>1. DataOK' /\ Shared'
    BY <1>1, <1>4, Typed, SharedSame DEF data, DataOK
  <2> QED
    BY <1>1, <1>2, <1>4, <2>1, GoesToRestore
<1> QED
  BY <1>3, <1>4 DEF CreateChild

LEMMA LinkChildKeeps ==
    ASSUME IInv, NEW p \in Procs, LinkChild(p)
    PROVE  IInv'
<1> DEFINE u == loc[p].sel
<1>1. loc[p].pc = "link" /\ lock = p /\ UNCHANGED <<config, appended, ref, handoff, repair, lock>>
  BY DEF LinkChild, InRunNext, At, Holds
<1>2. /\ SettledUnit(u) /\ u \in AllUnits /\ Unlinked(u) /\ child[u].worked = 0
      /\ prog.units[u] \in UnitRecord /\ child[u] \in Child /\ ~child[u].wt
      /\ OnlyAppended(appended, child[u].start) /\ StandsOn(prog, appended, u, child[u].start)
  BY <1>1, AtNewChild DEF At, Unlinked
<1>3. CASE prog' = UpsertUnit(prog, u, [prog.units[u] EXCEPT !.child = TRUE])
           /\ Goto(p, "worktree") /\ child' = child
  <2> DEFINE unit == [prog.units[u] EXCEPT !.child = TRUE]
  <2>1. unit \in UnitRecord /\ unit.status = "running" /\ unit.child = TRUE
        /\ unit.commit = prog.units[u].commit
    BY <1>2 DEF UnitRecord, Unlinked
  <2>2. OnlyAppended(appended, prog.units[u].commit) /\ ~DoneIn(prog, u)
    BY <1>2, Typed DEF Shared, CommitsAreAppended, Unlinked, DoneIn
  <2> HIDE DEF unit
  <2>3. DataOK' /\ Shared' /\ prog'.units = [prog.units EXCEPT ![u] = unit]
    <3>1. prog' = UpsertUnit(prog, u, unit)
      BY <1>3 DEF unit
    <3> QED
      BY <1>1, <1>2, <1>3, <2>1, <2>2, <3>1, Typed, UnitRecorded
  <2>4. prog'.units[u] = unit
    BY <1>2, <2>3, Typed
  <2> QED
    BY <1>1, <1>2, <1>3, <2>1, <2>3, <2>4, ChildStep
<1>4. CASE child' = [child EXCEPT ![u].st = "failed"] /\ Goto(p, "restore") /\ prog' = prog
  <2> DEFINE c == [child[u] EXCEPT !.st = "failed"]
  <2>1. c \in Child /\ c.start = child[u].start /\ c.worked = child[u].worked /\ c.wt = child[u].wt
    BY <1>2 DEF Child
  <2>2. child' = [child EXCEPT ![u] = c]
    BY <1>4
  <2>3. 0 <= 1
    OBVIOUS
  <2> HIDE DEF c
  <2>4. DataOK' /\ Shared'
    BY <1>1, <1>2, <1>4, <2>1, <2>2, <2>3, Typed, ChildMoved
  <2>5. child'[u] = c
    BY <1>2, <2>2, Typed DEF DataOK
  <2> QED
    BY <1>1, <1>2, <1>4, <2>1, <2>4, <2>5, GoesToRestore
<1> QED
  BY <1>3, <1>4 DEF LinkChild

LEMMA RestoreProgressKeeps ==
    ASSUME IInv, NEW p \in Procs, RestoreProgress(p)
    PROVE  IInv'
<1> DEFINE u == loc[p].sel
<1>1. loc[p].pc = "restore" /\ lock = p /\ UNCHANGED <<config, appended, ref, child, handoff, repair>>
      /\ Return(p) /\ prog' = UpsertUnit(prog, u, PendingUnit)
  BY DEF RestoreProgress, InRunNext, At, Holds
<1>2. SettledUnit(u) /\ u \in AllUnits /\ Unlinked(u) /\ ~child[u].wt
  BY <1>1, AtNewChild
<1>3. OnlyAppended(appended, PendingUnit.commit) /\ ~DoneIn(prog, u) /\ child[u].worked = 0
      /\ PendingUnit.status = "pending" /\ ~PendingUnit.child
  BY <1>2, ArtifactsApart DEF OnlyAppended, PendingUnit, NoCommit, Unlinked, DoneIn
<1>4. DataOK' /\ Shared'
  BY <1>1, <1>2, <1>3, NoneTyped, Typed, UnitRecorded
<1> QED
  BY <1>1, <1>4, Typed, ReturnEnds, LastStep

\* The commit of a child's work.
LEMMA ResultFacts ==
    ASSUME IInv, NEW p \in Procs, loc[p].pc \in ChildPlaces
    PROVE  LET u == loc[p].sel IN
           /\ Result(u) \in AnyCommit /\ OnlyAppended(appended, Result(u)) /\ u \in Result(u)
           /\ StandsOn(prog, appended, u, Result(u))
<1> DEFINE u == loc[p].sel
<1>1. /\ u \in AllUnits /\ child[u] \in Child /\ StandsOn(prog, appended, u, child[u].start)
      /\ OnlyAppended(appended, child[u].start)
  BY AtChild
<1>2. Result(u) \in AnyCommit /\ u \in Result(u)
  BY <1>1 DEF Result, AnyCommit, Changes, Child
<1>3. OnlyAppended(appended, Result(u))
  BY <1>1, ArtifactsApart DEF OnlyAppended, Result
<1>4. StandsOn(prog, appended, u, Result(u))
  BY <1>1 DEF StandsOn, Result
<1> QED
  BY <1>2, <1>3, <1>4

LEMMA WriteHandoffKeeps ==
    ASSUME IInv, NEW p \in Procs, WriteHandoff(p)
    PROVE  IInv'
<1> DEFINE u == loc[p].sel
<1>1. loc[p].pc = "exited" /\ lock = p /\ UNCHANGED <<config, appended, ref, child, repair>>
      /\ "exited" \in ChildPlaces
  BY DEF WriteHandoff, InRunNext, At, Holds, ChildPlaces
<1>2. /\ SettledUnit(u) /\ u \in AllUnits
      /\ prog.units[u].status \in {"running", "failed"} /\ prog.units[u].child
      /\ StandsOn(prog, appended, u, child[u].start)
  BY <1>1, AtChild
<1>3. CASE handoff' = handoff \cup {u} /\ Goto(p, "record_done") /\ prog' = prog /\ lock' = lock
  <2>1. DataOK' /\ Shared' /\ u \in handoff'
    BY <1>1, <1>2, <1>3, Typed, HandoffKept
  <2>2. OnlyMoves(p) /\ loc'[p].pc = "record_done" /\ loc'[p].sel = u
    <3>1. "record_done" \in Places
      BY DEF Places, LockedPlaces, ChildPlaces
    <3> QED
      BY <1>3, <3>1, Typed, GotoFacts
  <2>3. Knows(p)'
    BY <1>1, <1>2, <1>3, <2>1, <2>2 DEF Knows, ChildKnows, GateKnows, RepairKnows, At, AssemblyPlaces,
       ChildPlaces, SettledUnit, ActiveUnits
  <2> QED
    BY <1>1, <2>1, <2>2, <2>3, OneStep
<1>4. CASE /\ prog' = UpsertUnit(prog, u, [status |-> "running", child |-> TRUE,
                                           commit |-> Result(u), failure |-> "none"])
           /\ Return(p) /\ handoff' = handoff
  <2> DEFINE unit == [status |-> "running", child |-> TRUE, commit |-> Result(u), failure |-> "none"]
  <2>1. Result(u) \in AnyCommit /\ OnlyAppended(appended, Result(u))
    BY <1>1, ResultFacts
  <2>2. unit \in UnitRecord /\ unit.status = "running" /\ unit.child = TRUE /\ unit.commit = Result(u)
    BY <2>1 DEF UnitRecord, UnitStatuses, FailureCodes
  <2>3. ~DoneIn(prog, u)
    BY <1>2 DEF DoneIn
  <2> HIDE DEF unit
  <2>4. DataOK' /\ Shared'
    <3>1. prog' = UpsertUnit(prog, u, unit)
      BY <1>4 DEF unit
    <3> QED
      BY <1>1, <1>2, <1>4, <2>1, <2>2, <2>3, <3>1, Typed, UnitRecorded
  <2> QED
    BY <1>1, <1>4, <2>4, Typed, ReturnEnds, LastStep
<1> QED
  BY <1>3, <1>4 DEF WriteHandoff

LEMMA RecordDoneKeeps ==
    ASSUME IInv, NEW p \in Procs, RecordDone(p)
    PROVE  IInv'
<1> DEFINE u == loc[p].sel
           unit == [status |-> "done", child |-> TRUE, commit |-> Result(u), failure |-> "none"]
           l == [loc[p] EXCEPT !.pc = "assemble", !.then = "terminal", !.sel = NoUnit]
<1>1. loc[p].pc = "record_done" /\ lock = p
      /\ UNCHANGED <<config, appended, ref, child, handoff, repair, lock>>
      /\ "record_done" \in ChildPlaces /\ loc' = [loc EXCEPT ![p] = l]
      /\ prog' = UpsertUnit(prog, u, unit)
  BY Typed DEF RecordDone, InRunNext, At, Holds, ChildPlaces, TypeOK
<1>2. /\ SettledUnit(u) /\ u \in AllUnits /\ u \in handoff /\ ~DoneIn(prog, u)
      /\ StandsOn(prog, appended, u, child[u].start)
  BY <1>1, AtChild DEF At, DoneIn
<1>3. Result(u) \in AnyCommit /\ OnlyAppended(appended, Result(u)) /\ u \in Result(u)
      /\ StandsOn(prog, appended, u, Result(u))
  BY <1>1, ResultFacts
<1>4. unit \in UnitRecord /\ unit.status = "done" /\ unit.child = TRUE /\ unit.commit = Result(u)
  BY <1>3 DEF UnitRecord, UnitStatuses, FailureCodes
<1>5. DataOK' /\ Shared'
  <2> HIDE DEF unit
  <2> QED
    BY <1>1, <1>2, <1>3, <1>4, Typed, UnitRecorded
<1>6. loc[p] \in Local /\ "assemble" \in Places /\ "terminal" \in Thens
  BY Typed DEF Places, LockedPlaces, AssemblyPlaces, Thens
<1>7. l \in Local /\ l.pc = "assemble" /\ l.then = "terminal"
  BY <1>6 DEF Local
<1>8. OnlyMoves(p) /\ loc'[p] = l
  <2> HIDE DEF l, unit
  <2> QED
    BY <1>1, <1>7, Typed, MoveFacts
<1>9. Knows(p)'
  <2> HIDE DEF l, unit
  <2> QED
    BY <1>1, <1>6, <1>7, <1>8 DEF Knows, AssemblyKnows, ChildKnows, GateKnows, RepairKnows, At,
       AssemblyPlaces, ChildPlaces
<1> QED
  BY <1>1, <1>5, <1>8, <1>9, OneStep

LEMMA RecordFailedKeeps ==
    ASSUME IInv, NEW p \in Procs, RecordFailed(p)
    PROVE  IInv'
<1> DEFINE u == loc[p].sel
           commit == IF child[u].fin THEN Result(u) ELSE NoCommit
           unit == [status |-> "failed", child |-> TRUE, failure |-> FailureCode(p, u), commit |-> commit]
<1>1. loc[p].pc \in ChildPlaces /\ lock = p /\ UNCHANGED <<config, appended, ref, child, handoff, repair>>
      /\ prog' = UpsertUnit(prog, u, unit) /\ Return(p) /\ ~At(p, "record_done")
  BY DEF RecordFailed, InRunNext, At, Holds, ChildPlaces
<1>2. /\ SettledUnit(u) /\ u \in AllUnits /\ child[u] \in Child /\ ~DoneIn(prog, u)
      /\ StandsOn(prog, appended, u, child[u].start)
  BY <1>1, AtChild DEF DoneIn
<1>3. commit \in AnyCommit /\ OnlyAppended(appended, commit)
  BY <1>1, ResultFacts, SmallCommits, ArtifactsApart DEF OnlyAppended, NoCommit
<1>4. FailureCode(p, u) \in FailureCodes
  BY <1>2 DEF FailureCode, FailureCodes, Child
<1>5. unit \in UnitRecord /\ unit.status = "failed" /\ unit.child = TRUE /\ unit.commit = commit
  <2> HIDE DEF commit
  <2> QED
    BY <1>3, <1>4 DEF UnitRecord, UnitStatuses
<1>6. DataOK' /\ Shared'
  <2> HIDE DEF unit, commit
  <2> QED
    BY <1>1, <1>2, <1>3, <1>5, Typed, UnitRecorded
<1> QED
  BY <1>1, <1>6, Typed, ReturnEnds, LastStep

LEMMA RunNextStepKeeps ==
    ASSUME IInv, NEW p \in Procs, RunNextStep(p)
    PROVE  IInv'
BY StartRunNextKeeps, RefusalsKeep, ReconcileOrResumeKeeps, RetryChildKeeps, ResetChildKeeps,
   SelectUnitKeeps, StartUnitKeeps, CreateChildKeeps, LinkChildKeeps, RestoreProgressKeeps,
   CreateWorktreeKeeps, WorkKeeps, FinalizeChildKeeps, WriteHandoffKeeps, RecordDoneKeeps,
   RecordFailedKeeps DEF RunNextStep
(***************************************************************************)
(* The steps of a verification.                                            *)
(***************************************************************************)
LEMMA VerificationMarked ==
    ASSUME DataOK, Shared, NEW n \in Nodes, NEW v \in Verification,
           prog' = MarkVerification(prog, n, v), UNCHANGED <<appended, ref, child, handoff, repair>>,
           n = "root" => About(prog, v) /\ Covers(prog, v)
    PROVE  /\ DataOK' /\ Shared' /\ prog'.ver[n] = v
           /\ prog'.units = prog.units /\ prog'.base = prog.base
           /\ prog'.assembled = prog.assembled /\ prog'.assembly = prog.assembly
<1>1. prog \in Progress /\ prog.ver \in [Nodes -> Verification] /\ "root" \in Nodes
  BY RootIsNode DEF DataOK, Progress
<1>2. /\ prog' \in Progress
      /\ prog'.units = prog.units /\ prog'.base = prog.base
      /\ prog'.assembled = prog.assembled /\ prog'.assembly = prog.assembly
      /\ prog'.final = NoCommit /\ prog'.ver = [prog.ver EXCEPT ![n] = v]
  BY <1>1, MarkVerificationFacts
<1>3. DataOK' /\ prog'.ver[n] = v
  BY <1>1, <1>2 DEF DataOK
<1>4. RootCovered'
  <2>1. prog'.ver["root"] = IF n = "root" THEN v ELSE prog.ver["root"]
    BY <1>1, <1>2
  <2> QED
    BY <1>2, <2>1 DEF Shared, RootCovered, About, Covers, DoneIn
<1>5. FinalWhole' /\ BaseKnown'
  BY <1>2 DEF FinalWhole, BaseKnown, Shared
<1>6. Budgets' /\ AppendedAccepted' /\ PublishedIsThere' /\ CommitsAreAppended'
  BY <1>2 DEF Shared, Budgets, AppendedAccepted, Accepted, PublishedIsThere, CommitsAreAppended
<1>7. ChildrenLinked' /\ DoneComposes' /\ StartedOnPrerequisites'
  BY <1>2 DEF Shared, ChildrenLinked, DoneComposes, StartedOnPrerequisites, ActiveUnits,
              StandsOn, DoneIn
<1> QED
  BY <1>2, <1>3, <1>4, <1>5, <1>6, <1>7 DEF Shared

\* Where a verdict leads.
LEMMA VerdictPlaces ==
    ASSUME IInv, NEW p \in Procs
    PROVE  Passed(p) \in Local /\ Passed(p).pc \in FreePlaces
           /\ Repair(p) \in Local /\ Repair(p).pc \in FreePlaces
<1>1. Loop(p) \in Local /\ Node(p) \in Nodes
  BY Typed, LoopTyped DEF Node
<1>2. {"finalize", "handoff", "loop", "repair"} \subseteq FreePlaces /\ FreePlaces \subseteq Places
  BY DEF FreePlaces, Places
<1> DEFINE pc1 == IF Node(p) = "root" THEN "finalize" ELSE "handoff"
           pc2 == IF Node(p) = "root" THEN "loop" ELSE "repair"
<1>3. pc1 \in FreePlaces /\ pc2 \in FreePlaces
  BY <1>2
<1>4. Passed(p) = [Loop(p) EXCEPT !.pc = pc1, !.node = Node(p)]
      /\ Repair(p) = [Loop(p) EXCEPT !.pc = pc2, !.want = Node(p)]
  BY DEF Passed, Repair
<1> HIDE DEF pc1, pc2
<1> QED
  BY <1>1, <1>2, <1>3, <1>4 DEF Local

LEMMA QuietVerificationSteps ==
    ASSUME IInv, NEW p \in Procs,
           StartVerify(p) \/ RepairVerificationEvent(p) \/ ExecuteGate(p) \/ GiveUpVerdict(p)
    PROVE  IInv'
<1>1. CASE StartVerify(p)
  <2>1. Acquire(p, "capture") /\ UNCHANGED <<config, data>>
    BY <1>1 DEF StartVerify, Verifying, data
  <2> QED
    BY <2>1, AcquireKeeps
<1>2. CASE RepairVerificationEvent(p)
  <2>1. loc[p].pc = "capture" /\ lock = p /\ UNCHANGED <<config, data>>
    BY <1>2 DEF RepairVerificationEvent, Verifying, At, Holds, data
  <2>2. CASE Return(p)
    BY <2>1, <2>2, Typed, ReturnEnds, QuietEnd
  <2>3. CASE ~Return(p)
    <3>1. UNCHANGED <<loc, lock>>
      BY <1>2, <2>3 DEF RepairVerificationEvent
    <3>2. OnlyMoves(p) /\ Knows(p)'
      BY <2>1, <3>1, Typed, KnowsSame DEF OnlyMoves, TypeOK
    <3> QED
      BY <2>1, <3>1, <3>2, QuietStep
  <2> QED
    BY <2>2, <2>3
<1>3. CASE ExecuteGate(p)
  <2>1. UNCHANGED <<config, data, lock>>
    BY <1>3 DEF ExecuteGate, Verifying, data
  <2>2. PICK o \in Violations \cup {Outcome("passed", "none"), Outcome("blocked", "config")} :
          loc' = [loc EXCEPT ![p].pc = "persist", ![p].ver.status = o.status, ![p].ver.stop = o.stop]
    BY <1>3 DEF ExecuteGate
  <2>3. o.status \in VerStatuses /\ o.stop \in Stops
    BY DEF Violations, Outcome, VerStatuses, Stops
  <2> DEFINE v == [loc[p].ver EXCEPT !.status = o.status, !.stop = o.stop]
             l == [loc[p] EXCEPT !.pc = "persist", !.ver = v]
  <2>4. v \in Verification
    BY <2>3, Typed DEF Verification
  <2>5. "persist" \in FreePlaces /\ "persist" \in Places /\ loc[p] \in Local
    BY Typed DEF FreePlaces, Places
  <2>6. l \in Local /\ l.pc = "persist"
    <3> HIDE DEF v
    <3> QED
      BY <2>4, <2>5 DEF Local
  <2>7. loc' = [loc EXCEPT ![p] = l]
    BY <2>2, Typed DEF TypeOK, Local
  <2>8. Ends(p)
    <3> HIDE DEF l
    <3> QED
      BY <2>1, <2>5, <2>6, <2>7, Typed, MoveFacts, PlacesApart DEF Ends
  <2> QED
    BY <2>1, <2>8, QuietEnd
<1>4. CASE GiveUpVerdict(p)
  <2>1. UNCHANGED <<config, data>>
    BY <1>4 DEF GiveUpVerdict, Verifying, data
  <2>2. CASE Return(p)
    BY <2>1, <2>2, Typed, ReturnEnds, QuietEnd
  <2>3. CASE ~Return(p)
    <3>1. Goto(p, "stale") /\ lock' = lock
      BY <1>4, <2>3 DEF GiveUpVerdict
    <3>2. "stale" \in FreePlaces
      BY DEF FreePlaces
    <3> QED
      BY <2>1, <3>1, <3>2, Typed, GotoEnds, QuietEnd
  <2> QED
    BY <2>2, <2>3
<1> QED
  BY <1>1, <1>2, <1>3, <1>4

LEMMA CaptureKeeps ==
    ASSUME IInv, NEW p \in Procs, Capture(p)
    PROVE  IInv'
<1>1. loc[p].pc = "capture" /\ lock = p /\ UNCHANGED <<config, data>>
  BY DEF Capture, Verifying, At, Holds, data
<1>2. CASE Return(p)
  BY <1>1, <1>2, Typed, ReturnEnds, QuietEnd
<1>3. CASE ContinueAs(p, Passed(p))
  BY <1>1, <1>3, Typed, VerdictPlaces, ContinueEnds, QuietEnd
<1>4. CASE loc' = [loc EXCEPT ![p].pc = "assemble", ![p].then = "captured"] /\ lock' = lock
  <2> DEFINE l == [loc[p] EXCEPT !.pc = "assemble", !.then = "captured"]
  <2>1. loc[p] \in Local /\ "assemble" \in Places /\ "captured" \in Thens
    BY Typed DEF Places, LockedPlaces, AssemblyPlaces, Thens
  <2>2. l \in Local /\ l.pc = "assemble" /\ l.then = "captured"
    BY <2>1 DEF Local
  <2>3. OnlyMoves(p) /\ loc'[p] = l
    <3>1. loc' = [loc EXCEPT ![p] = l]
      BY <1>4, Typed DEF TypeOK
    <3> HIDE DEF l
    <3> QED BY <2>2, <3>1, Typed, MoveFacts
  <2>4. Knows(p)'
    <3> HIDE DEF l
    <3> QED
      BY <1>1, <1>4, <2>1, <2>2, <2>3 DEF Knows, AssemblyKnows, ChildKnows, GateKnows, RepairKnows,
         At, AssemblyPlaces, ChildPlaces
  <2> QED
    BY <1>1, <2>3, <2>4, QuietStep
<1> QED
  BY <1>2, <1>3, <1>4 DEF Capture

\* A complete scope of the root has every unit of the plan.
LEMMA RootScopeIsDone ==
    ASSUME NEW pr, NEW plan \in SUBSET Nodes, ScopeComplete(pr, plan, "root")
    PROVE  \A u \in UnitsOf(plan) : DoneIn(pr, u)
BY DEF ScopeComplete, InputUnits, BuildsOn, UnitsOf, Done, DoneIn

LEMMA MarkRunningKeeps ==
    ASSUME IInv, NEW p \in Procs, MarkRunning(p)
    PROVE  IInv'
<1>1. loc[p].pc = "captured" /\ lock = p /\ UNCHANGED <<config, appended, ref, child, handoff, repair>>
  BY DEF MarkRunning, Verifying, At, Holds
<1>2. prog.assembly = "ready" /\ AllAssembled
  BY <1>1, Typed DEF Knows, GateKnows, LockedPlaces, At
<1> DEFINE n == loc[p].node
           v == [status |-> "running", candidate |-> prog.assembled, cfg |-> loc[p].cfg,
                 plan |-> appended, attempt |-> Attempt(p), stop |-> "none"]
<1>3. CASE Return(p) /\ prog' = prog
  BY <1>1, <1>3, Typed, ReturnEnds, QuietEnd DEF data
<1>4. CASE ContinueAs(p, Passed(p)) /\ prog' = prog
  BY <1>1, <1>4, Typed, VerdictPlaces, ContinueEnds, QuietEnd DEF data
<1>5. CASE /\ Preflight(n, loc[p].cfg) /\ prog' = MarkVerification(prog, n, v)
           /\ loc' = [loc EXCEPT ![p].pc = "log_running", ![p].ver = v] /\ lock' = lock
  <2>1. n \in Nodes /\ prog.ver[n] \in Verification /\ loc[p].cfg \in {0, 1} /\ prog.assembled \in AnyCommit
    BY Typed DEF Local, Progress
  <2>2. Attempt(p) \in Nat
    BY <2>1 DEF Attempt, Record, Node, Verification
  <2>3. v \in Verification /\ v.status = "running" /\ v.candidate = prog.assembled /\ v.plan = appended
    BY <2>1, <2>2, Typed DEF Verification, VerStatuses, Stops
  <2> HIDE DEF v
  <2>4. n = "root" => About(prog, v) /\ Covers(prog, v)
    <3> SUFFICES ASSUME n = "root" PROVE About(prog, v) /\ Covers(prog, v)
      OBVIOUS
    <3>1. appended \in SUBSET Nodes /\ ScopeComplete(prog, appended, "root")
      BY <1>5, Typed DEF Preflight
    <3>2. \A u \in UnitsOf(appended) : DoneIn(prog, u)
      BY <3>1, RootScopeIsDone
    <3> QED
      BY <1>2, <2>3, <3>2 DEF About, Covers, AllAssembled, ActiveUnits
  <2>5. /\ DataOK' /\ Shared' /\ prog'.ver[n] = v
        /\ prog'.assembled = prog.assembled /\ prog'.assembly = prog.assembly
    BY <1>1, <1>5, <2>1, <2>3, <2>4, Typed, VerificationMarked
  <2> DEFINE l == [loc[p] EXCEPT !.pc = "log_running", !.ver = v]
  <2>6. "log_running" \in Places /\ loc[p] \in Local
    BY Typed DEF Places, LockedPlaces
  <2>7. l \in Local /\ l.pc = "log_running" /\ l.ver = v /\ l.node = n
    BY <2>3, <2>6 DEF Local
  <2>8. OnlyMoves(p) /\ loc'[p] = l
    <3>1. loc' = [loc EXCEPT ![p] = l]
      BY <1>5, Typed DEF TypeOK
    <3> HIDE DEF l
    <3> QED BY <2>7, <3>1, Typed, MoveFacts
  <2>9. Knows(p)'
    <3> HIDE DEF l
    <3> QED
      BY <1>1, <1>2, <1>5, <2>3, <2>5, <2>7, <2>8 DEF Knows, ChildKnows, GateKnows, RepairKnows,
         At, AssemblyPlaces, ChildPlaces
  <2> QED
    BY <1>1, <1>5, <2>5, <2>8, <2>9, OneStep
<1> QED
  BY <1>3, <1>4, <1>5 DEF MarkRunning, Node

LEMMA LogRunningKeeps ==
    ASSUME IInv, NEW p \in Procs, LogRunning(p)
    PROVE  IInv'
<1> DEFINE n == loc[p].node
           v == [loc[p].ver EXCEPT !.status = "blocked", !.stop = "retry"]
<1>1. loc[p].pc = "log_running" /\ lock = p /\ UNCHANGED <<config, appended, ref, child, handoff, repair>>
  BY DEF LogRunning, Verifying, At, Holds
<1>2. prog.assembly = "ready" /\ prog.assembled = loc[p].ver.candidate
  BY <1>1, Typed DEF Knows, GateKnows, LockedPlaces, At
<1>3. CASE Goto(p, "gate") /\ Release(p) /\ prog' = prog
  <2>1. "gate" \in FreePlaces /\ "gate" \in Places
    BY DEF FreePlaces, Places
  <2>2. Ends(p)
    BY <1>1, <1>3, <2>1, Typed, GotoFacts, PlacesApart DEF Ends
  <2> QED
    BY <1>1, <1>3, <2>2, QuietEnd DEF data
<1>4. CASE prog' = MarkVerification(prog, n, v) /\ Return(p)
  <2>1. v \in Verification /\ v.status = "blocked" /\ v.candidate = loc[p].ver.candidate
    BY Typed DEF Verification, VerStatuses, Stops
  <2> HIDE DEF v
  <2>2. About(prog, v) /\ Covers(prog, v)
    BY <1>2, <2>1 DEF About, Covers
  <2>3. DataOK' /\ Shared'
    BY <1>1, <1>4, <2>1, <2>2, Typed, VerificationMarked
  <2> QED
    BY <1>1, <1>4, <2>3, Typed, ReturnEnds, LastStep
<1> QED
  BY <1>3, <1>4 DEF LogRunning, Node

LEMMA PersistVerdictKeeps ==
    ASSUME IInv, NEW p \in Procs, PersistVerdict(p)
    PROVE  IInv'
<1> DEFINE n == loc[p].node
           v == Final(p)
<1>1. lock = "free" /\ StillCurrent(p) /\ UNCHANGED <<config, appended, ref, child, handoff, repair>>
  BY DEF PersistVerdict, Verifying
<1>2. CASE Return(p) /\ prog' = prog
  BY <1>1, <1>2, Typed, ReturnEnds, QuietEnd DEF data
<1>3. CASE /\ IsBoundaryStop(Record(p)) \/ CanMarkVerification(prog, n, loc[p].ver)
           /\ prog' = MarkVerification(prog, n, v) /\ lock' = p
           /\ loc' = [loc EXCEPT ![p].pc = "log_verdict", ![p].ver = v]
  <2>1. v \in Verification
    BY Typed DEF Final, Record, Node
  <2>2. n = "root" => About(prog, v) /\ Covers(prog, v)
    <3> SUFFICES ASSUME n = "root" PROVE About(prog, v) /\ Covers(prog, v)
      OBVIOUS
    <3>1. RootCovered /\ Record(p) = prog.ver["root"]
      BY Typed DEF Shared, Record, Node
    <3>2. CASE IsBoundaryStop(Record(p))
      BY <3>1, <3>2 DEF Final, RootCovered
    <3>3. CASE ~IsBoundaryStop(Record(p))
      <4>1. v = loc[p].ver /\ CanMarkVerification(prog, n, v)
        BY <1>3, <3>3 DEF Final
      <4>2. Record(p).status = "running" /\ SameGate(Record(p), v)
        BY <1>1, <3>3, <4>1 DEF StillCurrent, SameAttempt
      <4> HIDE DEF v
      <4>3. Covers(prog, v)
        BY <3>1, <4>2 DEF RootCovered, Covers, SameGate
      <4>4. About(prog, v)
        BY <4>1 DEF CanMarkVerification, About
      <4> QED
        BY <4>3, <4>4
    <3> QED
      BY <3>2, <3>3
  <2> HIDE DEF v
  <2>3. DataOK' /\ Shared'
    BY <1>1, <1>3, <2>1, <2>2, Typed, VerificationMarked
  <2> DEFINE l == [loc[p] EXCEPT !.pc = "log_verdict", !.ver = v]
  <2>4. "log_verdict" \in Places /\ loc[p] \in Local
    BY Typed DEF Places, LockedPlaces
  <2>5. l \in Local /\ l.pc = "log_verdict"
    BY <2>1, <2>4 DEF Local
  <2>6. OnlyMoves(p) /\ loc'[p] = l
    <3>1. loc' = [loc EXCEPT ![p] = l]
      BY <1>3, Typed DEF TypeOK
    <3> HIDE DEF l
    <3> QED BY <2>5, <3>1, Typed, MoveFacts
  <2>7. Knows(p)'
    <3> HIDE DEF l
    <3> QED
      BY <1>3, <2>5, <2>6 DEF Knows, ChildKnows, GateKnows, RepairKnows, At, AssemblyPlaces, ChildPlaces
  <2> QED
    BY <1>1, <2>3, <2>6, <2>7, OneStep
<1> QED
  BY <1>2, <1>3 DEF PersistVerdict, Node

LEMMA MarkStaleKeeps ==
    ASSUME IInv, NEW p \in Procs, MarkStale(p)
    PROVE  IInv'
<1> DEFINE n == loc[p].node
           v == [loc[p].ver EXCEPT !.status = "stale", !.stop = "retry"]
<1>1. Return(p) /\ UNCHANGED <<config, appended, ref, child, handoff, repair>>
  BY DEF MarkStale, Verifying
<1>2. CASE prog' = prog
  BY <1>1, <1>2, Typed, ReturnEnds, QuietEnd DEF data
<1>3. CASE /\ lock = "free" /\ prog.assembly = "ready" /\ prog.assembled = loc[p].ver.candidate
           /\ prog' = MarkVerification(prog, n, v)
  <2>1. v \in Verification /\ v.status = "stale" /\ v.candidate = loc[p].ver.candidate
    BY Typed DEF Verification, VerStatuses, Stops
  <2> HIDE DEF v
  <2>2. About(prog, v) /\ Covers(prog, v)
    BY <1>3, <2>1 DEF About, Covers
  <2>3. DataOK' /\ Shared'
    BY <1>1, <1>3, <2>1, <2>2, Typed, VerificationMarked
  <2> QED
    BY <1>1, <1>3, <2>3, Typed, ReturnEnds, LastStep
<1> QED
  BY <1>2, <1>3 DEF MarkStale, Node

LEMMA LogVerdictKeeps ==
    ASSUME IInv, NEW p \in Procs, LogVerdict(p)
    PROVE  IInv'
<1>1. UNCHANGED <<config, data>>
  BY DEF LogVerdict, Verifying, data
<1>2. Ends(p)
  BY Typed, VerdictPlaces, ContinueEnds, ReturnEnds DEF LogVerdict
<1> QED
  BY <1>1, <1>2, QuietEnd

LEMMA VerifyStepKeeps ==
    ASSUME IInv, NEW p \in Procs, VerifyStep(p)
    PROVE  IInv'
BY QuietVerificationSteps, CaptureKeeps, MarkRunningKeeps, LogRunningKeeps, PersistVerdictKeeps,
   MarkStaleKeeps, LogVerdictKeeps DEF VerifyStep
(***************************************************************************)
(* The steps of a repair.                                                  *)
(***************************************************************************)
LEMMA RepairMoved ==
    ASSUME DataOK, Shared, NEW n \in Nodes, NEW r \in RepairRecord,
           repair' = [repair EXCEPT ![n] = r], UNCHANGED <<appended, prog, ref, child, handoff>>,
           r.calls <= r.attempts, r.attempts <= MaxAuthoring, r.reviews <= MaxReviews,
           n \in appended => r.phase \in {"prepared", "published"}
                             /\ (n \in Renewed => r.verdict = "approved"),
           r.phase = "published" =>
               n \in appended /\ Artifact[n] \in ref /\ Artifact[n] \in prog.assembled,
           repair[n].phase = "published" => r.phase = "published",
           prog.base # NoCommit
    PROVE  DataOK' /\ Shared' /\ repair'[n] = r
<1>1. repair \in [Nodes -> RepairRecord]
  BY DEF DataOK
<1>2. repair'[n] = r /\ \A m \in Nodes : m # n => repair'[m] = repair[m]
  BY <1>1
<1>3. DataOK'
  BY <1>1 DEF DataOK
<1>4. Budgets' /\ BaseKnown'
  BY <1>2 DEF Shared, Budgets, BaseKnown
<1>5. AppendedAccepted'
  BY <1>2, <1>3 DEF Shared, AppendedAccepted, Accepted, DataOK
<1>6. PublishedIsThere'
  BY <1>2 DEF Shared, PublishedIsThere, HasPublished
<1>7. CommitsAreAppended' /\ RootCovered' /\ FinalWhole' /\ ChildrenLinked' /\ DoneComposes'
      /\ StartedOnPrerequisites'
  BY DEF Shared, CommitsAreAppended, RootCovered, FinalWhole, ChildrenLinked, DoneComposes,
         StartedOnPrerequisites, ActiveUnits
<1> QED
  BY <1>2, <1>3, <1>4, <1>5, <1>6, <1>7 DEF Shared

\* A repair that is appended comes under nothing that has been started.
LEMMA PlanGrown ==
    ASSUME DataOK, Shared, NEW n \in Nodes, n \notin appended, appended' = appended \cup {n},
           NEW cfg, CurrentInput(n, cfg), repair[n].phase = "prepared", Accepted(n),
           UNCHANGED <<prog, ref, child, handoff, repair>>
    PROVE  DataOK' /\ Shared'
<1>1. appended \in SUBSET Nodes /\ prog.ver[n].status = "failed" /\ ~LineageBound(n)
  BY DEF DataOK, CurrentInput
<1>2. DataOK'
  BY <1>1 DEF DataOK
<1>3. Budgets' /\ AppendedAccepted' /\ PublishedIsThere' /\ BaseKnown' /\ RootCovered' /\ ChildrenLinked'
  BY DEF Shared, Budgets, AppendedAccepted, Accepted, PublishedIsThere, BaseKnown, RootCovered,
         ChildrenLinked
<1>4. CommitsAreAppended'
  BY DEF Shared, CommitsAreAppended, OnlyAppended
<1>5. FinalWhole'
  BY <1>1 DEF Shared, FinalWhole
\* The new unit has not been started.
<1>6. prog.units[RepairUnit[n]].status = "pending" /\ ~prog.units[RepairUnit[n]].child
  BY RepairUnitsApart DEF Shared, PublishedIsThere, ChildrenLinked
\* Neither has a unit that gets a new prerequisite.
<1>7. ASSUME NEW u \in UnitsOf(appended), NEW e \in Prerequisites(appended \cup {n}, u),
             e \notin Prerequisites(appended, u)
      PROVE  prog.units[u].status = "pending" /\ ~prog.units[u].child
  <2>1. /\ n \in Checkpoints
        /\ u \in RuntimeConsumers(appended, n) \/ (u = RepairUnit["root"] /\ "root" \in appended)
    BY <1>1, <1>7, PrerequisitesGrow
  <2>2. n # "root" /\ u \in AllUnits
    BY <1>1, <2>1, RootIsNode, UnitsOfTyped
  <2>3. CASE u \in RuntimeConsumers(appended, n)
    <3>1. ~HandoffStale(cfg) /\ ~Usable(n, cfg)
      BY <1>1, <2>2 DEF CurrentInput, Usable
    <3>2. prog.units[u].status = "pending"
      BY <2>1, <2>3, <3>1 DEF HandoffStale
    <3> QED
      BY <2>2, <3>2 DEF Shared, ChildrenLinked
  <2>4. CASE "root" \in appended
    <3>1. Prerequisites(appended, RepairUnit["root"]) = ScopeUnits(appended \ {"root"}, "root")
      BY <1>1, RepairUnitPrerequisites, RootIsNode
    <3>2. ScopeUnits(appended, n) = UnitIds[n] /\ UnitIds[n] \subseteq PlanUnits /\ UnitIds[n] # {}
      BY <1>1, <2>1, ScopeOfCheckpoint
    <3>3. RepairUnit["root"] \notin ScopeUnits(appended, n)
      BY <3>2, RepairUnitsApart, RootIsNode
    <3>4. PlanUnits \subseteq ScopeUnits(appended \ {"root"}, "root")
      BY DEF ScopeUnits
    <3>5. LineageBound(n)
      BY <2>2, <2>4, <3>1, <3>2, <3>3, <3>4 DEF LineageBound
    <3> QED
      BY <1>1, <3>5
  <2> QED
    BY <2>1, <2>3, <2>4
<1>8. ASSUME NEW u \in UnitsOf(appended'), NEW commit,
             DoneIn(prog, u) \/ prog.units[u].child
      PROVE  /\ u \in ActiveUnits
             /\ StandsOn(prog, appended, u, commit) => StandsOn(prog, appended', u, commit)
  <2>1. u \in UnitsOf(appended)
    <3>1. u \in UnitsOf(appended) \/ u = RepairUnit[n]
      BY UnitsOfPlan
    <3> QED
      BY <1>6, <1>8, <3>1 DEF DoneIn
  <2>2. Prerequisites(appended', u) \subseteq Prerequisites(appended, u)
    BY <1>7, <1>8, <2>1 DEF DoneIn
  <2> QED
    BY <2>1, <2>2 DEF StandsOn, ActiveUnits
<1>9. DoneComposes' /\ StartedOnPrerequisites'
  BY <1>8 DEF Shared, DoneComposes, StartedOnPrerequisites, ActiveUnits
<1> QED
  BY <1>2, <1>3, <1>4, <1>5, <1>9 DEF Shared

\* A record of the repair of the node that p repairs.
LEMMA RepairTyped ==
    ASSUME IInv, NEW p \in Procs
    PROVE  LET n == loc[p].node
               r == repair[n] IN
           /\ n \in Nodes /\ r \in RepairRecord
           /\ r.calls \in Nat /\ r.attempts \in Nat /\ r.reviews \in Nat
           /\ MaxAuthoring \in Nat /\ MaxReviews \in Nat
           /\ r.calls <= r.attempts /\ r.attempts <= MaxAuthoring /\ r.reviews <= MaxReviews
           /\ prog.ver[n] \in Verification
           /\ n \in appended => r.phase \in {"prepared", "published"} /\ Accepted(n)
           /\ r.phase # "none" => prog.base # NoCommit
<1>1. loc[p].node \in Nodes /\ repair \in [Nodes -> RepairRecord]
  BY Typed DEF DataOK
<1>2. repair[loc[p].node] \in RepairRecord
  BY <1>1
<1> QED
  BY <1>1, <1>2, Typed, StateConstants, RepairConstants DEF RepairRecord, Shared, Budgets,
     AppendedAccepted, BaseKnown

\* The places of a repair, and what a command knows there.
LEMMA RepairPlaceKeeps ==
    ASSUME IInv, NEW p \in Procs, lock = p, lock' = lock, config' = config,
           NEW pc \in {"author", "draft", "authority", "review", "publish", "commit", "mark",
                       "settle", "repair_check"},
           Goto(p, pc), DataOK', Shared',
           LET n == loc[p].node IN
           /\ pc = "author" => repair'[n].phase \in {"none", "authoring"}
           /\ pc = "draft" => repair'[n].phase = "authoring" /\ repair'[n].calls < repair'[n].attempts
           /\ pc \in {"authority", "review", "publish", "commit", "mark", "settle"} =>
                repair'[n].phase = "prepared"
           /\ pc \in {"authority", "review"} => n \in Renewed
           /\ pc = "review" => repair'[n].verdict = "none"
           /\ pc \in {"publish", "commit", "mark", "settle"} =>
                (n \in Renewed => repair'[n].verdict = "approved")
           /\ pc \in {"commit", "mark", "settle"} => n \in appended'
           /\ pc \in {"mark", "settle"} => Artifact[n] \in ref'
           /\ pc = "settle" => Artifact[n] \in prog'.assembled
    PROVE  IInv'
<1>1. pc \in Places
  BY DEF Places, LockedPlaces
<1>2. OnlyMoves(p) /\ loc'[p].pc = pc /\ loc'[p].node = loc[p].node
  BY <1>1, Typed, GotoFacts
<1>3. RepairKnows(p)'
  BY <1>2 DEF RepairKnows, At, Accepted
<1>4. Knows(p)'
  BY <1>2, <1>3 DEF Knows, ChildKnows, GateKnows, At, AssemblyPlaces, ChildPlaces
<1> QED
  BY <1>2, <1>4, OneStep

LEMMA StartRepairKeeps ==
    ASSUME IInv, NEW p \in Procs, StartRepair(p)
    PROVE  IInv'
<1>1. UNCHANGED <<config, data>>
  BY DEF StartRepair, Repairing, data
<1>2. CASE Return(p)
  BY <1>1, <1>2, Typed, ReturnEnds, QuietEnd
<1>3. CASE ~Return(p)
  <2> DEFINE n == IF loc[p].want # "none" THEN loc[p].want
                  ELSE IF RepairPending("root") \/ ~AnyRepairPending THEN "root"
                  ELSE CHOOSE m \in Nodes : RepairPending(m)
             l == [loc[p] EXCEPT !.pc = "repair_check", !.node = n, !.want = "none"]
  <2>1. n \in Nodes
    BY RootIsNode, Typed DEF Local, AnyRepairPending
  <2>2. lock = "free" /\ lock' = p /\ loc' = [loc EXCEPT ![p].pc = "repair_check", ![p].node = n,
                                                         ![p].want = "none"]
    BY <1>3 DEF StartRepair
  <2> HIDE DEF n
  <2>3. loc[p] \in Local /\ "repair_check" \in Places
    BY Typed DEF Places, LockedPlaces
  <2>4. l \in Local /\ l.pc = "repair_check"
    BY <2>1, <2>3 DEF Local
  <2>5. OnlyMoves(p) /\ loc'[p] = l
    <3>1. loc' = [loc EXCEPT ![p] = l]
      BY <2>2, Typed DEF TypeOK
    <3> HIDE DEF l
    <3> QED BY <2>4, <3>1, Typed, MoveFacts
  <2>6. Knows(p)'
    <3> HIDE DEF l
    <3> QED
      BY <2>2, <2>4, <2>5 DEF Knows, ChildKnows, GateKnows, RepairKnows, At, AssemblyPlaces, ChildPlaces
  <2> QED
    BY <1>1, <2>2, <2>5, <2>6, QuietStep
<1> QED
  BY <1>2, <1>3

LEMMA InRepair ==
    ASSUME IInv, NEW p \in Procs,
           loc[p].pc \in {"repair_check", "author", "draft", "authority", "review", "publish",
                          "commit", "mark", "settle"}
    PROVE  lock = p /\ RepairKnows(p)
BY Typed DEF Knows, LockedPlaces

LEMMA CheckRepairKeeps ==
    ASSUME IInv, NEW p \in Procs, CheckRepair(p)
    PROVE  IInv'
<1> DEFINE n == loc[p].node
<1>1. loc[p].pc = "repair_check" /\ lock = p /\ UNCHANGED <<config, data>>
  BY InRepair DEF CheckRepair, Repairing, At, data
<1>2. CASE Return(p)
  BY <1>1, <1>2, Typed, ReturnEnds, QuietEnd
<1>3. DataOK' /\ Shared' /\ repair' = repair
  BY <1>1, Typed, SharedSame DEF DataOK, data
<1>4. CASE Goto(p, "author") /\ lock' = lock /\ repair[n].phase \in {"none", "authoring"}
  BY <1>1, <1>3, <1>4, RepairPlaceKeeps
<1>5. CASE Goto(p, "authority") /\ lock' = lock /\ NeedsReview(n) /\ repair[n].phase = "prepared"
  BY <1>1, <1>3, <1>5, RepairPlaceKeeps DEF NeedsReview
<1>6. CASE Goto(p, "publish") /\ lock' = lock /\ ~NeedsReview(n) /\ repair[n].phase = "prepared"
  BY <1>1, <1>3, <1>6, RepairPlaceKeeps DEF NeedsReview
<1> QED
  BY <1>2, <1>4, <1>5, <1>6 DEF CheckRepair, RepairNode

LEMMA ReserveAuthoringKeeps ==
    ASSUME IInv, NEW p \in Procs, ReserveAuthoring(p)
    PROVE  IInv'
<1> DEFINE n == loc[p].node
           r == [repair[n] EXCEPT !.phase = "authoring", !.attempts = @ + 1, !.ver = prog.ver[n]]
<1>1. loc[p].pc = "author" /\ lock = p /\ UNCHANGED <<config, appended, prog, ref, child, handoff>>
      /\ repair[n].phase \in {"none", "authoring"}
  BY InRepair DEF ReserveAuthoring, Repairing, At, RepairKnows
<1>2. CASE Return(p) /\ repair' = repair
  BY <1>1, <1>2, Typed, ReturnEnds, QuietEnd DEF data
<1>3. CASE /\ MayAuthor(p) /\ Goto(p, "draft") /\ lock' = lock
           /\ repair' = [repair EXCEPT ![n].phase = "authoring", ![n].attempts = @ + 1,
                                       ![n].ver = prog.ver[n]]
  <2>1. repair[n].attempts < MaxAuthoring /\ prog.assembly = "ready"
    BY <1>3 DEF MayAuthor, CurrentInput, RepairNode
  <2>2. prog.base # NoCommit
    BY <2>1, Typed DEF Shared, BaseKnown
  <2>3. repair[n] \in RepairRecord /\ n \in Nodes /\ prog.ver[n] \in Verification
        /\ repair[n].attempts + 1 \in Nat
    BY RepairTyped
  <2>4. r \in RepairRecord /\ r.phase = "authoring" /\ r.attempts = repair[n].attempts + 1
        /\ r.calls = repair[n].calls /\ r.reviews = repair[n].reviews
    BY <2>3 DEF RepairRecord
  <2>5. repair' = [repair EXCEPT ![n] = r]
    BY <1>3, Typed DEF DataOK
  <2> HIDE DEF r
  <2>6. r.calls < r.attempts /\ r.calls <= r.attempts /\ r.attempts <= MaxAuthoring /\ r.reviews <= MaxReviews
    BY <2>1, <2>4, RepairTyped
  <2>7. n \notin appended
    BY <1>1, RepairTyped
  <2>8. DataOK' /\ Shared' /\ repair'[n] = r
    BY <1>1, <2>2, <2>3, <2>4, <2>5, <2>6, <2>7, Typed, RepairMoved
  <2> QED
    BY <1>1, <1>3, <2>4, <2>6, <2>8, RepairPlaceKeeps
<1> QED
  BY <1>2, <1>3 DEF ReserveAuthoring, RepairNode

LEMMA DraftKeeps ==
    ASSUME IInv, NEW p \in Procs, Draft(p)
    PROVE  IInv'
<1> DEFINE n == loc[p].node
           called == [repair EXCEPT ![n].calls = @ + 1]
           r == [repair[n] EXCEPT !.calls = @ + 1]
<1>1. loc[p].pc = "draft" /\ lock = p /\ UNCHANGED <<config, appended, prog, ref, child, handoff>>
      /\ repair[n].phase = "authoring" /\ repair[n].calls < repair[n].attempts
  BY InRepair DEF Draft, Repairing, At, RepairKnows
<1>2. repair[n] \in RepairRecord /\ n \in Nodes /\ repair[n].calls + 1 \in Nat
      /\ n \notin appended /\ prog.base # NoCommit /\ prog \in Progress
      /\ repair[n].calls + 1 <= repair[n].attempts
      /\ repair[n].attempts <= MaxAuthoring /\ repair[n].reviews <= MaxReviews
      /\ 0 \in Nat /\ 0 <= MaxReviews
  BY <1>1, RepairTyped, Typed
<1>3. r \in RepairRecord /\ r.phase = "authoring" /\ r.attempts = repair[n].attempts
      /\ r.calls = repair[n].calls + 1 /\ r.reviews = repair[n].reviews
  BY <1>1, <1>2 DEF RepairRecord
<1>4. CASE /\ repair' = [called EXCEPT ![n].phase = "prepared", ![n].old = prog,
                                       ![n].reviews = 0, ![n].verdict = "none"]
           /\ Goto(p, IF n \in Renewed THEN "authority" ELSE "publish") /\ lock' = lock
  <2> DEFINE s == [repair[n] EXCEPT !.calls = @ + 1, !.phase = "prepared", !.old = prog,
                                    !.reviews = 0, !.verdict = "none"]
  <2>1. s \in RepairRecord /\ s.phase = "prepared" /\ s.attempts = repair[n].attempts
        /\ s.calls = repair[n].calls + 1 /\ s.reviews = 0
    BY <1>2 DEF RepairRecord
  <2>2. repair' = [repair EXCEPT ![n] = s]
    BY <1>4, Typed DEF DataOK
  <2> HIDE DEF s
  <2>3. DataOK' /\ Shared' /\ repair'[n] = s
    BY <1>1, <1>2, <2>1, <2>2, Typed, RepairMoved
  <2>4. CASE n \in Renewed
    BY <1>1, <1>4, <2>1, <2>3, <2>4, RepairPlaceKeeps
  <2>5. CASE n \notin Renewed
    BY <1>1, <1>4, <2>1, <2>3, <2>5, RepairPlaceKeeps
  <2> QED
    BY <2>4, <2>5
<1>5. CASE repair' = called /\ (Return(p) \/ (Goto(p, "author") /\ lock' = lock))
  <2>1. repair' = [repair EXCEPT ![n] = r]
    BY <1>5
  <2> HIDE DEF r
  <2>2. DataOK' /\ Shared' /\ repair'[n] = r
    BY <1>1, <1>2, <1>3, <2>1, Typed, RepairMoved
  <2>3. CASE Return(p)
    BY <1>1, <2>2, <2>3, Typed, ReturnEnds, LastStep
  <2>4. CASE Goto(p, "author") /\ lock' = lock
    BY <1>1, <1>3, <2>2, <2>4, RepairPlaceKeeps
  <2> QED
    BY <1>5, <2>3, <2>4
<1>6. CASE repair' = [called EXCEPT ![n].phase = "blocked"] /\ Return(p)
  <2> DEFINE s == [repair[n] EXCEPT !.calls = @ + 1, !.phase = "blocked"]
  <2>1. s \in RepairRecord /\ s.phase = "blocked" /\ s.attempts = repair[n].attempts
        /\ s.calls = repair[n].calls + 1 /\ s.reviews = repair[n].reviews
    BY <1>2 DEF RepairRecord
  <2>2. repair' = [repair EXCEPT ![n] = s]
    BY <1>6, Typed DEF DataOK
  <2> HIDE DEF s
  <2>3. DataOK' /\ Shared'
    BY <1>1, <1>2, <2>1, <2>2, Typed, RepairMoved
  <2> QED
    BY <1>1, <1>6, <2>3, Typed, ReturnEnds, LastStep
<1> QED
  BY <1>4, <1>5, <1>6 DEF Draft, RepairNode
LEMMA ReserveReviewKeeps ==
    ASSUME IInv, NEW p \in Procs, ReserveReview(p)
    PROVE  IInv'
<1> DEFINE n == loc[p].node
           r == [repair[n] EXCEPT !.reviews = @ + 1]
<1>1. loc[p].pc = "authority" /\ lock = p /\ UNCHANGED <<config, appended, prog, ref, child, handoff>>
      /\ repair[n].phase = "prepared" /\ n \in Renewed
  BY InRepair DEF ReserveReview, Repairing, At, RepairKnows
<1>2. CASE Return(p) /\ repair' = repair
  BY <1>1, <1>2, Typed, ReturnEnds, QuietEnd DEF data
<1>3. CASE /\ repair[n].verdict = "none" /\ repair[n].reviews < MaxReviews
           /\ repair' = [repair EXCEPT ![n].reviews = @ + 1] /\ Goto(p, "review") /\ lock' = lock
  <2>1. repair[n] \in RepairRecord /\ n \in Nodes /\ repair[n].reviews + 1 \in Nat
        /\ repair[n].reviews + 1 <= MaxReviews
        /\ repair[n].calls <= repair[n].attempts /\ repair[n].attempts <= MaxAuthoring
        /\ n \notin appended /\ prog.base # NoCommit
    BY <1>1, <1>3, RepairTyped DEF Accepted
  <2>2. r \in RepairRecord /\ r.phase = "prepared" /\ r.attempts = repair[n].attempts
        /\ r.calls = repair[n].calls /\ r.reviews = repair[n].reviews + 1 /\ r.verdict = "none"
    BY <1>1, <1>3, <2>1 DEF RepairRecord
  <2>3. repair' = [repair EXCEPT ![n] = r]
    BY <1>3
  <2> HIDE DEF r
  <2>4. DataOK' /\ Shared' /\ repair'[n] = r
    BY <1>1, <2>1, <2>2, <2>3, Typed, RepairMoved
  <2> QED
    BY <1>1, <1>3, <2>2, <2>4, RepairPlaceKeeps
<1> QED
  BY <1>2, <1>3 DEF ReserveReview, RepairNode

LEMMA ReviewKeeps ==
    ASSUME IInv, NEW p \in Procs, Review(p)
    PROVE  IInv'
<1> DEFINE n == loc[p].node
<1>1. loc[p].pc = "review" /\ lock = p /\ UNCHANGED <<config, appended, prog, ref, child, handoff>>
      /\ repair[n].phase = "prepared" /\ n \in Renewed /\ repair[n].verdict = "none"
  BY InRepair DEF Review, Repairing, At, RepairKnows
<1>2. repair[n] \in RepairRecord /\ n \in Nodes
      /\ repair[n].calls <= repair[n].attempts /\ repair[n].attempts <= MaxAuthoring
      /\ repair[n].reviews <= MaxReviews /\ 0 \in Nat /\ 0 <= MaxReviews
      /\ n \notin appended /\ prog.base # NoCommit
  BY <1>1, RepairTyped DEF Accepted
<1>3. CASE Return(p) /\ repair' = repair
  BY <1>1, <1>3, Typed, ReturnEnds, QuietEnd DEF data
<1>4. CASE repair' = [repair EXCEPT ![n].verdict = "approved"] /\ Goto(p, "publish") /\ lock' = lock
  <2> DEFINE r == [repair[n] EXCEPT !.verdict = "approved"]
  <2>1. r \in RepairRecord /\ r.phase = "prepared" /\ r.attempts = repair[n].attempts
        /\ r.calls = repair[n].calls /\ r.reviews = repair[n].reviews /\ r.verdict = "approved"
    BY <1>1, <1>2 DEF RepairRecord
  <2>2. repair' = [repair EXCEPT ![n] = r]
    BY <1>4
  <2> HIDE DEF r
  <2>3. DataOK' /\ Shared' /\ repair'[n] = r
    BY <1>1, <1>2, <2>1, <2>2, Typed, RepairMoved
  <2> QED
    BY <1>1, <1>4, <2>1, <2>3, RepairPlaceKeeps
<1>5. CASE /\ repair' = [repair EXCEPT ![n].phase = "authoring", ![n].reviews = 0]
           /\ Goto(p, "repair_check") /\ lock' = lock
  <2> DEFINE r == [repair[n] EXCEPT !.phase = "authoring", !.reviews = 0]
  <2>1. r \in RepairRecord /\ r.phase = "authoring" /\ r.attempts = repair[n].attempts
        /\ r.calls = repair[n].calls /\ r.reviews = 0
    BY <1>2 DEF RepairRecord
  <2>2. repair' = [repair EXCEPT ![n] = r]
    BY <1>5, Typed DEF DataOK
  <2> HIDE DEF r
  <2>3. DataOK' /\ Shared' /\ repair'[n] = r
    BY <1>1, <1>2, <2>1, <2>2, Typed, RepairMoved
  <2> QED
    BY <1>1, <1>5, <2>1, <2>3, RepairPlaceKeeps
<1>6. CASE repair' = [repair EXCEPT ![n].verdict = "rejected"] /\ Return(p)
  <2> DEFINE r == [repair[n] EXCEPT !.verdict = "rejected"]
  <2>1. r \in RepairRecord /\ r.phase = "prepared" /\ r.attempts = repair[n].attempts
        /\ r.calls = repair[n].calls /\ r.reviews = repair[n].reviews
    BY <1>1, <1>2 DEF RepairRecord
  <2>2. repair' = [repair EXCEPT ![n] = r]
    BY <1>6
  <2> HIDE DEF r
  <2>3. DataOK' /\ Shared'
    BY <1>1, <1>2, <2>1, <2>2, Typed, RepairMoved
  <2> QED
    BY <1>1, <1>6, <2>3, Typed, ReturnEnds, LastStep
<1>7. CASE repair' = repair /\ Goto(p, "authority") /\ lock' = lock
  <2>1. DataOK' /\ Shared'
    BY <1>1, <1>7, Typed, SharedSame DEF DataOK, data
  <2> QED
    BY <1>1, <1>7, <2>1, RepairPlaceKeeps
<1>8. CASE repair' = [repair EXCEPT ![n].phase = "blocked"] /\ Return(p)
  <2> DEFINE r == [repair[n] EXCEPT !.phase = "blocked"]
  <2>1. r \in RepairRecord /\ r.phase = "blocked" /\ r.attempts = repair[n].attempts
        /\ r.calls = repair[n].calls /\ r.reviews = repair[n].reviews
    BY <1>2 DEF RepairRecord
  <2>2. repair' = [repair EXCEPT ![n] = r]
    BY <1>8
  <2> HIDE DEF r
  <2>3. DataOK' /\ Shared'
    BY <1>1, <1>2, <2>1, <2>2, Typed, RepairMoved
  <2> QED
    BY <1>1, <1>8, <2>3, Typed, ReturnEnds, LastStep
<1> QED
  BY <1>3, <1>4, <1>5, <1>6, <1>7, <1>8 DEF Review, RepairNode

LEMMA ReplacePlanKeeps ==
    ASSUME IInv, NEW p \in Procs, ReplacePlan(p)
    PROVE  IInv'
<1> DEFINE n == loc[p].node
<1>1. loc[p].pc = "publish" /\ lock = p /\ UNCHANGED <<config, prog, ref, child, handoff, repair>>
      /\ repair[n].phase = "prepared" /\ Accepted(n) /\ n \in Nodes
  BY InRepair, Typed DEF ReplacePlan, Repairing, At, RepairKnows
<1>2. CASE Return(p) /\ appended' = appended
  BY <1>1, <1>2, Typed, ReturnEnds, QuietEnd DEF data
<1>3. CASE CanPublish(n, loc[p].cfg) /\ appended' = PlanAfter(n) /\ Goto(p, "commit") /\ lock' = lock
  <2>1. appended' = appended \cup {n}
    BY <1>3 DEF CanPublish, PlanBefore, PlanAfter
  <2>2. DataOK' /\ Shared'
    <3>1. CASE n \in appended
      <4>1. appended' = appended
        BY <2>1, <3>1
      <4> QED
        BY <1>1, <4>1, Typed, SharedSame DEF DataOK, data
    <3>2. CASE n \notin appended
      <4>1. appended = PlanBefore(n)
        BY <1>3, <3>2 DEF CanPublish, PlanAfter
      <4>2. Artifact[n] \notin ref
        BY <1>1, <3>2, Typed DEF Shared, CommitsAreAppended, OnlyAppended
      <4>3. ref = repair[n].ver.candidate
        BY <1>3, <4>2 DEF CanPublish, Published
      <4>4. CurrentInput(n, loc[p].cfg)
        BY <1>3, <4>1, <4>3 DEF CanPublish
      <4> QED
        BY <1>1, <2>1, <3>2, <4>4, Typed, PlanGrown
    <3> QED
      BY <3>1, <3>2
  <2> QED
    BY <1>1, <1>3, <2>1, <2>2, RepairPlaceKeeps DEF Accepted
<1> QED
  BY <1>2, <1>3 DEF ReplacePlan, RepairNode

LEMMA CommitArtifactsKeeps ==
    ASSUME IInv, NEW p \in Procs, CommitArtifacts(p)
    PROVE  IInv'
<1> DEFINE n == loc[p].node
<1>1. loc[p].pc = "commit" /\ lock = p /\ UNCHANGED <<config, appended, prog, child, handoff, repair>>
      /\ repair[n].phase = "prepared" /\ Accepted(n) /\ n \in Nodes /\ n \in appended
  BY InRepair, Typed DEF CommitArtifacts, Repairing, At, RepairKnows
<1>2. CASE Return(p) /\ ref' = ref
  BY <1>1, <1>2, Typed, ReturnEnds, QuietEnd DEF data
<1>3. CASE /\ ref \in {repair[n].ver.candidate, Published(n)} /\ ref' = Published(n)
           /\ Goto(p, "mark") /\ lock' = lock
  <2>1. ref' = ref \cup {Artifact[n]}
    BY <1>3 DEF Published
  <2>2. ref' \in AnyCommit
    BY <1>1, <2>1, Typed, ArtifactsApart DEF DataOK, AnyCommit
  <2>3. HasPublished(repair, ref') /\ OnlyAppended(appended, ref')
    BY <1>1, <2>1, Typed, ArtifactsApart DEF Shared, PublishedIsThere, CommitsAreAppended,
       HasPublished, OnlyAppended
  <2>4. DataOK' /\ Shared'
    BY <1>1, <2>2, <2>3, Typed, BranchMoved
  <2> QED
    BY <1>1, <1>3, <2>1, <2>4, RepairPlaceKeeps DEF Accepted
<1> QED
  BY <1>2, <1>3 DEF CommitArtifacts, RepairNode

LEMMA MarkPublishedKeeps ==
    ASSUME IInv, NEW p \in Procs, MarkPublished(p)
    PROVE  IInv'
<1> DEFINE n == loc[p].node
<1>1. loc[p].pc = "mark" /\ lock = p /\ UNCHANGED <<config, appended, ref, child, handoff, repair>>
      /\ repair[n].phase = "prepared" /\ Accepted(n) /\ n \in Nodes /\ n \in appended /\ Artifact[n] \in ref
  BY InRepair, Typed DEF MarkPublished, Repairing, At, RepairKnows
<1>2. CASE Return(p) /\ prog' = prog
  BY <1>1, <1>2, Typed, ReturnEnds, QuietEnd DEF data
<1>3. CASE prog' = MarkAssembly(prog, ref, "ready") /\ Goto(p, "settle") /\ lock' = lock
  <2>1. prog.base # NoCommit /\ HasPublished(repair, ref) /\ OnlyAppended(appended, ref) /\ ref \in AnyCommit
    BY <1>1, Typed DEF Shared, BaseKnown, PublishedIsThere, CommitsAreAppended, DataOK
  <2>2. DataOK' /\ Shared' /\ prog'.assembled = ref
    BY <1>1, <1>3, <2>1, Typed, AssemblyMarked
  <2> QED
    BY <1>1, <1>3, <2>2, RepairPlaceKeeps DEF Accepted
<1> QED
  BY <1>2, <1>3 DEF MarkPublished, RepairNode

LEMMA SettleRepairKeeps ==
    ASSUME IInv, NEW p \in Procs, SettleRepair(p)
    PROVE  IInv'
<1> DEFINE n == loc[p].node
           r == [repair[n] EXCEPT !.phase = "published"]
           place == [Loop(p) EXCEPT !.pc = "advance", !.units = @ \cup {RepairUnit[n]}]
<1>1. loc[p].pc = "settle" /\ lock = p /\ UNCHANGED <<config, appended, prog, ref, child, handoff>>
      /\ repair[n].phase = "prepared" /\ n \in appended
      /\ Artifact[n] \in ref /\ Artifact[n] \in prog.assembled
      /\ repair' = [repair EXCEPT ![n] = r] /\ ContinueAs(p, place)
  BY InRepair DEF SettleRepair, Repairing, At, RepairKnows, RepairNode
<1>2. /\ repair[n] \in RepairRecord /\ n \in Nodes /\ prog.base # NoCommit
      /\ repair[n].calls <= repair[n].attempts /\ repair[n].attempts <= MaxAuthoring
      /\ repair[n].reviews <= MaxReviews /\ (n \in Renewed => repair[n].verdict = "approved")
  BY <1>1, RepairTyped DEF Accepted
<1>3. r \in RepairRecord /\ r.phase = "published" /\ r.attempts = repair[n].attempts
      /\ r.calls = repair[n].calls /\ r.reviews = repair[n].reviews /\ r.verdict = repair[n].verdict
  BY <1>2 DEF RepairRecord
<1>4. DataOK' /\ Shared'
  <2> HIDE DEF r, place
  <2> QED
    BY <1>1, <1>2, <1>3, Typed, RepairMoved
<1>5. place \in Local /\ place.pc \in FreePlaces
  <2>1. Loop(p) \in Local /\ Loop(p).units \in SUBSET AllUnits
    BY Typed, LoopTyped DEF Local
  <2>2. Loop(p).units \cup {RepairUnit[n]} \in SUBSET AllUnits
    BY <1>2, <2>1, RepairUnitsApart
  <2>3. "advance" \in FreePlaces /\ "advance" \in Places
    BY DEF FreePlaces, Places
  <2> QED
    BY <2>1, <2>2, <2>3 DEF Local
<1>6. Ends(p)
  <2> HIDE DEF r, place
  <2> QED
    BY <1>1, <1>5, Typed, ContinueEnds
<1> QED
  BY <1>1, <1>4, <1>6, LastStep

LEMMA RepairStepKeeps ==
    ASSUME IInv, NEW p \in Procs, RepairStep(p)
    PROVE  IInv'
BY StartRepairKeeps, CheckRepairKeeps, ReserveAuthoringKeeps, DraftKeeps, ReserveReviewKeeps,
   ReviewKeeps, ReplacePlanKeeps, CommitArtifactsKeeps, MarkPublishedKeeps, SettleRepairKeeps
   DEF RepairStep

(***************************************************************************)
(* The steps of a finalization.                                            *)
(***************************************************************************)
LEMMA Finalized ==
    ASSUME DataOK, Shared, prog' = MarkFinalized(prog, prog.ver["root"].candidate),
           NEW cfg, FinalizePreflight(cfg), UNCHANGED <<appended, ref, child, handoff, repair>>
    PROVE  DataOK' /\ Shared'
<1>1. prog \in Progress /\ prog.ver["root"].candidate \in AnyCommit
  BY RootIsNode DEF DataOK, Progress, Verification
<1>2. prog' \in Progress /\ prog'.units = prog.units /\ prog'.base = prog.base
      /\ prog'.assembled = prog.assembled /\ prog'.assembly = prog.assembly
      /\ prog'.ver = prog.ver /\ prog'.final = prog.ver["root"].candidate
  BY <1>1 DEF Progress, MarkFinalized
<1>3. DataOK'
  BY <1>2 DEF DataOK
<1>4. FinalWhole'
  <2>1. /\ prog.ver["root"].status = "passed" /\ prog.assembled = prog.ver["root"].candidate
        /\ prog.ver["root"].plan = appended /\ ref = prog.ver["root"].candidate
        /\ \A n \in Checkpoints : prog.ver[n].status = "passed"
    BY DEF FinalizePreflight, VerificationFinal, GateCurrent, Usable
  <2>2. \A u \in ActiveUnits : DoneIn(prog, u) /\ prog.units[u].commit \subseteq ref
    BY DEF FinalizePreflight, Done, DoneIn
  <2> QED
    BY <1>2, <2>1, <2>2 DEF FinalWhole, Nodes, ActiveUnits, DoneIn
<1>5. Budgets' /\ AppendedAccepted' /\ PublishedIsThere' /\ CommitsAreAppended' /\ BaseKnown' /\ RootCovered'
  BY <1>2 DEF Shared, Budgets, AppendedAccepted, Accepted, PublishedIsThere, CommitsAreAppended,
     BaseKnown, RootCovered, About, Covers, DoneIn
<1>6. ChildrenLinked' /\ DoneComposes' /\ StartedOnPrerequisites'
  BY <1>2 DEF Shared, ChildrenLinked, DoneComposes, StartedOnPrerequisites, ActiveUnits,
              StandsOn, DoneIn
<1> QED
  BY <1>3, <1>4, <1>5, <1>6 DEF Shared

LEMMA FinalizeStepKeeps ==
    ASSUME IInv, NEW p \in Procs, FinalizeStep(p)
    PROVE  IInv'
<1>1. UNCHANGED <<config, appended, ref, child, handoff, repair>>
  BY DEF FinalizeStep, StartFinalize, RepairFinalizationEvent, RecordFinalization, LogFinalization,
         Finalizing
<1>2. CASE StartFinalize(p)
  <2>1. UNCHANGED <<config, data>>
    BY <1>1, <1>2 DEF StartFinalize, data
  <2>2. CASE Return(p)
    BY <2>1, <2>2, Typed, ReturnEnds, QuietEnd
  <2>3. CASE Acquire(p, "finalizing")
    BY <2>1, <2>3, AcquireKeeps
  <2> QED
    BY <1>2, <2>2, <2>3 DEF StartFinalize
<1>3. CASE RepairFinalizationEvent(p) \/ LogFinalization(p)
  <2>1. UNCHANGED <<config, data>> /\ Return(p)
    BY <1>1, <1>3 DEF RepairFinalizationEvent, LogFinalization, data
  <2> QED
    BY <2>1, Typed, ReturnEnds, QuietEnd
<1>4. CASE RecordFinalization(p)
  <2>1. loc[p].pc = "finalizing" /\ lock = p
    BY <1>4, Typed DEF RecordFinalization, Finalizing, At, Knows, LockedPlaces
  <2>2. CASE Return(p) /\ prog' = prog
    BY <1>1, <2>2, Typed, ReturnEnds, QuietEnd DEF data
  <2>3. CASE /\ FinalizePreflight(loc[p].cfg) /\ Goto(p, "log_final") /\ lock' = lock
             /\ prog' = MarkFinalized(prog, prog.ver["root"].candidate)
    <3>1. DataOK' /\ Shared'
      BY <1>1, <2>3, Typed, Finalized
    <3>2. OnlyMoves(p) /\ loc'[p].pc = "log_final"
      <4>1. "log_final" \in Places
        BY DEF Places, LockedPlaces
      <4> QED
        BY <2>3, <4>1, Typed, GotoFacts
    <3>3. Knows(p)'
      BY <2>1, <2>3, <3>2 DEF Knows, ChildKnows, GateKnows, RepairKnows, At, AssemblyPlaces, ChildPlaces
    <3> QED
      BY <1>1, <2>1, <3>1, <3>2, <3>3, OneStep
  <2> QED
    BY <1>4, <2>2, <2>3 DEF RecordFinalization
<1> QED
  BY <1>2, <1>3, <1>4 DEF FinalizeStep
(***************************************************************************)
(* The invariant holds.                                                    *)
(***************************************************************************)
LEMMA InitHolds == Init => IInv
<1> SUFFICES ASSUME Init PROVE IInv
  OBVIOUS
<1>1. NewProgress \in Progress /\ NoChild \in Child
  BY NoneTyped, SmallCommits DEF NewProgress, Progress, NoChild, Child
<1>2. NoRepair \in RepairRecord
  BY <1>1, NoneTyped DEF NoRepair, RepairRecord
<1>3. DataOK /\ TypeOK
  BY <1>1, <1>2, IdleTyped, SmallCommits DEF Init, DataOK, TypeOK
<1>4. /\ prog = NewProgress /\ appended = {} /\ ref = NoCommit
      /\ \A n \in Nodes : repair[n] = NoRepair /\ prog.ver[n] = NoVerification
      /\ \A u \in AllUnits : prog.units[u] = PendingUnit /\ child[u] = NoChild
      /\ prog.final = NoCommit /\ prog.assembled = NoCommit /\ prog.assembly = "none"
  BY DEF Init, NewProgress
<1>5. HasPublished(repair, ref) /\ HasPublished(repair, prog.assembled)
      /\ OnlyAppended(appended, NoCommit)
  BY <1>4, ArtifactsApart DEF HasPublished, NoRepair, OnlyAppended, NoCommit
<1>6. Budgets
  <2>1. 0 <= 0 /\ 0 <= MaxAuthoring /\ 0 <= MaxReviews
    BY StateConstants, RepairConstants
  <2> QED
    BY <1>4, <2>1 DEF Budgets, NoRepair
<1>7. AppendedAccepted /\ PublishedIsThere /\ BaseKnown
  BY <1>4, <1>5, RepairUnitsApart DEF AppendedAccepted, PublishedIsThere, BaseKnown, NoRepair, PendingUnit
<1>8. CommitsAreAppended
  BY <1>4, <1>5 DEF CommitsAreAppended, PendingUnit, NoChild
<1>9. RootCovered /\ FinalWhole
  BY <1>4, NoRecord, RootIsNode DEF RootCovered, FinalWhole, About, Covers
<1>10. ChildrenLinked
  <2>1. 0 <= 1
    OBVIOUS
  <2> QED
    BY <1>4, <2>1 DEF ChildrenLinked, PendingUnit, NoChild
<1>11. DoneComposes /\ StartedOnPrerequisites
  <2>1. ActiveUnits \subseteq AllUnits
    BY <1>3, UnitsOfTyped DEF DataOK, ActiveUnits
  <2> QED
    BY <1>4, <2>1 DEF DoneComposes, StartedOnPrerequisites, PendingUnit, DoneIn
<1>12. \A p \in Procs : Knows(p)
  BY IdleTyped, PlacesApart DEF Init, Knows
<1> QED
  BY <1>3, <1>6, <1>7, <1>8, <1>9, <1>10, <1>11, <1>12 DEF IInv, Shared

LEMMA NextKeeps == IInv /\ [Next]_vars => IInv'
<1> SUFFICES ASSUME IInv, [Next]_vars PROVE IInv'
  OBVIOUS
<1>1. CASE UNCHANGED vars
  <2>1. TypeOK' /\ Shared' /\ UNCHANGED <<data, loc, lock>>
    BY <1>1, SharedSame DEF vars, IInv, TypeOK, DataOK, data
  <2>2. \A q \in Procs : Knows(q)'
    BY <2>1, KnowsSame DEF IInv
  <2> QED
    BY <2>1, <2>2 DEF IInv
<1>2. ASSUME NEW p \in Procs, CommandStep(p) \/ StartCommand(p) \/ Kill(p)
      PROVE  IInv'
  BY <1>2, AssemblyStepKeeps, RunNextStepKeeps, VerifyStepKeeps, RepairStepKeeps, FinalizeStepKeeps,
     CheckpointRoundKeeps, CheckHandoffKeeps, AdvanceRoundKeeps, StopAtLimitKeeps,
     StartCommandKeeps, KillKeeps DEF CommandStep
<1> QED
  BY <1>1, <1>2, UsersKeep DEF Next

\* The invariant holds, whatever is killed, edited or pushed between two steps.
THEOREM DeliveryInvariant == Spec => []IInv
BY InitHolds, NextKeeps, PTL DEF Spec

(***************************************************************************)
(* What it says.                                                           *)
(***************************************************************************)
\* write_delivery_progress never refuses a record: an assembly has a base, and what the
\* root's verification and the finalization name is the assembled candidate.
THEOREM DeliveryWritable == Spec => []ProgressWritable
<1>1. IInv => ProgressWritable
  BY RootIsNode DEF IInv, Shared, BaseKnown, RootCovered, About, FinalWhole, ProgressWritable, ValidProgress
<1> QED
  BY <1>1, DeliveryInvariant, PTL

\* A recorded final commit was verified as a whole under the present plan, has the
\* results of all units, and carries the plan.yaml that is in the checkout.
THEOREM DeliveryFinalVerified == Spec => []FinalIsVerified
<1>1. ASSUME IInv PROVE FinalIsVerified
  <2> SUFFICES ASSUME prog.final # NoCommit
               PROVE  /\ prog.ver["root"].status = "passed"
                      /\ prog.ver["root"].candidate = prog.final /\ prog.assembled = prog.final
                      /\ prog.ver["root"].plan = appended /\ PublishedPlan(prog.final) = appended
                      /\ \A u \in ActiveUnits :
                           prog.units[u].status = "done" /\ prog.units[u].commit \subseteq prog.final
    BY DEF FinalIsVerified
  <2>1. Shared /\ appended \in SUBSET Nodes
    BY <1>1 DEF IInv, TypeOK, DataOK
  <2>2. /\ \A n \in Nodes : prog.ver[n].status = "passed"
        /\ prog.ver["root"].candidate = prog.final /\ prog.assembled = prog.final
        /\ prog.ver["root"].plan = appended
        /\ \A u \in ActiveUnits : prog.units[u].status = "done" /\ prog.units[u].commit \subseteq prog.final
    BY <2>1 DEF Shared, FinalWhole, DoneIn
  <2>3. ASSUME NEW n \in Nodes PROVE Artifact[n] \in prog.final <=> n \in appended
    <3>1. ASSUME n \in appended PROVE repair[n].phase = "published"
      <4>1. prog.units[RepairUnit[n]].status = "done"
        BY <2>1, <2>2, <3>1, ActiveRepairUnit DEF ActiveUnits
      <4> QED
        BY <2>1, <4>1 DEF Shared, PublishedIsThere
    <3> QED
      BY <2>1, <2>2, <3>1 DEF Shared, PublishedIsThere, CommitsAreAppended, OnlyAppended, HasPublished
  <2>4. PublishedPlan(prog.final) = appended
    BY <2>1, <2>3 DEF PublishedPlan
  <2> QED
    BY <2>2, <2>4, RootIsNode
<1> QED
  BY <1>1, DeliveryInvariant, PTL

\* A pass of the root is dropped with every unit that is recorded after it: its
\* candidate has the results of all units of the plan it judged.
THEOREM DeliveryPassCovers == Spec => []PassedCoversResults
<1>1. IInv => PassedCoversResults
  BY DEF IInv, Shared, RootCovered, Covers, PassedCoversResults, DoneIn
<1> QED
  BY <1>1, DeliveryInvariant, PTL

\* What a unit builds on is done and in its commit, when that holds of prerequisites.
LEMMA LineageStands ==
    ASSUME IInv, NEW u \in ActiveUnits, NEW commit, StandsOn(prog, appended, u, commit),
           NEW d \in Lineage(appended, u), d # u
    PROVE  d \in ActiveUnits /\ DoneIn(prog, d) /\ prog.units[d].commit \subseteq commit
<1> DEFINE s == {u} \cup {w \in ActiveUnits : DoneIn(prog, w) /\ prog.units[w].commit \subseteq commit}
<1>1. appended \in SUBSET Nodes /\ ActiveUnits = UnitsOf(appended) /\ ActiveUnits \subseteq AllUnits /\ Shared
  BY UnitsOfTyped DEF IInv, TypeOK, DataOK, ActiveUnits
<1>2. ASSUME NEW w \in s, NEW e \in Prerequisites(appended, w) PROVE e \in s
  <2>1. e \in ActiveUnits
    BY <1>1, <1>2, PrerequisitesAreUnits
  <2>2. StandsOn(prog, appended, w, commit)
    <3>1. CASE w = u
      BY <3>1
    <3>2. CASE w # u
      BY <1>1, <3>2 DEF Shared, DoneComposes, StandsOn
    <3> QED
      BY <3>1, <3>2
  <2> QED
    BY <1>2, <2>1, <2>2 DEF StandsOn
<1>3. Closed(appended, s) /\ s \in SUBSET AllUnits /\ u \in s
  BY <1>1, <1>2 DEF Closed
<1>4. Lineage(appended, u) \subseteq s
  <2> HIDE DEF s
  <2> QED
    BY <1>1, <1>3, LineageIsLeast
<1> QED
  BY <1>4

\* A unit recorded done has its handoff, and its commit the results of everything it
\* builds on, however far down its prerequisites it lies.
THEOREM DeliveryDoneComposes == Spec => []DoneUnitsCompose
<1>1. ASSUME IInv PROVE DoneUnitsCompose
  <2> SUFFICES ASSUME NEW u \in ActiveUnits, prog.units[u].status = "done"
               PROVE  /\ u \in handoff
                      /\ \A d \in BuildsOn(appended, {u}) :
                           prog.units[d].status = "done" /\ prog.units[d].commit \subseteq prog.units[u].commit
    BY DEF DoneUnitsCompose
  <2>1. u \in handoff /\ StandsOn(prog, appended, u, prog.units[u].commit)
    BY <1>1 DEF IInv, Shared, DoneComposes, DoneIn
  <2>2. appended \in SUBSET Nodes /\ {u} \in SUBSET AllUnits
    BY <1>1, UnitsOfTyped DEF IInv, TypeOK, DataOK, ActiveUnits
  <2>3. ASSUME NEW d \in BuildsOn(appended, {u}), d # u
        PROVE  prog.units[d].status = "done" /\ prog.units[d].commit \subseteq prog.units[u].commit
    <3>1. d \in Lineage(appended, u)
      BY <2>2, <2>3, BuildsOnMember
    <3> QED
      BY <1>1, <2>1, <2>3, <3>1, LineageStands DEF DoneIn
  <2> QED
    BY <2>1, <2>3
<1> QED
  BY <1>1, DeliveryInvariant, PTL

\* No child works behind a checkpoint from a commit that lacks the repair published at it.
THEOREM DeliveryBuiltOnRepairs == Spec => []BuiltOnRepairs
<1>1. ASSUME IInv PROVE BuiltOnRepairs
  <2> SUFFICES ASSUME NEW n \in appended \cap Checkpoints, NEW u \in RuntimeConsumers(appended, n),
                      child[u].wt
               PROVE  RepairUnit[n] \in child[u].start
    BY DEF BuiltOnRepairs
  <2>1. Shared /\ appended \in SUBSET Nodes /\ n \in Nodes
    BY <1>1 DEF IInv, TypeOK, DataOK
  <2>2. u \in ActiveUnits /\ u \in AllUnits /\ u \notin ScopeUnits(appended, n)
    BY <2>1, ConsumerBuildsOnScope, UnitsOfTyped DEF ActiveUnits
  <2>3. StandsOn(prog, appended, u, child[u].start)
    BY <2>1, <2>2 DEF Shared, ChildrenLinked, StartedOnPrerequisites
  <2>4. RepairUnit[n] \in Lineage(appended, u) /\ RepairUnit[n] # u
    BY <2>1, <2>2, ConsumersBuildOnRepair, ScopeOfCheckpoint
  <2>5. LET d == RepairUnit[n] IN
        d \in ActiveUnits /\ DoneIn(prog, d) /\ prog.units[d].commit \subseteq child[u].start
    BY <1>1, <2>2, <2>3, <2>4, LineageStands
  <2> QED
    BY <2>1, <2>5 DEF Shared, DoneComposes
<1> QED
  BY <1>1, DeliveryInvariant, PTL

\* create_child, link_child and the recovery of a killed run-next start one child's
\* work per unit at most.
THEOREM DeliveryOneChild == Spec => []OneChildWorks
<1>1. IInv => OneChildWorks
  BY DEF IInv, Shared, ChildrenLinked, OneChildWorks
<1> QED
  BY <1>1, DeliveryInvariant, PTL

\* A repair unit is scheduled only once its publication is settled: plan.yaml, branch
\* and progress.json all have it.
THEOREM DeliveryPublishedFirst == Spec => []RepairsPublishedFirst
<1>1. IInv => RepairsPublishedFirst
  BY DEF IInv, Shared, PublishedIsThere, HasPublished, RepairsPublishedFirst
<1> QED
  BY <1>1, DeliveryInvariant, PTL

\* Calls are reserved in the repair file before they are made, so a killed or repeated
\* repair never exceeds its authoring and review budgets, and nothing is appended to
\* plan.yaml that a required review has not approved.
THEOREM DeliveryRepairBudget == Spec => []RepairWithinBudget
<1>1. ASSUME IInv PROVE RepairWithinBudget
  <2> SUFFICES ASSUME NEW n \in Nodes
               PROVE  /\ repair[n].calls <= MaxAuthoring /\ repair[n].reviews <= MaxReviews
                      /\ n \in appended /\ n \in Renewed => repair[n].verdict = "approved"
    BY DEF RepairWithinBudget
  <2>1. repair[n].calls \in Nat /\ repair[n].attempts \in Nat /\ MaxAuthoring \in Nat
    BY <1>1, StateConstants DEF IInv, TypeOK, DataOK, RepairRecord
  <2>2. repair[n].calls <= repair[n].attempts /\ repair[n].attempts <= MaxAuthoring
        /\ repair[n].reviews <= MaxReviews
    BY <1>1 DEF IInv, Shared, Budgets
  <2>3. n \in appended /\ n \in Renewed => repair[n].verdict = "approved"
    BY <1>1 DEF IInv, Shared, AppendedAccepted, Accepted
  <2> QED
    BY <2>1, <2>2, <2>3
<1> QED
  BY <1>1, DeliveryInvariant, PTL
(***************************************************************************)
(* What no step does.                                                      *)
(***************************************************************************)
LEMMA BranchGrows ==
    ASSUME IInv, [Next]_vars, ref # NoCommit, loc' # loc
    PROVE  ref \subseteq ref'
<1>1. CASE ref' = ref
  BY <1>1
<1>2. ASSUME NEW p \in Procs, CommandStep(p), ref' # ref
      PROVE  ref \subseteq ref'
  <2>1. CASE AssemblyStep(p)
    <3>1. CASE CreateBranch(p)
      <4>1. loc[p].cur = NoCommit
        BY <3>1, Typed DEF CreateBranch, Assembling, At, Knows, AssemblyKnows, AssemblyPlaces, LockedPlaces
      <4>2. ref = loc[p].cur
        BY <1>2, <3>1 DEF CreateBranch, Advance
      <4> QED
        BY <4>1, <4>2
    <3>2. CASE ApplyUnit(p)
      BY <1>2, <3>2 DEF ApplyUnit, Advance
    <3>3. CASE ~CreateBranch(p) /\ ~ApplyUnit(p)
      BY <1>2, <2>1, <3>3 DEF AssemblyStep, RecordBase, ReadBranch, MergeConflict, RecordAssembly,
         RecordAssemblyFailure, StartReconcile, ReconcileAssembly
    <3> QED
      BY <3>1, <3>2, <3>3
  <2>2. CASE RunNextStep(p)
    BY <1>2, <2>2 DEF RunNextStep, StartRunNext, RefuseUnit, RefuseRecovery, ReconcileChild,
       ResumeChild, RetryChild, ResetChild, SelectUnit, StartUnit, CreateChild, LinkChild,
       RestoreProgress, CreateWorktree, Work, FinalizeChild, WriteHandoff, RecordDone, RecordFailed,
       InRunNext
  <2>3. CASE VerifyStep(p)
    BY <1>2, <2>3 DEF VerifyStep, StartVerify, RepairVerificationEvent, Capture, MarkRunning,
       LogRunning, ExecuteGate, PersistVerdict, GiveUpVerdict, MarkStale, LogVerdict, Verifying
  <2>4. CASE RepairStep(p)
    <3>1. CommitArtifacts(p)
      BY <1>2, <2>4 DEF RepairStep, StartRepair, CheckRepair, ReserveAuthoring, Draft, ReserveReview,
         Review, ReplacePlan, MarkPublished, SettleRepair
    <3> QED
      BY <1>2, <3>1 DEF CommitArtifacts, Published
  <2>5. CASE FinalizeStep(p)
    BY <1>2, <2>5 DEF FinalizeStep, StartFinalize, RepairFinalizationEvent, RecordFinalization,
       LogFinalization, Finalizing
  <2>6. CASE CheckpointRound(p) \/ CheckHandoff(p) \/ AdvanceRound(p) \/ StopAtLimit(p)
    BY <1>2, <2>6 DEF CheckpointRound, CheckHandoff, AdvanceRound, StopAtLimit, Looping
  <2> QED
    BY <1>2, <2>1, <2>2, <2>3, <2>4, <2>5, <2>6 DEF CommandStep
<1>3. CASE UNCHANGED vars \/ RemoveStaleLock \/ EditSource \/ EditConfig
           \/ \E p \in Procs : StartCommand(p) \/ Kill(p)
  BY <1>3 DEF vars, RemoveStaleLock, EditSource, EditConfig, StartCommand, Kill
<1>4. CASE PushToBranch
  BY <1>4 DEF PushToBranch
<1> QED
  BY <1>1, <1>2, <1>3, <1>4 DEF Next

\* No step of a command takes a commit off the final branch: it is moved only from the
\* tip the command has read (git update-ref with the old value).
THEOREM DeliveryBranchGrows == Spec => BranchOnlyGrows
<1>1. IInv /\ [Next]_vars => [ref # NoCommit /\ loc' # loc => ref \subseteq ref']_vars
  BY BranchGrows
<1> QED
  BY <1>1, DeliveryInvariant, PTL DEF Spec, BranchOnlyGrows

LEMMA RetainedStop ==
    ASSUME NEW v PROVE IsBoundaryStop(v) => IsBoundaryStop(Retained(v))
BY DEF Retained

LEMMA UpsertKeepsStops ==
    ASSUME DataOK, NEW u \in AllUnits, NEW unit, prog' = UpsertUnit(prog, u, unit),
           NEW n \in Nodes, IsBoundaryStop(prog.ver[n])
    PROVE  IsBoundaryStop(prog'.ver[n])
<1>1. prog.ver \in [Nodes -> Verification] /\ prog \in Progress
  BY DEF DataOK, Progress
<1> DEFINE root == Retained(prog.ver["root"])
<1>2. prog' = prog \/ prog'.ver = [prog.ver EXCEPT !["root"] = root]
  BY <1>1 DEF UpsertUnit, Progress
<1>3. n = "root" => IsBoundaryStop(root)
  BY RetainedStop
<1> HIDE DEF root
<1> QED
  BY <1>1, <1>2, <1>3

LEMMA AssemblyKeepsStops ==
    ASSUME DataOK, NEW commit, NEW status, prog' = MarkAssembly(prog, commit, status),
           NEW n \in Nodes, IsBoundaryStop(prog.ver[n])
    PROVE  IsBoundaryStop(prog'.ver[n])
<1>1. prog.ver \in [Nodes -> Verification] /\ prog \in Progress
  BY DEF DataOK, Progress
<1> DEFINE root == IF prog.assembled = commit /\ prog.assembly = status
                   THEN prog.ver["root"] ELSE Retained(prog.ver["root"])
<1>2. prog'.ver = [prog.ver EXCEPT !["root"] = root]
  BY <1>1 DEF MarkAssembly, Progress
<1>3. n = "root" => IsBoundaryStop(root)
  BY RetainedStop
<1> HIDE DEF root
<1> QED
  BY <1>1, <1>2, <1>3

LEMMA VerificationKeepsStops ==
    ASSUME DataOK, NEW m \in Nodes, NEW v, prog' = MarkVerification(prog, m, v),
           IsBoundaryStop(prog.ver[m]) => IsBoundaryStop(v),
           NEW n \in Nodes, IsBoundaryStop(prog.ver[n])
    PROVE  IsBoundaryStop(prog'.ver[n])
<1>1. prog.ver \in [Nodes -> Verification] /\ prog \in Progress
  BY DEF DataOK, Progress
<1>2. prog'.ver = [prog.ver EXCEPT ![m] = v]
  BY <1>1 DEF MarkVerification, Progress
<1> QED
  BY <1>1, <1>2

LEMMA StopsStay ==
    ASSUME IInv, [Next]_vars, Checkpoints # {}, NEW n \in Nodes, IsBoundaryStop(prog.ver[n])
    PROVE  IsBoundaryStop(prog'.ver[n])
<1>1. CASE prog' = prog
  BY <1>1
<1>2. ASSUME NEW p \in Procs, CommandStep(p), prog' # prog
      PROVE  IsBoundaryStop(prog'.ver[n])
  <2> DEFINE m == loc[p].node
  <2>1. DataOK /\ m \in Nodes /\ Node(p) = m /\ Record(p) = prog.ver[m]
    BY Typed DEF Node, Record
  <2>2. CASE AssemblyStep(p)
    <3>1. CASE RecordBase(p)
      BY <2>1, <3>1 DEF RecordBase, DataOK, Progress
    <3>2. CASE RecordAssembly(p) \/ RecordAssemblyFailure(p)
      BY <2>1, <3>2, AssemblyKeepsStops DEF RecordAssembly, RecordAssemblyFailure
    <3> QED
      BY <1>2, <2>2, <3>1, <3>2 DEF AssemblyStep, ReadBranch, CreateBranch, ApplyUnit, Advance,
         MergeConflict, StartReconcile, ReconcileAssembly
  <2>3. CASE RunNextStep(p)
    <3>1. CASE RetryChild(p)
      BY <2>1, <3>1, Typed, UpsertKeepsStops DEF RetryChild
    <3>2. ASSUME loc[p].pc \in {"start", "link", "restore", "exited", "exited_with_error", "record_done"}
          PROVE  loc[p].sel \in AllUnits
      BY <3>2, Typed, AtChild, AtNewChild DEF ChildPlaces, Knows, LockedPlaces, ChildKnows, At, ToStart,
         SettledUnit
    <3>3. CASE StartUnit(p) \/ LinkChild(p) \/ RestoreProgress(p) \/ WriteHandoff(p) \/ RecordDone(p)
               \/ RecordFailed(p)
      BY <1>2, <2>1, <3>2, <3>3, UpsertKeepsStops DEF StartUnit, LinkChild, RestoreProgress,
         WriteHandoff, RecordDone, RecordFailed, InRunNext, At
    <3> QED
      BY <1>2, <2>3, <3>1, <3>3 DEF RunNextStep, StartRunNext, RefuseUnit, RefuseRecovery, ReconcileChild,
         ResumeChild, ResetChild, SelectUnit, CreateChild, CreateWorktree, Work, FinalizeChild
  <2>4. CASE VerifyStep(p)
    <3>1. CASE MarkRunning(p)
      <4>1. ~IsBoundaryStop(prog.ver[m])
        BY <1>2, <2>1, <3>1 DEF MarkRunning, Preflight
      <4> QED
        BY <1>2, <2>1, <3>1, <4>1, VerificationKeepsStops DEF MarkRunning
    <3>2. CASE LogRunning(p)
      <4>1. ~IsBoundaryStop(prog.ver[m])
        BY <3>2, Typed DEF LogRunning, Verifying, At, Knows, LockedPlaces, GateKnows, IsBoundaryStop
      <4> QED
        BY <1>2, <2>1, <3>2, <4>1, VerificationKeepsStops DEF LogRunning
    <3>3. CASE PersistVerdict(p)
      <4>1. IsBoundaryStop(prog.ver[m]) => IsBoundaryStop(Final(p))
        BY <2>1 DEF Final
      <4> QED
        BY <1>2, <2>1, <3>3, <4>1, VerificationKeepsStops DEF PersistVerdict
    <3>4. CASE MarkStale(p)
      <4>1. ~IsBoundaryStop(prog.ver[m])
        BY <1>2, <2>1, <3>4 DEF MarkStale, IsBoundaryStop
      <4> QED
        BY <1>2, <2>1, <3>4, <4>1, VerificationKeepsStops DEF MarkStale
    <3> QED
      BY <1>2, <2>4, <3>1, <3>2, <3>3, <3>4 DEF VerifyStep, StartVerify, RepairVerificationEvent,
         Capture, ExecuteGate, GiveUpVerdict, LogVerdict
  <2>5. CASE RepairStep(p)
    <3>1. MarkPublished(p)
      BY <1>2, <2>5 DEF RepairStep, StartRepair, CheckRepair, ReserveAuthoring, Draft, ReserveReview,
         Review, ReplacePlan, CommitArtifacts, SettleRepair
    <3> QED
      BY <1>2, <2>1, <3>1, AssemblyKeepsStops DEF MarkPublished
  <2>6. CASE FinalizeStep(p)
    <3>1. RecordFinalization(p) /\ prog' = MarkFinalized(prog, prog.ver["root"].candidate)
      BY <1>2, <2>6 DEF FinalizeStep, StartFinalize, RepairFinalizationEvent, RecordFinalization,
         LogFinalization
    <3>2. prog'.ver = prog.ver
      BY <2>1, <3>1 DEF MarkFinalized, DataOK, Progress
    <3> QED
      BY <3>2
  <2>7. CASE CheckpointRound(p) \/ CheckHandoff(p) \/ AdvanceRound(p) \/ StopAtLimit(p)
    BY <1>2, <2>7 DEF CheckpointRound, CheckHandoff, AdvanceRound, StopAtLimit, Looping
  <2> QED
    BY <1>2, <2>2, <2>3, <2>4, <2>5, <2>6, <2>7 DEF CommandStep
<1>3. CASE UNCHANGED vars \/ RemoveStaleLock \/ PushToBranch \/ EditSource \/ EditConfig
           \/ \E p \in Procs : StartCommand(p) \/ Kill(p)
  BY <1>3 DEF vars, RemoveStaleLock, PushToBranch, EditSource, EditConfig, StartCommand, Kill
<1> QED
  BY <1>1, <1>2, <1>3 DEF Next

\* A recorded boundary stop stays: upsert_delivery_unit_progress, mark_delivery_assembly
\* and the verdicts keep it.  Only a plan with checkpoints has this guarantee; without
\* them _preflight_result does not ask for boundary stops, and the next verification
\* of the root replaces one.
THEOREM DeliveryStopsStay == Checkpoints # {} => (Spec => BoundaryRetained)
<1> SUFFICES ASSUME Checkpoints # {} PROVE Spec => BoundaryRetained
  OBVIOUS
<1>1. IInv /\ [Next]_vars =>
        [\A n \in Nodes : IsBoundaryStop(prog.ver[n]) => IsBoundaryStop(prog'.ver[n])]_vars
  BY StopsStay
<1> QED
  BY <1>1, DeliveryInvariant, PTL DEF Spec, BoundaryRetained
=============================================================================
