-------------------------- MODULE DeliveryProgress --------------------------
(***************************************************************************)
(* The progress record of a delivery plan (core/delivery_progress.py) and  *)
(* the plan it follows (core/delivery_plan.py), as operators on records.   *)
(*                                                                         *)
(* A commit is the set of changes reachable from it: the results of units, *)
(* the published plan artifacts of repairs, and changes of others.  "Is an *)
(* ancestor of" is then \subseteq, a merge is \cup, and the assembly base  *)
(* is {}.  Timestamps, branch names and wording are left out.              *)
(***************************************************************************)
EXTENDS Naturals, FiniteSets, Sequences

CONSTANTS
    Units,          \* units the plan is written with, in plan order
    DependsOn,      \* [unit -> set of units] the plan is written with
    Checkpoints,    \* checkpoints of the plan; each is a child of the root
    UnitIds,        \* [checkpoint -> units it covers]
    RepairUnit,     \* [node -> the unit an integration repair of it appends]
    Artifact,       \* [node -> the change that publishes that unit]
    Foreign         \* a change somebody else pushes to the final branch

PlanUnits == {Units[i] : i \in DOMAIN Units}
Nodes == Checkpoints \cup {"root"}
RepairUnits == {RepairUnit[n] : n \in Nodes}
AllUnits == PlanUnits \cup RepairUnits
Artifacts == {Artifact[n] : n \in Nodes}
Changes == AllUnits \cup Artifacts \cup {Foreign}
Commits == SUBSET Changes
Base == {}
NoCommit == {"none"}

ASSUME DeliveryConstants ==
    /\ "root" \notin Checkpoints
    /\ "none" \notin Changes
    /\ DependsOn \in [PlanUnits -> SUBSET PlanUnits]
    /\ UnitIds \in [Checkpoints -> SUBSET PlanUnits]
    \* Identities are unique.
    /\ RepairUnits \cap PlanUnits = {}
    /\ Artifacts \cap AllUnits = {} /\ Foreign \notin AllUnits \cup Artifacts
    /\ \A m, n \in Nodes : m # n => RepairUnit[m] # RepairUnit[n] /\ Artifact[m] # Artifact[n]
    \* A checkpoint covers something.
    /\ \A n \in Checkpoints : UnitIds[n] # {}
    \* Checkpoints are independent of each other.
    /\ \A m, n \in Checkpoints : m # n =>
         /\ UnitIds[m] \cap UnitIds[n] = {}
         /\ \A u \in UnitIds[n] : DependsOn[u] \cap UnitIds[m] = {}

(***************************************************************************)
(* The plan.  A repair of a node appends a unit that depends on the units  *)
(* it repairs, to the node and to the prerequisites of the node's          *)
(* consumers.  A plan is the set of the nodes whose repair is in plan.yaml.*)
(***************************************************************************)
ScopeUnits(plan, n) ==
    IF n = "root" THEN PlanUnits \cup {RepairUnit[m] : m \in plan}
    ELSE UnitIds[n] \cup {RepairUnit[m] : m \in plan \cap {n}}

Prerequisites(plan, u) ==
    IF u \in RepairUnits
    THEN UNION {ScopeUnits(plan \ {n}, n) : n \in {m \in Nodes : RepairUnit[m] = u}}
    ELSE DependsOn[u] \cup
         {RepairUnit[n] : n \in {m \in plan \cap Checkpoints :
                u \notin UnitIds[m] /\ DependsOn[u] \cap UnitIds[m] # {}}}

UnitsOf(plan) == ScopeUnits(plan, "root")

\* A unit builds on the units in the least set that has it and the prerequisites of
\* each of its members.
Closed(plan, s) == \A u \in s : Prerequisites(plan, u) \subseteq s
Lineage(plan, u) ==
    {d \in AllUnits : \A s \in SUBSET AllUnits : u \in s /\ Closed(plan, s) => d \in s}
Builds == {e \in {<<plan, u, d>> : plan \in SUBSET Nodes, u \in AllUnits, d \in AllUnits} :
            e[3] \in Lineage(e[1], e[2])}

\* The units of a set and all they build on.
BuildsOn(plan, s0) == s0 \cup {d \in AllUnits : \E u \in s0 : <<plan, u, d>> \in Builds}

\* _checkpoint_runtime_consumers: everything that reads a member's result.
RuntimeConsumers(plan, n) ==
    {u \in UnitsOf(plan) : BuildsOn(plan, {u}) \cap ScopeUnits(plan, n) # {}}
        \ ScopeUnits(plan, n)

\* check_delivery_plan_data and parse_delivery_checkpoints: neither the plan nor one
\* that a repair enlarged has a cycle; in each group of units one comes first.
ASSUME AcyclicPlans ==
    \A plan \in SUBSET Nodes : \A s \in SUBSET UnitsOf(plan) : s # {} =>
        \E u \in s : Prerequisites(plan, u) \cap s = {}

\* checkpoint_input_units
InputUnits(plan, n) == BuildsOn(plan, ScopeUnits(plan, n))

(***************************************************************************)
(* Records.  A verification stop is classed by what may follow it:         *)
(* "repair" (repair_required), "retry", "config" and "final" (another      *)
(* recovery action), and "boundary" (security rejection, read-only or      *)
(* workspace boundary).                                                    *)
(***************************************************************************)
UnitStatuses == {"pending", "running", "failed", "done"}
FailureCodes == {"none", "child_run_failed", "terminal_stop", "budget"}
Stops == {"none", "repair", "retry", "config", "final", "boundary"}
VerStatuses == {"none", "running", "passed", "failed", "blocked", "interrupted", "stale"}

PendingUnit == [status |-> "pending", child |-> FALSE, commit |-> NoCommit, failure |-> "none"]
NoVerification == [status |-> "none", candidate |-> NoCommit, cfg |-> 0,
                   plan |-> {}, attempt |-> 0, stop |-> "none"]

NewProgress ==
    [units    |-> [u \in AllUnits |-> PendingUnit],
     base     |-> NoCommit,
     assembled|-> NoCommit,
     assembly |-> "none",
     ver      |-> [n \in Nodes |-> NoVerification],
     final    |-> NoCommit]

SameGate(v, w) == v.candidate = w.candidate /\ v.cfg = w.cfg /\ v.plan = w.plan

\* delivery_verification_is_boundary_stop
IsBoundaryStop(v) == v.status \in {"failed", "blocked"} /\ v.stop = "boundary"

\* _retain_verification_attempt, for a root record
Retained(v) == IF IsBoundaryStop(v) THEN v ELSE NoVerification

\* upsert_delivery_unit_progress: a changed unit voids the root's
\* verification and the finalization.
UpsertUnit(pr, u, unit) ==
    IF pr.units[u] = unit THEN pr
    ELSE [pr EXCEPT !.units[u] = unit, !.final = NoCommit, !.ver["root"] = Retained(@)]

\* Faulty: an assembly of another commit keeps the verification of the old one.
MarkAssemblyKeepsPass(pr, commit, status) ==
    [pr EXCEPT !.assembled = commit, !.assembly = status, !.final = NoCommit]

\* Faulty: an assembly leaves the finalization in place.
MarkAssemblyKeepsFinal(pr, commit, status) ==
    [pr EXCEPT !.assembled = commit, !.assembly = status,
               !.ver["root"] = IF pr.assembled = commit /\ pr.assembly = status
                               THEN @ ELSE Retained(@)]

\* mark_delivery_assembly
MarkAssembly(pr, commit, status) ==
    [pr EXCEPT !.assembled = commit, !.assembly = status, !.final = NoCommit,
               !.ver["root"] = IF pr.assembled = commit /\ pr.assembly = status
                               THEN @ ELSE Retained(@)]

\* mark_delivery_verification: raises unless the record is about the
\* assembled candidate or is the boundary stop of the running attempt.
CanMarkVerification(pr, n, v) ==
    \/ pr.assembly = "ready" /\ pr.assembled = v.candidate
    \/ IsBoundaryStop(v) /\ pr.ver[n].status = "running"
         /\ SameGate(pr.ver[n], v) /\ pr.ver[n].attempt = v.attempt

MarkVerification(pr, n, v) == [pr EXCEPT !.ver[n] = v, !.final = NoCommit]

\* mark_delivery_finalized
MarkFinalized(pr, commit) == [pr EXCEPT !.final = commit]

\* What write_delivery_progress refuses to write (_validate_progress).
ValidProgress(pr) ==
    /\ pr.assembly # "none" => pr.base # NoCommit
    /\ LET v == pr.ver["root"] IN
         /\ v.status # "none" =>
              \/ pr.assembly = "ready" /\ pr.assembled = v.candidate
              \/ IsBoundaryStop(v)
         /\ pr.final # NoCommit /\ v.status # "none" =>
              v.status = "passed" /\ pr.final = v.candidate

(***************************************************************************)
(* What get_delivery_status computes from plan and record.                 *)
(***************************************************************************)
StatusOf(pr, us) == {pr.units[u].status : u \in us}

\* _overall_status
OverallStatus(pr, us) ==
    IF "failed" \in StatusOf(pr, us) THEN "failed"
    ELSE IF "running" \in StatusOf(pr, us) THEN "running"
    ELSE IF StatusOf(pr, us) = {"done"} THEN "done"
    ELSE "pending"

Done(pr, us) == \A u \in us : pr.units[u].status = "done"

\* Faulty: a unit that has been started counts.
ScopeStarted(pr, plan, n) == "pending" \notin StatusOf(pr, InputUnits(plan, n))

\* verification_scope_complete
ScopeComplete(pr, plan, n) == Done(pr, InputUnits(plan, n))

\* _delivery_terminal_stop: a budget stop is answered by a split instead.
TerminalStop(pr, us) ==
    /\ \A u \in us : ~(pr.units[u].status = "failed" /\ pr.units[u].failure = "budget")
    /\ \E u \in us : pr.units[u].status = "failed" /\ pr.units[u].failure = "terminal_stop"

=============================================================================
