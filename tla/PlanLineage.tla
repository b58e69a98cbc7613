------------------------------ MODULE PlanLineage ------------------------------
(***************************************************************************)
(* A plan and its amendments (core/delivery_plan.py,                       *)
(* core/delivery_checkpoint_model.py, and from core/delivery_amendment.py  *)
(* what an amendment makes of a plan).  A plan is accepted by its check; a *)
(* unit that is not delivered is replaced by others, again and again; each *)
(* time the amended plan has to pass the same check.                       *)
(***************************************************************************)
EXTENDS Naturals, Sequences, FiniteSets

CONSTANTS
    FirstUnits,     \* the units of the plan as it is written
    FirstPlans,     \* functions: the dependencies it may give them
    Checkpoints,    \* identities of checkpoints
    Owners,         \* sets of units that a requirement may be written for
    FreshUnits,     \* a sequence: identities of replacement units, in turn
    MaxSplit        \* bound: replacement units of one amendment

VARIABLES
    declared,   \* [unit -> what the plan says of it]
    groups,     \* [checkpoint -> its unit_ids, {} if there is none, and parent]
    constraint, \* unit_ids of an inherited constraint
    obligation, \* unit_ids of an obligation
    delivered,  \* the units that are done
    verdict     \* of the last check, and the plan that was checked first

lineageVars == <<declared, groups, constraint, obligation, delivered, verdict>>

None == "none"
Root == "root"

Later == {FreshUnits[i] : i \in DOMAIN FreshUnits}

\* Units and checkpoints have identities of their own.
LineageAssumption ==
    /\ FirstPlans \subseteq [FirstUnits -> SUBSET FirstUnits]
    /\ FreshUnits \in Seq(Later)
    /\ \A i, j \in DOMAIN FreshUnits : FreshUnits[i] = FreshUnits[j] => i = j
    /\ FirstUnits \cap Later = {} /\ (FirstUnits \cup Later) \cap Checkpoints = {}
    /\ None \notin FirstUnits \cup Later
    /\ MaxSplit \in Nat
NoGroup == [units |-> {}, parent |-> Root]
Unit(after) == [after |-> after, from |-> None, into |-> {}]

Init ==
    /\ declared \in {[u \in FirstUnits |-> Unit(after[u])] : after \in FirstPlans}
    /\ groups \in [Checkpoints ->
           {NoGroup} \cup [units : (SUBSET FirstUnits) \ {{}}, parent : Checkpoints \cup {Root}]]
    /\ constraint \in Owners
    /\ obligation = constraint
    /\ delivered = {}
    /\ verdict = [says |-> "unchecked", order |-> {}, owners |-> constraint]

\* One of the plans, without checkpoints.
Idle ==
    /\ declared = [u \in FirstUnits |-> Unit((CHOOSE after \in FirstPlans : TRUE)[u])]
    /\ groups = [k \in Checkpoints |-> NoGroup]

(***************************************************************************)
(* The check.                                                              *)
(***************************************************************************)
Active(plan) == {u \in DOMAIN plan : plan[u].into = {}}

\* _find_dependency_cycle, and the same of a graph of barriers.
Acyclic(graph) ==
    \A nodes \in (SUBSET DOMAIN graph) \ {{}} : \E n \in nodes : graph[n] \cap nodes = {}

DependenciesHold(plan) == Acyclic([u \in DOMAIN plan |-> plan[u].after])

\* _supersession_lineage
Lineage(plan) ==
    LET up[u \in DOMAIN plan] ==
            {u} \cup (IF plan[u].from = None THEN {} ELSE up[plan[u].from])
    IN up

\* What no other replacement of the unit follows: _effective_replacement_leaves.
Leaves(plan) ==
    LET up == Lineage(plan)
        followed(u) == UNION {up[d] : d \in UNION {plan[r].after : r \in plan[u].into}}
        leaves[u \in DOMAIN plan] ==
            IF plan[u].into \ followed(u) = {} THEN {u}
            ELSE UNION {leaves[r] : r \in plan[u].into \ followed(u)}
    IN leaves

\* _validate_replacement_dependencies: a replacement follows its siblings, or
\* all that the unit it replaces followed.
ReplacementsHold(plan) ==
    LET up == Lineage(plan)
        leaves == Leaves(plan)
    IN \A r \in {u \in DOMAIN plan : plan[u].from # None} :
        LET t == plan[plan[r].from]
            internal == {d \in plan[r].after : up[d] \cap t.into # {}}
        IN plan[r].after = IF internal # {} THEN internal
                           ELSE UNION {leaves[d] : d \in t.after}

ActiveHold(plan) == \A u \in Active(plan) : plan[u].after \subseteq Active(plan)

\* _parse_constraints and _parse_obligations: what a unit owes moves to those that
\* replace it.
ConstraintHolds(plan, owned) == owned # {} /\ owned \subseteq Active(plan)
ObligationHolds(plan, owed) == owed # {} /\ owed \subseteq Active(plan)

\* checkpoint_guarded_units: what directly follows a group waits for all of it.
Guarded(plan, units) == {u \in Active(plan) \ units : plan[u].after \cap units # {}}

Used(of) == {k \in DOMAIN of : of[k].units # {}}

\* Faulty: only the dependencies of the units must be without a cycle.
Unordered(plan, of) == DependenciesHold(plan)

\* No group waits for another one that waits for it; a group waits for its
\* children.
Ordered(plan, of) ==
    LET used == Used(of) IN
    Acyclic([n \in Active(plan) \cup used |->
        IF n \in used THEN of[n].units \cup {k \in used : of[k].parent = n}
        ELSE plan[n].after \cup {k \in used : n \in Guarded(plan, of[k].units)}])

\* parse_delivery_checkpoints: one group inside another, if they are nested,
\* else each with all that its units follow.
GroupsHold(plan, of) ==
    LET used == Used(of)
        nested == \E k \in used : of[k].parent # Root
    IN /\ \A k \in used :
           /\ of[k].units \subseteq Active(plan) /\ of[k].units # Active(plan)
           /\ nested \/ \A u \in of[k].units : plan[u].after \subseteq of[k].units
           /\ Guarded(plan, of[k].units) # {}
           /\ of[k].parent # Root =>
                  of[k].parent \in used \ {k} /\ of[k].units \subseteq of[of[k].parent].units
           /\ nested => \A other \in used \ {k} :
                  of[other].parent = of[k].parent => of[other].units \cap of[k].units = {}
       /\ Acyclic([k \in used |-> {of[k].parent} \ {Root}])
       /\ Ordered(plan, of)

PlanHolds(plan, of, owned, owed) ==
    /\ DependenciesHold(plan) /\ ReplacementsHold(plan) /\ ActiveHold(plan)
    /\ ConstraintHolds(plan, owned) /\ ObligationHolds(plan, owed)
    /\ GroupsHold(plan, of)

\* What must be delivered before a unit, by dependencies alone.
Before(plan) ==
    LET before[u \in DOMAIN plan] == plan[u].after \cup UNION {before[d] : d \in plan[u].after}
    IN before

Check ==
    /\ verdict.says = "unchecked"
    /\ verdict' = IF PlanHolds(declared, groups, constraint, obligation)
                  THEN [verdict EXCEPT !.says = "valid",
                            !.order = {e \in FirstUnits \X FirstUnits : e[1] \in Before(declared)[e[2]]}]
                  ELSE [verdict EXCEPT !.says = "invalid"]
    /\ UNCHANGED <<declared, groups, constraint, obligation, delivered>>

(***************************************************************************)
(* Amendments.                                                             *)
(***************************************************************************)
\* inspect_delivery_amendment_target
Splittable(t) ==
    /\ t \in Active(declared) \ delivered
    /\ \A u \in Active(declared) : t \in declared[u].after => u \notin delivered

Fresh(n) ==
    LET used == Cardinality(DOMAIN declared \ FirstUnits)
    IN {FreshUnits[i] : i \in (used + 1) .. (used + n)}

\* _normalize_replacements: a replacement that follows none inherits what the
\* target follows.
Replacement(t, after) ==
    [after |-> IF after = {} THEN declared[t].after ELSE after, from |-> t, into |-> {}]

\* Faulty: dependents follow the first replacements instead of the last.
DraftRoots(draft) == {u \in DOMAIN draft : draft[u] = {}}

\* _replacement_leaves
DraftLeaves(draft) == {u \in DOMAIN draft : \A v \in DOMAIN draft : u \notin draft[v]}

Swap(set, t, by) == IF t \in set THEN (set \ {t}) \cup by ELSE set

\* _amended_plan_data: active dependents are rewired, superseded ones stay.
Amended(t, draft) ==
    [u \in DOMAIN declared \cup DOMAIN draft |->
        IF u \in DOMAIN draft THEN Replacement(t, draft[u])
        ELSE IF u = t THEN [declared[t] EXCEPT !.into = DOMAIN draft]
        ELSE IF declared[u].into # {} THEN declared[u]
        ELSE [declared[u] EXCEPT !.after = Swap(@, t, DraftLeaves(draft))]]

\* All replacements inherit a constraint of their target.
ReassignedConstraint(t, draft) == Swap(constraint, t, DOMAIN draft)

Amend ==
    /\ verdict.says \in {"valid", "refused"}
    /\ \E t \in {u \in DOMAIN declared : Splittable(u)}, n \in 1 .. MaxSplit :
        /\ Cardinality(DOMAIN declared \ FirstUnits) + n <= Len(FreshUnits)
        /\ \E draft \in [Fresh(n) -> SUBSET Fresh(n)], part \in (SUBSET Fresh(n)) \ {{}} :
            LET plan == Amended(t, draft)
                of == [k \in Checkpoints |-> [groups[k] EXCEPT !.units = Swap(@, t, DOMAIN draft)]]
                owned == ReassignedConstraint(t, draft)
                owed == Swap(obligation, t, part)
            IN /\ t \notin obligation => part = Fresh(n)
               /\ IF DraftLeaves(draft) # {} /\ PlanHolds(plan, of, owned, owed)
                  THEN /\ declared' = plan /\ groups' = of
                       /\ constraint' = owned /\ obligation' = owed
                       /\ verdict' = [verdict EXCEPT !.says = "valid"]
                  ELSE /\ UNCHANGED <<declared, groups, constraint, obligation>>
                       /\ verdict' = [verdict EXCEPT !.says = "refused"]
    /\ UNCHANGED delivered

\* A unit whose prerequisites are done and whose barriers are passed.
Runnable(u) ==
    /\ u \in Active(declared) \ delivered
    /\ declared[u].after \subseteq delivered
    /\ \A k \in Checkpoints : u \in Guarded(declared, groups[k].units) => groups[k].units \subseteq delivered

Deliver ==
    /\ verdict.says \in {"valid", "refused"}
    /\ \E u \in DOMAIN declared : Runnable(u) /\ delivered' = delivered \cup {u}
    /\ UNCHANGED <<declared, groups, constraint, obligation, verdict>>

Next == Check \/ Amend \/ Deliver

Spec == Init /\ [][Next]_lineageVars

(***************************************************************************)
(* Properties.                                                             *)
(***************************************************************************)
Accepted == verdict.says \in {"valid", "refused"}
Descendants(u) == {v \in Active(declared) : u \in Lineage(declared)[v]}

\* What the first plan put in an order stays in it, however often either side
\* is replaced: whatever has become of a prerequisite is done before whatever
\* has become of its dependent ("Replacement roots retain all active target
\* prerequisites", docs/delivery-plans.md).
OrderSurvives ==
    Accepted => \A pair \in verdict.order :
        \A u \in Descendants(pair[2]) : Descendants(pair[1]) \subseteq Before(declared)[u]

\* A constraint binds everything that has become of a unit it was written for,
\* and of each owner of an obligation something still owns it.
RequirementsSurvive ==
    Accepted =>
        /\ constraint = UNION {Descendants(u) : u \in verdict.owners}
        /\ \A u \in verdict.owners : Descendants(u) \cap obligation # {}

\* However a plan is amended, it keeps what it promised when it was accepted.
PromisesSurvive == OrderSurvives /\ RequirementsSurvive

\* A plan that was accepted can always be delivered further: no barriers wait
\* for each other, whatever was delivered before an amendment.
PlanNeverStuck ==
    Accepted /\ Active(declared) \ delivered # {} => \E u \in DOMAIN declared : Runnable(u)
=============================================================================
