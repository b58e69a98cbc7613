----------------------------- MODULE DeliveryRepair -----------------------------
(***************************************************************************)
(* Integration repair (core/delivery_repair.py): at most one unit is       *)
(* appended to a node whose verification asks for it.  Each provider call  *)
(* is reserved in the control file before it is made; publication replaces *)
(* plan.yaml, commits the artifacts to the final branch, marks them        *)
(* assembled and then settles the control file, and can be taken up again  *)
(* after any of these.                                                     *)
(***************************************************************************)
EXTENDS DeliveryVerify

CONSTANT MaxReviews     \* authority reviews reserved for one draft
ASSUME RepairConstants == MaxReviews \in Nat \ {0}

RepairNode(p) == loc[p].node

\* A second repair may not change what an earlier one is built on.
LineageBound(n) ==
    n # "root" /\ \E m \in appended \ {n} :
        RepairUnit[m] \notin ScopeUnits(appended, n)
        /\ ScopeUnits(appended, n) \cap Prerequisites(appended, RepairUnit[m]) # {}

\* _current_input
CurrentInput(n, cfg) ==
    LET v == prog.ver[n] IN
    /\ Ready
    /\ ScopeComplete(prog, appended, n)
    /\ n # "root" => ~BoundaryIssue /\ ~HandoffStale(cfg)
    /\ v.status = "failed" /\ v.stop = "repair"
    /\ GateCurrent(v, v.candidate, cfg)
    /\ prog.assembled = v.candidate /\ prog.assembly = "ready" /\ ref = v.candidate
    /\ HandoffsLoad(ScopeUnits(appended, n))
    /\ ~LineageBound(n)

MayAuthor(p) ==
    LET n == RepairNode(p) IN
    /\ CurrentInput(n, loc[p].cfg)
    /\ repair[n].phase = "authoring" => repair[n].ver = prog.ver[n]
    /\ repair[n].attempts < MaxAuthoring

NeedsReview(n) == n \in Renewed /\ repair[n].verdict # "approved"

(***************************************************************************)
(* The checks of _publish, made before anything is written and each time   *)
(* publication is taken up again.                                          *)
(***************************************************************************)
Published(n) == repair[n].ver.candidate \cup {Artifact[n]}
PlanBefore(n) == repair[n].ver.plan
PlanAfter(n) == repair[n].ver.plan \cup {n}

\* Progress is what the repair was prepared on, or already marked with the
\* commit that publishes it.
ProgressKept(n) ==
    \/ prog = repair[n].old
    \/ /\ ref = Published(n) /\ prog.assembled = ref
       /\ prog.units = repair[n].old.units
       /\ [prog EXCEPT !.assembled = NoCommit, !.ver["root"] = NoVerification, !.final = NoCommit]
          = [repair[n].old EXCEPT !.assembled = NoCommit, !.ver["root"] = NoVerification, !.final = NoCommit]

CanPublish(n, cfg) ==
    /\ appended \in {PlanBefore(n), PlanAfter(n)}
    /\ ref \in {repair[n].ver.candidate, Published(n)}
    /\ ProgressKept(n)
    /\ HandoffsLoad(ScopeUnits(PlanBefore(n), n))
    /\ Ready
    /\ appended = PlanBefore(n) /\ ref = repair[n].ver.candidate =>
         CurrentInput(n, cfg) /\ prog.ver[n] = repair[n].ver

(***************************************************************************)
(* Steps.                                                                  *)
(***************************************************************************)
Repairing(p, pc) ==
    /\ At(p, pc)
    /\ UNCHANGED <<edited, config, journal, child, handoff>>

StartRepair(p) ==
    /\ Repairing(p, "repair")
    /\ LET n == IF loc[p].want # "none" THEN loc[p].want
                ELSE IF RepairPending("root") \/ ~AnyRepairPending THEN "root"
                ELSE CHOOSE m \in Nodes : RepairPending(m)
       IN  \/ lock = "free" /\ lock' = p
                /\ loc' = [loc EXCEPT ![p].pc = "repair_check", ![p].node = n, ![p].want = "none"]
           \/ lock # "free" /\ Return(p)
    /\ UNCHANGED <<appended, prog, ref, repair, faults>>

\* Where _coordinate goes; a terminal or published repair, a changed
\* configuration and an exhausted budget end the command.
CheckRepair(p) ==
    /\ Repairing(p, "repair_check")
    /\ LET n == RepairNode(p) IN
       IF repair[n].phase \in {"none", "authoring"} /\ MayAuthor(p)
       THEN Goto(p, "author") /\ UNCHANGED lock
       ELSE IF repair[n].phase = "prepared" /\ loc[p].cfg = repair[n].ver.cfg /\ CanPublish(n, loc[p].cfg)
       THEN Goto(p, IF NeedsReview(n) THEN "authority" ELSE "publish") /\ UNCHANGED lock
       ELSE Return(p)
    /\ UNCHANGED <<appended, prog, ref, repair, faults>>

\* Faulty: a call is counted only by its result.
AuthorUnreserved(p) ==
    /\ Repairing(p, "author")
    /\ IF MayAuthor(p)
       THEN /\ repair' = [repair EXCEPT ![RepairNode(p)].phase = "authoring",
                                        ![RepairNode(p)].ver = prog.ver[RepairNode(p)]]
            /\ Goto(p, "draft") /\ UNCHANGED lock
       ELSE Return(p) /\ UNCHANGED repair
    /\ UNCHANGED <<appended, prog, ref, faults>>

\* The candidate's worktree is prepared read-only, then the call is reserved.
ReserveAuthoring(p) ==
    /\ Repairing(p, "author")
    /\ LET n == RepairNode(p) IN
       IF MayAuthor(p)
       THEN /\ repair' = [repair EXCEPT ![n].phase = "authoring", ![n].attempts = @ + 1,
                                        ![n].ver = prog.ver[n]]
            /\ Goto(p, "draft") /\ UNCHANGED lock
       ELSE Return(p) /\ UNCHANGED repair
    /\ UNCHANGED <<appended, prog, ref, faults>>

\* Invalid output is corrected within the budget; a boundary blocks the node.
Draft(p) ==
    /\ Repairing(p, "draft")
    /\ LET n == RepairNode(p)
           called == [repair EXCEPT ![n].calls = @ + 1]
           current == CurrentInput(n, loc[p].cfg) /\ prog.ver[n] = repair[n].ver
       IN
       \/ /\ current
          /\ repair' = [called EXCEPT ![n].phase = "prepared", ![n].old = prog,
                                      ![n].reviews = 0, ![n].verdict = "none"]
          /\ Goto(p, IF n \in Renewed THEN "authority" ELSE "publish")
          /\ UNCHANGED <<lock, faults>>
       \/ ~current /\ repair' = called /\ Return(p) /\ UNCHANGED faults
       \/ /\ Fault
          /\ repair' = called
          /\ IF repair[n].attempts < MaxAuthoring THEN Goto(p, "author") /\ UNCHANGED lock ELSE Return(p)
       \/ Fault /\ repair' = [called EXCEPT ![n].phase = "blocked"] /\ Return(p)
    /\ UNCHANGED <<appended, prog, ref>>

\* _finish_prepared: an independent review of the authority that the repair
\* renews, reserved as well.
ReserveReview(p) ==
    /\ Repairing(p, "authority")
    /\ LET n == RepairNode(p) IN
       IF CanPublish(n, loc[p].cfg) /\ repair[n].verdict = "none" /\ repair[n].reviews < MaxReviews
       THEN /\ repair' = [repair EXCEPT ![n].reviews = @ + 1]
            /\ Goto(p, "review") /\ UNCHANGED lock
       ELSE Return(p) /\ UNCHANGED repair
    /\ UNCHANGED <<appended, prog, ref, faults>>

\* A rejected draft goes back to authoring with its feedback while the
\* authoring budget lasts.
Review(p) ==
    /\ Repairing(p, "review")
    /\ LET n == RepairNode(p) IN
       \/ /\ CanPublish(n, loc[p].cfg)
          /\ repair' = [repair EXCEPT ![n].verdict = "approved"]
          /\ Goto(p, "publish") /\ UNCHANGED <<lock, faults>>
       \/ /\ CanPublish(n, loc[p].cfg) /\ Fault
          /\ IF repair[n].attempts < MaxAuthoring
             THEN /\ repair' = [repair EXCEPT ![n].phase = "authoring", ![n].reviews = 0]
                  /\ Goto(p, "repair_check") /\ UNCHANGED lock
             ELSE repair' = [repair EXCEPT ![n].verdict = "rejected"] /\ Return(p)
       \/ ~CanPublish(n, loc[p].cfg) /\ Return(p) /\ UNCHANGED <<repair, faults>>
       \/ /\ Fault
          /\ IF repair[n].reviews < MaxReviews THEN Goto(p, "authority") /\ UNCHANGED lock ELSE Return(p)
          /\ UNCHANGED repair
       \/ Fault /\ repair' = [repair EXCEPT ![n].phase = "blocked"] /\ Return(p)
    /\ UNCHANGED <<appended, prog, ref>>

(***************************************************************************)
(* _publish.                                                               *)
(***************************************************************************)
ReplacePlan(p) ==
    /\ Repairing(p, "publish")
    /\ LET n == RepairNode(p) IN
       IF CanPublish(n, loc[p].cfg)
       THEN appended' = PlanAfter(n) /\ Goto(p, "commit") /\ UNCHANGED lock
       ELSE Return(p) /\ UNCHANGED appended
    /\ UNCHANGED <<prog, ref, repair, faults>>

\* assemble_delivery_artifacts: a compare-and-swap from the candidate.
CommitArtifacts(p) ==
    /\ Repairing(p, "commit")
    /\ LET n == RepairNode(p) IN
       IF ref \in {repair[n].ver.candidate, Published(n)}
       THEN ref' = Published(n) /\ Goto(p, "mark") /\ UNCHANGED lock
       ELSE Return(p) /\ UNCHANGED ref
    /\ UNCHANGED <<appended, prog, repair, faults>>

MarkPublished(p) ==
    /\ Repairing(p, "mark")
    /\ LET n == RepairNode(p) IN
       IF ref = Published(n) /\ appended = PlanAfter(n) /\ Ready
       THEN /\ prog' = MarkAssembly(prog, ref, "ready")
            /\ Goto(p, "settle") /\ UNCHANGED lock
       ELSE Return(p) /\ UNCHANGED prog
    /\ UNCHANGED <<appended, ref, repair, faults>>

\* "delivery run" admits the unit to its snapshot and goes on.
SettleRepair(p) ==
    /\ Repairing(p, "settle")
    /\ LET n == RepairNode(p) IN
       /\ repair' = [repair EXCEPT ![n].phase = "published"]
       /\ ContinueAs(p, [Loop(p) EXCEPT !.pc = "advance", !.units = @ \cup {RepairUnit[n]}])
    /\ UNCHANGED <<appended, prog, ref, faults>>

RepairStep(p) ==
    \/ StartRepair(p)
    \/ CheckRepair(p)
    \/ ReserveAuthoring(p)
    \/ Draft(p)
    \/ ReserveReview(p)
    \/ Review(p)
    \/ ReplacePlan(p)
    \/ CommitArtifacts(p)
    \/ MarkPublished(p)
    \/ SettleRepair(p)

=============================================================================
