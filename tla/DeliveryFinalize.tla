---------------------------- MODULE DeliveryFinalize ----------------------------
(***************************************************************************)
(* "delivery finalize" (core/delivery_finalize.py): the verified candidate *)
(* is recorded as the plan's final commit, and then as an event.           *)
(***************************************************************************)
EXTENDS DeliveryRepair

\* _final_verification_issue finds nothing.
VerificationFinal(cfg) ==
    LET v == prog.ver["root"] IN
    /\ ~BoundaryIssue
    /\ \A n \in Checkpoints : Usable(n, cfg)
    /\ v.status = "passed"
    /\ prog.assembly = "ready" /\ prog.assembled = v.candidate
    /\ GateCurrent(v, v.candidate, cfg)
    /\ ref = v.candidate

\* delivery_finalization_is_current
FinalizationCurrent(cfg) ==
    /\ Ready /\ Done(prog, ActiveUnits)
    /\ prog.final # NoCommit
    /\ VerificationFinal(cfg)
    /\ ref = prog.final

\* _preflight_delivery_finalize: the branch has every result of the units.
FinalizePreflight(cfg) ==
    /\ Ready /\ Done(prog, ActiveUnits)
    /\ ref # NoCommit
    /\ \A u \in ActiveUnits : prog.units[u].commit \subseteq ref
    /\ VerificationFinal(cfg)

Finalizing(p, pc) ==
    /\ At(p, pc)
    /\ UNCHANGED <<appended, edited, config, ref, child, handoff, repair>>

\* A finalization that is current and has its event needs no lock.
StartFinalize(p) ==
    /\ Finalizing(p, "finalize")
    /\ \/ /\ FinalizationCurrent(loc[p].cfg) => ~journal.final
          /\ FinalizationCurrent(loc[p].cfg) \/ FinalizePreflight(loc[p].cfg)
          /\ Acquire(p, "finalizing")
       \/ /\ IF FinalizationCurrent(loc[p].cfg) THEN journal.final
             ELSE ~FinalizePreflight(loc[p].cfg)
          /\ Return(p)
    /\ UNCHANGED <<prog, journal, faults>>

\* _repair_finalization_event
RepairFinalizationEvent(p) ==
    /\ Finalizing(p, "finalizing")
    /\ FinalizationCurrent(loc[p].cfg)
    /\ journal' = [journal EXCEPT !.final = TRUE]
    /\ Return(p)
    /\ UNCHANGED <<prog, faults>>

RecordFinalization(p) ==
    /\ Finalizing(p, "finalizing")
    /\ ~FinalizationCurrent(loc[p].cfg)
    /\ IF FinalizePreflight(loc[p].cfg)
       THEN /\ prog' = MarkFinalized(prog, prog.ver["root"].candidate)
            /\ journal' = [journal EXCEPT !.final = FALSE]
            /\ Goto(p, "log_final") /\ UNCHANGED lock
       ELSE Return(p) /\ UNCHANGED <<prog, journal>>
    /\ UNCHANGED faults

LogFinalization(p) ==
    /\ Finalizing(p, "log_final")
    /\ journal' = [journal EXCEPT !.final = TRUE]
    /\ Return(p)
    /\ UNCHANGED <<prog, faults>>

FinalizeStep(p) ==
    \/ StartFinalize(p)
    \/ RepairFinalizationEvent(p)
    \/ RecordFinalization(p)
    \/ LogFinalization(p)

=============================================================================
