------------------------------- MODULE MCWorkers -------------------------------
(***************************************************************************)
(* What picks work up, in one model: worker processes on the ingest jobs,  *)
(* and threads that recover a failing component.  They share no state but  *)
(* the names of the threads, so a scenario says which of them moves while  *)
(* the others keep still: the states are those of each alone.              *)
(***************************************************************************)
EXTENDS MCIngestJobs

CONSTANTS Component, Plan, Permitted, Thread,
          MAX_ATTEMPTS_PER_FINGERPRINT, BUDGET_MAX_RECOVERIES, MaxReports, MaxFaults

VARIABLES scenario, failures, recoveries, slot, repaired, call, reports, faults

recovering == <<failures, recoveries, slot, repaired, call, reports, faults>>
all        == <<scenario, vars, recovering>>

(* For TLC: three ways to repair a mailer, one of which the policy forbids. *)
Healing == INSTANCE Healing

ASSUME HealingAssumption ==
  /\ Permitted \subseteq Plan /\ {Healing!Free, Healing!Lost} \cap Thread = {}
  /\ MaxReports \in Nat /\ MaxFaults \in Nat

WorkersInit == Init /\ Healing!Init /\ scenario \in {"jobs", "healing"}

(* The steps of a scenario, and the fairness of the jobs in theirs. *)
Ingesting(A) == scenario = "jobs" /\ A /\ UNCHANGED <<scenario, recovering>>

JobsMove     == Ingesting(Next)
HealingMoves == scenario = "healing" /\ Healing!Next /\ UNCHANGED <<scenario, vars>>

WorkersSpec ==
  /\ WorkersInit /\ [][JobsMove \/ HealingMoves]_all
  /\ \A w \in Worker : WF_all(Ingesting(Work(w)))
  /\ \A i \in Items : WF_all(Ingesting(GoStale(i))) /\ WF_all(Ingesting(BackoffOver(i)))
  /\ WF_all(Ingesting(RecoverStale))
------------------------------------------------------------------------------
(* Every job comes to an end (IngestJobs). *)
JobsSettle == scenario = "jobs" => EveryJobSettles

(* One recovery of a component at a time, and its slot comes back (Healing). *)
SlotsHold ==
  scenario = "healing" =>
    Healing!TypeOK /\ Healing!OneRecoveryAtATime /\ Healing!SlotsComeBack
===============================================================================
