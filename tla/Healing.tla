-------------------------------- MODULE Healing --------------------------------
(***************************************************************************)
(* Self-healing (server/healing.py): a request reports a failure and runs  *)
(* the loop capture, recall, plan, policy, claim, execute, verify, record, *)
(* release.  Requests run in threads on the shared connection; a           *)
(* statement is one step, a commit takes all of them to disk.              *)
(*                                                                         *)
(* A plan is known by the types of its actions, which is what its          *)
(* fingerprint hashes; Permitted is what the policy lets through.          *)
(***************************************************************************)
EXTENDS Integers, Sequences, FiniteSets

CONSTANTS
  Component, Plan,
  Permitted,       \* plans all of whose actions the policy permits
  Thread,
  MAX_ATTEMPTS_PER_FINGERPRINT, BUDGET_MAX_RECOVERIES,
  MaxReports, MaxFaults    \* bounds: reports handled; crashes and internal errors

VARIABLES
  failures,     \* heal_failures: [of, open, seen], in the order of their rows
  recoveries,   \* heal_recoveries: [of, plan, state, recent]
  slot,         \* heal_active_claims: component -> who inserted the row
  repaired,     \* component -> the plan of its last diagnosis that recovered
  call,         \* thread -> the report it handles
  reports, faults

vars == <<failures, recoveries, slot, repaired, call, reports, faults>>

NoPlan == "none"
Free   == "free"
Lost   == "nobody"     \* a row whose owner is gone

Idle == [at |-> "idle", of |-> "none", failure |-> 0, plan |-> NoPlan, rec |-> 0]

Recovering(c) == {t \in Thread : call[t].of = c /\ call[t].at \in
                    {"claimed", "repair", "verify", "recovered", "learned", "closing"}}

Moves(t, x) == call' = [call EXCEPT ![t] = x]
Goto(t, ph) == Moves(t, [call[t] EXCEPT !.at = ph])

------------------------------------------------------------------------------
(* Capture: one open row per signature, counted up when it is met again. *)

OpenRows(c) == {i \in DOMAIN failures : failures[i].of = c /\ failures[i].open}

Newest(S) == CHOOSE i \in S : \A j \in S : j <= i

Capture(t, c) ==
  /\ call[t].at = "idle" /\ reports < MaxReports /\ reports' = reports + 1
  /\ Moves(t, IF OpenRows(c) # {}
              THEN [Idle EXCEPT !.at = "again", !.of = c, !.failure = Newest(OpenRows(c))]
              ELSE [Idle EXCEPT !.at = "new", !.of = c])
  /\ UNCHANGED <<failures, recoveries, slot, repaired, faults>>

CountAgain(t) ==
  /\ call[t].at = "again"
  /\ failures' = [failures EXCEPT ![call[t].failure].seen = 2]
  /\ Goto(t, "recall")
  /\ UNCHANGED <<recoveries, slot, repaired, reports, faults>>

InsertFailure(t) ==
  /\ call[t].at = "new"
  /\ failures' = Append(failures, [of |-> call[t].of, open |-> TRUE, seen |-> 1])
  /\ Moves(t, [call[t] EXCEPT !.at = "recall", !.failure = Len(failures) + 1])
  /\ UNCHANGED <<recoveries, slot, repaired, reports, faults>>

------------------------------------------------------------------------------
(* Recall and plan: the repair that worked before, else what is proposed. *)

Choices(c) == IF repaired[c] # NoPlan THEN {repaired[c]} ELSE Plan \cup {NoPlan}

(* No plan, or one the policy denies: a diagnosis is noted, nothing claimed. *)
Decline(t) ==
  /\ call[t].at = "recall"
  /\ \E p \in Choices(call[t].of) : p \notin Permitted
  /\ Moves(t, Idle)
  /\ UNCHANGED <<failures, recoveries, slot, repaired, reports, faults>>

Choose(t) ==
  /\ call[t].at = "recall"
  /\ \E p \in Choices(call[t].of) \cap Permitted :
       Moves(t, [call[t] EXCEPT !.at = "count", !.plan = p])
  /\ UNCHANGED <<failures, recoveries, slot, repaired, reports, faults>>

------------------------------------------------------------------------------
(* Claim: budget and cap are counted, then the slot is taken. *)

Recent(c) == {i \in DOMAIN recoveries : recoveries[i].of = c /\ recoveries[i].recent}
Tried(c, p) == {i \in DOMAIN recoveries : recoveries[i].of = c /\ recoveries[i].plan = p}

WithinLimits(c, p) ==
  /\ Cardinality(Recent(c)) < BUDGET_MAX_RECOVERIES
  /\ Cardinality(Tried(c, p)) < MAX_ATTEMPTS_PER_FINGERPRINT

Count(t) ==
  /\ call[t].at = "count"
  /\ IF WithinLimits(call[t].of, call[t].plan) THEN Goto(t, "insert") ELSE Moves(t, Idle)
  /\ UNCHANGED <<failures, recoveries, slot, repaired, reports, faults>>

(* Mutant of Claim: the answer of the INSERT is not read back. *)
ClaimUnread(t) ==
  /\ call[t].at = "insert"
  /\ slot' = [slot EXCEPT ![call[t].of] = IF @ = Free THEN t ELSE @]
  /\ Goto(t, "claimed")
  /\ UNCHANGED <<failures, recoveries, repaired, reports, faults>>

(* INSERT ... ON CONFLICT DO NOTHING, and the row is read back: nobody but *)
(* the winner may delete it in between.                                    *)
Claim(t) ==
  /\ call[t].at = "insert"
  /\ IF slot[call[t].of] = Free
     THEN slot' = [slot EXCEPT ![call[t].of] = t] /\ Goto(t, "claimed")
     ELSE Moves(t, Idle) /\ UNCHANGED slot
  /\ UNCHANGED <<failures, recoveries, repaired, reports, faults>>

InsertRecovery(t) ==
  /\ call[t].at = "claimed"
  /\ recoveries' = Append(recoveries, [of |-> call[t].of, plan |-> call[t].plan,
                                       state |-> "claimed", recent |-> TRUE])
  /\ Moves(t, [call[t] EXCEPT !.at = "repair", !.rec = Len(recoveries) + 1])
  /\ UNCHANGED <<failures, slot, repaired, reports, faults>>

------------------------------------------------------------------------------
(* Execute, verify, record, release. *)

Enters(t, s) == recoveries' = [recoveries EXCEPT ![call[t].rec].state = s]

(* The permitted actions run; one that raises counts as not ok. *)
Execute(t) ==
  /\ call[t].at = "repair" /\ Enters(t, "verifying") /\ Goto(t, "verify")
  /\ UNCHANGED <<failures, slot, repaired, reports, faults>>

(* The actions went well and the component's own health check says so. *)
Verified(t) ==
  /\ call[t].at = "verify" /\ Enters(t, "recovered") /\ Goto(t, "recovered")
  /\ UNCHANGED <<failures, slot, repaired, reports, faults>>

Learn(t) ==
  /\ call[t].at = "recovered" /\ repaired' = [repaired EXCEPT ![call[t].of] = call[t].plan]
  /\ Goto(t, "learned")
  /\ UNCHANGED <<failures, recoveries, slot, reports, faults>>

Resolve(t) ==
  /\ call[t].at = "learned"
  /\ failures' = [failures EXCEPT ![call[t].failure].open = FALSE]
  /\ Goto(t, "closing")
  /\ UNCHANGED <<recoveries, slot, repaired, reports, faults>>

(* An action or the check failed: rolled back, and escalated. *)
Failed(t) ==
  /\ call[t].at = "verify" /\ Enters(t, "escalated") /\ Goto(t, "closing")
  /\ UNCHANGED <<failures, slot, repaired, reports, faults>>

(* DELETE names the recovery: a successor's row is not touched. *)
Release(t) ==
  /\ call[t].at = "closing"
  /\ slot' = [slot EXCEPT ![call[t].of] = IF @ = t THEN Free ELSE @]
  /\ Moves(t, Idle)
  /\ UNCHANGED <<failures, recoveries, repaired, reports, faults>>

(* handle() answers an internal error with "escalated" and returns: what *)
(* was claimed stays claimed.                                            *)
Raises(t) ==
  /\ call[t].at # "idle" /\ faults < MaxFaults /\ faults' = faults + 1
  /\ slot' = [c \in Component |-> IF slot[c] = t THEN Lost ELSE slot[c]]
  /\ Moves(t, Idle)
  /\ UNCHANGED <<failures, recoveries, repaired, reports>>

(* The process dies with every request in it. *)
Crash ==
  /\ faults < MaxFaults /\ faults' = faults + 1
  /\ slot' = [c \in Component |-> IF slot[c] \in Thread THEN Lost ELSE slot[c]]
  /\ call' = [t \in Thread |-> Idle]
  /\ UNCHANGED <<failures, recoveries, repaired, reports>>

(* BUDGET_WINDOW_S passes. *)
WindowPasses ==
  /\ \E i \in DOMAIN recoveries : recoveries[i].recent
  /\ recoveries' = [i \in DOMAIN recoveries |-> [recoveries[i] EXCEPT !.recent = FALSE]]
  /\ UNCHANGED <<failures, slot, repaired, call, reports, faults>>

------------------------------------------------------------------------------
Init ==
  /\ failures = <<>> /\ recoveries = <<>>
  /\ slot = [c \in Component |-> Free]
  /\ repaired = [c \in Component |-> NoPlan]
  /\ call = [t \in Thread |-> Idle]
  /\ reports = 0 /\ faults = 0

Handle(t) ==
  \/ \E c \in Component : Capture(t, c)
  \/ CountAgain(t) \/ InsertFailure(t) \/ Decline(t) \/ Choose(t)
  \/ Count(t) \/ Claim(t) \/ InsertRecovery(t)
  \/ Execute(t) \/ Verified(t) \/ Learn(t) \/ Resolve(t) \/ Failed(t) \/ Release(t)
  \/ Raises(t)

Next == Crash \/ WindowPasses \/ \E t \in Thread : Handle(t)

Spec == Init /\ [][Next]_vars

------------------------------------------------------------------------------
(* Properties. *)

(* Every variable has its type; a call past its claim has a recovery row. *)
TypeOK ==
  /\ \A i \in DOMAIN failures : failures[i].of \in Component
       /\ failures[i].open \in BOOLEAN /\ failures[i].seen \in {1, 2}
  /\ \A i \in DOMAIN recoveries :
       /\ recoveries[i].of \in Component /\ recoveries[i].plan \in Permitted
       /\ recoveries[i].state \in {"claimed", "verifying", "recovered", "escalated"}
       /\ recoveries[i].recent \in BOOLEAN
  /\ slot \in [Component -> Thread \cup {Free, Lost}]
  /\ repaired \in [Component -> Permitted \cup {NoPlan}]
  /\ reports \in 0..MaxReports /\ faults \in 0..MaxFaults
  /\ \A t \in Thread : call[t].at \in {"repair", "verify", "recovered", "learned", "closing"}
       => call[t].rec \in DOMAIN recoveries

(* "One active recovery per (project, component)": two requests never       *)
(* repair one component at once, and whoever does holds its slot.           *)
OneRecoveryAtATime ==
  \A c \in Component :
    Cardinality(Recovering(c)) <= 1 /\ \A t \in Recovering(c) : slot[c] = t

(* A slot is held only while somebody recovers its component, on every way  *)
(* out of the loop, except that a crash or an internal error leaves it held *)
(* for good: nothing expires a claim.                                       *)
SlotsComeBack ==
  faults = 0 => \A c \in Component : slot[c] # Free => Recovering(c) # {}
===============================================================================
