------------------------------ MODULE Settlement ------------------------------
(***************************************************************************)
(* What the approval queue promises, with no requests, sweeps, connections *)
(* or crashes: an action waits until one principal refuses it, enough      *)
(* distinct principals approve it, or its time is up; then it is settled   *)
(* for good (ee/approval_queue.py, the module's opening statement).        *)
(***************************************************************************)
EXTENDS Integers, FiniteSets

CONSTANTS
  Item, Principal,
  ProposedBy,        \* item -> the principal who proposed it
  Needs              \* item -> distinct principals who must approve it

VARIABLES
  state,             \* item -> none, pending, approved, refused, expired
  acts               \* {[item, principal, verdict]}

Pending == {i \in Item : state[i] = "pending"}
ActedOn(i) == {a.principal : a \in {x \in acts : x.item = i}}
Approvals(A, i) == Cardinality({a \in A : a.item = i /\ a.verdict = "approve"})

Init == state = [i \in Item |-> "none"] /\ acts = {}

(* Whatever happens, the items in S, which nobody came to, lapse with it. *)
Lapsed(S) == [i \in Item |-> IF i \in S THEN "expired" ELSE state[i]]

Expire(S) == S # {} /\ state' = Lapsed(S) /\ UNCHANGED acts

Hold(S, i) ==
  /\ state[i] = "none"
  /\ state' = [Lapsed(S) EXCEPT ![i] = "pending"]
  /\ UNCHANGED acts

Decide(S, i, p, verdict) ==
  /\ i \in Pending \ S /\ p # ProposedBy[i] /\ p \notin ActedOn(i)
  /\ acts' = acts \cup {[item |-> i, principal |-> p, verdict |-> verdict]}
  /\ state' = [Lapsed(S) EXCEPT ![i] =
                 IF verdict = "refuse" THEN "refused"
                 ELSE IF Approvals(acts', i) >= Needs[i] THEN "approved"
                 ELSE "pending"]

Next ==
  \E S \in SUBSET Pending :
    \/ Expire(S)
    \/ \E i \in Item : Hold(S, i)
    \/ \E i \in Item, p \in Principal, v \in {"approve", "refuse"} : Decide(S, i, p, v)

Spec == Init /\ [][Next]_<<state, acts>>
===============================================================================
