----------------------------- MODULE ApprovalQueue -----------------------------
(***************************************************************************)
(* Actions waiting for a person (server/ee/approval_queue.py and its       *)
(* routes, POST and GET /v1/healing/queue, in server/api.py).              *)
(*                                                                         *)
(* A request sweeps, checks, writes an act, settles and commits in         *)
(* separate statements on a connection that every thread of the server     *)
(* shares.  `db' is what the connection reads, `disk' what is committed.   *)
(***************************************************************************)
EXTENDS Integers, FiniteSets

CONSTANTS
  Item, Principal, ProposedBy, Needs,     \* as in Settlement
  Handler,            \* threads
  MaxCrashes, MaxPolicies                 \* bounds of the instance

ASSUME QueueAssumption ==
  /\ ProposedBy \in [Item -> Principal]
  /\ Needs \in [Item -> Nat \ {0}]
  /\ Item # {} /\ MaxCrashes \in Nat /\ MaxPolicies \in Nat

VARIABLES
  db, disk,           \* [state : item -> state, acts : set of acts]
  due,                \* items whose expires_at has passed
  approvers,          \* whom the policy lets approve
  req,                \* handler -> the request it holds
  crashes, policies,
  overlapped          \* history: has anything ever run in the middle of a request?

vars == <<db, disk, due, approvers, req, crashes, policies, overlapped>>

Verdict == {"approve", "refuse"}
QueueState == {"none", "pending", "approved", "refused", "expired"}
Act == [item : Item, principal : Principal, verdict : Verdict]
Step == {"idle", "sweep", "expire", "check", "act", "settle", "commit"}

NoRequest(i) == [at |-> "idle", item |-> i, who |-> ProposedBy[i], verdict |-> "approve",
                 list |-> FALSE, may |-> FALSE, gone |-> {}]
Free == NoRequest(CHOOSE i \in Item : TRUE)

Init ==
  /\ db = [state |-> [i \in Item |-> "none"], acts |-> {}]
  /\ disk = db
  /\ due = {}
  /\ approvers = Principal
  /\ req = [h \in Handler |-> Free]
  /\ crashes = 0 /\ policies = 0 /\ overlapped = FALSE

At(h, step) == req[h].at = step

(* Something else happens: in the middle of a request, or between two. *)
Interrupts(H) == overlapped' = (overlapped \/ \E g \in H : ~ At(g, "idle"))
Interrupt(h) == Interrupts(Handler \ {h})

Go(h, step) == req' = [req EXCEPT ![h].at = step]
End(h) == req' = [req EXCEPT ![h] = Free]

(* hold: the row, and the commit that saves whatever else was written. *)
Hold(h, i) ==
  /\ At(h, "idle") /\ db.state[i] = "none"
  /\ db' = [db EXCEPT !.state[i] = "pending"]
  /\ disk' = db'
  /\ Interrupt(h)
  /\ UNCHANGED <<due, approvers, req, crashes, policies>>

(* A decision on an item, or a listing: both read the policy, then sweep. *)
Ask(h) ==
  /\ At(h, "idle")
  /\ \E i \in Item, p \in Principal, v \in Verdict, list \in BOOLEAN :
       /\ db.state[i] # "none"
       /\ list => i = Free.item /\ p = Free.who /\ v = Free.verdict
       /\ req' = [req EXCEPT ![h] = [at |-> "sweep", item |-> i, who |-> p, verdict |-> v,
                                     list |-> list, may |-> ~ list /\ p \in approvers,
                                     gone |-> {}]]
  /\ Interrupt(h)
  /\ UNCHANGED <<db, disk, due, approvers, crashes, policies>>

SweepRead(h) ==
  /\ At(h, "sweep")
  /\ req' = [req EXCEPT ![h].gone = {i \in due : db.state[i] = "pending"}, ![h].at = "expire"]
  /\ UNCHANGED <<db, disk, due, approvers, crashes, policies, overlapped>>

(* The rows are updated by id, whatever became of them since. *)
SweepWrite(h) ==
  /\ At(h, "expire")
  /\ db' = [db EXCEPT !.state = [i \in Item |-> IF i \in req[h].gone THEN "expired" ELSE @[i]]]
  /\ req' = [req EXCEPT ![h].gone = {}, ![h].at = IF req[h].list THEN "commit" ELSE "check"]
  /\ UNCHANGED <<disk, due, approvers, crashes, policies, overlapped>>

HasActed(p, i) == \E a \in db.acts : a.item = i /\ a.principal = p

(* Mutant of May: the proposer may approve. *)
MayOwn(p, i, allowed) == db.state[i] = "pending" /\ ~ HasActed(p, i) /\ allowed

May(p, i, allowed) ==
  /\ db.state[i] = "pending"
  /\ p # ProposedBy[i]
  /\ ~ HasActed(p, i)
  /\ allowed

(* A refused caller gets its answer before any commit. *)
Check(h) ==
  /\ At(h, "check")
  /\ IF May(req[h].who, req[h].item, req[h].may) THEN Go(h, "act") ELSE End(h)
  /\ UNCHANGED <<db, disk, due, approvers, crashes, policies, overlapped>>

(* The primary key refuses a second act of one principal. *)
WriteAct(h) ==
  /\ At(h, "act")
  /\ IF HasActed(req[h].who, req[h].item)
     THEN End(h) /\ UNCHANGED db
     ELSE /\ db' = [db EXCEPT !.acts = @ \cup {[item |-> req[h].item, principal |-> req[h].who,
                                               verdict |-> req[h].verdict]}]
          /\ Go(h, "settle")
  /\ UNCHANGED <<disk, due, approvers, crashes, policies, overlapped>>

Yes(i) == Cardinality({a \in db.acts : a.item = i /\ a.verdict = "approve"})

(* Mutant of Settle: one refusal is not enough. *)
SettleByCount(h) ==
  /\ At(h, "settle")
  /\ LET i == req[h].item
     IN  db' = IF Yes(i) >= Needs[i] THEN [db EXCEPT !.state[i] = "approved"] ELSE db
  /\ Go(h, "commit")
  /\ UNCHANGED <<disk, due, approvers, crashes, policies, overlapped>>

Settle(h) ==
  /\ At(h, "settle")
  /\ LET i == req[h].item
     IN  db' = CASE req[h].verdict = "refuse" -> [db EXCEPT !.state[i] = "refused"]
                 [] req[h].verdict = "approve" /\ Yes(i) >= Needs[i] ->
                      [db EXCEPT !.state[i] = "approved"]
                 [] OTHER -> db
  /\ Go(h, "commit")
  /\ UNCHANGED <<disk, due, approvers, crashes, policies, overlapped>>

Commit(h) ==
  /\ At(h, "commit")
  /\ disk' = db
  /\ End(h)
  /\ UNCHANGED <<db, due, approvers, crashes, policies, overlapped>>

Deadline(i) ==
  /\ db.state[i] # "none" /\ i \notin due
  /\ due' = due \cup {i}
  /\ UNCHANGED <<db, disk, approvers, req, crashes, policies, overlapped>>

(* Saving a policy commits, as every other write of the server does. *)
ChangePolicy ==
  /\ policies < MaxPolicies
  /\ \E S \in SUBSET Principal : S # approvers /\ approvers' = S
  /\ policies' = policies + 1
  /\ disk' = db
  /\ Interrupts(Handler)
  /\ UNCHANGED <<db, due, req, crashes>>

(* Any other write of the server commits what this connection has written. *)
OtherCommit ==
  /\ disk # db
  /\ disk' = db
  /\ Interrupts(Handler)
  /\ UNCHANGED <<db, due, approvers, req, crashes, policies>>

Crash ==
  /\ crashes < MaxCrashes
  /\ db' = disk
  /\ req' = [h \in Handler |-> Free]
  /\ crashes' = crashes + 1
  /\ UNCHANGED <<disk, due, approvers, policies, overlapped>>

Next ==
  \/ \E i \in Item : Deadline(i)
  \/ \E h \in Handler :
       \/ \E i \in Item : Hold(h, i)
       \/ Ask(h) \/ SweepRead(h) \/ SweepWrite(h) \/ Check(h)
       \/ WriteAct(h) \/ Settle(h) \/ Commit(h)
  \/ ChangePolicy \/ OtherCommit \/ Crash

Spec == Init /\ [][Next]_vars

------------------------------------------------------------------------------
TypeOK ==
  /\ {db, disk} \subseteq [state : [Item -> QueueState], acts : SUBSET Act]
  /\ due \subseteq Item /\ approvers \subseteq Principal
  /\ req \in [Handler -> [at : Step, item : Item, who : Principal, verdict : Verdict,
                          list : BOOLEAN, may : BOOLEAN, gone : SUBSET Item]]

(* As long as requests come one at a time, what is committed behaves as the *)
(* queue promises: with expiry, policy changes and crashes between any two  *)
(* statements (ee/approval_queue.py:16-37).                                 *)
Promise == INSTANCE Settlement WITH state <- disk.state, acts <- disk.acts

ImplementsSettlement ==
  /\ Promise!Init
  /\ [][~ overlapped' => Promise!Next \/ UNCHANGED disk]_vars

(* An approved action has as many approvals as it needs, by principals who  *)
(* did not propose it and of whom none counts twice, whatever runs at the   *)
(* same time (approval_queue.py:32-37).                                     *)
EnoughApproved ==
  \A i \in Item : db.state[i] = "approved" =>
    Cardinality({p \in Principal \ {ProposedBy[i]} :
      [item |-> i, principal |-> p, verdict |-> "approve"] \in db.acts}) >= Needs[i]
================================================================================
