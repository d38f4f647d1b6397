----------------------------- MODULE MCBackground -----------------------------
(***************************************************************************)
(* What runs behind the requests, in one model: the writer lock that keeps *)
(* a second server out, the rules that conclude and withdraw, and the      *)
(* check of relations for tensions.  They share no state, so a scenario    *)
(* says which of them moves while the others keep still: the states are    *)
(* those of each of them alone.                                            *)
(***************************************************************************)
EXTENDS MCWriterLock, Rules, Tensions

CONSTANTS scheduler, request

VARIABLE scenario

all == <<scenario, vars, ruling, checking>>

Relates(src, rel, dst) == [src |-> src, rel |-> rel, dst |-> dst]

(* Sarah works at beta, acme owns beta, so Sarah is involved with acme: *)
(* works_at . owns (rev) => involves (rev), and a rule on what follows. *)
Orbit == [a |-> "works_at", da |-> "fwd", b |-> "owns", db |-> "rev",
          then |-> "involves", dthen |-> "rev"]
Chain == [a |-> "involves", da |-> "fwd", b |-> "works_at", db |-> "fwd",
          then |-> "uses", dthen |-> "fwd"]
Asserted == {Relates("sarah", "works_at", "beta"), Relates("acme", "owns", "beta")}
Derived  == {Relates("acme", "involves", "sarah"), Relates("acme", "uses", "beta")}

MCEdges == Asserted \cup Derived
MCRules == {Orbit, Chain}

(* Sarah works at one place at a time: at acme, and, said twice, at beta. *)
Works  == [i \in 1..3 |-> Relates("sarah", "works_at", IF i = 1 THEN "acme" ELSE "beta")]
OneJob == {[rel |-> "works_at", kind |-> "one_dst_per_src"]}

BackInit ==
  /\ Init /\ RulesInit /\ TensionsInit
  /\ scenario \in {"lock", "rules", "tensions"}

LocksMove ==
  scenario = "lock" /\ Next /\ UNCHANGED <<scenario, ruling, checking>>
RulesMove ==
  scenario = "rules" /\ RulesNext /\ UNCHANGED <<scenario, vars, checking>>
TensionsMove ==
  scenario = "tensions" /\ TensionsNext /\ UNCHANGED <<scenario, vars, ruling>>

(* The fairness of each of them, where it is the one that moves. *)
Locking(A)  == scenario = "lock" /\ A /\ UNCHANGED <<scenario, ruling, checking>>
Deducing(A) == scenario = "rules" /\ A /\ UNCHANGED <<scenario, vars, checking>>
Asking(A)   == scenario = "tensions" /\ A /\ UNCHANGED <<scenario, vars, ruling>>

BackSpec ==
  /\ BackInit /\ [][LocksMove \/ RulesMove \/ TensionsMove]_all
  /\ \A x \in Supervised : WF_all(Locking(Import(x)))
  /\ \A x \in Proc : WF_all(Locking(Acquire(x))) /\ WF_all(Locking(Beat(x))) /\ WF_all(Locking(Exit(x)))
  /\ WF_all(Locking(Age))
  /\ WF_all(Deducing(Start(Sweeper))) /\ WF_all(Deducing(Proceed(Sweeper)))
  /\ WF_all(Asking(Check(Scheduler)))
  /\ \A t \in Thread : WF_all(Asking(Pursue(t)))

------------------------------------------------------------------------------
(* Every part is well typed. *)
TypesOK == TypeOK /\ RulesTypeOK /\ TensionsTypeOK

(* A database is never locked out for good (WriterLock!NoLockout). *)
Unlocked == scenario = "lock" => NoLockout

===============================================================================
