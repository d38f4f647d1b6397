---------------------------- MODULE JudgmentsProofs ----------------------------
(***************************************************************************)
(* What the server decides and writes down stays in order, for any number   *)
(* of threads, people, claims, patterns and installs: an approval has the   *)
(* people it needs, a verdict on a pair of people is not asked for again, a *)
(* token has one pattern that its facts bear, a claim has one case file     *)
(* whose verdict counts once, and who withdrew from the commons is not      *)
(* published.  One part for each component of MCJudgments, with the         *)
(* inductive invariant it needs; the theorems at the end of each part are   *)
(* about the specification the runs check.                                  *)
(***************************************************************************)
EXTENDS MCJudgments, FiniteSetTheorems, SequenceTheorems, TLAPS

------------------------------------------------------------------------------
(* The approval queue.  EnoughApproved is not inductive: it must also be    *)
(* known that what is on disk has the property (a crash brings it back),    *)
(* that no act is by the proposer, and that a request on its way to an act  *)
(* was checked for that; and that the acts decide() counts are as many as   *)
(* the people who acted.                                                    *)

Store == [state : [Item -> QueueState], acts : SUBSET Act]

(* The acts decide() counts, and the people they stand for. *)
ApprovingActs(A, i) == {a \in A : a.item = i /\ a.verdict = "approve"}

ApprovingPeople(A, i) ==
  {p \in Principal \ {ProposedBy[i]} :
     [item |-> i, principal |-> p, verdict |-> "approve"] \in A}

NotOwn(A) == \A a \in A : a.principal # ProposedBy[a.item]

Enough(d) ==
  \A i \in Item : d.state[i] = "approved" => Cardinality(ApprovingPeople(d.acts, i)) >= Needs[i]

StoreSound(d) == IsFiniteSet(d.acts) /\ NotOwn(d.acts) /\ Enough(d)

Checked ==
  \A h \in Handler : req[h].at = "act" => req[h].who # ProposedBy[req[h].item]

QueueInv == TypeOK /\ StoreSound(db) /\ StoreSound(disk) /\ Checked

------------------------------------------------------------------------------
(* Acts and people: the primary key (item, principal) makes them as many.   *)
LEMMA ActsArePeople ==
  ASSUME NEW A \in SUBSET Act, IsFiniteSet(A), NotOwn(A), NEW i \in Item
  PROVE  /\ IsFiniteSet(ApprovingPeople(A, i))
         /\ Cardinality(ApprovingPeople(A, i)) = Cardinality(ApprovingActs(A, i))
         /\ Cardinality(ApprovingPeople(A, i)) \in Nat
<1> DEFINE S == ApprovingActs(A, i)
           T == ApprovingPeople(A, i)
           f == [a \in S |-> a.principal]
<1>1. IsFiniteSet(S)
  BY FS_Subset DEF ApprovingActs
<1>2. f \in [S -> T]
  BY DEF ApprovingActs, ApprovingPeople, NotOwn, Act
<1>3. ASSUME NEW a \in S, NEW b \in S, f[a] = f[b] PROVE a = b
  BY <1>3 DEF ApprovingActs, Act
<1>4. ASSUME NEW p \in T PROVE \E a \in S : f[a] = p
  BY DEF ApprovingActs, ApprovingPeople, Act
<1>5. f \in Bijection(S, T)
  BY <1>2, <1>3, <1>4 DEF Bijection, Injection, Surjection, IsInjective
<1>6. ExistsBijection(S, T)
  BY <1>5 DEF ExistsBijection
<1> QED
  BY <1>1, <1>6, FS_Bijection, FS_CardinalityType

(* More acts never take an approval away. *)
LEMMA MoreActs ==
  ASSUME NEW A \in SUBSET Act, NEW B \in SUBSET Act, A \subseteq B,
         IsFiniteSet(B), NotOwn(B), NEW i \in Item
  PROVE  Cardinality(ApprovingPeople(A, i)) <= Cardinality(ApprovingPeople(B, i))
<1>1. ApprovingPeople(A, i) \subseteq ApprovingPeople(B, i)
  BY DEF ApprovingPeople
<1>2. IsFiniteSet(ApprovingPeople(B, i))
  BY ActsArePeople
<1> QED
  BY <1>1, <1>2, FS_Subset

(* What leaves the acts alone and approves nothing keeps a store sound.     *)
LEMMA NothingApproved ==
  ASSUME NEW d \in Store, NEW e \in Store, StoreSound(d), e.acts = d.acts,
         \A i \in Item : e.state[i] = "approved" => d.state[i] = "approved"
  PROVE  StoreSound(e)
  BY DEF StoreSound, Enough

(* At the start nothing is held. *)
LEMMA QueueInit == ASSUME QueueAssumption, Init PROVE QueueInv
<1>1. Free \in [at : Step, item : Item, who : Principal, verdict : Verdict,
                list : BOOLEAN, may : BOOLEAN, gone : SUBSET Item]
  BY DEF QueueAssumption, Free, NoRequest, Step, Verdict
<1>2. TypeOK
  BY <1>1 DEF QueueAssumption, Init, TypeOK, QueueState
<1>3. StoreSound(db) /\ StoreSound(disk)
  BY FS_EmptySet DEF Init, StoreSound, NotOwn, Enough
<1>4. Checked
  BY DEF Init, Checked, Free, NoRequest
<1> QED
  BY <1>2, <1>3, <1>4 DEF QueueInv

(* Every step of every thread, and of the rest of the server. *)
LEMMA QueueStep == ASSUME QueueAssumption, QueueInv, [Next]_vars PROVE QueueInv'
<1> DEFINE Requesting == [at : Step, item : Item, who : Principal, verdict : Verdict,
                          list : BOOLEAN, may : BOOLEAN, gone : SUBSET Item]
<1> USE DEF QueueInv
<1>0. /\ db \in Store /\ disk \in Store /\ req \in [Handler -> Requesting]
      /\ due \subseteq Item /\ approvers \subseteq Principal
  BY DEF TypeOK, Store
<1>f. Free \in Requesting /\ Free.at = "idle"
  BY DEF QueueAssumption, Free, NoRequest, Step, Verdict
<1>t. ASSUME db' \in Store, disk' \in Store, req' \in [Handler -> Requesting],
             due' \subseteq Item, approvers' \subseteq Principal
      PROVE  TypeOK'
  BY <1>t DEF TypeOK, Store
<1>1. ASSUME NEW i \in Item, Deadline(i) PROVE QueueInv'
  BY <1>1, <1>0, <1>t DEF Deadline, Checked
<1>2. ASSUME NEW h \in Handler, NEW i \in Item, Hold(h, i) PROVE QueueInv'
  <2>1. db' \in Store /\ disk' = db' /\ db'.acts = db.acts
    BY <1>2, <1>0 DEF Hold, Store, QueueState
  <2>2. \A j \in Item : db'.state[j] = "approved" => db.state[j] = "approved"
    BY <1>2, <1>0 DEF Hold, Store
  <2>3. StoreSound(db')
    BY <2>1, <2>2, <1>0, NothingApproved
  <2> QED
    BY <1>2, <2>1, <2>3, <1>0, <1>t DEF Hold, Checked
<1>3. ASSUME NEW h \in Handler, Ask(h) PROVE QueueInv'
  <2>1. PICK i \in Item, p \in Principal, v \in Verdict, list \in BOOLEAN :
          /\ db.state[i] # "none"
          /\ list => i = Free.item /\ p = Free.who /\ v = Free.verdict
          /\ req' = [req EXCEPT ![h] = [at |-> "sweep", item |-> i, who |-> p, verdict |-> v,
                                        list |-> list, may |-> ~ list /\ p \in approvers,
                                        gone |-> {}]]
    BY <1>3, Zenon DEF Ask
  <2>2. req' \in [Handler -> Requesting]
    BY <2>1, <1>0 DEF Step
  <2>3. Checked'
    BY <2>1, <1>0 DEF Checked
  <2> QED
    BY <1>3, <2>2, <2>3, <1>0, <1>t DEF Ask
<1>4. ASSUME NEW h \in Handler, SweepRead(h) PROVE QueueInv'
  <2> DEFINE lapsed == {i \in due : db.state[i] = "pending"}
  <2>a. lapsed \in SUBSET Item
    BY <1>0
  <2>b. req' = [req EXCEPT ![h].gone = lapsed, ![h].at = "expire"]
    BY <1>4 DEF SweepRead
  <2> HIDE DEF lapsed
  <2>c. "expire" \in Step
    BY DEF Step
  <2>1. req' \in [Handler -> Requesting]
    BY ZenonT(40), <2>a, <2>b, <2>c, <1>0
  <2>2. Checked'
    BY <1>4, <1>0 DEF SweepRead, Checked
  <2> QED
    BY <1>4, <2>1, <2>2, <1>0, <1>t DEF SweepRead
<1>5. ASSUME NEW h \in Handler, SweepWrite(h) PROVE QueueInv'
  <2> DEFINE next == IF req[h].list THEN "commit" ELSE "check"
  <2>a. next \in Step /\ next # "act"
    BY DEF Step
  <2>b. req' = [req EXCEPT ![h].gone = {}, ![h].at = next]
    BY <1>5 DEF SweepWrite
  <2> HIDE DEF next
  <2>1. req' \in [Handler -> Requesting] /\ Checked'
    BY ZenonT(40), <2>a, <2>b, <1>0 DEF Checked
  <2>2. /\ db' \in Store /\ db'.acts = db.acts
        /\ \A j \in Item : db'.state[j] = "approved" => db.state[j] = "approved"
    BY <1>5, <1>0 DEF SweepWrite, Store, QueueState
  <2>3. StoreSound(db')
    BY <2>2, <1>0, NothingApproved
  <2> QED
    BY <1>5, <2>1, <2>2, <2>3, <1>0, <1>t DEF SweepWrite
<1>6. ASSUME NEW h \in Handler, Check(h) PROVE QueueInv'
  <2>1. req' \in [Handler -> Requesting]
    BY <1>6, <1>0, <1>f DEF Check, Go, End, Step
  <2>2. Checked'
    BY <1>6, <1>0, <1>f DEF Check, Go, End, May, Checked
  <2> QED
    BY <1>6, <2>1, <2>2, <1>0, <1>t DEF Check
<1>7. ASSUME NEW h \in Handler, WriteAct(h) PROVE QueueInv'
  <2>1. req' \in [Handler -> Requesting] /\ Checked'
    BY <1>7, <1>0, <1>f DEF WriteAct, Go, End, Step, Checked
  <2>2. CASE HasActed(req[h].who, req[h].item)
    BY <1>7, <2>1, <2>2, <1>0, <1>t DEF WriteAct
  <2>3. CASE ~ HasActed(req[h].who, req[h].item)
    <3> DEFINE act == [item |-> req[h].item, principal |-> req[h].who,
                       verdict |-> req[h].verdict]
    <3>1. act \in Act /\ act.principal # ProposedBy[act.item]
      BY <1>7, <1>0 DEF WriteAct, At, Act, Checked
    <3>2. db' = [db EXCEPT !.acts = @ \cup {act}] /\ UNCHANGED <<disk, due, approvers>>
      BY <1>7, <2>3 DEF WriteAct
    <3>3. db' \in Store /\ db'.acts = db.acts \cup {act} /\ db'.state = db.state
      BY <3>1, <3>2, <1>0 DEF Store
    <3>4. IsFiniteSet(db'.acts) /\ NotOwn(db'.acts)
      BY <3>1, <3>3, FS_AddElement DEF StoreSound, NotOwn
    <3>5. Enough(db')
      <4> SUFFICES ASSUME NEW i \in Item, db.state[i] = "approved"
                   PROVE  Cardinality(ApprovingPeople(db'.acts, i)) >= Needs[i]
        BY <3>3 DEF Enough
      <4>1. Cardinality(ApprovingPeople(db.acts, i)) >= Needs[i]
        BY DEF StoreSound, Enough
      <4>2. db.acts \in SUBSET Act /\ db'.acts \in SUBSET Act /\ db.acts \subseteq db'.acts
        BY <3>3, <1>0 DEF Store
      <4>3. Cardinality(ApprovingPeople(db.acts, i)) <= Cardinality(ApprovingPeople(db'.acts, i))
        BY <4>2, <3>4, MoreActs
      <4>4. /\ Cardinality(ApprovingPeople(db.acts, i)) \in Nat
            /\ Cardinality(ApprovingPeople(db'.acts, i)) \in Nat
        BY <4>2, <3>4, ActsArePeople DEF StoreSound
      <4>5. Needs[i] \in Nat
        BY DEF QueueAssumption
      <4> QED
        BY <4>1, <4>3, <4>4, <4>5
    <3> QED
      BY <2>1, <3>2, <3>3, <3>4, <3>5, <1>0, <1>t DEF StoreSound
  <2> QED
    BY <2>2, <2>3
<1>8. ASSUME NEW h \in Handler, Settle(h) PROVE QueueInv'
  <2>1. req' \in [Handler -> Requesting] /\ Checked'
    BY <1>8, <1>0 DEF Settle, Go, Step, Checked
  <2> DEFINE i == req[h].item
  <2>2. i \in Item /\ req[h].verdict \in Verdict
    BY <1>0
  <2>3. \/ db' = db
        \/ db' = [db EXCEPT !.state[i] = "refused"]
        \/ db' = [db EXCEPT !.state[i] = "approved"] /\ Yes(i) >= Needs[i]
    BY <1>8, <2>2 DEF Settle, Verdict
  <2>4. db' \in Store /\ db'.acts = db.acts
    BY <2>2, <2>3, <1>0 DEF Store, QueueState
  <2>5. CASE db' = db \/ db' = [db EXCEPT !.state[i] = "refused"]
    <3>1. \A j \in Item : db'.state[j] = "approved" => db.state[j] = "approved"
      BY <2>2, <2>5, <1>0 DEF Store
    <3>2. StoreSound(db')
      BY <3>1, <2>4, <1>0, NothingApproved
    <3> QED
      BY <1>8, <2>1, <2>4, <3>2, <1>0, <1>t DEF Settle
  <2>6. CASE db' = [db EXCEPT !.state[i] = "approved"] /\ Yes(i) >= Needs[i]
    <3>1. Cardinality(ApprovingPeople(db.acts, i)) = Yes(i)
      BY <2>2, <1>0, ActsArePeople DEF StoreSound, Yes, ApprovingActs, Store
    <3>2. Enough(db')
      BY <2>2, <2>4, <2>6, <3>1, <1>0 DEF Enough, StoreSound, Store
    <3>3. StoreSound(db')
      BY <2>4, <3>2 DEF StoreSound
    <3> QED
      BY <1>8, <2>1, <2>4, <3>3, <1>0, <1>t DEF Settle
  <2> QED
    BY <2>3, <2>5, <2>6
<1>9. ASSUME NEW h \in Handler, Commit(h) PROVE QueueInv'
  <2>1. req' \in [Handler -> Requesting] /\ Checked'
    BY <1>9, <1>0, <1>f DEF Commit, End, Checked
  <2> QED
    BY <1>9, <2>1, <1>0, <1>t DEF Commit
<1>10. ASSUME ChangePolicy \/ OtherCommit PROVE QueueInv'
  BY <1>10, <1>0, <1>t DEF ChangePolicy, OtherCommit, Checked
<1>11. ASSUME Crash PROVE QueueInv'
  BY <1>11, <1>0, <1>f, <1>t DEF Crash, Checked
<1>12. CASE UNCHANGED vars
  BY <1>12, <1>0, <1>t DEF vars, Checked
<1> QED
  BY <1>1, <1>2, <1>3, <1>4, <1>5, <1>6, <1>7, <1>8, <1>9, <1>10, <1>11, <1>12 DEF Next

------------------------------------------------------------------------------
(* The queue's inductive invariant holds throughout, whatever the threads,  *)
(* the sweeps, the commits of other requests and the crashes.               *)
THEOREM QueueSound == ASSUME QueueAssumption PROVE Spec => []QueueInv
<1>1. Init => QueueInv
  BY QueueInit
<1>2. QueueInv /\ [Next]_vars => QueueInv'
  BY QueueStep
<1> QED
  BY <1>1, <1>2, PTL DEF Spec

(* Type correctness of the rows, the policy and the requests. *)
THEOREM QueueTypeCorrect == ASSUME QueueAssumption PROVE Spec => []TypeOK
<1>1. QueueInv => TypeOK
  BY DEF QueueInv
<1> QED
  BY <1>1, QueueSound, PTL

(* Nothing is ever approved without the approvals it needs, by distinct     *)
(* principals other than the proposer (approval_queue.py:32-37).            *)
THEOREM AlwaysEnoughApproved == ASSUME QueueAssumption PROVE Spec => []EnoughApproved
<1>1. QueueInv => EnoughApproved
  BY DEF QueueInv, StoreSound, Enough, ApprovingPeople, EnoughApproved
<1> QED
  BY <1>1, QueueSound, PTL
------------------------------------------------------------------------------
(* The refinement.  As long as requests come one at a time, what the        *)
(* connection holds and the disk does not (d and k below) is known from     *)
(* where the one request stands: lapsed items only, then one act on top of  *)
(* them, then what the act settles.                                         *)

PendingIn(k) == {i \in Item : k.state[i] = "pending"}
LapsedIn(k, S) == [i \in Item |-> IF i \in S THEN "expired" ELSE k.state[i]]
ActOf(r) == [item |-> r.item, principal |-> r.who, verdict |-> r.verdict]

OnlySwept(d, k) ==
  \E S \in SUBSET PendingIn(k) : d.state = LapsedIn(k, S) /\ d.acts = k.acts

(* Who may act on an item: what check() found. *)
MayStill(d, r) ==
  /\ d.state[r.item] = "pending"
  /\ r.who # ProposedBy[r.item]
  /\ \A a \in d.acts : ~ (a.item = r.item /\ a.principal = r.who)

(* The act is one Settlement would take. *)
Acceptable(d, k, S, r) ==
  /\ r.item \in PendingIn(k) \ S
  /\ r.who # ProposedBy[r.item]
  /\ \A a \in k.acts : ~ (a.item = r.item /\ a.principal = r.who)
  /\ d.acts = k.acts \cup {ActOf(r)}

Acted(d, k, r) ==
  \E S \in SUBSET PendingIn(k) : Acceptable(d, k, S, r) /\ d.state = LapsedIn(k, S)

Verdicts(d, r) ==
  IF r.verdict = "refuse" THEN "refused"
  ELSE IF Cardinality(ApprovingActs(d.acts, r.item)) >= Needs[r.item] THEN "approved"
  ELSE "pending"

Decided(d, k, r) ==
  \E S \in SUBSET PendingIn(k) :
     /\ Acceptable(d, k, S, r)
     /\ d.state = [LapsedIn(k, S) EXCEPT ![r.item] = Verdicts(d, r)]

Deciding(r) == r.at = "settle" \/ (r.at = "commit" /\ ~ r.list)

RequestInv(d, k, r) ==
  /\ r.at = "expire" => \A i \in r.gone : d.state[i] = "pending"
  /\ r.at \in {"check", "act", "settle"} => ~ r.list
  /\ r.at = "act" => MayStill(d, r)
  /\ r.at = "settle" => Acted(d, k, r)
  /\ r.at = "commit" /\ ~ r.list => Decided(d, k, r)

Serialized(d, k, q) ==
  /\ \A g, h \in Handler : q[g].at # "idle" /\ q[h].at # "idle" => g = h
  /\ (\A h \in Handler : ~ Deciding(q[h])) => OnlySwept(d, k)
  /\ \A h \in Handler : RequestInv(d, k, q[h])

SerialInv == ~ overlapped => Serialized(db, disk, req)

Requesting == [at : Step, item : Item, who : Principal, verdict : Verdict,
               list : BOOLEAN, may : BOOLEAN, gone : SUBSET Item]

LEMMA FreeRequest ==
  ASSUME QueueAssumption
  PROVE  Free \in Requesting /\ Free.at = "idle"
  BY DEF QueueAssumption, Free, NoRequest, Step, Verdict, Requesting

LEMMA QueueTypes ==
  ASSUME TypeOK
  PROVE  db \in Store /\ disk \in Store /\ req \in [Handler -> Requesting]
  BY DEF TypeOK, Store, Requesting

(* With everything committed there is nothing to account for.               *)
LEMMA Caught ==
  ASSUME NEW d \in Store
  PROVE  OnlySwept(d, d)
<1>1. d.state = LapsedIn(d, {})
  BY DEF Store, LapsedIn
<1> QED
  BY <1>1 DEF OnlySwept

(* Nobody holds a request. *)
LEMMA AllFree ==
  ASSUME NEW d, NEW k, NEW q, \A h \in Handler : q[h].at = "idle", OnlySwept(d, k)
  PROVE  Serialized(d, k, q)
  BY DEF Serialized, Deciding, RequestInv

(* One request moves and no other is there. *)
LEMMA OneMoves ==
  ASSUME NEW d, NEW k, NEW q \in [Handler -> Requesting], NEW h \in Handler, NEW r \in Requesting,
         \A g \in Handler \ {h} : q[g].at = "idle",
         RequestInv(d, k, r), Deciding(r) \/ OnlySwept(d, k)
  PROVE  Serialized(d, k, [q EXCEPT ![h] = r])
<1> DEFINE p == [q EXCEPT ![h] = r]
<1>1. p[h] = r /\ \A g \in Handler \ {h} : p[g].at = "idle"
  OBVIOUS
<1> HIDE DEF p
<1>2. \A g \in Handler \ {h} : RequestInv(d, k, p[g])
  BY <1>1 DEF RequestInv
<1> QED
  BY <1>1, <1>2 DEF Serialized, p

(* The one request of a serialized state. *)
LEMMA OnlyOne ==
  ASSUME NEW d, NEW k, NEW q, Serialized(d, k, q), NEW h \in Handler, q[h].at # "idle"
  PROVE  /\ \A g \in Handler \ {h} : q[g].at = "idle"
         /\ RequestInv(d, k, q[h])
         /\ Deciding(q[h]) \/ OnlySwept(d, k)
<1>1. \A g \in Handler \ {h} : q[g].at = "idle"
  BY DEF Serialized
<1> QED
  BY <1>1 DEF Serialized, Deciding

(* The sweep lapses more of what is pending. *)
LEMMA SweepMore ==
  ASSUME NEW d \in Store, NEW k \in Store, NEW G \in SUBSET Item, OnlySwept(d, k),
         \A i \in G : d.state[i] = "pending",
         NEW e \in Store, e.acts = d.acts,
         e.state = [i \in Item |-> IF i \in G THEN "expired" ELSE d.state[i]]
  PROVE  OnlySwept(e, k)
<1>1. PICK S \in SUBSET PendingIn(k) : d.state = LapsedIn(k, S) /\ d.acts = k.acts
  BY DEF OnlySwept
<1>2. G \subseteq PendingIn(k) \ S
  BY <1>1 DEF PendingIn, LapsedIn
<1>3. e.state = LapsedIn(k, S \cup G)
  BY <1>1 DEF LapsedIn
<1> QED
  BY <1>1, <1>2, <1>3 DEF OnlySwept

(* Every step keeps the account, or happens in the middle of a request.     *)
LEMMA SerialStep ==
  ASSUME QueueAssumption, TypeOK, TypeOK', SerialInv, [Next]_vars
  PROVE  SerialInv'
<1> SUFFICES ASSUME ~ overlapped' PROVE Serialized(db, disk, req)'
  BY DEF SerialInv
<1>0. /\ db \in Store /\ disk \in Store /\ req \in [Handler -> Requesting]
      /\ db' \in Store /\ disk' \in Store /\ req' \in [Handler -> Requesting]
  BY DEF TypeOK, Store, Requesting
<1>f. Free \in Requesting /\ Free.at = "idle"
  BY FreeRequest
<1>o. ~ overlapped
  BY DEF Next, Deadline, Hold, Ask, SweepRead, SweepWrite, Check, WriteAct, Settle, Commit,
         ChangePolicy, OtherCommit, Crash, Interrupt, Interrupts, vars
<1>s. Serialized(db, disk, req)
  BY <1>o DEF SerialInv
(* One request moves from where it stands. *)
<1>m. ASSUME NEW h \in Handler, NEW r \in Requesting, req[h].at # "idle",
             req' = [req EXCEPT ![h] = r],
             RequestInv(db', disk', r), Deciding(r) \/ OnlySwept(db', disk')
      PROVE  Serialized(db, disk, req)'
  <2>1. \A g \in Handler \ {h} : req[g].at = "idle"
    BY <1>s, <1>m, OnlyOne
  <2> QED
    BY <2>1, <1>m, <1>0, OneMoves
(* Nobody holds a request, and everything is committed. *)
<1>c. ASSUME \A h \in Handler : req'[h].at = "idle", disk' = db'
      PROVE  Serialized(db, disk, req)'
  BY <1>c, <1>0, Caught, AllFree
<1>1. ASSUME NEW i \in Item, Deadline(i) PROVE Serialized(db, disk, req)'
  BY <1>1, <1>s DEF Deadline
<1>2. ASSUME NEW h \in Handler, NEW i \in Item, Hold(h, i) PROVE Serialized(db, disk, req)'
  BY <1>2, <1>c DEF Hold, Interrupt, Interrupts, At
<1>3. ASSUME NEW h \in Handler, Ask(h) PROVE Serialized(db, disk, req)'
  <2>1. PICK i \in Item, p \in Principal, v \in Verdict, list \in BOOLEAN :
          /\ db.state[i] # "none"
          /\ list => i = Free.item /\ p = Free.who /\ v = Free.verdict
          /\ req' = [req EXCEPT ![h] = [at |-> "sweep", item |-> i, who |-> p, verdict |-> v,
                                        list |-> list, may |-> ~ list /\ p \in approvers,
                                        gone |-> {}]]
    BY <1>3, Zenon DEF Ask
  <2> DEFINE r == [at |-> "sweep", item |-> i, who |-> p, verdict |-> v, list |-> list,
                   may |-> ~ list /\ p \in approvers, gone |-> {}]
  <2>2. r \in Requesting /\ r.at = "sweep"
    BY DEF Requesting, Step
  <2>3. req' = [req EXCEPT ![h] = r]
    BY <2>1
  <2> HIDE DEF r
  <2>4. \A g \in Handler : req[g].at = "idle"
    BY <1>3 DEF Ask, At, Interrupt, Interrupts
  <2>5. OnlySwept(db, disk) /\ db' = db /\ disk' = disk
    BY <1>3, <1>s, <2>4 DEF Serialized, Deciding, Ask
  <2>6. RequestInv(db, disk, r)
    BY <2>2 DEF RequestInv
  <2> QED
    BY <2>2, <2>3, <2>4, <2>5, <2>6, <1>0, OneMoves
<1>4. ASSUME NEW h \in Handler, SweepRead(h) PROVE Serialized(db, disk, req)'
  <2> DEFINE lapsed == {i \in due : db.state[i] = "pending"}
             r == [req[h] EXCEPT !.gone = lapsed, !.at = "expire"]
  <2>1. req[h].at = "sweep" /\ db' = db /\ disk' = disk /\ req[h] \in Requesting
    BY <1>4, <1>0 DEF SweepRead, At
  <2>2. req' = [req EXCEPT ![h] = r]
    BY <1>4, <1>0 DEF SweepRead
  <2>3. r \in Requesting
    <3>1. req'[h] = r
      BY <2>2, <1>0
    <3> QED
      BY <3>1, <1>0
  <2>4. r.at = "expire" /\ r.gone = lapsed
    BY <2>1 DEF Requesting
  <2> HIDE DEF r
  <2>5. OnlySwept(db, disk)
    BY <2>1, <1>s, OnlyOne DEF Deciding
  <2>6. RequestInv(db, disk, r)
    BY <2>4 DEF RequestInv
  <2> QED
    BY <2>1, <2>2, <2>3, <2>5, <2>6, <1>m
<1>5. ASSUME NEW h \in Handler, SweepWrite(h) PROVE Serialized(db, disk, req)'
  <2> DEFINE next == IF req[h].list THEN "commit" ELSE "check"
             r == [req[h] EXCEPT !.gone = {}, !.at = next]
  <2>1. req[h].at = "expire" /\ disk' = disk /\ req[h] \in Requesting
    BY <1>5, <1>0 DEF SweepWrite, At
  <2>2. req' = [req EXCEPT ![h] = r]
    BY <1>5, <1>0 DEF SweepWrite
  <2>3. r \in Requesting
    <3>1. req'[h] = r
      BY <2>2, <1>0
    <3> QED
      BY <3>1, <1>0
  <2>4. r.at = next /\ r.list = req[h].list
    BY <2>1 DEF Requesting
  <2> HIDE DEF r
  <2>5. OnlySwept(db, disk) /\ \A i \in req[h].gone : db.state[i] = "pending"
    BY <2>1, <1>s, OnlyOne DEF Deciding, RequestInv
  <2>6. /\ db'.acts = db.acts /\ req[h].gone \in SUBSET Item
        /\ db'.state = [i \in Item |-> IF i \in req[h].gone THEN "expired" ELSE db.state[i]]
    BY <1>5, <2>1, <1>0 DEF SweepWrite, Requesting, Store
  <2>7. OnlySwept(db', disk')
    BY <2>1, <2>5, <2>6, <1>0, SweepMore
  <2>8. RequestInv(db', disk', r)
    BY <2>4 DEF RequestInv
  <2> QED
    BY <2>1, <2>2, <2>3, <2>7, <2>8, <1>m
<1>6. ASSUME NEW h \in Handler, Check(h) PROVE Serialized(db, disk, req)'
  <2>1. req[h].at = "check" /\ db' = db /\ disk' = disk /\ req[h] \in Requesting
    BY <1>6, <1>0 DEF Check, At
  <2>2. OnlySwept(db, disk) /\ ~ req[h].list
    BY <2>1, <1>s, OnlyOne DEF Deciding, RequestInv
  <2>3. CASE May(req[h].who, req[h].item, req[h].may)
    <3> DEFINE r == [req[h] EXCEPT !.at = "act"]
    <3>1. req' = [req EXCEPT ![h] = r]
      BY <1>6, <1>0, <2>3 DEF Check, Go
    <3>2. r \in Requesting
      <4>1. req'[h] = r
        BY <3>1, <1>0
      <4> QED
        BY <4>1, <1>0
    <3>3. r.at = "act" /\ r.who = req[h].who /\ r.item = req[h].item /\ r.list = req[h].list
      BY <2>1 DEF Requesting
    <3> HIDE DEF r
    <3>4. RequestInv(db, disk, r)
      BY <2>2, <2>3, <3>3 DEF RequestInv, May, HasActed, MayStill
    <3> QED
      BY <2>1, <2>2, <3>1, <3>2, <3>4, <1>m
  <2>4. CASE ~ May(req[h].who, req[h].item, req[h].may)
    <3>1. req' = [req EXCEPT ![h] = Free]
      BY <1>6, <2>4 DEF Check, End
    <3>2. RequestInv(db, disk, Free)
      BY <1>f DEF RequestInv
    <3> QED
      BY <2>1, <2>2, <3>1, <3>2, <1>f, <1>m
  <2> QED
    BY <2>3, <2>4
<1>7. ASSUME NEW h \in Handler, WriteAct(h) PROVE Serialized(db, disk, req)'
  <2>1. req[h].at = "act" /\ disk' = disk /\ req[h] \in Requesting
    BY <1>7, <1>0 DEF WriteAct, At
  <2>2. OnlySwept(db, disk) /\ ~ req[h].list /\ MayStill(db, req[h])
    BY <2>1, <1>s, OnlyOne DEF Deciding, RequestInv
  <2>3. ~ HasActed(req[h].who, req[h].item)
    BY <2>2 DEF MayStill, HasActed
  <2> DEFINE r == [req[h] EXCEPT !.at = "settle"]
  <2>4. req' = [req EXCEPT ![h] = r]
    BY <1>7, <1>0, <2>3 DEF WriteAct, Go
  <2>5. r \in Requesting
    <3>1. req'[h] = r
      BY <2>4, <1>0
    <3> QED
      BY <3>1, <1>0
  <2>6. /\ r.at = "settle" /\ r.who = req[h].who /\ r.item = req[h].item
        /\ r.verdict = req[h].verdict /\ r.list = req[h].list
    BY <2>1 DEF Requesting
  <2> HIDE DEF r
  <2>7. db'.state = db.state /\ db'.acts = db.acts \cup {ActOf(r)}
    BY <1>7, <1>0, <2>3, <2>6 DEF WriteAct, Store, ActOf
  <2>8. PICK S \in SUBSET PendingIn(disk) : db.state = LapsedIn(disk, S) /\ db.acts = disk.acts
    BY <2>2 DEF OnlySwept
  <2>9. r.item \in PendingIn(disk) \ S
    <3>1. r.item \in Item /\ db.state[r.item] = "pending"
      BY <2>2, <2>5, <2>6 DEF MayStill, Requesting
    <3> QED
      BY <2>8, <3>1 DEF LapsedIn, PendingIn
  <2>10. Acceptable(db', disk', S, r)
    BY <2>1, <2>2, <2>6, <2>7, <2>8, <2>9 DEF Acceptable, MayStill
  <2>11. RequestInv(db', disk', r) /\ Deciding(r)
    BY <2>1, <2>2, <2>6, <2>7, <2>8, <2>10 DEF RequestInv, Acted, Deciding
  <2> QED
    BY <2>1, <2>4, <2>5, <2>11, <1>m
<1>8. ASSUME NEW h \in Handler, Settle(h) PROVE Serialized(db, disk, req)'
  <2>1. req[h].at = "settle" /\ disk' = disk /\ req[h] \in Requesting
    BY <1>8, <1>0 DEF Settle, At
  <2>2. ~ req[h].list /\ Acted(db, disk, req[h])
    BY <2>1, <1>s, OnlyOne DEF RequestInv
  <2> DEFINE r == [req[h] EXCEPT !.at = "commit"]
  <2>3. req' = [req EXCEPT ![h] = r]
    BY <1>8, <1>0 DEF Settle, Go
  <2>4. r \in Requesting
    <3>1. req'[h] = r
      BY <2>3, <1>0
    <3> QED
      BY <3>1, <1>0
  <2>5. /\ r.at = "commit" /\ r.who = req[h].who /\ r.item = req[h].item
        /\ r.verdict = req[h].verdict /\ r.list = req[h].list
        /\ r.item \in Item /\ r.verdict \in Verdict
    BY <2>1 DEF Requesting
  <2> HIDE DEF r
  <2>6. PICK S \in SUBSET PendingIn(disk) :
               Acceptable(db, disk, S, req[h]) /\ db.state = LapsedIn(disk, S)
    BY <2>2 DEF Acted
  <2>7. db.state[r.item] = "pending"
    BY <2>5, <2>6 DEF Acceptable, LapsedIn, PendingIn
  <2>8. db'.acts = db.acts
    BY <1>8, <1>0 DEF Settle, Store
  <2>9. db'.state = [db.state EXCEPT ![r.item] = Verdicts(db', r)]
    <3>1. Verdicts(db', r) = IF r.verdict = "refuse" THEN "refused"
                             ELSE IF Yes(r.item) >= Needs[r.item] THEN "approved"
                             ELSE "pending"
      BY <2>8 DEF Verdicts, Yes, ApprovingActs
    <3>2. CASE r.verdict = "refuse"
      <4>1. db' = [db EXCEPT !.state[req[h].item] = "refused"]
        BY <1>8, <2>5, <3>2 DEF Settle
      <4> QED
        BY <1>0, <2>5, <3>1, <3>2, <4>1 DEF Store
    <3>3. CASE r.verdict = "approve" /\ Yes(r.item) >= Needs[r.item]
      BY <1>8, <1>0, <2>5, <3>1, <3>3 DEF Settle, Store
    <3>4. CASE r.verdict = "approve" /\ ~ (Yes(r.item) >= Needs[r.item])
      BY <1>8, <1>0, <2>5, <2>7, <3>1, <3>4 DEF Settle, Store
    <3> QED
      BY <2>5, <3>2, <3>3, <3>4 DEF Verdict
  <2>10. Acceptable(db', disk', S, r)
    BY <2>1, <2>5, <2>6, <2>8 DEF Acceptable, ActOf
  <2>11. Decided(db', disk', r)
    BY <2>1, <2>6, <2>9, <2>10 DEF Decided
  <2>12. RequestInv(db', disk', r) /\ Deciding(r)
    BY <2>2, <2>5, <2>11 DEF RequestInv, Deciding
  <2> QED
    BY <2>1, <2>3, <2>4, <2>12, <1>m
<1>9. ASSUME NEW h \in Handler, Commit(h) PROVE Serialized(db, disk, req)'
  <2>1. req[h].at # "idle" /\ req' = [req EXCEPT ![h] = Free] /\ db' = db /\ disk' = db
    BY <1>9 DEF Commit, At, End
  <2>2. RequestInv(db', disk', Free) /\ OnlySwept(db', disk')
    BY <2>1, <1>0, <1>f, Caught DEF RequestInv
  <2> QED
    BY <2>1, <2>2, <1>f, <1>m
<1>10. ASSUME ChangePolicy \/ OtherCommit PROVE Serialized(db, disk, req)'
  BY <1>10, <1>c DEF ChangePolicy, OtherCommit, Interrupts, At
<1>11. ASSUME Crash PROVE Serialized(db, disk, req)'
  BY <1>11, <1>c, <1>f DEF Crash
<1>12. CASE UNCHANGED vars
  BY <1>12, <1>s DEF vars
<1> QED
  BY <1>1, <1>2, <1>3, <1>4, <1>5, <1>6, <1>7, <1>8, <1>9, <1>10, <1>11, <1>12 DEF Next

LEMMA SerialInit == ASSUME QueueAssumption, Init PROVE SerialInv
<1>1. db \in Store /\ disk = db
  BY DEF Init, Store, QueueState
<1>2. \A h \in Handler : req[h].at = "idle"
  BY FreeRequest DEF Init
<1> QED
  BY <1>1, <1>2, Caught, AllFree DEF SerialInv

(* What reaches the disk in a serialized state is a step of Settlement.     *)
LEMMA SweptIsExpire ==
  ASSUME NEW d \in Store, disk \in Store, OnlySwept(d, disk), disk' = d
  PROVE  Promise!Next \/ UNCHANGED disk
<1>1. PICK S \in SUBSET PendingIn(disk) : d.state = LapsedIn(disk, S) /\ d.acts = disk.acts
  BY DEF OnlySwept
<1>2. CASE S = {}
  <2>1. d.state = disk.state
    BY <1>1, <1>2 DEF Store, LapsedIn
  <2> QED
    BY <1>1, <2>1 DEF Store
<1>3. CASE S # {}
  <2>1. S \in SUBSET Promise!Pending
    BY DEF PendingIn, Promise!Pending
  <2>2. Promise!Expire(S)
    BY <1>1, <1>3 DEF Promise!Expire, Promise!Lapsed, LapsedIn
  <2> QED
    BY <2>1, <2>2 DEF Promise!Next
<1> QED
  BY <1>2, <1>3

LEMMA HoldIsHold ==
  ASSUME NEW d \in Store, NEW e \in Store, disk \in Store, OnlySwept(d, disk),
         NEW i \in Item, d.state[i] = "none", e = [d EXCEPT !.state[i] = "pending"], disk' = e
  PROVE  Promise!Next
<1>1. PICK S \in SUBSET PendingIn(disk) : d.state = LapsedIn(disk, S) /\ d.acts = disk.acts
  BY DEF OnlySwept
<1>2. S \in SUBSET Promise!Pending
  BY DEF PendingIn, Promise!Pending
<1>3. disk.state[i] = "none"
  BY <1>1 DEF LapsedIn
<1>4. Promise!Hold(S, i)
  BY <1>1, <1>3 DEF Promise!Hold, Promise!Lapsed, LapsedIn, Store
<1> QED
  BY <1>2, <1>4 DEF Promise!Next

LEMMA DecidedIsDecide ==
  ASSUME NEW d \in Store, disk \in Store, NEW r \in Requesting, Decided(d, disk, r), disk' = d
  PROVE  Promise!Next
<1>1. PICK S \in SUBSET PendingIn(disk) :
             /\ Acceptable(d, disk, S, r)
             /\ d.state = [LapsedIn(disk, S) EXCEPT ![r.item] = Verdicts(d, r)]
  BY DEF Decided
<1>2. S \in SUBSET Promise!Pending
  BY DEF PendingIn, Promise!Pending
<1>3. r.item \in Item /\ r.who \in Principal /\ r.verdict \in {"approve", "refuse"}
  BY DEF Requesting, Verdict
<1>4. /\ r.item \in Promise!Pending \ S /\ r.who # ProposedBy[r.item]
      /\ r.who \notin Promise!ActedOn(r.item)
  BY <1>1 DEF Acceptable, PendingIn, Promise!Pending, Promise!ActedOn
<1>5. Verdicts(d, r) = IF r.verdict = "refuse" THEN "refused"
                       ELSE IF Promise!Approvals(d.acts, r.item) >= Needs[r.item] THEN "approved"
                       ELSE "pending"
  <2>1. Cardinality(ApprovingActs(d.acts, r.item)) = Promise!Approvals(d.acts, r.item)
    BY DEF ApprovingActs, Promise!Approvals, Cardinality, Promise!Cardinality
  <2> QED
    BY <2>1 DEF Verdicts
<1>6. Promise!Lapsed(S) = LapsedIn(disk, S)
  BY DEF Promise!Lapsed, LapsedIn
<1>7. Promise!Decide(S, r.item, r.who, r.verdict)
  BY <1>1, <1>4, <1>5, <1>6 DEF Promise!Decide, Acceptable, ActOf
<1> QED
  BY <1>2, <1>3, <1>7 DEF Promise!Next

LEMMA SettlementStep ==
  ASSUME QueueAssumption, TypeOK, TypeOK', SerialInv, Next, ~ overlapped'
  PROVE  Promise!Next \/ UNCHANGED disk
<1>0. db \in Store /\ disk \in Store /\ db' \in Store /\ req \in [Handler -> Requesting]
  BY DEF TypeOK, Store, Requesting
<1>o. ~ overlapped
  BY DEF Next, Deadline, Hold, Ask, SweepRead, SweepWrite, Check, WriteAct, Settle, Commit,
         ChangePolicy, OtherCommit, Crash, Interrupt, Interrupts
<1>s. Serialized(db, disk, req)
  BY <1>o DEF SerialInv
<1>i. ASSUME \A h \in Handler : req[h].at = "idle" PROVE OnlySwept(db, disk)
  BY <1>s, <1>i DEF Serialized, Deciding
<1>1. ASSUME NEW h \in Handler, NEW i \in Item, Hold(h, i) PROVE Promise!Next
  <2>1. \A g \in Handler : req[g].at = "idle"
    BY <1>1 DEF Hold, Interrupt, Interrupts, At
  <2>2. db.state[i] = "none" /\ db' = [db EXCEPT !.state[i] = "pending"] /\ disk' = db'
    BY <1>1 DEF Hold
  <2> QED
    BY <2>1, <2>2, <1>0, <1>i, HoldIsHold
<1>2. ASSUME NEW h \in Handler, Commit(h) PROVE Promise!Next \/ UNCHANGED disk
  <2>1. req[h].at = "commit" /\ disk' = db /\ req[h] \in Requesting
    BY <1>2, <1>0 DEF Commit, At
  <2>2. CASE req[h].list
    <3>1. OnlySwept(db, disk)
      BY <2>1, <2>2, <1>s, OnlyOne DEF Deciding
    <3> QED
      BY <2>1, <3>1, <1>0, SweptIsExpire
  <2>3. CASE ~ req[h].list
    <3>1. Decided(db, disk, req[h])
      BY <2>1, <2>3, <1>s, OnlyOne DEF RequestInv
    <3> QED
      BY <2>1, <3>1, <1>0, DecidedIsDecide
  <2> QED
    BY <2>2, <2>3
<1>3. ASSUME ChangePolicy \/ OtherCommit PROVE Promise!Next \/ UNCHANGED disk
  <2>1. \A h \in Handler : req[h].at = "idle"
    BY <1>3 DEF ChangePolicy, OtherCommit, Interrupts, At
  <2>2. disk' = db
    BY <1>3 DEF ChangePolicy, OtherCommit
  <2> QED
    BY <2>1, <2>2, <1>0, <1>i, SweptIsExpire
<1> QED
  BY <1>1, <1>2, <1>3 DEF Next, Deadline, Ask, SweepRead, SweepWrite, Check, WriteAct, Settle,
                          Crash

(* The account of the one request holds as long as requests come one at a   *)
(* time.                                                                    *)
THEOREM QueueSerialized == ASSUME QueueAssumption PROVE Spec => []SerialInv
<1>1. Init => SerialInv
  BY SerialInit
<1>2. TypeOK /\ TypeOK' /\ SerialInv /\ [Next]_vars => SerialInv'
  BY SerialStep
<1> QED
  BY <1>1, <1>2, QueueTypeCorrect, PTL DEF Spec

(* With requests one at a time what is committed behaves as the queue       *)
(* promises: items lapse, are held or are decided, whatever expiries,       *)
(* policy changes, lost sweeps and crashes come between two statements      *)
(* (approval_queue.py:16-37).                                               *)
THEOREM QueueImplementsSettlement ==
  ASSUME QueueAssumption PROVE Spec => ImplementsSettlement
<1>1. Init => Promise!Init
  BY DEF Init, Promise!Init
<1>2. TypeOK /\ TypeOK' /\ SerialInv /\ [Next]_vars =>
        [~ overlapped' => Promise!Next \/ UNCHANGED disk]_vars
  BY SettlementStep
<1> QED
  BY <1>1, <1>2, QueueTypeCorrect, QueueSerialized, PTL DEF Spec, ImplementsSettlement

(* The queue of the judgments is the queue: the others do not touch it. *)
LEMMA JudgmentsHaveQueue == JudgmentsSpec => Spec
<1> DEFINE moves == <<scenario, vars, judging, consolidating, guessing, pooling>>
<1>1. JudgmentsInit => Init
  BY DEF JudgmentsInit
<1>2. [JudgmentsNext]_moves => [Next]_vars
  <2> SUFFICES ASSUME [JudgmentsNext]_moves PROVE Next \/ UNCHANGED vars
    OBVIOUS
  <2> QED BY DEF JudgmentsNext, QueueMoves, MergesMove, PatternsMove, HunchesMove, CommonsMoves
<1> QED BY <1>1, <1>2, PTL DEF JudgmentsSpec, Spec

(* EnoughApproved and ImplementsSettlement of the run: an approved action   *)
(* has the approvals it needs, and the queue does what it promises, with    *)
(* the other judgments beside it.                                           *)
THEOREM JudgmentsApproved == JudgmentsSpec => []EnoughApproved /\ ImplementsSettlement
  BY JudgmentsHaveQueue, AlwaysEnoughApproved, QueueImplementsSettlement, QueueAssumption, PTL

------------------------------------------------------------------------------
(* Merges of people.  AskedOnce needs that a request at a verdict holds a   *)
(* pair whose row is still open, as long as passes do not mix, and that     *)
(* only given names have rows at all.                                       *)

Coref == [pair : Merges!Pair, by : {"person", "machine", "approver"}, open : BOOLEAN]

Judge == {"approve", "merge", "write", "reject"}

Merging == [at : Judge \cup {"idle", "scan"}, todo : SUBSET Merges!Pair, pair : Merges!Pair \cup {{}}]

MergesTyped ==
  /\ known \subseteq Person /\ edges \subseteq known \X Org
  /\ drawn \in 0..MaxEdges /\ mixed \in BOOLEAN
  /\ corefs \in Seq(Coref) /\ Len(corefs) <= MaxCorefs
  /\ row \in [Merges!Pair -> Merges!RowStatus]
  /\ merging \in [Merger -> Merging]

(* Whoever judges a pair judges one that can have been proposed. *)
GivenNames ==
  /\ \A q \in Merges!Pair : row[q] # "none" => Merges!Tier(q) = "given"
  /\ \A t \in Merger : merging[t].at \in Judge =>
       merging[t].pair \in Merges!Pair /\ Merges!Tier(merging[t].pair) = "given"

(* As long as passes keep out of each other's way, what a judge read is so. *)
OneAtATime ==
  /\ \A t, u \in Merger : merging[t].at # "idle" /\ merging[u].at # "idle" => t = u
  /\ \A t \in Merger : merging[t].at \in Judge => row[merging[t].pair] = "open"

MergesInv == MergesTyped /\ GivenNames /\ (~ mixed => OneAtATime)

------------------------------------------------------------------------------
LEMMA MergesGet ==
  ASSUME MergesInv
  PROVE  /\ known \subseteq Person /\ edges \subseteq known \X Org
         /\ drawn \in 0..MaxEdges /\ mixed \in BOOLEAN
         /\ corefs \in Seq(Coref) /\ Len(corefs) <= MaxCorefs
         /\ row \in [Merges!Pair -> Merges!RowStatus]
         /\ merging \in [Merger -> Merging]
         /\ \A t \in Merger : merging[t] \in Merging
  BY DEF MergesInv, MergesTyped

LEMMA IdleMerging == Merges!Idle \in Merging /\ Merges!Idle.at = "idle"
  BY DEF Merges!Idle, Merging

(* A new coreference, and a split. *)
LEMMA CorefsSaid ==
  ASSUME MergesInv, NEW q \in Merges!Pair, NEW who \in {"person", "machine", "approver"},
         Merges!Says(q, who)
  PROVE  corefs' \in Seq(Coref) /\ Len(corefs') <= MaxCorefs
<1> DEFINE c == [pair |-> q, by |-> who, open |-> TRUE]
<1>1. c \in Coref
  BY DEF Coref
<1>2. corefs' = Append(corefs, c) /\ Len(corefs) < MaxCorefs
  BY DEF Merges!Says
<1> HIDE DEF c
<1>3. Len(corefs') = Len(corefs) + 1 /\ corefs' \in Seq(Coref) /\ Len(corefs) \in Nat
  BY <1>1, <1>2, MergesGet
<1> QED BY <1>2, <1>3, MergesAssumption

LEMMA CorefsSplit ==
  ASSUME MergesInv, NEW i \in DOMAIN corefs, Merges!Split(i)
  PROVE  corefs' \in Seq(Coref) /\ Len(corefs') <= MaxCorefs
<1> DEFINE c == [corefs[i] EXCEPT !.open = FALSE]
<1>1. i \in 1..Len(corefs) /\ corefs[i] \in Coref
  BY MergesGet
<1>2. c \in Coref
  BY <1>1 DEF Coref
<1>3. corefs' = [corefs EXCEPT ![i] = c]
  BY <1>1 DEF Merges!Split
<1> HIDE DEF c
<1>4. corefs' \in Seq(Coref) /\ Len(corefs') = Len(corefs)
  BY <1>1, <1>2, <1>3, MergesGet
<1> QED BY <1>4, MergesGet

(* What a thread does leaves everything in order if it writes no more than  *)
(* a verdict on the pair it holds.                                          *)
LEMMA MergingStep ==
  ASSUME MergesInv, NEW t \in Merger, NEW x \in Merging,
         merging' = [merging EXCEPT ![t] = x], UNCHANGED <<known, edges, drawn>>,
         corefs' \in Seq(Coref) /\ Len(corefs') <= MaxCorefs,
         row' \in [Merges!Pair -> Merges!RowStatus],
         \A q \in Merges!Pair : row'[q] # "none" => Merges!Tier(q) = "given",
         mixed' \in BOOLEAN, mixed => mixed',
         ~ mixed' => \A u \in Merger \ {t} : merging[u].at = "idle",
         x.at \in Judge => /\ x.pair \in Merges!Pair /\ Merges!Tier(x.pair) = "given"
                           /\ ~ mixed' => row'[x.pair] = "open"
  PROVE  MergesInv'
<1>1. /\ merging' \in [Merger -> Merging] /\ merging'[t] = x
      /\ \A u \in Merger \ {t} : merging'[u] = merging[u]
  BY MergesGet
<1>2. MergesTyped'
  BY <1>1, MergesGet DEF MergesTyped
<1>3. GivenNames'
  <2>1. \A u \in Merger : merging'[u].at \in Judge =>
          merging'[u].pair \in Merges!Pair /\ Merges!Tier(merging'[u].pair) = "given"
    BY <1>1 DEF MergesInv, GivenNames
  <2>2. \A q : Merges!Tier(q)' = Merges!Tier(q)
    BY DEF Merges!Tier
  <2> QED BY <2>1, <2>2 DEF GivenNames
<1>4. ~ mixed' => OneAtATime'
  <2> SUFFICES ASSUME ~ mixed' PROVE OneAtATime'
    OBVIOUS
  <2>1. \A u \in Merger \ {t} : merging'[u].at = "idle"
    BY <1>1
  <2>2. \A u \in Merger : merging'[u].at \in Judge => u = t
    BY <2>1 DEF Judge
  <2> QED BY <1>1, <2>1, <2>2 DEF OneAtATime
<1> QED BY <1>2, <1>3, <1>4 DEF MergesInv

(* The world: no thread moves, and a row is left alone. *)
LEMMA MergesWorld ==
  ASSUME MergesInv, UNCHANGED <<row, merging>>,
         known' \subseteq Person, edges' \subseteq known' \X Org, drawn' \in 0..MaxEdges,
         corefs' \in Seq(Coref) /\ Len(corefs') <= MaxCorefs,
         mixed' \in BOOLEAN, mixed => mixed'
  PROVE  MergesInv'
<1>1. MergesTyped' /\ GivenNames'
  BY DEF MergesInv, MergesTyped, GivenNames, Merges!Tier
<1>2. ~ mixed' => OneAtATime'
  BY DEF MergesInv, OneAtATime
<1> QED BY <1>1, <1>2 DEF MergesInv

LEMMA MergesWorldStep ==
  ASSUME MergesInv, Merges!World
  PROVE  MergesInv' /\ row' = row
<1>1. ASSUME NEW x \in Person, Merges!Form(x) PROVE MergesInv' /\ row' = row
  <2>1. /\ UNCHANGED <<row, merging>> /\ known' \subseteq Person /\ edges' \subseteq known' \X Org
        /\ drawn' \in 0..MaxEdges /\ corefs' \in Seq(Coref) /\ Len(corefs') <= MaxCorefs
        /\ mixed' \in BOOLEAN /\ (mixed => mixed')
    BY <1>1, MergesGet DEF Merges!Form
  <2> QED BY <2>1, MergesWorld
<1>2. ASSUME NEW x \in Person, NEW o \in Org, Merges!Anchor(x, o) PROVE MergesInv' /\ row' = row
  <2>1. /\ UNCHANGED <<row, merging>> /\ known' \subseteq Person /\ edges' \subseteq known' \X Org
        /\ corefs' \in Seq(Coref) /\ Len(corefs') <= MaxCorefs
        /\ mixed' \in BOOLEAN /\ (mixed => mixed')
    BY <1>2, MergesGet DEF Merges!Anchor
  <2>2. drawn' \in 0..MaxEdges
    BY <1>2, MergesGet, MergesAssumption DEF Merges!Anchor
  <2> QED BY <2>1, <2>2, MergesWorld
<1>3. ASSUME NEW x \in Person, NEW o \in Org, Merges!Leave(x, o) PROVE MergesInv' /\ row' = row
  <2>1. /\ UNCHANGED <<row, merging>> /\ known' \subseteq Person /\ edges' \subseteq known' \X Org
        /\ drawn' \in 0..MaxEdges /\ corefs' \in Seq(Coref) /\ Len(corefs') <= MaxCorefs
        /\ mixed' \in BOOLEAN /\ (mixed => mixed')
    BY <1>3, MergesGet DEF Merges!Leave
  <2> QED BY <2>1, MergesWorld
<1>4. ASSUME NEW q \in Merges!Pair, Merges!Corefer(q) PROVE MergesInv' /\ row' = row
  <2>1. corefs' \in Seq(Coref) /\ Len(corefs') <= MaxCorefs
    BY <1>4, CorefsSaid DEF Merges!Corefer
  <2>2. /\ UNCHANGED <<row, merging>> /\ known' \subseteq Person /\ edges' \subseteq known' \X Org
        /\ drawn' \in 0..MaxEdges /\ mixed' \in BOOLEAN /\ (mixed => mixed')
    BY <1>4, MergesGet DEF Merges!Corefer
  <2> QED BY <2>1, <2>2, MergesWorld
<1>5. ASSUME NEW i \in DOMAIN corefs, Merges!Split(i) PROVE MergesInv' /\ row' = row
  <2>1. corefs' \in Seq(Coref) /\ Len(corefs') <= MaxCorefs
    BY <1>5, CorefsSplit
  <2>2. /\ UNCHANGED <<row, merging>> /\ known' \subseteq Person /\ edges' \subseteq known' \X Org
        /\ drawn' \in 0..MaxEdges /\ mixed' \in BOOLEAN /\ (mixed => mixed')
    BY <1>5, MergesGet DEF Merges!Split
  <2> QED BY <2>1, <2>2, MergesWorld
<1> QED BY <1>1, <1>2, <1>3, <1>4, <1>5 DEF Merges!World

(* A thread begins: alone, or the passes mix. *)
LEMMA MergingEnters ==
  ASSUME MergesInv, NEW t \in Merger, NEW x \in Merging, Merges!Enters(t, x),
         UNCHANGED <<known, edges, corefs, row, drawn>>,
         x.at \in Judge => x.pair \in Merges!Pair /\ row[x.pair] = "open"
  PROVE  MergesInv'
<1>1. /\ merging' = [merging EXCEPT ![t] = x] /\ mixed' = (mixed \/ Merges!Others(t))
  BY DEF Merges!Enters, Merges!Moves
<1>2. ~ mixed' => ~ mixed /\ \A u \in Merger \ {t} : merging[u].at = "idle"
  BY <1>1 DEF Merges!Others
<1>3. \A q \in Merges!Pair : row[q] # "none" => Merges!Tier(q) = "given"
  BY DEF MergesInv, GivenNames
<1>4. corefs' \in Seq(Coref) /\ Len(corefs') <= MaxCorefs /\ row' \in [Merges!Pair -> Merges!RowStatus]
      /\ (\A q \in Merges!Pair : row'[q] # "none" => Merges!Tier(q) = "given")
      /\ mixed' \in BOOLEAN /\ (mixed => mixed')
  BY <1>1, <1>3, MergesGet
<1>5. x.at \in Judge => /\ x.pair \in Merges!Pair /\ Merges!Tier(x.pair) = "given"
                        /\ ~ mixed' => row'[x.pair] = "open"
  BY <1>3
<1> QED BY <1>1, <1>2, <1>4, <1>5, MergingStep

LEMMA MergingAlone ==
  ASSUME MergesInv, NEW t \in Merger, merging[t].at # "idle"
  PROVE  /\ merging[t] \in Merging
         /\ ~ mixed => \A u \in Merger \ {t} : merging[u].at = "idle"
         /\ \A q \in Merges!Pair : row[q] # "none" => Merges!Tier(q) = "given"
         /\ merging[t].at \in Judge =>
              /\ merging[t].pair \in Merges!Pair /\ Merges!Tier(merging[t].pair) = "given"
              /\ ~ mixed => row[merging[t].pair] = "open"
  BY MergesGet DEF MergesInv, GivenNames, OneAtATime

LEMMA ScanStep ==
  ASSUME MergesInv, NEW t \in Merger, Merges!Scan(t)
  PROVE  MergesInv' /\ row' = row
<1> DEFINE x == [Merges!Idle EXCEPT !.at = "scan", !.todo = Merges!Found]
<1>1. Merges!Found \subseteq Merges!Pair
  BY DEF Merges!Found, Merges!Candidates
<1>2. x \in Merging /\ x.at = "scan"
  BY <1>1 DEF Merging, Merges!Idle
<1>3. Merges!Enters(t, x) /\ UNCHANGED <<known, edges, corefs, row, drawn>>
  BY DEF Merges!Scan
<1> HIDE DEF x
<1> QED BY <1>2, <1>3, MergingEnters DEF Judge

LEMMA JudgeEntersStep ==
  ASSUME MergesInv, NEW t \in Merger, NEW q \in Merges!Pair,
         Merges!Approve(t, q) \/ Merges!Reject(t, q)
  PROVE  MergesInv' /\ row' = row
<1>1. PICK step \in {"approve", "reject"} :
        /\ Merges!Enters(t, [at |-> step, todo |-> {}, pair |-> q])
        /\ row[q] = "open" /\ UNCHANGED <<known, edges, corefs, row, drawn>>
  BY DEF Merges!Approve, Merges!Reject
<1> DEFINE x == [at |-> step, todo |-> {}, pair |-> q]
<1>2. x \in Merging /\ x.pair = q
  BY DEF Merging, Judge
<1>3. Merges!Enters(t, x)
  BY <1>1
<1> HIDE DEF x
<1> QED BY <1>1, <1>2, <1>3, MergingEnters

(* A thread goes on, or ends, and writes no row. *)
LEMMA MergingGoes ==
  ASSUME MergesInv, NEW t \in Merger, NEW x \in Merging,
         merging' = [merging EXCEPT ![t] = x], merging[t].at # "idle",
         UNCHANGED <<known, edges, row, drawn, mixed>>,
         corefs' \in Seq(Coref) /\ Len(corefs') <= MaxCorefs,
         x.at \in Judge => merging[t].at \in Judge /\ x.pair = merging[t].pair
  PROVE  MergesInv'
<1>1. /\ row' \in [Merges!Pair -> Merges!RowStatus] /\ mixed' \in BOOLEAN
      /\ \A q \in Merges!Pair : row'[q] # "none" => Merges!Tier(q) = "given"
  BY MergesGet, MergingAlone
<1>2. ~ mixed' => \A u \in Merger \ {t} : merging[u].at = "idle"
  BY MergingAlone
<1>3. x.at \in Judge => /\ x.pair \in Merges!Pair /\ Merges!Tier(x.pair) = "given"
                        /\ ~ mixed' => row'[x.pair] = "open"
  BY MergingAlone
<1> QED BY <1>1, <1>2, <1>3, MergingStep

(* What a scan does with a pair, and what is left of it. *)
LEMMA DoneIs ==
  ASSUME MergesInv, NEW t \in Merger, NEW q, Merges!Done(t, q), merging[t].at = "scan"
  PROVE  \E x \in Merging : merging' = [merging EXCEPT ![t] = x] /\ x.at \in {"idle", "scan"}
<1>1. CASE merging[t].todo = {q}
  BY <1>1, IdleMerging DEF Merges!Done, Merges!Moves
<1>2. CASE merging[t].todo # {q}
  <2> DEFINE x == [merging[t] EXCEPT !.todo = @ \ {q}]
  <2>1. x \in Merging /\ x.at = "scan"
    BY MergesGet DEF Merging
  <2>2. merging' = [merging EXCEPT ![t] = x]
    BY <1>2 DEF Merges!Done, Merges!Moves
  <2> QED BY <2>1, <2>2
<1> QED BY <1>1, <1>2

LEMMA MergeFoundStep ==
  ASSUME MergesInv, NEW t \in Merger, NEW q \in Merges!Pair, Merges!MergeFound(t, q)
  PROVE  MergesInv' /\ row' = row
<1>1. /\ merging[t].at = "scan" /\ UNCHANGED <<known, edges, row, drawn, mixed>>
      /\ Merges!Says(q, "machine") /\ Merges!Done(t, q)
  BY DEF Merges!MergeFound
<1>2. PICK x \in Merging : merging' = [merging EXCEPT ![t] = x] /\ x.at \in {"idle", "scan"}
  BY <1>1, DoneIs
<1>3. corefs' \in Seq(Coref) /\ Len(corefs') <= MaxCorefs
  BY <1>1, CorefsSaid
<1> QED BY <1>1, <1>2, <1>3, MergingGoes DEF Judge

LEMMA ProposeStep ==
  ASSUME MergesInv, NEW t \in Merger, NEW q \in Merges!Pair, Merges!Propose(t, q)
  PROVE  MergesInv' /\ \A p \in Merges!Pair : row[p] \in Merges!Decided => row'[p] = row[p]
<1>1. /\ merging[t].at = "scan" /\ UNCHANGED <<known, edges, corefs, drawn, mixed>>
      /\ Merges!Done(t, q) /\ Merges!Tier(q) = "given"
      /\ row' = [row EXCEPT ![q] = IF @ = "none" THEN "open" ELSE @]
  BY DEF Merges!Propose
<1>2. PICK x \in Merging : merging' = [merging EXCEPT ![t] = x] /\ x.at \in {"idle", "scan"}
  BY <1>1, DoneIs
<1>3. /\ row' \in [Merges!Pair -> Merges!RowStatus]
      /\ \A p \in Merges!Pair : row'[p] # "none" => Merges!Tier(p) = "given"
      /\ \A p \in Merges!Pair : row[p] \in Merges!Decided => row'[p] = row[p]
  BY <1>1, MergesGet, MergingAlone DEF Merges!RowStatus, Merges!Decided
<1>4. (~ mixed' => \A u \in Merger \ {t} : merging[u].at = "idle") /\ x.at \notin Judge
  BY <1>1, <1>2, MergingAlone DEF Judge
<1>5. corefs' \in Seq(Coref) /\ Len(corefs') <= MaxCorefs /\ mixed' \in BOOLEAN /\ (mixed => mixed')
  BY <1>1, MergesGet
<1>6. MergesInv'
  BY <1>1, <1>2, <1>3, <1>4, <1>5, MergingStep
<1> QED BY <1>3, <1>6

LEMMA JudgeGoesStep ==
  ASSUME MergesInv, NEW t \in Merger,
         \/ Merges!Refuse(t) \/ Merges!PassMerge(t) \/ Merges!Decide(t) \/ Merges!MergeApproved(t)
  PROVE  MergesInv' /\ row' = row
<1>1. /\ merging[t].at \in {"approve", "merge"} /\ UNCHANGED <<known, edges, row, drawn, mixed>>
      /\ corefs' = corefs \/ Merges!Says(merging[t].pair, "approver")
  BY DEF Merges!Refuse, Merges!PassMerge, Merges!Decide, Merges!MergeApproved
<1>2. merging[t] \in Merging /\ merging[t].pair \in Merges!Pair
  BY <1>1, MergingAlone DEF Judge
<1>3. corefs' \in Seq(Coref) /\ Len(corefs') <= MaxCorefs
  BY <1>1, <1>2, CorefsSaid, MergesGet
<1>4. \E x \in Merging :
        /\ merging' = [merging EXCEPT ![t] = x]
        /\ x.at \in Judge => x.pair = merging[t].pair
  <2>1. CASE Merges!Refuse(t)
    BY <2>1, IdleMerging DEF Merges!Refuse, Merges!Moves, Judge
  <2>2. CASE ~ Merges!Refuse(t)
    <3>1. PICK step \in {"write", "merge"} : merging' = [merging EXCEPT ![t] = [merging[t] EXCEPT !.at = step]]
      BY <2>2 DEF Merges!PassMerge, Merges!Decide, Merges!MergeApproved, Merges!Moves
    <3>2. [merging[t] EXCEPT !.at = step] \in Merging
      BY <1>2 DEF Merging, Judge
    <3>3. [merging[t] EXCEPT !.at = step].pair = merging[t].pair
      BY <1>2 DEF Merging
    <3> QED BY <3>1, <3>2, <3>3
  <2> QED BY <2>1, <2>2
<1> QED BY <1>1, <1>3, <1>4, MergingGoes DEF Judge

(* A verdict is written: on a row that is still open, if nothing mixed. *)
LEMMA VerdictStep ==
  ASSUME MergesInv, NEW t \in Merger, Merges!WriteApproved(t) \/ Merges!WriteRejected(t)
  PROVE  /\ MergesInv'
         /\ \A p \in Merges!Pair : row[p] \in Merges!Decided /\ ~ mixed' => row'[p] = row[p]
<1>1. PICK v \in Merges!Decided :
        /\ merging[t].at \in {"write", "reject"} /\ UNCHANGED <<known, edges, corefs, drawn, mixed>>
        /\ row' = [row EXCEPT ![merging[t].pair] = v]
        /\ merging' = [merging EXCEPT ![t] = Merges!Idle]
  BY DEF Merges!WriteApproved, Merges!WriteRejected, Merges!Decided, Merges!Moves
<1>2. /\ merging[t].pair \in Merges!Pair /\ Merges!Tier(merging[t].pair) = "given"
      /\ ~ mixed => row[merging[t].pair] = "open"
  BY <1>1, MergingAlone DEF Judge
<1>3. /\ row' \in [Merges!Pair -> Merges!RowStatus]
      /\ \A p \in Merges!Pair : row'[p] # "none" => Merges!Tier(p) = "given"
  BY <1>1, <1>2, MergesGet, MergingAlone DEF Merges!RowStatus, Merges!Decided
<1>4. \A p \in Merges!Pair : row[p] \in Merges!Decided /\ ~ mixed' => row'[p] = row[p]
  BY <1>1, <1>2, MergesGet DEF Merges!Decided
<1>5. ~ mixed' => \A u \in Merger \ {t} : merging[u].at = "idle"
  BY <1>1, MergingAlone
<1>6. corefs' \in Seq(Coref) /\ Len(corefs') <= MaxCorefs /\ mixed' \in BOOLEAN /\ (mixed => mixed')
  BY <1>1, MergesGet
<1>7. MergesInv'
  BY <1>1, <1>3, <1>5, <1>6, IdleMerging, MergingStep DEF Judge
<1> QED BY <1>4, <1>7

LEMMA MergesStays ==
  MergesInv /\ UNCHANGED judging => MergesInv'
  BY MergesWorld, MergesGet DEF judging

LEMMA MergesStep ==
  MergesInv /\ [Merges!Next]_(Merges!vars) =>
    /\ MergesInv'
    /\ \A p \in Merges!Pair : row[p] \in Merges!Decided /\ ~ mixed' => row'[p] = row[p]
<1> SUFFICES ASSUME MergesInv, [Merges!Next]_(Merges!vars)
             PROVE  /\ MergesInv'
                    /\ \A p \in Merges!Pair : row[p] \in Merges!Decided /\ ~ mixed' => row'[p] = row[p]
  OBVIOUS
<1>1. CASE UNCHANGED Merges!vars
  BY <1>1, MergesStays DEF Merges!vars, judging
<1>2. CASE Merges!World
  BY <1>2, MergesWorldStep
<1>3. ASSUME NEW t \in Merger, Merges!Pass(t)
      PROVE  /\ MergesInv'
             /\ \A p \in Merges!Pair : row[p] \in Merges!Decided /\ ~ mixed' => row'[p] = row[p]
  BY <1>3, ScanStep, JudgeGoesStep, VerdictStep, ProposeStep, MergeFoundStep, JudgeEntersStep
     DEF Merges!Pass
<1> QED BY <1>1, <1>2, <1>3 DEF Merges!Next

LEMMA MergesStart == Merges!Init => MergesInv
<1> SUFFICES ASSUME Merges!Init PROVE MergesInv
  OBVIOUS
<1>1. MergesTyped
  <2>1. corefs = <<>> /\ <<>> \in Seq(Coref) /\ Len(<<>>) = 0
    BY DEF Merges!Init
  <2>2. 0 \in 0..MaxEdges /\ 0 <= MaxCorefs
    BY MergesAssumption
  <2>3. row \in [Merges!Pair -> Merges!RowStatus] /\ merging \in [Merger -> Merging]
    BY IdleMerging DEF Merges!Init, Merges!RowStatus
  <2> QED BY <2>1, <2>2, <2>3 DEF Merges!Init, MergesTyped
<1>2. (\A q \in Merges!Pair : row[q] = "none") /\ \A t \in Merger : merging[t].at = "idle"
  BY IdleMerging DEF Merges!Init
<1> QED BY <1>1, <1>2 DEF MergesInv, GivenNames, OneAtATime, Judge

LEMMA MergesFit == MergesInv => Merges!TypeOK
<1> SUFFICES ASSUME MergesInv PROVE Merges!TypeOK
  OBVIOUS
<1>1. \A i \in DOMAIN corefs :
        /\ corefs[i].pair \in Merges!Pair /\ corefs[i].open \in BOOLEAN
        /\ corefs[i].by \in {"person", "machine", "approver"}
  <2> SUFFICES ASSUME NEW i \in DOMAIN corefs PROVE corefs[i] \in Coref
    BY DEF Coref
  <2>1. corefs \in Seq(Coref) /\ i \in 1..Len(corefs)
    BY MergesGet
  <2> QED BY <2>1
<1>2. \A t \in Merger :
        /\ merging[t].at \in {"idle", "scan", "approve", "merge", "write", "reject"}
        /\ merging[t].todo \subseteq Merges!Pair /\ merging[t].pair \in Merges!Pair \cup {{}}
  BY MergesGet DEF Merging, Judge
<1>3. \A q \in Merges!Pair : row[q] # "none" => Merges!Tier(q) = "given"
  BY DEF MergesInv, GivenNames
<1> QED BY <1>1, <1>2, <1>3, MergesGet DEF Merges!TypeOK

(* Nobody is asked twice about one pair of people, with the other judgments *)
(* beside them: a verdict stays what it is.                                 *)
THEOREM NobodyIsAskedTwice == JudgmentsSpec => AskedOnce
<1> DEFINE moves == <<scenario, vars, judging, consolidating, guessing, pooling>>
           kept  == \A q \in Merges!Pair :
                      row[q] \in Merges!Decided /\ ~ mixed' => row'[q] = row[q]
<1>1. JudgmentsInit => MergesInv
  BY MergesStart DEF JudgmentsInit
<1>2. MergesInv /\ [JudgmentsNext]_moves => MergesInv' /\ [kept]_(Merges!vars)
  <2> SUFFICES ASSUME MergesInv, [JudgmentsNext]_moves PROVE MergesInv' /\ (kept \/ UNCHANGED Merges!vars)
    OBVIOUS
  <2>1. CASE UNCHANGED judging
    BY <2>1, MergesStays DEF judging, Merges!vars
  <2>2. CASE MergesMove
    BY <2>2, MergesStep DEF MergesMove
  <2>3. ~ MergesMove => UNCHANGED judging
    BY DEF JudgmentsNext, QueueMoves, PatternsMove, HunchesMove, CommonsMoves
  <2> QED BY <2>1, <2>2, <2>3
<1>3. MergesInv => Merges!TypeOK
  BY MergesFit
<1> QED BY <1>1, <1>2, <1>3, PTL DEF JudgmentsSpec, AskedOnce, Merges!AskedOnce

------------------------------------------------------------------------------
(* Consolidated patterns.  A pass works on one token, whose row it has      *)
(* read; undisturbed, the row is still as it read it, every pattern has its *)
(* row or is about to have it, and what the pass has put behind it is       *)
(* borne by what it saw.                                                    *)

Habit == [prop : Patterns!Prop, rests : SUBSET Fact, open : BOOLEAN]

Working == {"assert", "derive", "book", "retract", "reinforce", "update"}

Passing == [at : Working \cup {"idle", "look"}, seen : SUBSET Fact, live : SUBSET Nat,
            todo : SUBSET Patterns!Prop, of : SUBSET Patterns!Prop, had : SUBSET Fact,
            made : 0..MAX_NEW_PATTERNS, new : Nat]

PatternsTyped ==
  /\ facts \in [Fact -> {"none", "open", "gone"}]
  /\ patterns \in Seq(Habit)
  /\ booked \in [Patterns!Prop -> [pattern : Nat, support : SUBSET Fact]]
  /\ \A p \in Patterns!Prop : booked[p] # Patterns!NoRow =>
       booked[p].pattern \in 1..Len(patterns) /\ patterns[booked[p].pattern].prop = p
  /\ noted \subseteq (1..Len(patterns)) \X Fact
  /\ pass \in [Consolidator -> Passing] /\ disturbed \in BOOLEAN

(* A pass works on one token at a time, which it has taken off its list. *)
PassFits(x) ==
  /\ x.live \subseteq 1..Len(patterns) /\ x.new \in 0..Len(patterns)
  /\ x.at \in Working => \E p \in Patterns!Prop \ x.todo : x.of = {p}
  /\ x.at \notin Working => x.of = {}
  /\ x.at = "assert" => x.made < MAX_NEW_PATTERNS
  /\ x.at \in {"derive", "book"} =>
       /\ x.new \in 1..Len(patterns) /\ x.new \notin x.live
       /\ \A p \in x.of : patterns[x.new].prop = p
  /\ x.at \in {"retract", "reinforce", "update"} => \A p \in x.of : booked[p].pattern # 0

(* What a pass saw open is believed only if what it saw bears it. *)
Bears(x, p, b, ps) ==
  b[p].pattern \in x.live /\ ps[b[p].pattern].open => Patterns!Qualifies(x.seen, p)
Borne(x, p) == Bears(x, p, booked, patterns)
Seen(x) == {PropOf[f] : f \in x.seen}

PassAlone(x) ==
  /\ x.at \in {"assert", "derive", "book"} => \A p \in x.of : booked[p].pattern = 0
  /\ x.at = "reinforce" => \A p \in x.of : Patterns!Qualifies(x.seen, p)
  /\ x.at = "update" => \A p \in x.of : Borne(x, p)
  /\ x.at # "idle" => \A p \in Seen(x) \ (x.todo \cup x.of) : Borne(x, p)

(* Every pattern has its row, or a pass is about to write it. *)
InHand(i) == \E t \in Consolidator : pass[t].at \in {"derive", "book"} /\ pass[t].new = i
HasItsRow(i) == booked[patterns[i].prop].pattern = i

Undisturbed ==
  /\ \A t, u \in Consolidator : pass[t].at # "idle" /\ pass[u].at # "idle" => t = u
  /\ \A t \in Consolidator : PassAlone(pass[t])
  /\ \A i \in 1..Len(patterns) : HasItsRow(i) \/ InHand(i)

PatternsInv ==
  /\ PatternsTyped
  /\ \A t \in Consolidator : PassFits(pass[t])
  /\ ~ disturbed => Undisturbed

(* PassSettles of the run, as a condition on one step. *)
SettlesNow ==
  \A t \in Consolidator :
    pass[t].at \in {"look", "book", "update"} /\ pass'[t] = Patterns!Idle /\ ~ disturbed' =>
      \A p \in Seen(pass[t]) : Bears(pass[t], p, booked', patterns')

------------------------------------------------------------------------------
LEMMA PatternsGet ==
  ASSUME PatternsInv
  PROVE  /\ facts \in [Fact -> {"none", "open", "gone"}]
         /\ patterns \in Seq(Habit) /\ Len(patterns) \in Nat /\ DOMAIN patterns = 1..Len(patterns)
         /\ \A i \in 1..Len(patterns) : patterns[i] \in Habit
         /\ booked \in [Patterns!Prop -> [pattern : Nat, support : SUBSET Fact]]
         /\ \A p \in Patterns!Prop : booked[p] # Patterns!NoRow =>
              booked[p].pattern \in 1..Len(patterns) /\ patterns[booked[p].pattern].prop = p
         /\ noted \subseteq (1..Len(patterns)) \X Fact
         /\ pass \in [Consolidator -> Passing] /\ disturbed \in BOOLEAN
         /\ \A t \in Consolidator : pass[t] \in Passing /\ PassFits(pass[t])
  BY DEF PatternsInv, PatternsTyped

LEMMA RowIs ==
  ASSUME PatternsInv, NEW p \in Patterns!Prop, booked[p].pattern # 0
  PROVE  booked[p].pattern \in 1..Len(patterns) /\ patterns[booked[p].pattern].prop = p
<1>1. booked[p] # Patterns!NoRow
  BY DEF Patterns!NoRow
<1> QED BY <1>1, PatternsGet

LEMMA IdlePass ==
  /\ Patterns!Idle \in Passing /\ Patterns!Idle.at = "idle" /\ Patterns!Idle.of = {}
  /\ Patterns!Idle.live = {} /\ Patterns!Idle.new = 0
<1>1. 0 \in 0..MAX_NEW_PATTERNS
  BY PatternsAssumption
<1> QED BY <1>1 DEF Patterns!Idle, Passing

LEMMA SupportersAre ==
  ASSUME NEW F \in SUBSET Fact, NEW p
  PROVE  Patterns!Supporters(F, p) \in SUBSET Fact
  BY DEF Patterns!Supporters, Patterns!About

(* Patterns are only ever added and closed, and a row keeps its pattern. *)
Grown ==
  /\ patterns' \in Seq(Habit) /\ Len(patterns) <= Len(patterns')
  /\ \A i \in 1..Len(patterns) :
       patterns'[i].prop = patterns[i].prop /\ (patterns'[i].open => patterns[i].open)
  /\ booked' \in [Patterns!Prop -> [pattern : Nat, support : SUBSET Fact]]
  /\ \A p \in Patterns!Prop : booked[p].pattern # 0 => booked'[p].pattern = booked[p].pattern
  /\ \A p \in Patterns!Prop : booked'[p] # Patterns!NoRow =>
       booked'[p].pattern \in 1..Len(patterns') /\ patterns'[booked'[p].pattern].prop = p
  /\ noted' \subseteq (1..Len(patterns')) \X Fact
  /\ facts' \in [Fact -> {"none", "open", "gone"}]

LEMMA NothingGrown ==
  ASSUME PatternsInv, UNCHANGED <<facts, patterns, booked, noted>>
  PROVE  Grown
  BY PatternsGet DEF Grown

LEMMA PassStep ==
  ASSUME PatternsInv, NEW t \in Consolidator, NEW x \in Passing,
         pass' = [pass EXCEPT ![t] = x], Grown, PassFits(x)',
         disturbed' \in BOOLEAN, disturbed => disturbed',
         ~ disturbed' => \A u \in Consolidator \ {t} : pass[u].at = "idle",
         ~ disturbed' => PassAlone(x)',
         ~ disturbed' => \A i \in 1..Len(patterns') :
           booked'[patterns'[i].prop].pattern = i \/ (x.at \in {"derive", "book"} /\ x.new = i)
  PROVE  PatternsInv'
<1>1. /\ pass' \in [Consolidator -> Passing] /\ pass'[t] = x
      /\ \A u \in Consolidator \ {t} : pass'[u] = pass[u]
  BY PatternsGet
<1>2. PatternsTyped'
  BY <1>1, PatternsGet DEF PatternsTyped, Grown
<1>3. \A u \in Consolidator : PassFits(pass[u])'
  <2>1. ASSUME NEW u \in Consolidator \ {t} PROVE PassFits(pass[u])'
    <3>1. PICK y \in Passing : y = pass[u]
      BY PatternsGet
    <3>2. PassFits(y) /\ pass'[u] = y
      BY <1>1, <3>1, PatternsGet
    <3>3. Len(patterns') \in Nat /\ Len(patterns) \in Nat /\ Len(patterns) <= Len(patterns')
      BY PatternsGet DEF Grown
    <3>4. y.of \subseteq Patterns!Prop
      BY <3>2 DEF Passing
    <3>5. y.live \subseteq 1..Len(patterns') /\ y.new \in 0..Len(patterns')
      BY <3>2, <3>3 DEF PassFits
    <3>6. y.at \in {"derive", "book"} =>
            y.new \in 1..Len(patterns') /\ \A p \in y.of : patterns'[y.new].prop = p
      <4>1. \A i \in 1..Len(patterns) : i \in 1..Len(patterns') /\ patterns'[i].prop = patterns[i].prop
        BY <3>3 DEF Grown
      <4>2. y.at \in {"derive", "book"} =>
              y.new \in 1..Len(patterns) /\ \A p \in y.of : patterns[y.new].prop = p
        BY <3>2 DEF PassFits
      <4> QED BY <4>1, <4>2
    <3>7. y.at \in {"retract", "reinforce", "update"} => \A p \in y.of : booked'[p].pattern # 0
      BY <3>2, <3>4 DEF PassFits, Grown
    <3> QED BY <3>2, <3>5, <3>6, <3>7 DEF PassFits
  <2>2. PassFits(pass[t])'
    BY <1>1 DEF PassFits
  <2> QED BY <2>1, <2>2
<1>4. ASSUME ~ disturbed' PROVE Undisturbed'
  <2>1. \A u \in Consolidator \ {t} : pass'[u].at = "idle"
    BY <1>1, <1>4
  <2>2. \A u \in Consolidator : PassAlone(pass[u])'
    <3>1. PassAlone(pass[t])'
      BY <1>1, <1>4 DEF PassAlone, Borne
    <3>2. \A u \in Consolidator \ {t} : PassAlone(pass[u])'
      BY <2>1 DEF PassAlone
    <3> QED BY <3>1, <3>2
  <2>3. \A i \in 1..Len(patterns') : HasItsRow(i)' \/ InHand(i)'
    BY <1>1, <1>4 DEF HasItsRow, InHand
  <2> QED BY <2>1, <2>2, <2>3 DEF Undisturbed
<1> QED BY <1>2, <1>3, <1>4 DEF PatternsInv

(* Only the thread that moves can end a pass. *)
LEMMA OnlyMoverSettles ==
  ASSUME PatternsInv, NEW t \in Consolidator, NEW x \in Passing, pass' = [pass EXCEPT ![t] = x],
         pass[t].at \in {"look", "book", "update"} /\ x.at = "idle" /\ ~ disturbed' =>
           \A p \in Seen(pass[t]) : Bears(pass[t], p, booked', patterns')
  PROVE  SettlesNow
<1> SUFFICES ASSUME NEW u \in Consolidator, pass[u].at \in {"look", "book", "update"},
                    pass'[u] = Patterns!Idle, ~ disturbed'
             PROVE  \A p \in Seen(pass[u]) : Bears(pass[u], p, booked', patterns')
  BY DEF SettlesNow
<1>1. pass'[u].at = "idle"
  BY IdlePass
<1>2. u = t
  BY <1>1, PatternsGet
<1>3. x.at = "idle"
  BY <1>1, <1>2, PatternsGet
<1> QED BY <1>2, <1>3

LEMMA PassAloneGet ==
  ASSUME PatternsInv, NEW t \in Consolidator, ~ disturbed, pass[t].at # "idle"
  PROVE  /\ PassAlone(pass[t])
         /\ \A u \in Consolidator \ {t} : pass[u].at = "idle"
         /\ \A i \in 1..Len(patterns) :
              booked[patterns[i].prop].pattern = i
              \/ (pass[t].at \in {"derive", "book"} /\ pass[t].new = i)
<1>1. Undisturbed
  BY DEF PatternsInv
<1>2. \A u \in Consolidator \ {t} : pass[u].at = "idle"
  BY <1>1 DEF Undisturbed
<1>3. \A i : InHand(i) => pass[t].at \in {"derive", "book"} /\ pass[t].new = i
  BY <1>2 DEF InHand
<1> QED BY <1>1, <1>2, <1>3 DEF Undisturbed, HasItsRow

(* A step that writes nothing but the pass. *)
LEMMA PassReads ==
  ASSUME PatternsInv, NEW t \in Consolidator, NEW x \in Passing,
         pass' = [pass EXCEPT ![t] = x], pass[t].at \notin {"idle", "derive", "book"},
         UNCHANGED <<facts, patterns, booked, noted, disturbed>>,
         PassFits(x), ~ disturbed => PassAlone(x)
  PROVE  PatternsInv'
<1>1. Grown
  BY NothingGrown
<1>2. PassFits(x)' /\ (~ disturbed' => PassAlone(x)')
  BY DEF PassFits, PassAlone, Borne
<1>3. disturbed' \in BOOLEAN /\ (disturbed => disturbed')
  BY PatternsGet
<1>4. ~ disturbed' => /\ \A u \in Consolidator \ {t} : pass[u].at = "idle"
                      /\ \A i \in 1..Len(patterns') : booked'[patterns'[i].prop].pattern = i
  BY PassAloneGet
<1> QED BY <1>1, <1>2, <1>3, <1>4, PassStep

LEMMA PassGet ==
  ASSUME PatternsInv, NEW t \in Consolidator
  PROVE  pass[t] \in Passing /\ PassFits(pass[t])
  BY PatternsGet

LEMMA GatherStep ==
  ASSUME PatternsInv, NEW t \in Consolidator, Patterns!Gather(t)
  PROVE  PatternsInv' /\ SettlesNow
<1> DEFINE y == IF Patterns!Open = {} THEN Patterns!Idle
                ELSE [Patterns!Idle EXCEPT !.at = "look", !.seen = Patterns!Open, !.live = Patterns!Live,
                                           !.todo = {PropOf[f] : f \in Patterns!Open}]
<1>1. /\ pass[t].at = "idle" /\ pass' = [pass EXCEPT ![t] = y]
      /\ UNCHANGED <<facts, patterns, booked, noted>>
      /\ disturbed' = (disturbed \/ \E u \in Consolidator : pass[u].at # "idle")
  BY DEF Patterns!Gather, Patterns!Moves
<1>2. /\ Patterns!Open \in SUBSET Fact /\ Patterns!Live \in SUBSET (1..Len(patterns))
      /\ {PropOf[f] : f \in Patterns!Open} \in SUBSET Patterns!Prop
      /\ Patterns!Live \in SUBSET Nat
  BY PatternsGet DEF Patterns!Open, Patterns!Live, Patterns!Prop
<1>3. /\ y \in Passing /\ y.of = {} /\ y.new = 0 /\ y.at \in {"idle", "look"}
      /\ y.live \subseteq 1..Len(patterns) /\ (y.at = "look" => Seen(y) = y.todo)
  BY <1>2, IdlePass DEF Passing, Seen, Patterns!Idle
<1>4. PICK x \in Passing : x = y
  BY <1>3
<1>5. /\ pass' = [pass EXCEPT ![t] = x] /\ x.of = {} /\ x.new = 0 /\ x.at \in {"idle", "look"}
      /\ x.live \subseteq 1..Len(patterns) /\ (x.at = "look" => Seen(x) = x.todo)
  BY <1>1, <1>3, <1>4
<1> HIDE DEF y
<1>6. PassFits(x)' /\ PassAlone(x)'
  BY <1>1, <1>5, PatternsGet DEF PassFits, PassAlone, Working
<1>7. ~ disturbed' => ~ disturbed /\ \A u \in Consolidator : pass[u].at = "idle"
  BY <1>1
<1>8. ~ disturbed' => \A i \in 1..Len(patterns') : booked'[patterns'[i].prop].pattern = i
  BY <1>1, <1>7 DEF PatternsInv, Undisturbed, HasItsRow, InHand
<1>9. disturbed' \in BOOLEAN /\ (disturbed => disturbed') /\ Grown
  BY <1>1, PatternsGet, NothingGrown
<1>10. PatternsInv'
  BY <1>5, <1>6, <1>7, <1>8, <1>9, PassStep
<1>11. SettlesNow
  BY <1>1, <1>5, OnlyMoverSettles
<1> QED BY <1>10, <1>11

(* The row says what is to be done, and what was left alone is borne. *)
LEMMA StepIs ==
  ASSUME PatternsInv, NEW t \in Consolidator, NEW p \in Patterns!Prop
  PROVE  /\ Patterns!Step(t, p) \in {"assert", "retract", "reinforce", "pass"}
         /\ Patterns!Step(t, p) = "assert" => booked[p].pattern = 0 /\ pass[t].made < MAX_NEW_PATTERNS
         /\ Patterns!Step(t, p) \in {"retract", "reinforce"} => booked[p].pattern # 0
         /\ Patterns!Step(t, p) = "reinforce" => Patterns!Qualifies(pass[t].seen, p)
         /\ Patterns!Step(t, p) = "pass" => Borne(pass[t], p)
<1>1. booked[p].pattern \in pass[t].live => booked[p].pattern # 0
  BY PassGet, PatternsGet DEF PassFits
<1> DEFINE H == Patterns!Qualifies(pass[t].seen, p)
           S == Patterns!Supporters(pass[t].seen, p)
<1>2. Patterns!Step(t, p) =
        CASE booked[p].pattern = 0 /\ H /\ pass[t].made < MAX_NEW_PATTERNS -> "assert"
          [] booked[p].pattern # 0 /\ ~ H /\ booked[p].pattern \in pass[t].live -> "retract"
          [] booked[p].pattern # 0 /\ H /\ booked[p].support # S -> "reinforce"
          [] OTHER -> "pass"
  BY DEF Patterns!Step, Patterns!WasOpen
<1>3. Borne(pass[t], p) <=> (booked[p].pattern \in pass[t].live /\ patterns[booked[p].pattern].open => H)
  BY DEF Borne, Bears
<1> HIDE DEF H, S
<1>4. H <=> Patterns!Qualifies(pass[t].seen, p)
  BY DEF H
<1> QED BY <1>1, <1>2, <1>3, <1>4

(* A token that a thread has not come to yet, of all it saw. *)
LEMMA PassOverStep ==
  ASSUME PatternsInv, NEW t \in Consolidator, NEW p \in Patterns!Prop, Patterns!Pass(t, p)
  PROVE  PatternsInv' /\ SettlesNow
<1> DEFINE y == IF pass[t].todo = {p} THEN Patterns!Idle ELSE [pass[t] EXCEPT !.todo = @ \ {p}]
<1>1. /\ pass[t].at = "look" /\ p \in pass[t].todo /\ Patterns!Step(t, p) = "pass"
      /\ pass' = [pass EXCEPT ![t] = y] /\ UNCHANGED <<facts, patterns, booked, noted, disturbed>>
  BY DEF Patterns!Pass, Patterns!Moves
<1>2. pass[t] \in Passing /\ PassFits(pass[t]) /\ pass[t].of = {}
  BY <1>1, PassGet DEF PassFits, Working
<1>3. Borne(pass[t], p)
  BY <1>1, StepIs
<1>4. y \in Passing /\ (y.at = "idle" => pass[t].todo = {p} /\ y = Patterns!Idle)
      /\ (y.at # "idle" => /\ y.at = "look" /\ y.todo = pass[t].todo \ {p} /\ y.of = {}
                           /\ y.seen = pass[t].seen /\ y.live = pass[t].live /\ y.new = pass[t].new)
  BY <1>1, <1>2, IdlePass DEF Passing
<1>5. PICK x \in Passing : x = y
  BY <1>4
<1>6. /\ pass' = [pass EXCEPT ![t] = x]
      /\ x.at = "idle" => pass[t].todo = {p} /\ x = Patterns!Idle
      /\ x.at # "idle" => /\ x.at = "look" /\ x.todo = pass[t].todo \ {p} /\ x.of = {}
                          /\ x.seen = pass[t].seen /\ x.live = pass[t].live /\ x.new = pass[t].new
  BY <1>1, <1>4, <1>5
<1> HIDE DEF y
<1>7. PassFits(x)
  <2>1. CASE x.at = "idle"
    BY <1>6, <2>1, IdlePass, PatternsGet DEF PassFits, Working
  <2>2. CASE x.at # "idle"
    BY <1>2, <1>6, <2>2 DEF PassFits, Working
  <2> QED BY <2>1, <2>2
<1>8. ~ disturbed => \A q \in Seen(pass[t]) \ (pass[t].todo \ {p}) : Borne(pass[t], q)
  BY <1>1, <1>2, <1>3, PassAloneGet DEF PassAlone
<1>9. ~ disturbed => PassAlone(x)
  BY <1>6, <1>8 DEF PassAlone, Borne, Bears, Seen
<1>10. PatternsInv'
  BY <1>1, <1>6, <1>7, <1>9, PassReads
<1>11. x.at = "idle" /\ ~ disturbed' => \A q \in Seen(pass[t]) : Bears(pass[t], q, booked', patterns')
  BY <1>1, <1>6, <1>8 DEF Borne
<1>12. SettlesNow
  BY <1>6, <1>11, OnlyMoverSettles
<1> QED BY <1>10, <1>12

LEMMA LookStep ==
  ASSUME PatternsInv, NEW t \in Consolidator, NEW p \in Patterns!Prop, Patterns!Look(t, p)
  PROVE  PatternsInv' /\ SettlesNow
<1> DEFINE y == [pass[t] EXCEPT !.at = Patterns!Step(t, p), !.of = {p}, !.todo = @ \ {p},
                                !.had = booked[p].support]
<1>1. /\ pass[t].at = "look" /\ p \in pass[t].todo /\ Patterns!Step(t, p) # "pass"
      /\ pass' = [pass EXCEPT ![t] = y] /\ UNCHANGED <<facts, patterns, booked, noted, disturbed>>
  BY DEF Patterns!Look, Patterns!Moves
<1>2. pass[t] \in Passing /\ PassFits(pass[t]) /\ pass[t].of = {}
  BY <1>1, PassGet DEF PassFits, Working
<1>3. /\ Patterns!Step(t, p) \in {"assert", "retract", "reinforce"}
      /\ booked[p].support \in SUBSET Fact
  BY <1>1, StepIs, PatternsGet
<1>4. /\ y \in Passing /\ y.at = Patterns!Step(t, p) /\ y.of = {p} /\ y.todo = pass[t].todo \ {p}
      /\ y.seen = pass[t].seen /\ y.live = pass[t].live /\ y.new = pass[t].new /\ y.made = pass[t].made
  BY <1>2, <1>3 DEF Passing, Working
<1>5. PICK x \in Passing : x = y
  BY <1>4
<1>6. /\ pass' = [pass EXCEPT ![t] = x] /\ x.at = Patterns!Step(t, p) /\ x.of = {p}
      /\ x.todo = pass[t].todo \ {p}
      /\ x.seen = pass[t].seen /\ x.live = pass[t].live /\ x.new = pass[t].new /\ x.made = pass[t].made
  BY <1>1, <1>4, <1>5
<1> HIDE DEF y
<1>7. PassFits(x)
  BY <1>2, <1>3, <1>6, StepIs DEF PassFits, Working
<1>8. ~ disturbed => PassAlone(x)
  <2> SUFFICES ASSUME ~ disturbed PROVE PassAlone(x)
    OBVIOUS
  <2>1. \A q \in Seen(pass[t]) \ pass[t].todo : Borne(pass[t], q)
    BY <1>1, <1>2, PassAloneGet DEF PassAlone
  <2>2. \A q \in Seen(x) \ (x.todo \cup x.of) : Borne(x, q)
    BY <1>1, <1>6, <2>1 DEF Seen, Borne, Bears
  <2> QED BY <1>3, <1>6, <2>2, StepIs DEF PassAlone
<1>9. PatternsInv'
  BY <1>1, <1>6, <1>7, <1>8, PassReads
<1>10. x.at # "idle"
  BY <1>3, <1>6
<1> QED BY <1>6, <1>9, <1>10, OnlyMoverSettles

(* A record of the patterns is written over. *)
LEMMA PatternEdited ==
  ASSUME PatternsInv, NEW i \in 1..Len(patterns), NEW r \in Habit,
         r.prop = patterns[i].prop, r.open => patterns[i].open,
         patterns' = [patterns EXCEPT ![i] = r], UNCHANGED <<facts, booked, noted>>
  PROVE  Grown /\ Len(patterns') = Len(patterns) /\ patterns'[i] = r
         /\ \A j \in 1..Len(patterns) \ {i} : patterns'[j] = patterns[j]
<1>1. /\ patterns' \in Seq(Habit) /\ Len(patterns') = Len(patterns) /\ patterns'[i] = r
      /\ \A j \in 1..Len(patterns) \ {i} : patterns'[j] = patterns[j]
  BY PatternsGet
<1>2. \A j \in 1..Len(patterns) :
        patterns'[j].prop = patterns[j].prop /\ (patterns'[j].open => patterns[j].open)
  BY <1>1
<1> QED BY <1>1, <1>2, PatternsGet DEF Grown

(* What was borne stays so: an old pattern is never opened again. *)
LEMMA StaysBorne ==
  ASSUME PatternsInv, Grown, NEW x, x.live \subseteq 1..Len(patterns), NEW q \in Patterns!Prop,
         booked'[q].pattern = booked[q].pattern, Borne(x, q)
  PROVE  Bears(x, q, booked', patterns')
  BY DEF Bears, Borne, Grown

LEMMA SeenAre ==
  ASSUME NEW x \in Passing
  PROVE  Seen(x) \subseteq Patterns!Prop
  BY DEF Seen, Passing, Patterns!Prop

LEMMA WorkingOn ==
  ASSUME PatternsInv, NEW t \in Consolidator, pass[t].at \in Working
  PROVE  \E p \in Patterns!Prop \ pass[t].todo : pass[t].of = {p}
  BY PassGet DEF PassFits

LEMMA AssertPatternStep ==
  ASSUME PatternsInv, NEW t \in Consolidator, Patterns!AssertPattern(t)
  PROVE  PatternsInv' /\ SettlesNow
<1>1. /\ pass[t].at = "assert" /\ pass[t] \in Passing /\ PassFits(pass[t])
      /\ UNCHANGED <<facts, booked, noted, disturbed>>
  BY PassGet DEF Patterns!AssertPattern
<1>2. PICK p \in Patterns!Prop \ pass[t].todo : pass[t].of = {p}
  BY <1>1, WorkingOn DEF Working
<1> DEFINE c == [prop |-> p, rests |-> {}, open |-> TRUE]
           n == Len(patterns) + 1
           y == [pass[t] EXCEPT !.at = "derive", !.new = n, !.made = @ + 1]
<1>3. patterns' = Append(patterns, c) /\ pass' = [pass EXCEPT ![t] = y]
  BY <1>2 DEF Patterns!AssertPattern, Patterns!Moves
<1>4. c \in Habit /\ c.prop = p
  BY DEF Habit
<1> HIDE DEF c
<1>5. /\ patterns' \in Seq(Habit) /\ Len(patterns') = n /\ patterns'[n] = c
      /\ n \in Nat /\ n \in 1..n /\ Len(patterns) \in Nat /\ Len(patterns) < n
      /\ \A i \in 1..Len(patterns) : patterns'[i] = patterns[i]
  BY <1>3, <1>4, PatternsGet
<1>6. pass[t].made + 1 \in 0..MAX_NEW_PATTERNS
  BY <1>1, PatternsAssumption DEF PassFits, Passing
<1>7. /\ y \in Passing /\ y.at = "derive" /\ y.new = n /\ y.of = {p} /\ y.todo = pass[t].todo
      /\ y.seen = pass[t].seen /\ y.live = pass[t].live
  BY <1>1, <1>2, <1>5, <1>6 DEF Passing, Working
<1>8. PICK x \in Passing : x = y
  BY <1>7
<1>9. /\ pass' = [pass EXCEPT ![t] = x] /\ x.at = "derive" /\ x.new = n /\ x.of = {p}
      /\ x.todo = pass[t].todo /\ x.seen = pass[t].seen /\ x.live = pass[t].live
  BY <1>3, <1>7, <1>8
<1> HIDE DEF y
<1>10. 1..Len(patterns) \subseteq 1..n /\ n \notin 1..Len(patterns) /\ n \in 0..n
  BY <1>5
<1> HIDE DEF n
<1>11. Grown
  <2>1. \A i \in 1..Len(patterns) :
          patterns'[i].prop = patterns[i].prop /\ (patterns'[i].open => patterns[i].open)
    BY <1>5
  <2>2. \A q \in Patterns!Prop : booked[q] # Patterns!NoRow =>
          booked[q].pattern \in 1..n /\ patterns'[booked[q].pattern].prop = q
    BY <1>5, <1>10, PatternsGet
  <2>3. noted \subseteq (1..n) \X Fact
    BY <1>10, PatternsGet
  <2> QED BY <1>1, <1>5, <2>1, <2>2, <2>3, PatternsGet DEF Grown
<1>12. PassFits(x)'
  BY <1>1, <1>2, <1>4, <1>5, <1>9, <1>10 DEF PassFits, Working
<1>13. ASSUME ~ disturbed'
       PROVE  /\ PassAlone(x)'
              /\ \A i \in 1..Len(patterns') : booked'[patterns'[i].prop].pattern = i \/ x.new = i
  <2>1. /\ PassAlone(pass[t])
        /\ \A i \in 1..Len(patterns) : booked[patterns[i].prop].pattern = i
    BY <1>1, <1>13, PassAloneGet
  <2>2. \A q \in Seen(x) \ (x.todo \cup x.of) : Borne(x, q)'
    <3>1. \A q \in Seen(x) \ (x.todo \cup x.of) : Borne(x, q)
      BY <1>1, <1>2, <1>9, <2>1 DEF PassAlone, Seen, Borne, Bears
    <3>2. x.live \subseteq 1..Len(patterns)
      BY <1>1, <1>9 DEF PassFits
    <3>3. \A q \in Seen(x) \ (x.todo \cup x.of) : Bears(x, q, booked', patterns')
      BY <1>1, <1>11, <3>1, <3>2, SeenAre, StaysBorne
    <3> QED BY <3>3 DEF Borne, Bears
  <2>3. booked'[p].pattern = 0
    BY <1>1, <1>2, <2>1 DEF PassAlone
  <2>4. PassAlone(x)'
    BY <1>9, <2>2, <2>3 DEF PassAlone
  <2>5. \A i \in 1..Len(patterns') : i \in 1..Len(patterns) \/ i = n
    BY <1>5 DEF n
  <2> QED BY <1>1, <1>5, <1>9, <2>1, <2>4, <2>5
<1>14. /\ ~ disturbed' => \A u \in Consolidator \ {t} : pass[u].at = "idle"
       /\ disturbed' \in BOOLEAN /\ (disturbed => disturbed')
  BY <1>1, PassAloneGet, PatternsGet
<1>15. PatternsInv'
  BY <1>9, <1>11, <1>12, <1>13, <1>14, PassStep
<1> QED BY <1>1, <1>9, <1>15, OnlyMoverSettles

(* A thread edits a pattern of its own and goes on. *)
LEMMA EditStep ==
  ASSUME PatternsInv, NEW t \in Consolidator, NEW x \in Passing, NEW i \in 1..Len(patterns), NEW r \in Habit,
         r.prop = patterns[i].prop, r.open => patterns[i].open,
         patterns' = [patterns EXCEPT ![i] = r], UNCHANGED <<facts, booked, noted, disturbed>>,
         pass' = [pass EXCEPT ![t] = x], pass[t].at \in {"derive", "retract"},
         x.of = pass[t].of, x.todo = pass[t].todo, x.seen = pass[t].seen, x.live = pass[t].live,
         x.new = pass[t].new,
         pass[t].at = "derive" => x.at = "book",
         pass[t].at = "retract" => /\ x.at = "update" /\ ~ r.open
                                   /\ \A p \in x.of : booked[p].pattern = i
  PROVE  PatternsInv' /\ SettlesNow
<1>1. pass[t] \in Passing /\ PassFits(pass[t])
  BY PassGet
<1>2. Grown /\ Len(patterns') = Len(patterns) /\ patterns'[i] = r
      /\ \A j \in 1..Len(patterns) \ {i} : patterns'[j] = patterns[j]
  BY PatternEdited
<1>3. \A j \in 1..Len(patterns) : patterns'[j].prop = patterns[j].prop
  BY <1>2
<1>4. PassFits(x)'
  BY <1>1, <1>2, <1>3 DEF PassFits, Working
<1>5. ASSUME ~ disturbed'
      PROVE  /\ PassAlone(x)'
             /\ \A j \in 1..Len(patterns') :
                  booked'[patterns'[j].prop].pattern = j \/ (x.at \in {"derive", "book"} /\ x.new = j)
  <2>1. /\ PassAlone(pass[t])
        /\ \A j \in 1..Len(patterns) :
             booked[patterns[j].prop].pattern = j
             \/ (pass[t].at \in {"derive", "book"} /\ pass[t].new = j)
    BY <1>5, PassAloneGet
  <2>2. \A q \in Seen(x) \ (x.todo \cup x.of) : Borne(x, q)'
    <3>1. \A q \in Seen(x) \ (x.todo \cup x.of) : Borne(x, q)
      BY <2>1 DEF PassAlone, Seen, Borne, Bears
    <3>2. x.live \subseteq 1..Len(patterns)
      BY <1>1 DEF PassFits
    <3>3. \A q \in Seen(x) \ (x.todo \cup x.of) : Bears(x, q, booked', patterns')
      BY <1>2, <3>1, <3>2, SeenAre, StaysBorne
    <3> QED BY <3>3 DEF Borne, Bears
  <2>3. x.at = "update" => \A p \in x.of : Borne(x, p)'
    BY <1>2 DEF Borne, Bears
  <2>4. x.at = "book" => \A p \in x.of : booked'[p].pattern = 0
    BY <2>1 DEF PassAlone
  <2>5. PassAlone(x)'
    BY <2>2, <2>3, <2>4 DEF PassAlone
  <2> QED BY <1>2, <1>3, <2>1, <2>5
<1>6. /\ ~ disturbed' => \A u \in Consolidator \ {t} : pass[u].at = "idle"
      /\ disturbed' \in BOOLEAN /\ (disturbed => disturbed')
  BY PassAloneGet, PatternsGet
<1>7. PatternsInv'
  BY <1>2, <1>4, <1>5, <1>6, PassStep
<1> QED BY <1>7, OnlyMoverSettles

LEMMA DeriveStep ==
  ASSUME PatternsInv, NEW t \in Consolidator, Patterns!Derive(t)
  PROVE  PatternsInv' /\ SettlesNow
<1>1. /\ pass[t].at = "derive" /\ pass[t] \in Passing /\ PassFits(pass[t])
      /\ UNCHANGED <<facts, booked, noted, disturbed>>
  BY PassGet DEF Patterns!Derive
<1>2. PICK p \in Patterns!Prop \ pass[t].todo : pass[t].of = {p}
  BY <1>1, WorkingOn DEF Working
<1> DEFINE S == Patterns!Supporters(pass[t].seen, p)
           i == pass[t].new
           r == [patterns[i] EXCEPT !.rests = S]
           y == [pass[t] EXCEPT !.at = "book"]
<1>3. i \in 1..Len(patterns) /\ patterns[i] \in Habit
  BY <1>1, PatternsGet DEF PassFits
<1>4. S \in SUBSET Fact
  BY <1>1, SupportersAre DEF Passing
<1>5. patterns' = [patterns EXCEPT ![i] = r] /\ pass' = [pass EXCEPT ![t] = y]
  BY <1>2, <1>3 DEF Patterns!Derive, Patterns!Goto, Patterns!Moves
<1> HIDE DEF S
<1>6. r \in Habit /\ r.prop = patterns[i].prop /\ r.open = patterns[i].open
  BY <1>3, <1>4 DEF Habit
<1>7. /\ y \in Passing /\ y.at = "book" /\ y.of = pass[t].of /\ y.todo = pass[t].todo
      /\ y.seen = pass[t].seen /\ y.live = pass[t].live /\ y.new = pass[t].new
  BY <1>1 DEF Passing, Working
<1> HIDE DEF i, r, y
<1> QED BY <1>1, <1>3, <1>5, <1>6, <1>7, EditStep

LEMMA RetractPatternStep ==
  ASSUME PatternsInv, NEW t \in Consolidator, Patterns!RetractPattern(t)
  PROVE  PatternsInv' /\ SettlesNow
<1>1. /\ pass[t].at = "retract" /\ pass[t] \in Passing /\ PassFits(pass[t])
      /\ UNCHANGED <<facts, booked, noted, disturbed>>
  BY PassGet DEF Patterns!RetractPattern
<1>2. PICK p \in Patterns!Prop \ pass[t].todo : pass[t].of = {p}
  BY <1>1, WorkingOn DEF Working
<1> DEFINE i == booked[p].pattern
           r == [patterns[i] EXCEPT !.open = FALSE]
           y == [pass[t] EXCEPT !.at = "update"]
<1>3. i \in 1..Len(patterns) /\ patterns[i] \in Habit
  <2>1. booked[p].pattern # 0
    BY <1>1, <1>2 DEF PassFits
  <2> QED BY <2>1, RowIs, PatternsGet
<1>4. CASE patterns[i].open
  <2>1. patterns' = [patterns EXCEPT ![i] = r] /\ pass' = [pass EXCEPT ![t] = y]
    BY <1>2, <1>3, <1>4 DEF Patterns!RetractPattern, Patterns!Goto, Patterns!Moves
  <2>2. r \in Habit /\ r.prop = patterns[i].prop /\ r.open = FALSE
    BY <1>3 DEF Habit
  <2>3. /\ y \in Passing /\ y.at = "update" /\ y.of = pass[t].of /\ y.todo = pass[t].todo
        /\ y.seen = pass[t].seen /\ y.live = pass[t].live /\ y.new = pass[t].new
    BY <1>1 DEF Passing, Working
  <2>4. \A q \in y.of : booked[q].pattern = i
    BY <1>2, <2>3
  <2> HIDE DEF i, r, y
  <2> QED BY <1>1, <1>3, <2>1, <2>2, <2>3, <2>4, EditStep
<1>5. CASE ~ patterns[i].open
  <2>1. patterns' = patterns /\ pass' = [pass EXCEPT ![t] = Patterns!Idle]
    BY <1>2, <1>5 DEF Patterns!RetractPattern, Patterns!Moves
  <2>2. PassFits(Patterns!Idle) /\ PassAlone(Patterns!Idle)
    BY IdlePass, PatternsGet DEF PassFits, PassAlone, Working
  <2>3. PatternsInv'
    BY <1>1, <2>1, <2>2, IdlePass, PassReads
  <2> QED BY <1>1, <2>1, <2>3, IdlePass, OnlyMoverSettles
<1> QED BY <1>4, <1>5

LEMMA ReinforceStep ==
  ASSUME PatternsInv, NEW t \in Consolidator, Patterns!Reinforce(t)
  PROVE  PatternsInv' /\ SettlesNow
<1>1. /\ pass[t].at = "reinforce" /\ pass[t] \in Passing /\ PassFits(pass[t])
      /\ UNCHANGED <<facts, patterns, booked, disturbed>>
  BY PassGet DEF Patterns!Reinforce
<1>2. PICK p \in Patterns!Prop \ pass[t].todo : pass[t].of = {p}
  BY <1>1, WorkingOn DEF Working
<1> DEFINE N == Patterns!Supporters(pass[t].seen, p) \ pass[t].had
           y == [pass[t] EXCEPT !.at = "update"]
<1>3. noted' = noted \cup ({booked[p].pattern} \X N) /\ pass' = [pass EXCEPT ![t] = y]
  BY <1>2 DEF Patterns!Reinforce, Patterns!Goto, Patterns!Moves
<1>4. booked[p].pattern \in 1..Len(patterns)
  BY <1>1, <1>2, RowIs DEF PassFits
<1>5. N \subseteq Fact
  BY <1>1, SupportersAre DEF Passing
<1> HIDE DEF N
<1>6. Grown
  BY <1>1, <1>3, <1>4, <1>5, PatternsGet DEF Grown
<1>7. /\ y \in Passing /\ y.at = "update" /\ y.of = pass[t].of /\ y.todo = pass[t].todo
      /\ y.seen = pass[t].seen /\ y.live = pass[t].live /\ y.new = pass[t].new
  BY <1>1 DEF Passing, Working
<1>8. PICK x \in Passing : x = y
  BY <1>7
<1>9. /\ pass' = [pass EXCEPT ![t] = x] /\ x.at = "update" /\ x.of = pass[t].of
      /\ x.todo = pass[t].todo /\ x.seen = pass[t].seen /\ x.live = pass[t].live /\ x.new = pass[t].new
  BY <1>3, <1>7, <1>8
<1> HIDE DEF y
<1>10. PassFits(x)'
  BY <1>1, <1>9 DEF PassFits, Working
<1>11. ~ disturbed' => PassAlone(x)'
  BY <1>1, <1>9, PassAloneGet DEF PassAlone, Borne, Bears, Seen
<1>12. /\ ~ disturbed' => /\ \A u \in Consolidator \ {t} : pass[u].at = "idle"
                          /\ \A j \in 1..Len(patterns') : booked'[patterns'[j].prop].pattern = j
       /\ disturbed' \in BOOLEAN /\ (disturbed => disturbed')
  BY <1>1, PassAloneGet, PatternsGet
<1>13. PatternsInv'
  BY <1>6, <1>9, <1>10, <1>11, <1>12, PassStep
<1> QED BY <1>1, <1>9, <1>13, OnlyMoverSettles

(* A token is done with: the pass looks at the next, or is over. *)
LEMMA FinishStep ==
  ASSUME PatternsInv, NEW t \in Consolidator, NEW p \in Patterns!Prop,
         pass[t].at \in {"book", "update"}, pass[t].of = {p}, Patterns!Finished(t),
         Grown, UNCHANGED <<patterns, disturbed>>,
         \A q \in Patterns!Prop \ {p} : booked'[q] = booked[q],
         ~ disturbed => /\ Bears(pass[t], p, booked', patterns')
                        /\ \A i \in 1..Len(patterns) : booked'[patterns[i].prop].pattern = i
  PROVE  PatternsInv' /\ SettlesNow
<1> DEFINE y == IF pass[t].todo = {} THEN Patterns!Idle
                ELSE [pass[t] EXCEPT !.at = "look", !.of = {}, !.had = {}, !.new = 0]
<1>1. pass[t] \in Passing /\ PassFits(pass[t])
  BY PassGet
<1>2. pass' = [pass EXCEPT ![t] = y]
  BY DEF Patterns!Finished, Patterns!Moves
<1>3. /\ y \in Passing /\ y.of = {} /\ y.new = 0 /\ y.at \in {"idle", "look"}
      /\ y.at = "idle" => pass[t].todo = {} /\ y = Patterns!Idle
      /\ y.at = "look" => y.todo = pass[t].todo /\ y.seen = pass[t].seen /\ y.live = pass[t].live
  BY <1>1, IdlePass DEF Passing, Working
<1>4. PICK x \in Passing : x = y
  BY <1>3
<1>5. /\ pass' = [pass EXCEPT ![t] = x] /\ x.of = {} /\ x.new = 0 /\ x.at \in {"idle", "look"}
      /\ x.at = "idle" => pass[t].todo = {} /\ x = Patterns!Idle
      /\ x.at = "look" => x.todo = pass[t].todo /\ x.seen = pass[t].seen /\ x.live = pass[t].live
  BY <1>2, <1>3, <1>4
<1> HIDE DEF y
<1>6. PassFits(x)'
  <2>1. x.live \subseteq 1..Len(patterns)
    BY <1>1, <1>5, IdlePass DEF PassFits
  <2> QED BY <1>5, <2>1, PatternsGet DEF PassFits, Working
<1>7. ASSUME ~ disturbed'
      PROVE  \A q \in Seen(pass[t]) \ pass[t].todo : Bears(pass[t], q, booked', patterns')
  <2>1. \A q \in Seen(pass[t]) \ (pass[t].todo \cup {p}) : Borne(pass[t], q)
    BY <1>7, PassAloneGet DEF PassAlone
  <2>2. \A q \in Seen(pass[t]) \ (pass[t].todo \cup {p}) :
          q \in Patterns!Prop /\ booked'[q].pattern = booked[q].pattern
    BY <1>1, SeenAre
  <2>3. pass[t].live \subseteq 1..Len(patterns)
    BY <1>1 DEF PassFits
  <2>4. \A q \in Seen(pass[t]) \ (pass[t].todo \cup {p}) : Bears(pass[t], q, booked', patterns')
    BY <2>1, <2>2, <2>3, StaysBorne
  <2> QED BY <1>7, <2>4
<1>8. ~ disturbed' => PassAlone(x)'
  <2> SUFFICES ASSUME ~ disturbed' PROVE PassAlone(x)'
    OBVIOUS
  <2>1. x.at = "look" => \A q \in Seen(x) \ (x.todo \cup x.of) : Bears(x, q, booked', patterns')
    BY <1>5, <1>7 DEF Seen, Bears
  <2> QED BY <1>5, <2>1 DEF PassAlone, Borne, Bears
<1>9. ~ disturbed' => /\ \A u \in Consolidator \ {t} : pass[u].at = "idle"
                      /\ \A i \in 1..Len(patterns') : booked'[patterns'[i].prop].pattern = i
  BY PassAloneGet
<1>10. disturbed' \in BOOLEAN /\ (disturbed => disturbed')
  BY PatternsGet
<1>11. PatternsInv'
  BY <1>5, <1>6, <1>8, <1>9, <1>10, PassStep
<1>12. x.at = "idle" /\ ~ disturbed' => \A q \in Seen(pass[t]) : Bears(pass[t], q, booked', patterns')
  BY <1>5, <1>7
<1>13. SettlesNow
  BY <1>5, <1>12, OnlyMoverSettles
<1> QED BY <1>11, <1>13

LEMMA BookStep ==
  ASSUME PatternsInv, NEW t \in Consolidator, Patterns!Book(t)
  PROVE  PatternsInv' /\ SettlesNow
<1>1. /\ pass[t].at = "book" /\ pass[t] \in Passing /\ PassFits(pass[t])
      /\ Patterns!Finished(t) /\ UNCHANGED <<facts, patterns, noted, disturbed>>
  BY PassGet DEF Patterns!Book
<1>2. PICK p \in Patterns!Prop \ pass[t].todo : pass[t].of = {p}
  BY <1>1, WorkingOn DEF Working
<1> DEFINE S == Patterns!Supporters(pass[t].seen, p)
           n == pass[t].new
           r == IF booked[p].pattern = 0 THEN [pattern |-> n, support |-> S] ELSE booked[p]
<1>3. booked' = [booked EXCEPT ![p] = r]
  BY <1>2 DEF Patterns!Book
<1>4. S \in SUBSET Fact
  BY <1>1, SupportersAre DEF Passing
<1>5. n \in 1..Len(patterns) /\ n \notin pass[t].live /\ patterns[n].prop = p /\ n # 0
  BY <1>1, <1>2, PatternsGet DEF PassFits
<1> HIDE DEF S, n
<1>6. /\ r \in [pattern : Nat, support : SUBSET Fact]
      /\ r.pattern \in 1..Len(patterns) /\ patterns[r.pattern].prop = p
      /\ booked[p].pattern # 0 => r.pattern = booked[p].pattern
      /\ booked[p].pattern = 0 => r.pattern = n
  <2>1. booked[p] \in [pattern : Nat, support : SUBSET Fact]
    BY PatternsGet
  <2>2. CASE booked[p].pattern = 0
    BY <1>4, <1>5, <2>2
  <2>3. CASE booked[p].pattern # 0
    BY <2>1, <2>3, RowIs
  <2> QED BY <2>2, <2>3
<1> HIDE DEF r
<1>7. /\ booked' \in [Patterns!Prop -> [pattern : Nat, support : SUBSET Fact]] /\ booked'[p] = r
      /\ \A q \in Patterns!Prop \ {p} : booked'[q] = booked[q]
  BY <1>3, <1>6, PatternsGet
<1>8. Grown
  <2>1. \A q \in Patterns!Prop : booked[q].pattern # 0 => booked'[q].pattern = booked[q].pattern
    BY <1>6, <1>7
  <2>2. ASSUME NEW q \in Patterns!Prop, booked'[q] # Patterns!NoRow
        PROVE  booked'[q].pattern \in 1..Len(patterns) /\ patterns[booked'[q].pattern].prop = q
    <3>1. CASE q = p
      BY <1>6, <1>7, <3>1
    <3>2. CASE q # p
      BY <1>7, <2>2, <3>2, PatternsGet
    <3> QED BY <3>1, <3>2
  <2> QED BY <1>1, <1>7, <2>1, <2>2, PatternsGet DEF Grown
<1>9. ASSUME ~ disturbed
      PROVE  /\ Bears(pass[t], p, booked', patterns')
             /\ \A i \in 1..Len(patterns) : booked'[patterns[i].prop].pattern = i
  <2>1. /\ PassAlone(pass[t])
        /\ \A i \in 1..Len(patterns) : booked[patterns[i].prop].pattern = i \/ pass[t].new = i
    BY <1>1, <1>9, PassAloneGet
  <2>2. booked[p].pattern = 0 /\ r.pattern = n
    BY <1>1, <1>2, <1>6, <2>1 DEF PassAlone
  <2>3. ASSUME NEW i \in 1..Len(patterns) PROVE booked'[patterns[i].prop].pattern = i
    <3>1. patterns[i].prop \in Patterns!Prop
      BY PatternsGet DEF Habit
    <3>2. CASE patterns[i].prop = p
      BY <1>7, <2>1, <2>2, <3>2, PatternsGet DEF n
    <3>3. CASE patterns[i].prop # p
      BY <1>5, <1>7, <2>1, <3>1, <3>3 DEF n
    <3> QED BY <3>2, <3>3
  <2> QED BY <1>5, <1>7, <2>2, <2>3 DEF Bears
<1> QED BY <1>1, <1>2, <1>7, <1>8, <1>9, FinishStep

LEMMA UpdateRowStep ==
  ASSUME PatternsInv, NEW t \in Consolidator, Patterns!UpdateRow(t)
  PROVE  PatternsInv' /\ SettlesNow
<1>1. /\ pass[t].at = "update" /\ pass[t] \in Passing /\ PassFits(pass[t])
      /\ Patterns!Finished(t) /\ UNCHANGED <<facts, patterns, noted, disturbed>>
  BY PassGet DEF Patterns!UpdateRow
<1>2. PICK p \in Patterns!Prop \ pass[t].todo : pass[t].of = {p}
  BY <1>1, WorkingOn DEF Working
<1> DEFINE S == Patterns!Supporters(pass[t].seen, p)
           r == [booked[p] EXCEPT !.support = S]
<1>3. booked' = [booked EXCEPT ![p] = r]
  BY <1>2, PatternsGet DEF Patterns!UpdateRow
<1>4. S \in SUBSET Fact
  BY <1>1, SupportersAre DEF Passing
<1>5. booked[p].pattern # 0 /\ booked[p] \in [pattern : Nat, support : SUBSET Fact]
  BY <1>1, <1>2, PatternsGet DEF PassFits
<1> HIDE DEF S
<1>6. r \in [pattern : Nat, support : SUBSET Fact] /\ r.pattern = booked[p].pattern
      /\ r.pattern \in 1..Len(patterns) /\ patterns[r.pattern].prop = p
  BY <1>4, <1>5, RowIs
<1> HIDE DEF r
<1>7. /\ booked' \in [Patterns!Prop -> [pattern : Nat, support : SUBSET Fact]] /\ booked'[p] = r
      /\ \A q \in Patterns!Prop \ {p} : booked'[q] = booked[q]
  BY <1>3, <1>6, PatternsGet
<1>8. \A q \in Patterns!Prop : booked'[q].pattern = booked[q].pattern
  BY <1>6, <1>7
<1>9. Grown
  BY <1>1, <1>6, <1>7, <1>8, PatternsGet DEF Grown
<1>10. ASSUME ~ disturbed
       PROVE  /\ Bears(pass[t], p, booked', patterns')
              /\ \A i \in 1..Len(patterns) : booked'[patterns[i].prop].pattern = i
  <2>1. /\ PassAlone(pass[t])
        /\ \A i \in 1..Len(patterns) : booked[patterns[i].prop].pattern = i
    BY <1>1, <1>10, PassAloneGet
  <2>2. \A i \in 1..Len(patterns) : patterns[i].prop \in Patterns!Prop
    BY PatternsGet DEF Habit
  <2>3. Borne(pass[t], p)
    BY <1>1, <1>2, <2>1 DEF PassAlone
  <2> QED BY <1>1, <1>8, <2>1, <2>2, <2>3 DEF Borne, Bears
<1> QED BY <1>1, <1>2, <1>7, <1>9, <1>10, FinishStep

(* People say and withdraw, and close what a pass believes: no pass moves. *)
LEMMA PatternsQuiet ==
  ASSUME PatternsInv, Grown, UNCHANGED <<pass, booked, disturbed>>, Len(patterns') = Len(patterns)
  PROVE  PatternsInv' /\ SettlesNow
<1>1. PatternsTyped'
  BY PatternsGet DEF PatternsTyped, Grown
<1>2. \A t \in Consolidator : PassFits(pass[t])'
  <2>1. ASSUME NEW t \in Consolidator PROVE PassFits(pass[t])'
    <3>1. PassFits(pass[t])
      BY PassGet
    <3>2. \A i \in 1..Len(patterns) : patterns'[i].prop = patterns[i].prop
      BY DEF Grown
    <3> QED BY <3>1, <3>2 DEF PassFits
  <2> QED BY <2>1
<1>3. ASSUME ~ disturbed' PROVE Undisturbed'
  <2>1. Undisturbed
    BY <1>3 DEF PatternsInv
  <2>2. ASSUME NEW t \in Consolidator PROVE PassAlone(pass[t])'
    <3>1. pass[t] \in Passing /\ PassFits(pass[t]) /\ PassAlone(pass[t])
      BY <2>1, PassGet DEF Undisturbed
    <3>2. pass[t].of \subseteq Patterns!Prop /\ Seen(pass[t]) \subseteq Patterns!Prop
      BY <3>1, SeenAre DEF Passing
    <3>3. \A q \in Patterns!Prop : Borne(pass[t], q) => Borne(pass[t], q)'
      <4>1. \A q \in Patterns!Prop : Borne(pass[t], q) => Bears(pass[t], q, booked', patterns')
        BY <3>1, StaysBorne DEF PassFits
      <4> QED BY <4>1 DEF Borne, Bears
    <3> QED BY <3>1, <3>2, <3>3 DEF PassAlone, Seen
  <2>3. \A i \in 1..Len(patterns') : HasItsRow(i)' \/ InHand(i)'
    BY <2>1 DEF Undisturbed, HasItsRow, InHand, Grown
  <2> QED BY <2>1, <2>2, <2>3 DEF Undisturbed
<1>4. SettlesNow
  BY IdlePass DEF SettlesNow
<1> QED BY <1>1, <1>2, <1>3, <1>4 DEF PatternsInv

LEMMA PeopleStep ==
  ASSUME PatternsInv, Patterns!People
  PROVE  PatternsInv' /\ SettlesNow
<1>1. ASSUME NEW f \in Fact, Patterns!Say(f) \/ Patterns!Withdraw(f) PROVE PatternsInv' /\ SettlesNow
  <2>1. /\ facts' \in [Fact -> {"none", "open", "gone"}]
        /\ UNCHANGED <<patterns, booked, noted, pass, disturbed>>
    BY <1>1, PatternsGet DEF Patterns!Say, Patterns!Withdraw
  <2>2. Grown /\ Len(patterns') = Len(patterns)
    BY <2>1, PatternsGet DEF Grown
  <2> QED BY <2>1, <2>2, PatternsQuiet
<1>2. ASSUME NEW i, Patterns!RetractByHand(i) PROVE PatternsInv' /\ SettlesNow
  <2> DEFINE r == [patterns[i] EXCEPT !.open = FALSE]
  <2>1. /\ i \in 1..Len(patterns) /\ patterns' = [patterns EXCEPT ![i] = r]
        /\ UNCHANGED <<facts, booked, noted, pass, disturbed>>
    BY <1>2, PatternsGet DEF Patterns!RetractByHand, Patterns!Live
  <2>2. r \in Habit /\ r.prop = patterns[i].prop /\ r.open = FALSE
    BY <2>1, PatternsGet DEF Habit
  <2> HIDE DEF r
  <2>3. Grown /\ Len(patterns') = Len(patterns)
    BY <2>1, <2>2, PatternEdited
  <2> QED BY <2>1, <2>3, PatternsQuiet
<1> QED BY <1>1, <1>2 DEF Patterns!People

LEMMA PatternsCrash ==
  ASSUME PatternsInv, Patterns!Crash
  PROVE  PatternsInv' /\ SettlesNow
<1>1. /\ pass' = [t \in Consolidator |-> Patterns!Idle]
      /\ disturbed' = (disturbed \/ \E t \in Consolidator : pass[t].at # "idle")
      /\ UNCHANGED <<facts, patterns, booked, noted>>
  BY DEF Patterns!Crash
<1>2. \A t \in Consolidator : pass'[t] = Patterns!Idle
  BY <1>1
<1>3. PatternsTyped'
  BY <1>1, PatternsGet, IdlePass DEF PatternsTyped
<1>4. \A t \in Consolidator : PassFits(pass[t])'
  BY <1>1, <1>2, PatternsGet, IdlePass DEF PassFits, Working
<1>5. ASSUME ~ disturbed' PROVE Undisturbed'
  <2>1. Undisturbed /\ \A t \in Consolidator : pass[t].at = "idle"
    BY <1>1, <1>5 DEF PatternsInv
  <2>2. \A i \in 1..Len(patterns) : HasItsRow(i)
    BY <2>1 DEF Undisturbed, InHand
  <2>3. \A i \in 1..Len(patterns') : HasItsRow(i)'
    BY <1>1, <2>2 DEF HasItsRow
  <2>4. \A t \in Consolidator : PassAlone(pass[t])'
    BY <1>2, IdlePass DEF PassAlone
  <2> QED BY <1>2, <2>3, <2>4, IdlePass DEF Undisturbed
<1>6. SettlesNow
  BY <1>1 DEF SettlesNow
<1> QED BY <1>3, <1>4, <1>5, <1>6 DEF PatternsInv

LEMMA PatternsStays ==
  PatternsInv /\ UNCHANGED consolidating => PatternsInv'
<1> SUFFICES ASSUME PatternsInv, UNCHANGED consolidating PROVE PatternsInv'
  OBVIOUS
<1>1. UNCHANGED <<facts, patterns, booked, noted, pass, disturbed>>
  BY DEF consolidating
<1> QED BY <1>1, NothingGrown, PatternsQuiet

LEMMA PatternsStep ==
  ASSUME PatternsInv, Patterns!Next
  PROVE  PatternsInv' /\ SettlesNow
<1>1. ASSUME NEW t \in Consolidator, Patterns!Proceed(t) PROVE PatternsInv' /\ SettlesNow
  BY <1>1, AssertPatternStep, DeriveStep, BookStep, RetractPatternStep, ReinforceStep,
     UpdateRowStep, PassOverStep, LookStep DEF Patterns!Proceed
<1> QED BY <1>1, GatherStep, PeopleStep, PatternsCrash DEF Patterns!Next

LEMMA PatternsStart == Patterns!Init => PatternsInv
<1> SUFFICES ASSUME Patterns!Init PROVE PatternsInv
  OBVIOUS
<1>1. /\ facts = [f \in Fact |-> "none"] /\ patterns = <<>> /\ noted = {} /\ disturbed = FALSE
      /\ booked = [p \in Patterns!Prop |-> Patterns!NoRow]
      /\ pass = [t \in Consolidator |-> Patterns!Idle]
  BY DEF Patterns!Init
<1>2. patterns \in Seq(Habit) /\ Len(patterns) = 0
  BY <1>1
<1>3. Patterns!NoRow \in [pattern : Nat, support : SUBSET Fact]
  BY DEF Patterns!NoRow
<1>4. PatternsTyped
  BY <1>1, <1>2, <1>3, IdlePass DEF PatternsTyped
<1>5. \A t \in Consolidator : pass[t] = Patterns!Idle
  BY <1>1
<1>6. \A t \in Consolidator : PassFits(pass[t]) /\ PassAlone(pass[t])
  BY <1>2, <1>5, IdlePass DEF PassFits, PassAlone, Working
<1>7. Undisturbed
  BY <1>2, <1>5, <1>6, IdlePass DEF Undisturbed
<1> QED BY <1>4, <1>6, <1>7 DEF PatternsInv

LEMMA PatternsFit == PatternsInv => Patterns!TypeOK /\ Patterns!OnePatternEach
<1> SUFFICES ASSUME PatternsInv PROVE Patterns!TypeOK /\ Patterns!OnePatternEach
  OBVIOUS
<1>1. Patterns!TypeOK
  <2>1. \A i \in DOMAIN patterns : patterns[i].prop \in Patterns!Prop
          /\ patterns[i].rests \subseteq Fact /\ patterns[i].open \in BOOLEAN
    BY PatternsGet DEF Habit
  <2>2. \A p \in Patterns!Prop : booked[p] # Patterns!NoRow =>
          /\ booked[p].pattern \in DOMAIN patterns /\ patterns[booked[p].pattern].prop = p
          /\ booked[p].support \subseteq Fact
    BY PatternsGet
  <2>3. \A t \in Consolidator : /\ pass[t].seen \subseteq Fact /\ pass[t].todo \subseteq Patterns!Prop
          /\ pass[t].made \in 0..MAX_NEW_PATTERNS /\ pass[t].new \in 0..Len(patterns)
    BY PatternsGet DEF Passing, PassFits
  <2> QED BY <2>1, <2>2, <2>3, PatternsGet DEF Patterns!TypeOK
<1>2. Patterns!OnePatternEach
  <2> SUFFICES ASSUME ~ disturbed, NEW i \in 1..Len(patterns), NEW j \in 1..Len(patterns),
                      patterns[i].prop = patterns[j].prop
               PROVE  i = j
    BY PatternsGet DEF Patterns!OnePatternEach
  <2>1. Undisturbed
    BY DEF PatternsInv
  <2>2. ASSUME NEW k \in 1..Len(patterns), NEW m \in 1..Len(patterns),
               patterns[k].prop = patterns[m].prop, InHand(k)
        PROVE  ~ HasItsRow(m)
    <3>1. PICK t \in Consolidator : pass[t].at \in {"derive", "book"} /\ pass[t].new = k
      BY <2>2 DEF InHand
    <3>2. PICK p \in Patterns!Prop \ pass[t].todo : pass[t].of = {p}
      BY <3>1, WorkingOn DEF Working
    <3>3. patterns[k].prop = p
      BY <3>1, <3>2, PassGet DEF PassFits
    <3>4. booked[p].pattern = 0
      BY <2>1, <3>1, <3>2 DEF Undisturbed, PassAlone
    <3> QED BY <2>2, <3>3, <3>4, PatternsGet DEF HasItsRow
  <2>3. InHand(i) /\ InHand(j) => i = j
    BY <2>1 DEF InHand, Undisturbed
  <2> QED BY <2>1, <2>2, <2>3 DEF Undisturbed, HasItsRow
<1> QED BY <1>1, <1>2

(* PatternsFollow of the run: a token has one pattern, and a pass that ends *)
(* leaves believed what its support bears, with the other judgments beside. *)
THEOREM PatternsFollowFacts == JudgmentsSpec => PatternsFollow
<1> DEFINE moves == <<scenario, vars, judging, consolidating, guessing, pooling>>
           settles == \A t \in Consolidator :
             pass[t].at \in {"look", "book", "update"} /\ pass'[t] = Patterns!Idle /\ ~ disturbed' =>
               \A p \in {PropOf[f] : f \in pass[t].seen} :
                 booked'[p].pattern \in pass[t].live /\ patterns'[booked'[p].pattern].open =>
                   Patterns!Qualifies(pass[t].seen, p)
<1>1. JudgmentsInit => PatternsInv
  BY PatternsStart DEF JudgmentsInit
<1>2. PatternsInv /\ [JudgmentsNext]_moves => PatternsInv' /\ [settles]_(Patterns!vars)
  <2> SUFFICES ASSUME PatternsInv, [JudgmentsNext]_moves
               PROVE  PatternsInv' /\ (settles \/ UNCHANGED Patterns!vars)
    OBVIOUS
  <2>1. CASE UNCHANGED consolidating
    BY <2>1, PatternsStays DEF consolidating, Patterns!vars
  <2>2. CASE PatternsMove
    BY <2>2, PatternsStep DEF PatternsMove, SettlesNow, Seen, Bears
  <2>3. ~ PatternsMove => UNCHANGED consolidating
    BY DEF JudgmentsNext, QueueMoves, MergesMove, HunchesMove, CommonsMoves
  <2> QED BY <2>1, <2>2, <2>3
<1>3. PatternsInv => Patterns!TypeOK /\ Patterns!OnePatternEach
  BY PatternsFit
<1> QED BY <1>1, <1>2, <1>3, PTL DEF JudgmentsSpec, PatternsFollow, Patterns!PassSettles

------------------------------------------------------------------------------
(* Hypotheses.  Alone, an interrogation judges cases that are pending and   *)
(* owes a generator at most one verdict; what the rows decide and what the  *)
(* records count differ by what is owed.                                    *)

Case == [status : Hunches!Status, passes : 0..ASK_AFTER_PASSES]

Book == [row : [Leap -> Case], verdicts : [Hunches!Generator -> 0..MaxVerdicts]]

Doubting == [at : {"idle", "leap", "insert", "priors", "ready", "doubt", "judge", "read", "score", "answer"},
             seen : SUBSET Claim, live : SUBSET Source, todo : SUBSET Leap, claimed : SUBSET Claim,
             made : 0..MAX_NEW_HUNCHES, cases : UNION {[S -> Case] : S \in SUBSET Leap},
             score : SUBSET Leap, tally : 0..MaxVerdicts]

HunchesTyped ==
  /\ held \subseteq Claim /\ alive \subseteq Source
  /\ hunches \in Book /\ saved \in Book
  /\ doubt \in [Doubter -> Doubting]
  /\ ends \in Nat /\ crossed \in BOOLEAN

(* Who scores, scores one case; what is judged was pending when it was read. *)
CaseFits(x) ==
  /\ x.at \in {"read", "score", "answer"} => \E l \in Leap : x.score = {l}
  /\ x.at \notin {"read", "score", "answer"} => x.score = {}
  /\ x.at \in {"judge", "read", "score"} =>
       x.todo \subseteq DOMAIN x.cases /\ \A l \in x.todo : x.cases[l].status \in Hunches!Pending

Stands(d, l) == d.row[l].status \in Hunches!Status \ {"none", "lapsed"}

(* What a pass that nothing overlaps knows of the rows is still so. *)
LoneFits(x) ==
  /\ x.at \in {"insert", "priors"} =>
       \A l \in Leap : Stands(hunches, l) /\ Hunches!LookedUpAsBooked(l) => ClaimOf[l] \in x.claimed
  /\ x.at \in {"judge", "read", "score"} =>
       \A l \in x.todo : hunches.row[l].status \in Hunches!Pending
  /\ x.at = "score" => \A l \in x.score : x.tally = hunches.verdicts[GeneratorOf[l]]

Lone == \A t, u \in Doubter : doubt[t].at # "idle" /\ doubt[u].at # "idle" => t = u

OneEach(d) ==
  \A l, m \in Leap :
    /\ Stands(d, l) /\ Stands(d, m) /\ Hunches!LookedUpAsBooked(l) /\ Hunches!LookedUpAsBooked(m)
    /\ ClaimOf[l] = ClaimOf[m]
    => l = m

(* A verdict that is in the rows and not yet in its generator's record. *)
Owed(x, g) == x.at \in {"read", "score"} /\ \E l \in x.score : GeneratorOf[l] = g
Debt(g)    == IF \E t \in Doubter : Owed(doubt[t], g) THEN 1 ELSE 0

Counts(d, g, debt) == d.verdicts[g] + debt <= Cardinality(Hunches!Settled(d, g))

Counted ==
  \A g \in Hunches!Generator :
    /\ Counts(hunches, g, Debt(g)) /\ Counts(saved, g, 0)
    /\ ends = 0 => hunches.verdicts[g] + Debt(g) = Cardinality(Hunches!Settled(hunches, g))

HunchesInv ==
  /\ HunchesTyped
  /\ \A t \in Doubter : CaseFits(doubt[t])
  /\ ~ crossed => /\ Lone /\ \A t \in Doubter : LoneFits(doubt[t])
                  /\ OneEach(hunches) /\ OneEach(saved) /\ Counted

------------------------------------------------------------------------------
LEMMA HunchesGet ==
  ASSUME HunchesInv
  PROVE  /\ held \subseteq Claim /\ alive \subseteq Source
         /\ hunches \in Book /\ saved \in Book
         /\ doubt \in [Doubter -> Doubting] /\ ends \in Nat /\ crossed \in BOOLEAN
         /\ \A t \in Doubter : doubt[t] \in Doubting /\ CaseFits(doubt[t])
  BY DEF HunchesInv, HunchesTyped

LEMMA AloneGet ==
  ASSUME HunchesInv, ~ crossed
  PROVE  /\ Lone /\ \A t \in Doubter : LoneFits(doubt[t])
         /\ OneEach(hunches) /\ OneEach(saved) /\ Counted
  BY DEF HunchesInv

LEMMA BookGet ==
  ASSUME NEW d \in Book
  PROVE  /\ d.row \in [Leap -> Case] /\ d.verdicts \in [Hunches!Generator -> 0..MaxVerdicts]
         /\ \A l \in Leap : d.row[l] \in Case /\ d.row[l].status \in Hunches!Status
                            /\ d.row[l].passes \in 0..ASK_AFTER_PASSES
         /\ \A g \in Hunches!Generator : d.verdicts[g] \in Nat
  BY HunchesAssumption DEF Book, Case

LEMMA GeneratorIs ==
  ASSUME NEW l \in Leap
  PROVE  GeneratorOf[l] \in Hunches!Generator
  BY DEF Hunches!Generator

LEMMA IdleDoubt ==
  /\ Hunches!Idle \in Doubting /\ CaseFits(Hunches!Idle) /\ LoneFits(Hunches!Idle)
  /\ Hunches!Idle.at = "idle" /\ \A g : ~ Owed(Hunches!Idle, g)
<1>1. Hunches!NoRow \in Case
  BY HunchesAssumption DEF Hunches!NoRow, Case, Hunches!Status
<1>2. [l \in {} |-> Hunches!NoRow] \in UNION {[S -> Case] : S \in SUBSET Leap}
  <2>1. [l \in {} |-> Hunches!NoRow] \in [{} -> Case] /\ {} \in SUBSET Leap
    BY <1>1
  <2> QED BY <2>1
<1>3. 0 \in 0..MAX_NEW_HUNCHES /\ 0 \in 0..MaxVerdicts
  BY HunchesAssumption
<1>4. Hunches!Idle \in Doubting
  BY <1>2, <1>3 DEF Hunches!Idle, Doubting
<1>5. Hunches!Idle.at = "idle" /\ Hunches!Idle.score = {}
  BY DEF Hunches!Idle
<1> QED BY <1>4, <1>5 DEF CaseFits, LoneFits, Owed

LEMMA SettledFew ==
  ASSUME NEW d, NEW g
  PROVE  LET S == Hunches!Settled(d, g)
         IN  /\ S \subseteq Leap /\ IsFiniteSet(S) /\ Cardinality(S) \in Nat
             /\ Cardinality(S) <= MaxVerdicts
<1> DEFINE S == Hunches!Settled(d, g)
<1>1. S \subseteq Leap
  BY DEF Hunches!Settled
<1>2. IsFiniteSet(S) /\ Cardinality(S) <= Cardinality(Leap)
  BY <1>1, HunchesAssumption, FS_Subset
<1>3. Cardinality(S) \in Nat /\ Cardinality(Leap) \in Nat
  BY <1>2, HunchesAssumption, FS_CardinalityType
<1> HIDE DEF S
<1>4. Cardinality(S) <= MaxVerdicts
  BY <1>2, <1>3, HunchesAssumption
<1> QED BY <1>1, <1>2, <1>3, <1>4 DEF S

(* The debt when nobody else is in a pass. *)
LEMMA DebtIs ==
  ASSUME NEW f, NEW t \in Doubter, NEW g, \A u \in Doubter \ {t} : f[u].at = "idle"
  PROVE  (\E u \in Doubter : Owed(f[u], g)) <=> Owed(f[t], g)
  BY DEF Owed

(* A thread moves: what has to be shown of the others is nothing new. *)
LEMMA DoubtStep ==
  ASSUME HunchesInv, NEW t \in Doubter, NEW x \in Doubting,
         doubt' = [doubt EXCEPT ![t] = x], CaseFits(x),
         held' \subseteq Claim, alive' = alive, hunches' \in Book, saved' \in {saved, hunches'},
         ends' = ends, crossed' \in BOOLEAN, crossed => crossed',
         ~ crossed' => \A u \in Doubter \ {t} : doubt[u].at = "idle",
         ~ crossed' => LoneFits(x)' /\ OneEach(hunches'),
         ~ crossed' => \A g \in Hunches!Generator :
           LET n == IF Owed(x, g) THEN 1 ELSE 0
           IN  /\ Counts(hunches', g, n)
               /\ ends = 0 => hunches'.verdicts[g] + n = Cardinality(Hunches!Settled(hunches', g))
  PROVE  HunchesInv'
<1>1. /\ doubt' \in [Doubter -> Doubting] /\ doubt'[t] = x
      /\ \A u \in Doubter \ {t} : doubt'[u] = doubt[u]
  BY HunchesGet
<1>2. HunchesTyped'
  BY <1>1, HunchesGet DEF HunchesTyped
<1>3. \A u \in Doubter : CaseFits(doubt[u])'
  <2>1. \A u \in Doubter \ {t} : CaseFits(doubt[u])'
    BY <1>1, HunchesGet DEF CaseFits
  <2>2. CaseFits(doubt[t])'
    BY <1>1 DEF CaseFits
  <2> QED BY <2>1, <2>2
<1>4. ASSUME ~ crossed'
      PROVE  (/\ Lone /\ \A u \in Doubter : LoneFits(doubt[u])
              /\ OneEach(hunches) /\ OneEach(saved) /\ Counted)'
  <2>1. ~ crossed /\ \A u \in Doubter \ {t} : doubt'[u].at = "idle"
    BY <1>1, <1>4, HunchesGet
  <2>2. Lone'
    BY <2>1 DEF Lone
  <2>3. \A u \in Doubter : LoneFits(doubt[u])'
    <3>1. LoneFits(doubt[t])'
      BY <1>1, <1>4
    <3>2. \A u \in Doubter \ {t} : LoneFits(doubt[u])'
      BY <2>1 DEF LoneFits
    <3> QED BY <3>1, <3>2
  <2>4. OneEach(hunches)' /\ OneEach(saved)'
    <3>1. OneEach(hunches') /\ OneEach(saved')
      BY <1>4, <2>1, AloneGet
    <3> QED BY <3>1 DEF OneEach, Stands
  <2>5. ASSUME NEW g \in Hunches!Generator
        PROVE  /\ Counts(hunches', g, Debt(g)') /\ Counts(saved', g, 0)
               /\ ends' = 0 => hunches'.verdicts[g] + Debt(g)' = Cardinality(Hunches!Settled(hunches', g))
    <3> DEFINE n == IF Owed(x, g) THEN 1 ELSE 0
    <3>1. Debt(g)' = n
      <4>1. (\E u \in Doubter : Owed(doubt'[u], g)) <=> Owed(doubt'[t], g)
        BY <2>1, DebtIs
      <4>2. Debt(g)' = IF \E u \in Doubter : Owed(doubt'[u], g) THEN 1 ELSE 0
        BY DEF Debt, Owed
      <4> QED BY <1>1, <4>1, <4>2
    <3>2. /\ Counts(hunches', g, n)
          /\ ends = 0 => hunches'.verdicts[g] + n = Cardinality(Hunches!Settled(hunches', g))
      BY <1>4
    <3>3. Counts(saved, g, 0)
      BY <2>1, AloneGet DEF Counted
    <3>4. Counts(hunches', g, 0)
      <4>1. n \in {0, 1} /\ hunches'.verdicts[g] \in Nat /\ Cardinality(Hunches!Settled(hunches', g)) \in Nat
        BY BookGet, SettledFew
      <4> QED BY <3>2, <4>1 DEF Counts
    <3> QED BY <3>1, <3>2, <3>3, <3>4
  <2>6. Counted'
    BY <2>5 DEF Counted, Counts, Hunches!Settled
  <2> QED BY <2>2, <2>3, <2>4, <2>6
<1> QED BY <1>2, <1>3, <1>4 DEF HunchesInv

LEMMA OthersIdle ==
  ASSUME HunchesInv, NEW t \in Doubter, ~ crossed, doubt[t].at # "idle"
  PROVE  \A u \in Doubter \ {t} : doubt[u].at = "idle"
  BY AloneGet DEF Lone

(* What a lone thread owes and the records make up the verdicts in the rows. *)
LEMMA CountedGet ==
  ASSUME HunchesInv, NEW t \in Doubter, ~ crossed, \A u \in Doubter \ {t} : doubt[u].at = "idle",
         NEW g \in Hunches!Generator
  PROVE  LET n == IF Owed(doubt[t], g) THEN 1 ELSE 0
         IN  /\ Counts(hunches, g, n)
             /\ ends = 0 => hunches.verdicts[g] + n = Cardinality(Hunches!Settled(hunches, g))
<1>1. (\E u \in Doubter : Owed(doubt[u], g)) <=> Owed(doubt[t], g)
  BY DebtIs
<1>2. Debt(g) = IF Owed(doubt[t], g) THEN 1 ELSE 0
  BY <1>1 DEF Debt
<1> QED BY <1>2, AloneGet DEF Counted

(* A thread goes on and writes nothing. *)
LEMMA DoubtReads ==
  ASSUME HunchesInv, NEW t \in Doubter, NEW x \in Doubting,
         doubt' = [doubt EXCEPT ![t] = x], CaseFits(x), doubt[t].at # "idle",
         held' \subseteq Claim, saved' \in {saved, hunches},
         UNCHANGED <<alive, hunches, ends, crossed>>,
         ~ crossed => LoneFits(x), \A g : Owed(x, g) <=> Owed(doubt[t], g)
  PROVE  HunchesInv'
<1>1. hunches' \in Book /\ saved' \in {saved, hunches'} /\ crossed' \in BOOLEAN
  BY HunchesGet
<1>2. ~ crossed' => \A u \in Doubter \ {t} : doubt[u].at = "idle"
  BY OthersIdle
<1>3. ~ crossed' => LoneFits(x)' /\ OneEach(hunches')
  BY AloneGet DEF LoneFits, OneEach, Stands
<1>4. ~ crossed' => \A g \in Hunches!Generator :
        LET n == IF Owed(x, g) THEN 1 ELSE 0
        IN  /\ Counts(hunches', g, n)
            /\ ends = 0 => hunches'.verdicts[g] + n = Cardinality(Hunches!Settled(hunches', g))
  <2> SUFFICES ASSUME ~ crossed', NEW g \in Hunches!Generator
               PROVE  LET n == IF Owed(x, g) THEN 1 ELSE 0
                      IN  /\ Counts(hunches', g, n)
                          /\ ends = 0 => hunches'.verdicts[g] + n = Cardinality(Hunches!Settled(hunches', g))
    OBVIOUS
  <2>1. ~ crossed /\ hunches' = hunches /\ (Owed(x, g) <=> Owed(doubt[t], g))
    OBVIOUS
  <2>2. LET n == IF Owed(doubt[t], g) THEN 1 ELSE 0
        IN  /\ Counts(hunches, g, n)
            /\ ends = 0 => hunches.verdicts[g] + n = Cardinality(Hunches!Settled(hunches, g))
    BY <1>2, <2>1, CountedGet
  <2> QED BY <2>1, <2>2
<1> QED BY <1>1, <1>2, <1>3, <1>4, DoubtStep

(* A thread begins. *)
LEMMA DoubtEnters ==
  ASSUME HunchesInv, NEW t \in Doubter, NEW x \in Doubting,
         Hunches!Enters(t, x), CaseFits(x), x.at \in {"leap", "ready", "answer"},
         UNCHANGED <<held, alive, hunches, saved, ends>>
  PROVE  HunchesInv'
<1>1. /\ doubt' = [doubt EXCEPT ![t] = x] /\ doubt[t].at = "idle"
      /\ crossed' = (crossed \/ \E u \in Doubter : doubt[u].at # "idle")
  BY DEF Hunches!Enters, Hunches!Moves
<1>2. held' \subseteq Claim /\ hunches' \in Book /\ saved' \in {saved, hunches'} /\ crossed' \in BOOLEAN
  BY <1>1, HunchesGet
<1>3. ~ crossed' => ~ crossed /\ \A u \in Doubter \ {t} : doubt[u].at = "idle"
  BY <1>1
<1>4. ~ crossed' => LoneFits(x)' /\ OneEach(hunches')
  BY <1>3, AloneGet DEF LoneFits, OneEach, Stands
<1>5. ~ crossed' => \A g \in Hunches!Generator :
        LET n == IF Owed(x, g) THEN 1 ELSE 0
        IN  /\ Counts(hunches', g, n)
            /\ ends = 0 => hunches'.verdicts[g] + n = Cardinality(Hunches!Settled(hunches', g))
  <2> SUFFICES ASSUME ~ crossed', NEW g \in Hunches!Generator
               PROVE  LET n == IF Owed(x, g) THEN 1 ELSE 0
                      IN  /\ Counts(hunches', g, n)
                          /\ ends = 0 => hunches'.verdicts[g] + n = Cardinality(Hunches!Settled(hunches', g))
    OBVIOUS
  <2>1. hunches' = hunches /\ ~ Owed(x, g) /\ ~ Owed(doubt[t], g)
    BY <1>1 DEF Owed
  <2>2. LET n == IF Owed(doubt[t], g) THEN 1 ELSE 0
        IN  /\ Counts(hunches, g, n)
            /\ ends = 0 => hunches.verdicts[g] + n = Cardinality(Hunches!Settled(hunches, g))
    BY <1>3, CountedGet
  <2> QED BY <2>1, <2>2
<1> QED BY <1>1, <1>2, <1>3, <1>4, <1>5, DoubtStep

LEMMA BeginLeapStep ==
  ASSUME HunchesInv, NEW t \in Doubter, Hunches!BeginLeap(t)
  PROVE  HunchesInv'
<1> DEFINE x == [Hunches!Idle EXCEPT !.at = "leap", !.seen = held, !.live = alive]
<1>1. x \in Doubting /\ x.at = "leap" /\ x.score = {}
  BY IdleDoubt, HunchesGet DEF Doubting, Hunches!Idle
<1>2. Hunches!Enters(t, x) /\ UNCHANGED <<held, alive, hunches, saved, ends>>
  BY DEF Hunches!BeginLeap
<1> HIDE DEF x
<1>3. CaseFits(x)
  BY <1>1 DEF CaseFits
<1> QED BY <1>1, <1>2, <1>3, DoubtEnters

LEMMA BeginInterrogationStep ==
  ASSUME HunchesInv, NEW t \in Doubter, Hunches!BeginInterrogation(t)
  PROVE  HunchesInv'
<1> DEFINE x == [Hunches!Idle EXCEPT !.at = "ready"]
<1>1. x \in Doubting /\ x.at = "ready" /\ x.score = {}
  BY IdleDoubt DEF Doubting, Hunches!Idle
<1>2. Hunches!Enters(t, x) /\ UNCHANGED <<held, alive, hunches, saved, ends>>
  BY DEF Hunches!BeginInterrogation
<1> HIDE DEF x
<1>3. CaseFits(x)
  BY <1>1 DEF CaseFits
<1> QED BY <1>1, <1>2, <1>3, DoubtEnters

LEMMA AnswerStep ==
  ASSUME HunchesInv, NEW t \in Doubter, NEW l \in Leap, Hunches!Answer(t, l)
  PROVE  HunchesInv'
<1> DEFINE x == [Hunches!Idle EXCEPT !.at = "answer", !.score = {l}]
<1>1. x \in Doubting /\ x.at = "answer" /\ x.score = {l}
  BY IdleDoubt DEF Doubting, Hunches!Idle
<1>2. Hunches!Enters(t, x) /\ UNCHANGED <<held, alive, hunches, saved, ends>>
  BY DEF Hunches!Answer
<1> HIDE DEF x
<1>3. CaseFits(x)
  BY <1>1 DEF CaseFits
<1> QED BY <1>1, <1>2, <1>3, DoubtEnters

LEMMA TakenIs ==
  ASSUME HunchesInv
  PROVE  /\ Hunches!Taken \subseteq Claim
         /\ \A l \in Leap : Stands(hunches, l) => ClaimOf[l] \in Hunches!Taken
  BY HunchesAssumption DEF Hunches!Taken, Hunches!Rows, Stands

LEMMA SelectSpentStep ==
  ASSUME HunchesInv, NEW t \in Doubter, Hunches!SelectSpent(t)
  PROVE  HunchesInv'
<1> DEFINE T == {l \in Leap : /\ hunches.row[l].status = "none" /\ SourceOf[l] \in doubt[t].live
                              /\ Hunches!Unknown(ClaimOf[l], doubt[t].seen)}
           x == [doubt[t] EXCEPT !.at = "insert", !.claimed = Hunches!Taken, !.todo = T]
<1>1. doubt[t] \in Doubting /\ CaseFits(doubt[t]) /\ doubt[t].at = "leap"
  BY HunchesGet DEF Hunches!SelectSpent
<1>2. Hunches!Taken \subseteq Claim /\ T \subseteq Leap
  BY TakenIs
<1>3. /\ doubt' = [doubt EXCEPT ![t] = x]
      /\ UNCHANGED <<held, alive, hunches, saved, ends, crossed>>
  BY DEF Hunches!SelectSpent, Hunches!Moves
<1> HIDE DEF T
<1>4. x \in Doubting /\ x.at = "insert" /\ x.claimed = Hunches!Taken /\ x.score = doubt[t].score
  BY <1>1, <1>2 DEF Doubting
<1> HIDE DEF x
<1>5. CaseFits(x)
  BY <1>1, <1>4 DEF CaseFits
<1>6. LoneFits(x)
  BY <1>4, TakenIs DEF LoneFits
<1>7. \A g : Owed(x, g) <=> Owed(doubt[t], g)
  BY <1>1, <1>4 DEF Owed
<1>8. held' \subseteq Claim /\ saved' \in {saved, hunches} /\ doubt[t].at # "idle"
  BY <1>1, <1>3, HunchesGet
<1> QED BY <1>3, <1>4, <1>5, <1>6, <1>7, <1>8, DoubtReads

------------------------------------------------------------------------------
(* A row is written. *)
LEMMA RowWritten ==
  ASSUME NEW d \in Book, NEW l \in Leap, NEW r \in Case
  PROVE  LET e == [d EXCEPT !.row[l] = r]
         IN  /\ e \in Book /\ e.verdicts = d.verdicts /\ e.row[l] = r
             /\ \A m \in Leap \ {l} : e.row[m] = d.row[m]
  BY DEF Book

Final == {"supported", "refuted"}

LEMMA SettledAs ==
  ASSUME NEW d \in Book, NEW e \in Book, NEW g,
         \A l \in Leap : d.row[l].status \in Final <=> e.row[l].status \in Final
  PROVE  Hunches!Settled(e, g) = Hunches!Settled(d, g)
  BY DEF Hunches!Settled, Final

LEMMA InsertHunchStep ==
  ASSUME HunchesInv, NEW t \in Doubter, NEW l \in Leap, Hunches!InsertHunch(t, l)
  PROVE  HunchesInv'
<1> DEFINE y == [doubt[t] EXCEPT !.at = IF l \in FromPrior THEN "priors" ELSE "insert",
                   !.made = @ + 1, !.todo = @ \ {l}, !.claimed = @ \cup {Hunches!Name(l)}]
           s == IF hunches.row[l] = Hunches!NoRow THEN [status |-> "open", passes |-> 0]
                ELSE hunches.row[l]
<1>1. doubt[t] \in Doubting /\ CaseFits(doubt[t]) /\ doubt[t].at \in {"insert", "priors"}
  BY HunchesGet DEF Hunches!InsertHunch
<1>2. /\ doubt' = [doubt EXCEPT ![t] = y] /\ hunches' = [hunches EXCEPT !.row[l] = s]
      /\ doubt[t].made < MAX_NEW_HUNCHES /\ Hunches!Name(l) \notin doubt[t].claimed
      /\ UNCHANGED <<held, alive, saved, ends, crossed>>
  BY DEF Hunches!InsertHunch, Hunches!Moves, Hunches!Eligible
<1>3. Hunches!Name(l) \in Claim
  BY HunchesAssumption DEF Hunches!Name
<1>4. y \in Doubting /\ y.at \in {"insert", "priors"} /\ y.score = doubt[t].score
      /\ y.claimed = doubt[t].claimed \cup {Hunches!Name(l)}
  <2>1. doubt[t].made + 1 \in 0..MAX_NEW_HUNCHES /\ doubt[t].todo \ {l} \in SUBSET Leap
        /\ doubt[t].claimed \cup {Hunches!Name(l)} \in SUBSET Claim
    BY <1>1, <1>2, <1>3, HunchesAssumption DEF Doubting
  <2> QED BY <1>1, <2>1 DEF Doubting
<1>5. s \in Case /\ (s.status \in Final <=> hunches.row[l].status \in Final)
      /\ hunches \in Book
  BY HunchesGet, BookGet, HunchesAssumption DEF Case, Hunches!Status, Hunches!NoRow, Final
<1> HIDE DEF s
<1>6. /\ hunches' \in Book /\ hunches'.verdicts = hunches.verdicts /\ hunches'.row[l] = s
      /\ \A m \in Leap \ {l} : hunches'.row[m] = hunches.row[m]
  BY <1>2, <1>5, RowWritten
<1>7. PICK x \in Doubting : x = y
  BY <1>4
<1>8. /\ doubt' = [doubt EXCEPT ![t] = x]
      /\ x.at \in {"insert", "priors"} /\ x.score = doubt[t].score
      /\ x.claimed = doubt[t].claimed \cup {Hunches!Name(l)}
  BY <1>2, <1>4, <1>7
<1> HIDE DEF y
<1>9. CaseFits(x)
  BY <1>1, <1>8 DEF CaseFits
<1>10. ~ crossed' => \A u \in Doubter \ {t} : doubt[u].at = "idle"
  BY <1>1, <1>2, OthersIdle
<1>11. ASSUME ~ crossed' PROVE LoneFits(x)' /\ OneEach(hunches')
  <2>1. \A m \in Leap : Stands(hunches, m) /\ Hunches!LookedUpAsBooked(m) => ClaimOf[m] \in doubt[t].claimed
    BY <1>1, <1>2, <1>11, AloneGet DEF LoneFits
  <2>2. \A m \in Leap \ {l} : Stands(hunches', m) => Stands(hunches, m)
    BY <1>6 DEF Stands
  <2>3. Hunches!LookedUpAsBooked(l) => ClaimOf[l] \notin doubt[t].claimed /\ ClaimOf[l] \in x.claimed
    BY <1>2, <1>8 DEF Hunches!LookedUpAsBooked
  <2>4. LoneFits(x)'
    <3>1. \A m \in Leap : Stands(hunches', m) /\ Hunches!LookedUpAsBooked(m) => ClaimOf[m] \in x.claimed
      BY <1>8, <2>1, <2>2, <2>3
    <3>2. \A m \in Leap : Stands(hunches', m) <=> Stands(hunches, m)'
      BY DEF Stands
    <3> QED BY <1>8, <3>1, <3>2 DEF LoneFits
  <2>5. OneEach(hunches')
    <3>1. ASSUME NEW m \in Leap, NEW n \in Leap,
                 Stands(hunches', m), Stands(hunches', n),
                 Hunches!LookedUpAsBooked(m), Hunches!LookedUpAsBooked(n), ClaimOf[m] = ClaimOf[n]
          PROVE  m = n
      <4>1. CASE m # l /\ n # l
        <5>1. OneEach(hunches)
          BY <1>2, <1>11, AloneGet
        <5> QED BY <2>2, <3>1, <4>1, <5>1 DEF OneEach
      <4>2. CASE m = l /\ n # l
        BY <2>1, <2>2, <2>3, <3>1, <4>2
      <4>3. CASE m # l /\ n = l
        BY <2>1, <2>2, <2>3, <3>1, <4>3
      <4> QED BY <4>1, <4>2, <4>3
    <3> QED BY <3>1 DEF OneEach
  <2> QED BY <2>4, <2>5
<1>12. ASSUME ~ crossed', NEW g \in Hunches!Generator
       PROVE  LET n == IF Owed(x, g) THEN 1 ELSE 0
              IN  /\ Counts(hunches', g, n)
                  /\ ends = 0 => hunches'.verdicts[g] + n = Cardinality(Hunches!Settled(hunches', g))
  <2>1. Hunches!Settled(hunches', g) = Hunches!Settled(hunches, g)
    <3>1. \A m \in Leap : hunches.row[m].status \in Final <=> hunches'.row[m].status \in Final
      BY <1>5, <1>6
    <3> QED BY <1>5, <1>6, <3>1, SettledAs
  <2>2. ~ Owed(x, g) /\ ~ Owed(doubt[t], g)
    BY <1>1, <1>8 DEF Owed
  <2>3. LET n == IF Owed(doubt[t], g) THEN 1 ELSE 0
        IN  /\ Counts(hunches, g, n)
            /\ ends = 0 => hunches.verdicts[g] + n = Cardinality(Hunches!Settled(hunches, g))
    BY <1>2, <1>10, <1>12, CountedGet
  <2> QED BY <1>6, <2>1, <2>2, <2>3 DEF Counts
<1>13. held' \subseteq Claim /\ alive' = alive /\ saved' \in {saved, hunches'} /\ ends' = ends
       /\ crossed' \in BOOLEAN /\ (crossed => crossed')
  BY <1>2, HunchesGet
<1> QED BY <1>6, <1>8, <1>9, <1>10, <1>11, <1>12, <1>13, DoubtStep

(* A leap is over. *)
LEMMA AfterLeapStep ==
  ASSUME HunchesInv, NEW t \in Doubter, Hunches!AfterLeap(t), doubt[t].at \in {"insert", "priors"},
         saved' \in {saved, hunches}, UNCHANGED <<held, alive, hunches, ends, crossed>>
  PROVE  HunchesInv'
<1> DEFINE x == IF t = Scheduler THEN [Hunches!Idle EXCEPT !.at = "ready"] ELSE Hunches!Idle
<1>1. x \in Doubting /\ x.at \in {"idle", "ready"} /\ x.score = {}
  BY IdleDoubt DEF Doubting, Hunches!Idle
<1>2. doubt' = [doubt EXCEPT ![t] = x]
  BY DEF Hunches!AfterLeap, Hunches!Moves
<1> HIDE DEF x
<1>3. CaseFits(x) /\ LoneFits(x)
  BY <1>1 DEF CaseFits, LoneFits
<1>4. \A g : Owed(x, g) <=> Owed(doubt[t], g)
  BY <1>1 DEF Owed
<1>5. held' \subseteq Claim /\ doubt[t].at # "idle"
  BY HunchesGet
<1> QED BY <1>1, <1>2, <1>3, <1>4, <1>5, DoubtReads

LEMMA ReturnFullStep ==
  ASSUME HunchesInv, NEW t \in Doubter, Hunches!ReturnFull(t)
  PROVE  HunchesInv'
  BY AfterLeapStep DEF Hunches!ReturnFull

LEMMA CommitLeapStep ==
  ASSUME HunchesInv, NEW t \in Doubter, Hunches!CommitLeap(t)
  PROVE  HunchesInv'
  BY AfterLeapStep DEF Hunches!CommitLeap

LEMMA InterrogateStep ==
  ASSUME HunchesInv, NEW t \in Doubter, Hunches!Interrogate(t)
  PROVE  HunchesInv'
<1> DEFINE x == [doubt[t] EXCEPT !.at = "doubt", !.seen = held, !.live = alive]
<1>1. doubt[t] \in Doubting /\ CaseFits(doubt[t]) /\ doubt[t].at = "ready"
  BY HunchesGet DEF Hunches!Interrogate
<1>2. x \in Doubting /\ x.at = "doubt" /\ x.score = doubt[t].score
  BY <1>1, HunchesGet DEF Doubting
<1>3. /\ doubt' = [doubt EXCEPT ![t] = x]
      /\ UNCHANGED <<held, alive, hunches, saved, ends, crossed>>
  BY DEF Hunches!Interrogate, Hunches!Moves
<1> HIDE DEF x
<1>4. CaseFits(x) /\ LoneFits(x)
  BY <1>1, <1>2 DEF CaseFits, LoneFits
<1>5. \A g : Owed(x, g) <=> Owed(doubt[t], g)
  BY <1>1, <1>2 DEF Owed
<1>6. held' \subseteq Claim /\ saved' \in {saved, hunches} /\ doubt[t].at # "idle"
  BY <1>1, <1>3, HunchesGet
<1> QED BY <1>2, <1>3, <1>4, <1>5, <1>6, DoubtReads

LEMMA SelectCasesStep ==
  ASSUME HunchesInv, NEW t \in Doubter, Hunches!SelectCases(t)
  PROVE  HunchesInv'
<1> DEFINE S == Hunches!Rows(Hunches!Pending)
           c == [l \in S |-> hunches.row[l]]
           x == [doubt[t] EXCEPT !.at = "judge", !.todo = S, !.cases = c]
<1>1. doubt[t] \in Doubting /\ CaseFits(doubt[t]) /\ doubt[t].at = "doubt"
  BY HunchesGet DEF Hunches!SelectCases
<1>2. S \in SUBSET Leap /\ \A l \in S : hunches.row[l] \in Case /\ hunches.row[l].status \in Hunches!Pending
  BY HunchesGet, BookGet DEF Hunches!Rows
<1>3. /\ doubt' = [doubt EXCEPT ![t] = x]
      /\ UNCHANGED <<held, alive, hunches, saved, ends, crossed>>
  BY DEF Hunches!SelectCases, Hunches!Moves
<1> HIDE DEF S
<1>4. c \in [S -> Case] /\ DOMAIN c = S /\ \A l \in S : c[l] = hunches.row[l]
  BY <1>2
<1> HIDE DEF c
<1>5. c \in UNION {[R -> Case] : R \in SUBSET Leap}
  BY <1>2, <1>4
<1>6. x \in Doubting /\ x.at = "judge" /\ x.score = doubt[t].score /\ x.todo = S /\ x.cases = c
  BY <1>1, <1>2, <1>5 DEF Doubting
<1> HIDE DEF x
<1>7. CaseFits(x) /\ LoneFits(x)
  BY <1>1, <1>2, <1>4, <1>6 DEF CaseFits, LoneFits
<1>8. \A g : Owed(x, g) <=> Owed(doubt[t], g)
  BY <1>1, <1>6 DEF Owed
<1>9. held' \subseteq Claim /\ saved' \in {saved, hunches} /\ doubt[t].at # "idle"
  BY <1>1, <1>3, HunchesGet
<1> QED BY <1>3, <1>6, <1>7, <1>8, <1>9, DoubtReads

LEMMA DeferStep ==
  ASSUME HunchesInv, NEW t \in Doubter, NEW l \in Leap, Hunches!Defer(t, l)
  PROVE  HunchesInv'
<1> DEFINE c == doubt[t].cases[l]
           n == c.passes + 1
           s == [status |-> IF n >= ASK_AFTER_PASSES THEN "asking" ELSE c.status,
                 passes |-> IF n > ASK_AFTER_PASSES THEN ASK_AFTER_PASSES ELSE n]
           y == [doubt[t] EXCEPT !.todo = @ \ {l}]
<1>1. doubt[t] \in Doubting /\ CaseFits(doubt[t]) /\ doubt[t].at = "judge" /\ l \in doubt[t].todo
  BY HunchesGet DEF Hunches!Defer
<1>2. /\ doubt' = [doubt EXCEPT ![t] = y] /\ hunches' = [hunches EXCEPT !.row[l] = s]
      /\ UNCHANGED <<held, alive, saved, ends, crossed>>
  BY DEF Hunches!Defer, Hunches!Moves
<1>3. c \in Case /\ c.status \in Hunches!Pending
  <2>1. l \in DOMAIN doubt[t].cases /\ c.status \in Hunches!Pending
    BY <1>1 DEF CaseFits
  <2>2. PICK R \in SUBSET Leap : doubt[t].cases \in [R -> Case]
    BY <1>1 DEF Doubting
  <2> QED BY <2>1, <2>2
<1> HIDE DEF c
<1>4. s \in Case /\ s.status \in Hunches!Pending /\ hunches \in Book
  <2>1. s.status \in Hunches!Pending /\ s.status \in Hunches!Status
    BY <1>3 DEF Hunches!Pending, Hunches!Status
  <2>2. s.passes \in 0..ASK_AFTER_PASSES
    BY <1>3, HunchesAssumption DEF Case
  <2> QED BY <2>1, <2>2, HunchesGet DEF Case
<1> HIDE DEF s
<1>5. /\ hunches' \in Book /\ hunches'.verdicts = hunches.verdicts /\ hunches'.row[l] = s
      /\ \A m \in Leap \ {l} : hunches'.row[m] = hunches.row[m]
  BY <1>2, <1>4, RowWritten
<1>6. y \in Doubting /\ y.at = "judge" /\ y.score = {} /\ y.cases = doubt[t].cases
      /\ y.todo = doubt[t].todo \ {l}
  BY <1>1 DEF Doubting, CaseFits
<1>7. PICK x \in Doubting : x = y
  BY <1>6
<1>8. /\ doubt' = [doubt EXCEPT ![t] = x] /\ x.at = "judge" /\ x.score = {}
      /\ x.cases = doubt[t].cases /\ x.todo = doubt[t].todo \ {l}
  BY <1>2, <1>6, <1>7
<1> HIDE DEF y
<1>9. CaseFits(x)
  BY <1>1, <1>8 DEF CaseFits
<1>10. ~ crossed' => \A u \in Doubter \ {t} : doubt[u].at = "idle"
  BY <1>1, <1>2, OthersIdle
<1>11. ASSUME ~ crossed'
       PROVE  /\ LoneFits(x)' /\ OneEach(hunches')
              /\ \A m \in Leap : hunches.row[m].status \in Final <=> hunches'.row[m].status \in Final
  <2>1. \A m \in doubt[t].todo : hunches.row[m].status \in Hunches!Pending
    BY <1>1, <1>2, <1>11, AloneGet DEF LoneFits
  <2>2. LoneFits(x)'
    BY <1>1, <1>5, <1>8, <2>1 DEF LoneFits, Doubting
  <2>3. \A m \in Leap : Stands(hunches', m) => Stands(hunches, m)
    BY <1>1, <1>5, <2>1 DEF Stands, Hunches!Pending, Hunches!Status
  <2>4. OneEach(hunches)
    BY <1>2, <1>11, AloneGet
  <2>5. OneEach(hunches')
    BY <2>3, <2>4 DEF OneEach
  <2>6. \A m \in Leap : hunches.row[m].status \in Final <=> hunches'.row[m].status \in Final
    BY <1>1, <1>4, <1>5, <2>1 DEF Final, Hunches!Pending
  <2> QED BY <2>2, <2>5, <2>6
<1>12. ASSUME ~ crossed', NEW g \in Hunches!Generator
       PROVE  LET k == IF Owed(x, g) THEN 1 ELSE 0
              IN  /\ Counts(hunches', g, k)
                  /\ ends = 0 => hunches'.verdicts[g] + k = Cardinality(Hunches!Settled(hunches', g))
  <2>1. Hunches!Settled(hunches', g) = Hunches!Settled(hunches, g)
    BY <1>4, <1>5, <1>11, <1>12, SettledAs
  <2>2. ~ Owed(x, g) /\ ~ Owed(doubt[t], g)
    BY <1>1, <1>8 DEF Owed
  <2>3. LET k == IF Owed(doubt[t], g) THEN 1 ELSE 0
        IN  /\ Counts(hunches, g, k)
            /\ ends = 0 => hunches.verdicts[g] + k = Cardinality(Hunches!Settled(hunches, g))
    BY <1>2, <1>10, <1>12, CountedGet
  <2> QED BY <1>5, <2>1, <2>2, <2>3 DEF Counts
<1>13. held' \subseteq Claim /\ alive' = alive /\ saved' \in {saved, hunches'} /\ ends' = ends
       /\ crossed' \in BOOLEAN /\ (crossed => crossed')
  BY <1>2, HunchesGet
<1> QED BY <1>5, <1>8, <1>9, <1>10, <1>11, <1>12, <1>13, DoubtStep

(* A verdict joins the decided cases of its generator, and of no other. *)
LEMMA OneMoreSettled ==
  ASSUME NEW d \in Book, NEW e \in Book, NEW l \in Leap, NEW g,
         d.row[l].status \notin Final, e.row[l].status \in Final,
         \A m \in Leap \ {l} : e.row[m] = d.row[m]
  PROVE  Cardinality(Hunches!Settled(e, g)) =
           Cardinality(Hunches!Settled(d, g)) + IF GeneratorOf[l] = g THEN 1 ELSE 0
<1>1. CASE GeneratorOf[l] = g
  <2>1. Hunches!Settled(e, g) = Hunches!Settled(d, g) \cup {l} /\ l \notin Hunches!Settled(d, g)
    BY <1>1 DEF Hunches!Settled, Final
  <2>2. IsFiniteSet(Hunches!Settled(d, g))
    BY SettledFew
  <2> QED BY <1>1, <2>1, <2>2, FS_AddElement
<1>2. CASE GeneratorOf[l] # g
  <2>1. Hunches!Settled(e, g) = Hunches!Settled(d, g)
    BY <1>2 DEF Hunches!Settled, Final
  <2>2. Cardinality(Hunches!Settled(d, g)) \in Nat
    BY SettledFew
  <2> QED BY <1>2, <2>1, <2>2
<1> QED BY <1>1, <1>2

LEMMA DecideStep ==
  ASSUME HunchesInv, NEW t \in Doubter, NEW l \in Leap, Hunches!Decide(t, l)
  PROVE  HunchesInv'
<1> DEFINE v == Hunches!Verdict(l, doubt[t].seen, doubt[t].live)
           s == [hunches.row[l] EXCEPT !.status = v]
           y == [doubt[t] EXCEPT !.todo = @ \ {l},
                   !.at = IF v = "lapsed" THEN "judge" ELSE "read",
                   !.score = IF v = "lapsed" THEN {} ELSE {l}]
<1>1. doubt[t] \in Doubting /\ CaseFits(doubt[t]) /\ doubt[t].at = "judge" /\ l \in doubt[t].todo
  BY HunchesGet DEF Hunches!Decide
<1>2. hunches \in Book /\ hunches.row[l] \in Case
  BY HunchesGet, BookGet
<1>3. v \in {"supported", "refuted", "lapsed"}
  BY DEF Hunches!Decide, Hunches!Verdict
<1>4. doubt' = [doubt EXCEPT ![t] = y] /\ UNCHANGED <<held, alive, saved, ends, crossed>>
  BY DEF Hunches!Decide, Hunches!Moves
<1>5. hunches' = [hunches EXCEPT !.row[l] = s]
  BY <1>2 DEF Hunches!Decide, Book
<1> HIDE DEF v
<1>6. s \in Case /\ s.status = v
  BY <1>2, <1>3 DEF Case, Hunches!Status
<1> HIDE DEF s
<1>7. /\ hunches' \in Book /\ hunches'.verdicts = hunches.verdicts /\ hunches'.row[l] = s
      /\ \A m \in Leap \ {l} : hunches'.row[m] = hunches.row[m]
  BY <1>2, <1>5, <1>6, RowWritten
<1>8. y \in Doubting /\ y.at = (IF v = "lapsed" THEN "judge" ELSE "read")
      /\ y.score = (IF v = "lapsed" THEN {} ELSE {l}) /\ y.cases = doubt[t].cases
      /\ y.todo = doubt[t].todo \ {l}
  BY <1>1, <1>3 DEF Doubting
<1>9. PICK x \in Doubting : x = y
  BY <1>8
<1>10. /\ doubt' = [doubt EXCEPT ![t] = x] /\ x.at = (IF v = "lapsed" THEN "judge" ELSE "read")
       /\ x.score = (IF v = "lapsed" THEN {} ELSE {l})
       /\ x.cases = doubt[t].cases /\ x.todo = doubt[t].todo \ {l}
  BY <1>4, <1>8, <1>9
<1> HIDE DEF y
<1>11. CaseFits(x)
  BY <1>1, <1>10 DEF CaseFits
<1>12. ~ crossed' => \A u \in Doubter \ {t} : doubt[u].at = "idle"
  BY <1>1, <1>4, OthersIdle
<1>13. ASSUME ~ crossed'
       PROVE  \A m \in doubt[t].todo : hunches.row[m].status \in Hunches!Pending
  BY <1>1, <1>4, <1>13, AloneGet DEF LoneFits
<1>14. ASSUME ~ crossed' PROVE LoneFits(x)' /\ OneEach(hunches')
  <2>1. LoneFits(x)'
    BY <1>1, <1>7, <1>10, <1>13, <1>14 DEF LoneFits, Doubting
  <2>2. \A m \in Leap : Stands(hunches', m) => Stands(hunches, m)
    BY <1>1, <1>7, <1>13, <1>14 DEF Stands, Hunches!Pending, Hunches!Status
  <2>3. OneEach(hunches)
    BY <1>4, <1>14, AloneGet
  <2>4. OneEach(hunches')
    BY <2>2, <2>3 DEF OneEach
  <2> QED BY <2>1, <2>4
<1>15. ASSUME ~ crossed', NEW g \in Hunches!Generator
       PROVE  LET k == IF Owed(x, g) THEN 1 ELSE 0
              IN  /\ Counts(hunches', g, k)
                  /\ ends = 0 => hunches'.verdicts[g] + k = Cardinality(Hunches!Settled(hunches', g))
  <2>1. LET k == IF Owed(doubt[t], g) THEN 1 ELSE 0
        IN  /\ Counts(hunches, g, k)
            /\ ends = 0 => hunches.verdicts[g] + k = Cardinality(Hunches!Settled(hunches, g))
    BY <1>4, <1>12, <1>15, CountedGet
  <2>2. ~ Owed(doubt[t], g)
    BY <1>1 DEF Owed
  <2>3. hunches.verdicts[g] \in Nat /\ Cardinality(Hunches!Settled(hunches, g)) \in Nat
    BY <1>2, BookGet, SettledFew
  <2>4. hunches.verdicts[g] <= Cardinality(Hunches!Settled(hunches, g))
        /\ (ends = 0 => hunches.verdicts[g] = Cardinality(Hunches!Settled(hunches, g)))
    BY <2>1, <2>2, <2>3 DEF Counts
  <2>5. hunches.row[l].status \notin Final
    BY <1>1, <1>13, <1>15 DEF Hunches!Pending, Final
  <2>6. CASE v = "lapsed"
    <3>1. Hunches!Settled(hunches', g) = Hunches!Settled(hunches, g)
      <4>1. \A m \in Leap : hunches.row[m].status \in Final <=> hunches'.row[m].status \in Final
        BY <1>6, <1>7, <2>5, <2>6 DEF Final
      <4> QED BY <1>2, <1>7, <4>1, SettledAs
    <3>2. ~ Owed(x, g)
      BY <1>10, <2>6 DEF Owed
    <3> QED BY <1>7, <2>3, <2>4, <3>1, <3>2 DEF Counts
  <2>7. CASE v # "lapsed"
    <3>1. Cardinality(Hunches!Settled(hunches', g)) =
            Cardinality(Hunches!Settled(hunches, g)) + IF GeneratorOf[l] = g THEN 1 ELSE 0
      <4>1. hunches'.row[l].status \in Final
        BY <1>3, <1>6, <1>7, <2>7 DEF Final
      <4> QED BY <1>2, <1>7, <2>5, <4>1, OneMoreSettled
    <3>2. Owed(x, g) <=> GeneratorOf[l] = g
      BY <1>10, <2>7 DEF Owed
    <3> QED BY <1>7, <2>3, <2>4, <3>1, <3>2 DEF Counts
  <2> QED BY <2>6, <2>7
<1>16. held' \subseteq Claim /\ alive' = alive /\ saved' \in {saved, hunches'} /\ ends' = ends
       /\ crossed' \in BOOLEAN /\ (crossed => crossed')
  BY <1>4, HunchesGet
<1> QED BY <1>7, <1>10, <1>11, <1>12, <1>14, <1>15, <1>16, DoubtStep

LEMMA ReadRecordStep ==
  ASSUME HunchesInv, NEW t \in Doubter, Hunches!ReadRecord(t)
  PROVE  HunchesInv'
<1>1. doubt[t] \in Doubting /\ CaseFits(doubt[t]) /\ doubt[t].at = "read"
  BY HunchesGet DEF Hunches!ReadRecord
<1>2. PICK l \in doubt[t].score :
        Hunches!Moves(t, [doubt[t] EXCEPT !.at = "score", !.tally = hunches.verdicts[GeneratorOf[l]]])
  BY DEF Hunches!ReadRecord
<1> DEFINE x == [doubt[t] EXCEPT !.at = "score", !.tally = hunches.verdicts[GeneratorOf[l]]]
<1>3. l \in Leap /\ doubt[t].score = {l}
  BY <1>1, <1>2 DEF CaseFits
<1>4. hunches.verdicts[GeneratorOf[l]] \in 0..MaxVerdicts
  BY <1>3, HunchesGet, BookGet, GeneratorIs
<1>5. /\ doubt' = [doubt EXCEPT ![t] = x]
      /\ UNCHANGED <<held, alive, hunches, saved, ends, crossed>>
  BY <1>2 DEF Hunches!ReadRecord, Hunches!Moves
<1>6. x \in Doubting /\ x.at = "score" /\ x.score = {l} /\ x.todo = doubt[t].todo
      /\ x.cases = doubt[t].cases /\ x.tally = hunches.verdicts[GeneratorOf[l]]
  BY <1>1, <1>3, <1>4 DEF Doubting
<1> HIDE DEF x
<1>7. CaseFits(x)
  BY <1>1, <1>3, <1>6 DEF CaseFits
<1>8. ~ crossed => LoneFits(x)
  <2>1. ~ crossed => LoneFits(doubt[t])
    BY AloneGet
  <2> QED BY <1>1, <1>6, <2>1 DEF LoneFits
<1>9. \A g : Owed(x, g) <=> Owed(doubt[t], g)
  BY <1>1, <1>3, <1>6 DEF Owed
<1>10. held' \subseteq Claim /\ saved' \in {saved, hunches} /\ doubt[t].at # "idle"
  BY <1>1, <1>5, HunchesGet
<1> QED BY <1>5, <1>6, <1>7, <1>8, <1>9, <1>10, DoubtReads

LEMMA CommitVerdictsStep ==
  ASSUME HunchesInv, NEW t \in Doubter, Hunches!CommitVerdicts(t)
  PROVE  HunchesInv'
<1>1. /\ doubt[t].at = "judge" /\ doubt' = [doubt EXCEPT ![t] = Hunches!Idle]
      /\ UNCHANGED <<held, alive, hunches, ends, crossed>> /\ saved' = hunches
  BY DEF Hunches!CommitVerdicts, Hunches!Moves
<1>2. \A g : ~ Owed(Hunches!Idle, g) /\ ~ Owed(doubt[t], g)
  BY <1>1, IdleDoubt DEF Owed
<1>3. held' \subseteq Claim
  BY <1>1, HunchesGet
<1> QED BY <1>1, <1>2, <1>3, IdleDoubt, DoubtReads

LEMMA RecordAnswerStep ==
  ASSUME HunchesInv, NEW t \in Doubter, Hunches!RecordAnswer(t)
  PROVE  HunchesInv'
<1> DEFINE x == [doubt[t] EXCEPT !.at = "ready", !.score = {}]
<1>1. doubt[t] \in Doubting /\ CaseFits(doubt[t]) /\ doubt[t].at = "answer"
  BY HunchesGet DEF Hunches!RecordAnswer
<1>2. /\ doubt' = [doubt EXCEPT ![t] = x] /\ saved' = hunches
      /\ UNCHANGED <<alive, hunches, ends, crossed>>
  BY DEF Hunches!RecordAnswer, Hunches!Moves
<1>3. held' \subseteq Claim
  <2>1. PICK l \in doubt[t].score : \E c \in {ClaimOf[l], Negation[ClaimOf[l]]} : held' = held \cup {c}
    BY DEF Hunches!RecordAnswer
  <2>2. l \in Leap
    BY <1>1, <2>1 DEF Doubting
  <2> QED BY <2>1, <2>2, HunchesGet, HunchesAssumption
<1>4. x \in Doubting /\ x.at = "ready" /\ x.score = {}
  BY <1>1 DEF Doubting
<1> HIDE DEF x
<1>5. CaseFits(x) /\ LoneFits(x)
  BY <1>4 DEF CaseFits, LoneFits
<1>6. \A g : Owed(x, g) <=> Owed(doubt[t], g)
  BY <1>1, <1>4 DEF Owed
<1> QED BY <1>1, <1>2, <1>3, <1>4, <1>5, <1>6, DoubtReads

LEMMA ScoreGeneratorStep ==
  ASSUME HunchesInv, NEW t \in Doubter, Hunches!ScoreGenerator(t)
  PROVE  HunchesInv'
<1> DEFINE x == [doubt[t] EXCEPT !.at = "judge", !.score = {}, !.tally = 0]
<1>1. doubt[t] \in Doubting /\ CaseFits(doubt[t]) /\ doubt[t].at = "score"
  BY HunchesGet DEF Hunches!ScoreGenerator
<1>2. PICK l \in doubt[t].score :
        hunches' = [hunches EXCEPT !.verdicts[GeneratorOf[l]] =
                      IF doubt[t].tally = MaxVerdicts THEN MaxVerdicts ELSE doubt[t].tally + 1]
  BY DEF Hunches!ScoreGenerator
<1> DEFINE n == IF doubt[t].tally = MaxVerdicts THEN MaxVerdicts ELSE doubt[t].tally + 1
           k == GeneratorOf[l]
<1>3. l \in Leap /\ doubt[t].score = {l} /\ k \in Hunches!Generator
  BY <1>1, <1>2, GeneratorIs DEF CaseFits
<1>4. n \in 0..MaxVerdicts
  BY <1>1, HunchesAssumption DEF Doubting
<1>5. /\ doubt' = [doubt EXCEPT ![t] = x] /\ saved' = hunches'
      /\ UNCHANGED <<held, alive, ends, crossed>>
  BY DEF Hunches!ScoreGenerator, Hunches!Moves
<1>6. hunches \in Book
  BY HunchesGet
<1>7. /\ hunches' \in Book /\ hunches'.row = hunches.row /\ hunches'.verdicts[k] = n
      /\ \A g \in Hunches!Generator \ {k} : hunches'.verdicts[g] = hunches.verdicts[g]
  <2>1. hunches' = [hunches EXCEPT !.verdicts[k] = n]
    BY <1>2
  <2> HIDE DEF n, k
  <2> QED BY <1>3, <1>4, <1>6, <2>1 DEF Book
<1>8. x \in Doubting /\ x.at = "judge" /\ x.score = {} /\ x.todo = doubt[t].todo
      /\ x.cases = doubt[t].cases
  <2>1. 0 \in 0..MaxVerdicts
    BY HunchesAssumption
  <2> QED BY <1>1, <2>1 DEF Doubting
<1>9. PICK z \in Doubting : z = x
  BY <1>8
<1>10. /\ doubt' = [doubt EXCEPT ![t] = z] /\ z.at = "judge" /\ z.score = {}
       /\ z.todo = doubt[t].todo /\ z.cases = doubt[t].cases
  BY <1>5, <1>8, <1>9
<1> HIDE DEF x
<1>11. CaseFits(z)
  BY <1>1, <1>10 DEF CaseFits
<1>12. ~ crossed' => \A u \in Doubter \ {t} : doubt[u].at = "idle"
  BY <1>1, <1>5, OthersIdle
<1>13. ~ crossed' => LoneFits(doubt[t]) /\ OneEach(hunches)
  BY <1>5, AloneGet
<1>14. ~ crossed' => LoneFits(z)' /\ OneEach(hunches')
  BY <1>1, <1>7, <1>10, <1>13 DEF LoneFits, OneEach, Stands
<1>15. ASSUME ~ crossed', NEW g \in Hunches!Generator
       PROVE  LET i == IF Owed(z, g) THEN 1 ELSE 0
              IN  /\ Counts(hunches', g, i)
                  /\ ends = 0 => hunches'.verdicts[g] + i = Cardinality(Hunches!Settled(hunches', g))
  <2>1. LET i == IF Owed(doubt[t], g) THEN 1 ELSE 0
        IN  /\ Counts(hunches, g, i)
            /\ ends = 0 => hunches.verdicts[g] + i = Cardinality(Hunches!Settled(hunches, g))
    BY <1>5, <1>12, <1>15, CountedGet
  <2>2. /\ hunches.verdicts[g] \in Nat /\ Cardinality(Hunches!Settled(hunches, g)) \in Nat
        /\ Cardinality(Hunches!Settled(hunches, g)) <= MaxVerdicts
    BY <1>6, BookGet, SettledFew
  <2>3. Hunches!Settled(hunches', g) = Hunches!Settled(hunches, g)
    BY <1>7 DEF Hunches!Settled
  <2>4. ~ Owed(z, g)
    BY <1>10 DEF Owed
  <2>5. CASE g = k
    <3>1. Owed(doubt[t], g)
      BY <1>1, <1>3, <2>5 DEF Owed
    <3>2. hunches.verdicts[g] + 1 <= Cardinality(Hunches!Settled(hunches, g))
          /\ (ends = 0 => hunches.verdicts[g] + 1 = Cardinality(Hunches!Settled(hunches, g)))
      BY <2>1, <3>1 DEF Counts
    <3>3. doubt[t].tally = hunches.verdicts[g]
      BY <1>1, <1>3, <1>13, <1>15, <2>5 DEF LoneFits
    <3>4. hunches'.verdicts[g] = hunches.verdicts[g] + 1
      BY <1>7, <2>2, <2>5, <3>2, <3>3, HunchesAssumption
    <3> QED BY <2>2, <2>3, <2>4, <3>2, <3>4 DEF Counts
  <2>6. CASE g # k
    <3>1. ~ Owed(doubt[t], g)
      BY <1>3, <2>6 DEF Owed
    <3>2. hunches'.verdicts[g] = hunches.verdicts[g]
      BY <1>7, <2>6
    <3> QED BY <2>1, <2>3, <2>4, <3>1, <3>2 DEF Counts
  <2> QED BY <2>5, <2>6
<1>16. held' \subseteq Claim /\ alive' = alive /\ saved' \in {saved, hunches'} /\ ends' = ends
       /\ crossed' \in BOOLEAN /\ (crossed => crossed')
  BY <1>5, HunchesGet
<1> QED BY <1>7, <1>10, <1>11, <1>12, <1>14, <1>15, <1>16, DoubtStep

(* A crash: the rows and the records go back to what was committed. *)
LEMMA HunchesCrash ==
  ASSUME HunchesInv, Hunches!Crash
  PROVE  HunchesInv'
<1>1. /\ hunches' = saved /\ saved' = saved /\ doubt' = [t \in Doubter |-> Hunches!Idle]
      /\ ends' = ends + 1 /\ UNCHANGED <<held, alive, crossed>>
  BY DEF Hunches!Crash
<1>2. \A t \in Doubter : doubt'[t] = Hunches!Idle
  BY <1>1
<1>3. HunchesTyped'
  BY <1>1, HunchesGet, IdleDoubt DEF HunchesTyped
<1>4. \A t \in Doubter : CaseFits(doubt[t])'
  BY <1>2, IdleDoubt DEF CaseFits
<1>5. ASSUME ~ crossed'
      PROVE  (/\ Lone /\ \A t \in Doubter : LoneFits(doubt[t])
              /\ OneEach(hunches) /\ OneEach(saved) /\ Counted)'
  <2>1. Lone' /\ \A t \in Doubter : LoneFits(doubt[t])'
    BY <1>2, IdleDoubt DEF Lone, LoneFits
  <2>2. OneEach(saved) /\ Counted
    BY <1>1, <1>5, AloneGet
  <2>3. OneEach(hunches)' /\ OneEach(saved)'
    BY <1>1, <2>2 DEF OneEach, Stands
  <2>4. \A g : Debt(g)' = 0
    BY <1>2, IdleDoubt DEF Debt, Owed
  <2>5. ends' # 0
    BY <1>1, HunchesGet
  <2>6. \A g \in Hunches!Generator : Counts(saved, g, 0)
    BY <2>2 DEF Counted
  <2>7. Counted'
    BY <1>1, <2>4, <2>5, <2>6 DEF Counted, Counts, Hunches!Settled
  <2> QED BY <2>1, <2>3, <2>7
<1> QED BY <1>3, <1>4, <1>5 DEF HunchesInv

(* What others do: claims come and go, and their commits commit all. *)
LEMMA HunchesWorld ==
  ASSUME HunchesInv, held' \subseteq Claim, alive' \subseteq Source, saved' \in {saved, hunches},
         UNCHANGED <<hunches, doubt, ends, crossed>>
  PROVE  HunchesInv'
<1>1. HunchesTyped'
  BY HunchesGet DEF HunchesTyped
<1>2. \A t \in Doubter : CaseFits(doubt[t])'
  BY HunchesGet DEF CaseFits
<1>3. ASSUME ~ crossed'
      PROVE  (/\ Lone /\ \A t \in Doubter : LoneFits(doubt[t])
              /\ OneEach(hunches) /\ OneEach(saved) /\ Counted)'
  <2>1. /\ Lone /\ \A t \in Doubter : LoneFits(doubt[t])
        /\ OneEach(hunches) /\ OneEach(saved) /\ Counted
    BY <1>3, AloneGet
  <2>2. Lone' /\ \A t \in Doubter : LoneFits(doubt[t])'
    BY <2>1 DEF Lone, LoneFits, Stands
  <2>3. OneEach(hunches)' /\ OneEach(saved)'
    <3>1. OneEach(hunches') /\ OneEach(saved')
      BY <2>1
    <3> QED BY <3>1 DEF OneEach, Stands
  <2>4. \A g : Debt(g)' = Debt(g)
    BY DEF Debt, Owed
  <2>5. \A g \in Hunches!Generator : Counts(hunches, g, 0) /\ Counts(saved, g, 0)
    <3>1. \A g \in Hunches!Generator : Debt(g) \in {0, 1} /\ hunches.verdicts[g] \in Nat
            /\ Cardinality(Hunches!Settled(hunches, g)) \in Nat
      BY HunchesGet, BookGet, SettledFew DEF Debt
    <3> QED BY <2>1, <3>1 DEF Counted, Counts
  <2>6. \A g \in Hunches!Generator : Counts(saved', g, 0)
    BY <2>5
  <2>7. Counted'
    BY <2>1, <2>4, <2>6 DEF Counted, Counts, Hunches!Settled
  <2> QED BY <2>2, <2>3, <2>7
<1> QED BY <1>1, <1>2, <1>3 DEF HunchesInv

LEMMA HunchesStart == Hunches!Init => HunchesInv
<1> SUFFICES ASSUME Hunches!Init PROVE HunchesInv
  OBVIOUS
<1>1. /\ held = {} /\ alive = Source /\ saved = hunches /\ ends = 0 /\ crossed = FALSE
      /\ hunches = [row |-> [l \in Leap |-> Hunches!NoRow], verdicts |-> [g \in Hunches!Generator |-> 0]]
      /\ doubt = [t \in Doubter |-> Hunches!Idle]
  BY DEF Hunches!Init
<1>2. Hunches!NoRow \in Case /\ Hunches!NoRow.status = "none"
  BY HunchesAssumption DEF Hunches!NoRow, Case, Hunches!Status
<1>3. hunches \in Book /\ (\A l \in Leap : hunches.row[l].status = "none")
      /\ \A g \in Hunches!Generator : hunches.verdicts[g] = 0
  <2>1. 0 \in 0..MaxVerdicts
    BY HunchesAssumption
  <2> QED BY <1>1, <1>2, <2>1 DEF Book
<1>4. \A t \in Doubter : doubt[t] = Hunches!Idle
  BY <1>1
<1>5. HunchesTyped /\ (\A t \in Doubter : CaseFits(doubt[t]) /\ LoneFits(doubt[t])) /\ Lone
  BY <1>1, <1>3, <1>4, IdleDoubt DEF HunchesTyped, Lone
<1>6. OneEach(hunches) /\ OneEach(saved)
  BY <1>1, <1>3 DEF OneEach, Stands
<1>7. Counted
  <2> SUFFICES ASSUME NEW g \in Hunches!Generator
               PROVE  /\ Counts(hunches, g, Debt(g)) /\ Counts(saved, g, 0)
                      /\ ends = 0 => hunches.verdicts[g] + Debt(g) = Cardinality(Hunches!Settled(hunches, g))
    BY DEF Counted
  <2>1. Debt(g) = 0
    BY <1>4, IdleDoubt DEF Debt
  <2>2. Hunches!Settled(hunches, g) = {}
    BY <1>3 DEF Hunches!Settled
  <2> QED BY <1>1, <1>3, <2>1, <2>2, FS_EmptySet DEF Counts
<1> QED BY <1>5, <1>6, <1>7 DEF HunchesInv

LEMMA HunchesStays ==
  HunchesInv /\ UNCHANGED guessing => HunchesInv'
<1> SUFFICES ASSUME HunchesInv, UNCHANGED guessing PROVE HunchesInv'
  OBVIOUS
<1>1. /\ UNCHANGED <<hunches, doubt, ends, crossed>> /\ saved' = saved
      /\ held' \subseteq Claim /\ alive' \subseteq Source
  BY HunchesGet DEF guessing
<1> QED BY <1>1, HunchesWorld

LEMMA HunchesStep ==
  HunchesInv /\ [Hunches!Next]_(Hunches!vars) => HunchesInv'
<1> SUFFICES ASSUME HunchesInv, [Hunches!Next]_(Hunches!vars) PROVE HunchesInv'
  OBVIOUS
<1>1. ASSUME UNCHANGED Hunches!vars PROVE HunchesInv'
  BY <1>1, HunchesStays DEF Hunches!vars, guessing
<1>2. ASSUME Hunches!World PROVE HunchesInv'
  <2>1. /\ held' \subseteq Claim /\ alive' \subseteq Source /\ saved' \in {saved, hunches}
        /\ UNCHANGED <<hunches, doubt, ends, crossed>>
    BY <1>2, HunchesGet DEF Hunches!World, Hunches!Hold, Hunches!Withdraw, Hunches!SourceDies,
                            Hunches!OtherCommit
  <2> QED BY <2>1, HunchesWorld
<1>3. ASSUME NEW t \in Doubter, Hunches!Proceed(t) PROVE HunchesInv'
  BY <1>3, SelectSpentStep, ReturnFullStep, CommitLeapStep, SelectCasesStep, ReadRecordStep,
     ScoreGeneratorStep, CommitVerdictsStep, RecordAnswerStep, InterrogateStep, InsertHunchStep,
     DeferStep, DecideStep DEF Hunches!Proceed
<1>4. ASSUME NEW t \in Doubter,
             \/ Hunches!BeginLeap(t)
             \/ Hunches!BeginInterrogation(t) \/ \E l \in Leap : Hunches!Answer(t, l)
      PROVE  HunchesInv'
  BY <1>4, BeginLeapStep, BeginInterrogationStep, AnswerStep
<1> QED BY <1>1, <1>2, <1>3, <1>4, HunchesCrash DEF Hunches!Next

(* What the run checks of the hunches. *)
LEMMA HunchesCardinality == \A S : Hunches!Cardinality(S) = Cardinality(S)
  BY Zenon DEF Hunches!Cardinality, Cardinality

LEMMA HunchesFits ==
  HunchesInv => Hunches!TypeOK /\ Hunches!ScoredOnce /\ Hunches!OneCaseFile
<1> SUFFICES ASSUME HunchesInv
             PROVE  Hunches!TypeOK /\ Hunches!ScoredOnce /\ Hunches!OneCaseFile
  OBVIOUS
<1>1. Hunches!TypeOK
  <2>1. \A d \in {hunches, saved} :
          /\ d.row \in [Leap -> [status : Hunches!Status, passes : 0..ASK_AFTER_PASSES]]
          /\ \A g \in Hunches!Generator : d.verdicts[g] \in 0..MaxVerdicts
    BY HunchesGet DEF Book, Case
  <2>2. ASSUME NEW t \in Doubter
        PROVE  /\ doubt[t].todo \subseteq Leap /\ doubt[t].claimed \subseteq Claim
               /\ doubt[t].made \in 0..MAX_NEW_HUNCHES
               /\ Hunches!Cardinality(doubt[t].score) =
                    IF doubt[t].at \in {"read", "score", "answer"} THEN 1 ELSE 0
    <3>1. doubt[t] \in Doubting /\ CaseFits(doubt[t])
      BY HunchesGet
    <3>2. Cardinality(doubt[t].score) = IF doubt[t].at \in {"read", "score", "answer"} THEN 1 ELSE 0
      BY <3>1, FS_EmptySet, FS_Singleton DEF CaseFits
    <3> QED BY <3>1, <3>2, HunchesCardinality DEF Doubting
  <2> QED BY <2>1, <2>2, HunchesGet DEF Hunches!TypeOK
<1>2. Hunches!ScoredOnce
  <2> SUFFICES ASSUME ~ crossed, NEW g \in Hunches!Generator
               PROVE  /\ hunches.verdicts[g] <= Cardinality(Hunches!Settled(hunches, g))
                      /\ ends = 0 => hunches.verdicts[g] + Cardinality(Hunches!InScore(g))
                                       = Cardinality(Hunches!Settled(hunches, g))
    BY HunchesCardinality DEF Hunches!ScoredOnce
  <2>1. Counted /\ Lone
    BY AloneGet
  <2>2. hunches.verdicts[g] \in Nat /\ Cardinality(Hunches!Settled(hunches, g)) \in Nat
    BY HunchesGet, BookGet, SettledFew
  <2>3. Cardinality(Hunches!InScore(g)) = Debt(g)
    <3>1. CASE \E t \in Doubter : Owed(doubt[t], g)
      <4>1. PICK t \in Doubter : Owed(doubt[t], g)
        BY <3>1
      <4>2. PICK l \in Leap : doubt[t].score = {l}
        BY <4>1, HunchesGet DEF Owed, CaseFits
      <4>3. GeneratorOf[l] = g /\ doubt[t].at \in {"read", "score"}
        BY <4>1, <4>2 DEF Owed
      <4>4. \A u \in Doubter \ {t} : doubt[u].at = "idle"
        BY <2>1, <4>3 DEF Lone
      <4>5. Hunches!InScore(g) = {l}
        BY <4>2, <4>3, <4>4 DEF Hunches!InScore
      <4> QED BY <3>1, <4>5, FS_Singleton DEF Debt
    <3>2. CASE ~ \E t \in Doubter : Owed(doubt[t], g)
      <4>1. Hunches!InScore(g) = {}
        BY <3>2 DEF Hunches!InScore, Owed
      <4> QED BY <3>2, <4>1, FS_EmptySet DEF Debt
    <3> QED BY <3>1, <3>2
  <2>4. Debt(g) \in {0, 1}
    BY DEF Debt
  <2> QED BY <2>1, <2>2, <2>3, <2>4 DEF Counted, Counts
<1>3. Hunches!OneCaseFile
  <2>1. ~ crossed => OneEach(hunches)
    BY AloneGet
  <2> QED BY <2>1 DEF Hunches!OneCaseFile, Hunches!Rows, OneEach, Stands
<1> QED BY <1>1, <1>2, <1>3

(* Hunches alone: one case file for a claim, whose verdict counts once. *)
THEOREM HunchesScoredOnce ==
  Hunches!Spec => [](Hunches!TypeOK /\ Hunches!ScoredOnce /\ Hunches!OneCaseFile)
<1>1. Hunches!Init => HunchesInv
  BY HunchesStart
<1>2. HunchesInv /\ [Hunches!Next]_(Hunches!vars) => HunchesInv'
  BY HunchesStep
<1>3. HunchesInv => Hunches!TypeOK /\ Hunches!ScoredOnce /\ Hunches!OneCaseFile
  BY HunchesFits
<1> QED BY <1>1, <1>2, <1>3, PTL DEF Hunches!Spec

(* CasesInOrder of the run: with the other judgments beside them. *)
THEOREM CasesStayInOrder == JudgmentsSpec => []CasesInOrder
<1> DEFINE Fits == scenario = "hunches" => HunchesInv
           moves == <<scenario, vars, judging, consolidating, guessing, pooling>>
<1>1. JudgmentsInit => Fits
  BY HunchesStart DEF JudgmentsInit
<1>2. Fits /\ [JudgmentsNext]_moves => Fits'
  <2> SUFFICES ASSUME Fits, [JudgmentsNext]_moves, scenario' = "hunches" PROVE HunchesInv'
    OBVIOUS
  <2>1. CASE UNCHANGED moves
    BY <2>1, HunchesStays
  <2>2. CASE HunchesMove
    BY <2>2, HunchesStep DEF HunchesMove
  <2>3. scenario' = scenario
    BY DEF JudgmentsNext, QueueMoves, MergesMove, PatternsMove, HunchesMove, CommonsMoves
  <2>4. ~ (QueueMoves \/ MergesMove \/ PatternsMove \/ CommonsMoves)
    BY <2>3 DEF QueueMoves, MergesMove, PatternsMove, CommonsMoves
  <2> QED BY <2>1, <2>2, <2>4 DEF JudgmentsNext
<1>3. Fits => CasesInOrder
  BY HunchesFits DEF CasesInOrder
<1> HIDE DEF Fits
<1> QED BY <1>1, <1>2, <1>3, PTL DEF JudgmentsSpec

------------------------------------------------------------------------------
(* The commons.  A promise to an install names an id that the collector has *)
(* a withdrawal of; a pool rests on banks of ids that are not withdrawn.    *)

Ids == 1..Len(minted)

Call == [at : {"idle", "name", "mint", "post", "pull", "read", "reply", "store", "ask", "wait", "answered"},
         why : {"export", "withdraw"}, id : 0..MaxIds, pats : SUBSET Pattern,
         gone : SUBSET (1..MaxIds), page : SUBSET Commons!Row, settled : SUBSET Install]

Message == [kind : {"post", "delete"}, id : 0..MaxIds, pats : SUBSET Pattern, by : Runner]

Sent == [id : 1..MaxIds, pats : SUBSET Pattern]

CommonsTyped ==
  /\ choice \in [Install -> {"none", "yes", "no"}] /\ named \in [Install -> 0..MaxIds]
  /\ bank \in [Install -> SUBSET Pattern] /\ pooled \in [Install -> SUBSET Commons!Row]
  /\ sharing \in [Runner -> Call] /\ net \in SUBSET Message
  /\ contributions \in Seq(Sent)
  /\ minted \in Seq(Install) /\ Len(minted) <= MaxIds
  /\ withdrawals \subseteq Ids /\ promised \subseteq Install /\ stored \subseteq Install

(* An install has withdrawn under one of its ids. *)
HasLeft(i, gone) == \E d \in gone : d \in Ids /\ minted[d] = i

(* A thread works under an id of its install; what it reads of an install   *)
(* that was promised to be left out is of another id.                       *)
CallFits(x, c) ==
  /\ c.id # 0 => c.id \in Ids /\ minted[c.id] = x[1]
  /\ c.at \in {"post", "ask", "wait", "answered"} => c.id # 0
  /\ c.at = "answered" => c.id \in withdrawals
  /\ c.at = "read" => \A i \in c.settled : HasLeft(i, c.gone)
  /\ \A r \in c.page : r.from \subseteq Ids
  /\ c.at \in {"reply", "store"} =>
       \A r \in c.page : \A d \in r.from : minted[d] \in c.settled =>
         \E e \in Ids \ {d} : minted[e] = minted[d]

NamesFit == \A i \in Install : named[i] # 0 => named[i] \in Ids /\ minted[named[i]] = i

NetFits == \A m \in net : m.id \in Ids /\ minted[m.id] = m.by[1]

SentFits == \A n \in DOMAIN contributions : contributions[n].id \in Ids

PromisesKept == \A i \in promised : HasLeft(i, withdrawals)

PoolsFit ==
  \A i \in Install : \A r \in pooled[i] :
    r.from \subseteq Ids /\ Commons!Sources(r) >= POOLED_MIN_SOURCES

Storing(x) == sharing[x].at = "store"

OnePageEach ==
  \A x \in Runner : Storing(x) /\ x[1] \notin stored =>
    /\ pooled[x[1]] = {}
    /\ \A y \in Runner : y[1] = x[1] /\ Storing(y) => y = x

CommonsInv ==
  /\ CommonsTyped
  /\ \A x \in Runner : CallFits(x, sharing[x])
  /\ NamesFit /\ NetFits /\ SentFits /\ PromisesKept /\ PoolsFit /\ OnePageEach

------------------------------------------------------------------------------
LEMMA CommonsGet ==
  ASSUME CommonsInv
  PROVE  /\ choice \in [Install -> {"none", "yes", "no"}] /\ named \in [Install -> 0..MaxIds]
         /\ bank \in [Install -> SUBSET Pattern] /\ pooled \in [Install -> SUBSET Commons!Row]
         /\ sharing \in [Runner -> Call] /\ net \in SUBSET Message
         /\ contributions \in Seq(Sent)
         /\ minted \in Seq(Install) /\ Len(minted) \in Nat /\ Len(minted) <= MaxIds
         /\ Ids \subseteq 1..MaxIds /\ DOMAIN minted = Ids
         /\ withdrawals \subseteq Ids /\ promised \subseteq Install /\ stored \subseteq Install
<1>1. CommonsTyped
  BY DEF CommonsInv
<1>2. minted \in Seq(Install)
  BY <1>1 DEF CommonsTyped
<1>3. Len(minted) \in Nat /\ DOMAIN minted = 1..Len(minted)
  BY <1>2, LenProperties
<1>4. MaxIds \in Nat /\ Len(minted) <= MaxIds
  BY <1>1, CommonsAssumption DEF CommonsTyped
<1>5. Ids \subseteq 1..MaxIds
  BY <1>3, <1>4 DEF Ids
<1> QED BY <1>1, <1>2, <1>3, <1>4, <1>5 DEF CommonsTyped, Ids

LEMMA SharingGet ==
  ASSUME CommonsInv, NEW x \in Runner
  PROVE  /\ sharing[x] \in Call /\ CallFits(x, sharing[x]) /\ x[1] \in Install
  BY CommonsGet, CommonsAssumption DEF CommonsInv

LEMMA QuietFits ==
  /\ Commons!Quiet \in Call /\ Commons!Quiet.at = "idle" /\ Commons!Quiet.id = 0
  /\ Commons!Quiet.page = {} /\ Commons!Quiet.pats = {}
  /\ \A x \in Runner : CallFits(x, Commons!Quiet)
<1>1. 0 \in 0..MaxIds
  BY CommonsAssumption
<1> QED BY <1>1 DEF Commons!Quiet, Call, CallFits

(* Ids are given out for good. *)
Grows ==
  /\ Len(minted) <= Len(minted') /\ \A d \in Ids : d \in Ids' /\ minted'[d] = minted[d]
  /\ withdrawals \subseteq withdrawals'

LEMMA GrowsStill ==
  ASSUME CommonsInv, UNCHANGED minted, withdrawals \subseteq withdrawals'
  PROVE  Grows /\ Ids' = Ids
  BY CommonsGet DEF Grows, Ids

LEMMA LeavesStay ==
  ASSUME Grows, NEW i, NEW S, NEW T, S \subseteq T, HasLeft(i, S)
  PROVE  HasLeft(i, T)'
  BY DEF HasLeft, Grows

LEMMA CallStays ==
  ASSUME Grows, CommonsInv, NEW x \in Runner, NEW c \in Call, CallFits(x, c)
  PROVE  CallFits(x, c)'
<1>1. c.id # 0 => c.id \in Ids' /\ minted'[c.id] = x[1]
  BY DEF CallFits, Grows
<1>2. c.at \in {"post", "ask", "wait", "answered"} => c.id # 0
  BY DEF CallFits
<1>3. c.at = "answered" => c.id \in withdrawals'
  BY DEF CallFits, Grows
<1>4. c.at = "read" => \A i \in c.settled : HasLeft(i, c.gone)'
  BY LeavesStay DEF CallFits
<1>5. \A r \in c.page : r.from \subseteq Ids'
  BY DEF CallFits, Grows
<1>6. ASSUME c.at \in {"reply", "store"}, NEW r \in c.page, NEW d \in r.from, minted'[d] \in c.settled
      PROVE  \E e \in Ids' \ {d} : minted'[e] = minted'[d]
  <2>1. d \in Ids /\ minted'[d] = minted[d]
    BY <1>6 DEF CallFits, Grows
  <2>2. PICK e \in Ids \ {d} : minted[e] = minted[d]
    BY <1>6, <2>1 DEF CallFits
  <2>3. e \in Ids' /\ minted'[e] = minted[e]
    BY <2>2 DEF Grows
  <2> QED BY <2>1, <2>2, <2>3
<1> QED BY <1>1, <1>2, <1>3, <1>4, <1>5, <1>6 DEF CallFits

LEMMA PoolsStay ==
  ASSUME Grows, CommonsInv, UNCHANGED pooled
  PROVE  PoolsFit'
<1>1. ASSUME NEW i \in Install, NEW r \in pooled[i]
      PROVE  r.from \subseteq Ids' /\ Commons!Sources(r) >= POOLED_MIN_SOURCES
  BY DEF CommonsInv, PoolsFit, Grows
<1> QED BY <1>1 DEF PoolsFit

LEMMA NamesStay ==
  ASSUME Grows, CommonsInv, UNCHANGED named
  PROVE  NamesFit'
  BY DEF CommonsInv, NamesFit, Grows

LEMMA NetStays ==
  ASSUME Grows, CommonsInv, NEW m \in net
  PROVE  m.id \in Ids' /\ minted'[m.id] = m.by[1]
  BY DEF CommonsInv, NetFits, Grows

LEMMA SentStays ==
  ASSUME Grows, CommonsInv, UNCHANGED contributions
  PROVE  SentFits'
  BY DEF CommonsInv, SentFits, Grows

(* A thread goes on, not to store a page. *)
LEMMA CallMoves ==
  ASSUME CommonsInv, NEW x \in Runner, NEW c \in Call,
         sharing' = [sharing EXCEPT ![x] = c]
  PROVE  /\ sharing' \in [Runner -> Call] /\ sharing'[x] = c
         /\ \A y \in Runner \ {x} : sharing'[y] = sharing[y]
  BY CommonsGet

LEMMA CallsFit ==
  ASSUME CommonsInv, Grows, NEW x \in Runner, NEW c \in Call,
         sharing' = [sharing EXCEPT ![x] = c], CallFits(x, c)'
  PROVE  \A y \in Runner : CallFits(y, sharing[y])'
<1>1. /\ sharing'[x] = c
      /\ \A y \in Runner \ {x} : sharing'[y] = sharing[y]
  BY CallMoves
<1>2. ASSUME NEW y \in Runner \ {x} PROVE CallFits(y, sharing[y])'
  <2>1. sharing[y] \in Call /\ CallFits(y, sharing[y]) /\ sharing'[y] = sharing[y]
    BY <1>1, SharingGet
  <2>2. PICK z \in Call : z = sharing[y]
    BY <2>1
  <2>3. CallFits(y, z)'
    BY <2>1, <2>2, CallStays
  <2> QED BY <2>1, <2>2, <2>3
<1>3. CallFits(x, sharing[x])'
  BY <1>1
<1> QED BY <1>2, <1>3

LEMMA PageStays ==
  ASSUME CommonsInv, NEW x \in Runner, NEW c \in Call,
         sharing' = [sharing EXCEPT ![x] = c], c.at # "store", UNCHANGED <<pooled, stored>>
  PROVE  OnePageEach'
<1>1. /\ sharing'[x] = c
      /\ \A y \in Runner \ {x} : sharing'[y] = sharing[y]
  BY CallMoves
<1>2. ASSUME NEW y \in Runner, Storing(y)', y[1] \notin stored
      PROVE  /\ pooled[y[1]] = {}
             /\ \A z \in Runner : z[1] = y[1] /\ Storing(z)' => z = y
  <2>1. \A z \in Runner : Storing(z)' => z # x /\ Storing(z)
    BY <1>1 DEF Storing
  <2> QED BY <1>2, <2>1 DEF CommonsInv, OnePageEach
<1> QED BY <1>2 DEF OnePageEach

(* What a thread does that leaves the pools alone. *)
LEMMA SharingStep ==
  ASSUME CommonsInv, NEW x \in Runner, NEW c \in Call,
         sharing' = [sharing EXCEPT ![x] = c], c.at # "store",
         UNCHANGED <<pooled, stored, bank, contributions, withdrawals>>,
         choice' \in [Install -> {"none", "yes", "no"}], named' \in [Install -> 0..MaxIds],
         net' \in SUBSET Message, minted' \in Seq(Install), Len(minted') <= MaxIds,
         promised' \subseteq Install,
         Grows, CallFits(x, c)', NamesFit', NetFits', PromisesKept'
  PROVE  CommonsInv'
<1>1. withdrawals' \subseteq Ids'
  BY CommonsGet DEF Grows
<1>2. CommonsTyped'
  BY <1>1, CommonsGet, CallMoves DEF CommonsTyped
<1>3. \A y \in Runner : CallFits(y, sharing[y])'
  BY CallsFit
<1>4. PoolsFit' /\ SentFits'
  BY PoolsStay, SentStays
<1>5. OnePageEach'
  BY PageStays
<1> QED BY <1>2, <1>3, <1>4, <1>5 DEF CommonsInv

(* A thread goes on and everything else stays. *)
LEMMA QuietStep ==
  ASSUME CommonsInv, NEW x \in Runner, NEW c \in Call,
         sharing' = [sharing EXCEPT ![x] = c], c.at # "store",
         UNCHANGED <<choice, named, bank, pooled, net, contributions, withdrawals,
                     minted, promised, stored>>,
         CallFits(x, c)
  PROVE  CommonsInv'
<1>1. Grows
  BY GrowsStill
<1>2. CallFits(x, c)'
  BY <1>1, CallStays
<1>3. NamesFit' /\ NetFits'
  BY <1>1, NamesStay, NetStays DEF NetFits
<1>4. PromisesKept'
  <2>1. ASSUME NEW i \in promised PROVE HasLeft(i, withdrawals)'
    <3>1. HasLeft(i, withdrawals)
      BY DEF CommonsInv, PromisesKept
    <3> QED BY <3>1 DEF HasLeft, Ids
  <2> QED BY <2>1 DEF PromisesKept
<1>5. /\ choice' \in [Install -> {"none", "yes", "no"}] /\ named' \in [Install -> 0..MaxIds]
      /\ net' \in SUBSET Message /\ minted' \in Seq(Install) /\ Len(minted') <= MaxIds
      /\ promised' \subseteq Install
  BY CommonsGet
<1> QED BY <1>1, <1>2, <1>3, <1>4, <1>5, SharingStep

LEMMA LearnStep ==
  ASSUME CommonsInv, NEW i \in Install, Commons!Learn(i)
  PROVE  CommonsInv'
<1>1. UNCHANGED <<choice, named, pooled, sharing, net, contributions, withdrawals, minted, promised, stored>>
  BY DEF Commons!Learn, Commons!collector, Commons!history
<1>2. bank' \in [Install -> SUBSET Pattern]
  BY CommonsGet DEF Commons!Learn
<1>3. CommonsTyped'
  BY <1>1, <1>2, CommonsGet DEF CommonsTyped, Ids
<1>4. Grows
  BY <1>1, GrowsStill
<1>5. \A y \in Runner : CallFits(y, sharing[y])'
  BY <1>1 DEF CommonsInv, CallFits, HasLeft, Ids
<1>6. NamesFit' /\ NetFits' /\ SentFits' /\ PoolsFit'
  BY <1>1, <1>4, NamesStay, NetStays, SentStays, PoolsStay DEF NetFits
<1>7. PromisesKept' /\ OnePageEach'
  BY <1>1 DEF CommonsInv, PromisesKept, HasLeft, Ids, OnePageEach, Storing
<1> QED BY <1>3, <1>5, <1>6, <1>7 DEF CommonsInv

LEMMA ExportStep ==
  ASSUME CommonsInv, NEW x \in Runner, Commons!Export(x)
  PROVE  CommonsInv'
<1> DEFINE c == [Commons!Quiet EXCEPT !.at = IF bank[x[1]] = {} THEN "pull" ELSE "name",
                                     !.pats = bank[x[1]]]
<1>1. bank[x[1]] \subseteq Pattern
  BY CommonsGet, SharingGet
<1>2. c \in Call /\ c.at \in {"pull", "name"} /\ CallFits(x, c)
  BY <1>1, QuietFits DEF Call, CallFits, Commons!Quiet
<1>3. sharing' = [sharing EXCEPT ![x] = c]
  BY DEF Commons!Export
<1>4. UNCHANGED <<choice, named, bank, pooled, net, contributions, withdrawals,
                  minted, promised, stored>>
  BY DEF Commons!Export, Commons!install, Commons!collector, Commons!history
<1> HIDE DEF c
<1> QED BY <1>2, <1>3, <1>4, QuietStep

LEMMA ReadIdStep ==
  ASSUME CommonsInv, NEW x \in Runner, Commons!ReadId(x)
  PROVE  CommonsInv'
<1> DEFINE c == [sharing[x] EXCEPT !.id = named[x[1]],
                                   !.at = IF named[x[1]] = 0 THEN "mint"
                                          ELSE Commons!Onwards(sharing[x].why)]
<1>1. sharing[x] \in Call /\ CallFits(x, sharing[x]) /\ x[1] \in Install
  BY SharingGet
<1>2. named[x[1]] \in 0..MaxIds /\ (named[x[1]] # 0 => named[x[1]] \in Ids /\ minted[named[x[1]]] = x[1])
  BY <1>1, CommonsGet DEF CommonsInv, NamesFit
<1>3. sharing[x].at = "name"
  BY DEF Commons!ReadId, Commons!At
<1>4. c \in Call /\ c.at \in {"mint", "post", "ask"}
  BY <1>1, <1>2 DEF Call, Commons!Onwards
<1>5. c.id = named[x[1]] /\ c.page = sharing[x].page
  BY <1>1 DEF Call
<1>6. c.at \in {"post", "ask"} => c.id # 0
  BY <1>1 DEF Call, Commons!Onwards
<1>7. sharing' = [sharing EXCEPT ![x] = c]
  BY <1>1, CommonsGet DEF Commons!ReadId, Call
<1>8. UNCHANGED <<choice, named, bank, pooled, net, contributions, withdrawals,
                  minted, promised, stored>>
  BY DEF Commons!ReadId, Commons!install, Commons!collector, Commons!history
<1> HIDE DEF c
<1>9. CallFits(x, c)
  BY <1>1, <1>2, <1>4, <1>5, <1>6 DEF CallFits
<1> QED BY <1>4, <1>7, <1>8, <1>9, QuietStep

LEMMA MintStep ==
  ASSUME CommonsInv, NEW x \in Runner, Commons!Mint(x)
  PROVE  CommonsInv'
<1> DEFINE v == Len(minted) + 1
           y == [sharing[x] EXCEPT !.id = v, !.at = Commons!Onwards(sharing[x].why)]
<1>1. sharing[x] \in Call /\ CallFits(x, sharing[x]) /\ x[1] \in Install
  BY SharingGet
<1>2. Len(minted) \in Nat /\ MaxIds \in Nat /\ Len(minted) < MaxIds /\ minted' = Append(minted, x[1])
  BY CommonsGet, CommonsAssumption DEF Commons!Mint
<1>3. /\ minted' \in Seq(Install) /\ Len(minted') = v /\ minted'[v] = x[1]
      /\ \A d \in 1..Len(minted) : minted'[d] = minted[d]
  BY <1>1, <1>2, CommonsGet, AppendProperties
<1>4. v \in 0..MaxIds /\ v # 0 /\ v \in Ids' /\ Len(minted) <= Len(minted')
      /\ Len(minted') <= MaxIds
  BY <1>2, <1>3 DEF Ids
<1>5. UNCHANGED <<choice, bank, pooled, net, contributions, withdrawals, promised, stored>>
  BY DEF Commons!Mint, Commons!collector
<1>6. Grows
  BY <1>2, <1>3, <1>5 DEF Grows, Ids
<1>7. y \in Call /\ y.at \in {"post", "ask"} /\ y.id = v /\ y.page = sharing[x].page
  BY <1>1, <1>4 DEF Call, Commons!Onwards
<1>8. PICK c \in Call : c = y
  BY <1>7
<1>9. c.at \in {"post", "ask"} /\ c.id = v /\ c.page = sharing[x].page
  BY <1>7, <1>8
<1>10. sharing' = [sharing EXCEPT ![x] = c]
  BY <1>1, <1>8, CommonsGet DEF Commons!Mint, Call
<1>11. named' = [named EXCEPT ![x[1]] = v]
  BY DEF Commons!Mint
<1>12. \A r \in c.page : r.from \subseteq Ids'
  BY <1>1, <1>6, <1>9 DEF CallFits, Grows
<1> HIDE DEF y, v
<1>13. CallFits(x, c)'
  BY <1>3, <1>4, <1>9, <1>12 DEF CallFits
<1>14. named' \in [Install -> 0..MaxIds]
  BY <1>4, <1>11, CommonsGet
<1>15. NamesFit'
  <2>1. ASSUME NEW i \in Install, named'[i] # 0 PROVE named'[i] \in Ids' /\ minted'[named'[i]] = i
    <3>1. CASE i = x[1]
      BY <1>3, <1>4, <1>11, <3>1, CommonsGet
    <3>2. CASE i # x[1]
      <4>1. named'[i] = named[i]
        BY <1>11, <3>2, CommonsGet
      <4> QED BY <1>6, <2>1, <4>1 DEF CommonsInv, NamesFit, Grows
    <3> QED BY <3>1, <3>2
  <2> QED BY <2>1 DEF NamesFit
<1>16. NetFits' /\ PromisesKept'
  <2>1. NetFits'
    BY <1>5, <1>6, NetStays DEF NetFits
  <2>2. \A i \in promised : HasLeft(i, withdrawals) => HasLeft(i, withdrawals)'
    BY <1>5, <1>6 DEF HasLeft, Grows
  <2> QED BY <1>5, <2>1, <2>2 DEF CommonsInv, PromisesKept
<1>17. /\ choice' \in [Install -> {"none", "yes", "no"}]
       /\ net' \in SUBSET Message /\ promised' \subseteq Install /\ c.at # "store"
  BY <1>5, <1>9, CommonsGet
<1> QED BY <1>3, <1>4, <1>5, <1>6, <1>9, <1>10, <1>13, <1>14, <1>15, <1>16, <1>17, SharingStep

LEMMA NothingLeaves ==
  ASSUME CommonsInv, UNCHANGED <<withdrawals, minted, promised>>
  PROVE  PromisesKept'
  BY DEF CommonsInv, PromisesKept, HasLeft, Ids

(* A thread sends what it has to say under its id. *)
LEMMA SendStep ==
  ASSUME CommonsInv, NEW x \in Runner, NEW c \in Call, NEW m \in Message,
         sharing' = [sharing EXCEPT ![x] = c], c.at # "store",
         net' = net \cup {m}, m.id = sharing[x].id, m.by = x, sharing[x].id # 0,
         UNCHANGED <<choice, named, bank, pooled, contributions, withdrawals,
                     minted, promised, stored>>,
         CallFits(x, c)
  PROVE  CommonsInv'
<1>1. Grows
  BY GrowsStill
<1>2. CallFits(x, c)'
  BY <1>1, CallStays
<1>3. m.id \in Ids /\ minted[m.id] = m.by[1]
  BY SharingGet DEF CallFits
<1>4. NetFits'
  <2>1. ASSUME NEW n \in net' PROVE n.id \in Ids' /\ minted'[n.id] = n.by[1]
    BY <1>1, <1>3, NetStays DEF Grows
  <2> QED BY <2>1 DEF NetFits
<1>5. NamesFit' /\ PromisesKept'
  BY <1>1, NamesStay, NothingLeaves
<1>6. /\ choice' \in [Install -> {"none", "yes", "no"}] /\ named' \in [Install -> 0..MaxIds]
      /\ net' \in SUBSET Message /\ minted' \in Seq(Install) /\ Len(minted') <= MaxIds
      /\ promised' \subseteq Install
  BY CommonsGet
<1> QED BY <1>1, <1>2, <1>4, <1>5, <1>6, SharingStep

LEMMA PostStep ==
  ASSUME CommonsInv, NEW x \in Runner, Commons!Post(x)
  PROVE  CommonsInv'
<1> DEFINE c == [Commons!Quiet EXCEPT !.at = "pull"]
           m == [kind |-> "post", id |-> sharing[x].id, pats |-> sharing[x].pats, by |-> x]
<1>1. sharing[x] \in Call /\ CallFits(x, sharing[x]) /\ sharing[x].at = "post"
  BY SharingGet DEF Commons!Post, Commons!At
<1>2. sharing[x].id # 0
  BY <1>1 DEF CallFits
<1>3. m \in Message /\ m.id = sharing[x].id /\ m.by = x
  BY <1>1 DEF Message, Call
<1>4. c \in Call /\ c.at = "pull" /\ CallFits(x, c)
  BY QuietFits DEF Call, CallFits, Commons!Quiet
<1>5. sharing' = [sharing EXCEPT ![x] = c] /\ net' = net \cup {m}
  BY DEF Commons!Post
<1>6. UNCHANGED <<choice, named, bank, pooled, contributions, withdrawals,
                  minted, promised, stored>>
  BY DEF Commons!Post, Commons!install, Commons!collector, Commons!history
<1> HIDE DEF c, m
<1>7. c.at # "store"
  BY <1>4
<1> QED BY <1>2, <1>3, <1>4, <1>5, <1>6, <1>7, SendStep

LEMMA AskCollectorStep ==
  ASSUME CommonsInv, NEW x \in Runner, Commons!Ask(x)
  PROVE  CommonsInv'
<1> DEFINE c == [sharing[x] EXCEPT !.at = "wait"]
           m == [kind |-> "delete", id |-> sharing[x].id, pats |-> {}, by |-> x]
<1>1. sharing[x] \in Call /\ CallFits(x, sharing[x]) /\ sharing[x].at = "ask"
  BY SharingGet DEF Commons!Ask, Commons!At
<1>2. sharing[x].id # 0
  BY <1>1 DEF CallFits
<1>3. m \in Message /\ m.id = sharing[x].id /\ m.by = x
  BY <1>1 DEF Message, Call
<1>4. c \in Call /\ c.at = "wait" /\ c.id = sharing[x].id /\ c.page = sharing[x].page
  BY <1>1 DEF Call
<1>5. sharing' = [sharing EXCEPT ![x] = c] /\ net' = net \cup {m}
  BY <1>1, CommonsGet DEF Commons!Ask, Call
<1>6. UNCHANGED <<choice, named, bank, pooled, contributions, withdrawals,
                  minted, promised, stored>>
  BY DEF Commons!Ask, Commons!install, Commons!collector, Commons!history
<1> HIDE DEF c, m
<1>7. CallFits(x, c) /\ c.at # "store"
  BY <1>1, <1>2, <1>4 DEF CallFits
<1> QED BY <1>2, <1>3, <1>4, <1>5, <1>6, <1>7, SendStep

LEMMA ReadGoneStep ==
  ASSUME CommonsInv, NEW x \in Runner, Commons!ReadGone(x)
  PROVE  CommonsInv'
<1> DEFINE c == [sharing[x] EXCEPT !.gone = withdrawals, !.settled = promised, !.at = "read"]
<1>1. sharing[x] \in Call /\ CallFits(x, sharing[x])
  BY SharingGet
<1>2. withdrawals \subseteq 1..MaxIds /\ promised \subseteq Install
  BY CommonsGet
<1>3. c \in Call /\ c.at = "read" /\ c.gone = withdrawals /\ c.settled = promised
      /\ c.id = sharing[x].id /\ c.page = sharing[x].page
  BY <1>1, <1>2 DEF Call
<1>4. sharing' = [sharing EXCEPT ![x] = c]
  BY <1>1, CommonsGet DEF Commons!ReadGone, Call
<1>5. UNCHANGED <<choice, named, bank, pooled, net, contributions, withdrawals,
                  minted, promised, stored>>
  BY DEF Commons!ReadGone, Commons!install, Commons!collector, Commons!history
<1> HIDE DEF c
<1>6. CallFits(x, c)
  BY <1>1, <1>3 DEF CallFits, CommonsInv, PromisesKept
<1> QED BY <1>3, <1>4, <1>5, <1>6, QuietStep

(* What a page says of a pattern comes from ids that had not left. *)
LEMMA PageIs ==
  ASSUME CommonsInv, NEW gone, NEW r \in Commons!Merged(Commons!LatestPerInstance(gone))
  PROVE  r \in Commons!Row /\ r.from \subseteq Ids \ gone
<1> DEFINE c == Commons!LatestPerInstance(gone)
<1>1. DOMAIN c = {contributions[n].id : n \in DOMAIN contributions} \ gone
  BY DEF Commons!LatestPerInstance
<1>2. {contributions[n].id : n \in DOMAIN contributions} \subseteq Ids
  BY DEF CommonsInv, SentFits
<1> HIDE DEF c
<1>3. PICK p \in Pattern : r = [pat |-> p, from |-> Commons!Backers(c, p)]
  BY DEF Commons!Merged, c
<1>4. Commons!Backers(c, p) \subseteq Ids \ gone
  BY <1>1, <1>2 DEF Commons!Backers
<1>5. Ids \subseteq 1..MaxIds
  BY CommonsGet
<1> QED BY <1>3, <1>4, <1>5 DEF Commons!Row

LEMMA ReadRowsStep ==
  ASSUME CommonsInv, NEW x \in Runner, Commons!ReadRows(x)
  PROVE  CommonsInv'
<1> DEFINE P == Commons!Merged(Commons!LatestPerInstance(sharing[x].gone))
           c == [sharing[x] EXCEPT !.page = P, !.gone = {}, !.at = "reply"]
<1>1. sharing[x] \in Call /\ CallFits(x, sharing[x]) /\ sharing[x].at = "read"
  BY SharingGet DEF Commons!ReadRows, Commons!At
<1>2. P \subseteq Commons!Row /\ \A r \in P : r.from \subseteq Ids \ sharing[x].gone
  BY PageIs
<1>3. sharing' = [sharing EXCEPT ![x] = c]
  BY <1>1, CommonsGet DEF Commons!ReadRows, Call
<1>4. UNCHANGED <<choice, named, bank, pooled, net, contributions, withdrawals,
                  minted, promised, stored>>
  BY DEF Commons!ReadRows, Commons!install, Commons!collector, Commons!history
<1> HIDE DEF P
<1>5. c \in Call /\ c.at = "reply" /\ c.page = P /\ c.settled = sharing[x].settled
      /\ c.id = sharing[x].id
  BY <1>1, <1>2 DEF Call
<1>6. ASSUME NEW r \in P, NEW d \in r.from, minted[d] \in sharing[x].settled
      PROVE  \E e \in Ids \ {d} : minted[e] = minted[d]
  <2>1. d \in Ids \ sharing[x].gone
    BY <1>2, <1>6
  <2>2. HasLeft(minted[d], sharing[x].gone)
    BY <1>1, <1>6 DEF CallFits
  <2>3. PICK e \in sharing[x].gone : e \in Ids /\ minted[e] = minted[d]
    BY <2>2 DEF HasLeft
  <2> QED BY <2>1, <2>3
<1> HIDE DEF c
<1>7. CallFits(x, c)
  BY <1>1, <1>2, <1>5, <1>6 DEF CallFits
<1> QED BY <1>3, <1>4, <1>5, <1>7, QuietStep

LEMMA ClearPoolStep ==
  ASSUME CommonsInv, NEW x \in Runner, Commons!Clear(x)
  PROVE  CommonsInv'
<1> DEFINE y == [sharing[x] EXCEPT !.at = "store"]
<1>1. sharing[x] \in Call /\ CallFits(x, sharing[x]) /\ sharing[x].at = "reply" /\ x[1] \in Install
  BY SharingGet DEF Commons!Clear, Commons!At
<1>2. PICK c \in Call : c = y
  BY <1>1 DEF Call
<1>3. /\ c.at = "store" /\ c.page = sharing[x].page /\ c.settled = sharing[x].settled
      /\ c.id = sharing[x].id
  BY <1>1, <1>2 DEF Call
<1>4. sharing' = [sharing EXCEPT ![x] = c]
  BY <1>1, <1>2, CommonsGet DEF Commons!Clear, Call
<1>5. UNCHANGED <<choice, named, bank, net, contributions, withdrawals, minted, promised>>
  BY DEF Commons!Clear, Commons!collector
<1>6. pooled' = [pooled EXCEPT ![x[1]] = {}]
  BY DEF Commons!Clear
<1>7. stored' = stored \cup {z[1] : z \in {u \in Runner : u # x /\ u[1] = x[1] /\ Storing(u)}}
  BY DEF Commons!Clear, Commons!At, Storing
<1> HIDE DEF y
<1>8. CallFits(x, c)
  BY <1>1, <1>3 DEF CallFits
<1>9. Grows /\ Ids' = Ids
  BY <1>5, GrowsStill
<1>10. CallFits(x, c)'
  BY <1>8, <1>9, CallStays
<1>11. \A u \in Runner : CallFits(u, sharing[u])'
  BY <1>4, <1>9, <1>10, CallsFit
<1>12. /\ sharing' \in [Runner -> Call] /\ sharing'[x] = c
       /\ \A u \in Runner \ {x} : sharing'[u] = sharing[u]
  BY <1>4, CallMoves
<1>13. /\ pooled' \in [Install -> SUBSET Commons!Row] /\ pooled'[x[1]] = {}
       /\ \A i \in Install \ {x[1]} : pooled'[i] = pooled[i]
  BY <1>1, <1>6, CommonsGet
<1>14. stored' \subseteq Install
  BY <1>7, CommonsGet, CommonsAssumption
<1>15. CommonsTyped'
  BY <1>5, <1>9, <1>12, <1>13, <1>14, CommonsGet DEF CommonsTyped
<1>16. NamesFit' /\ NetFits' /\ SentFits' /\ PromisesKept'
  BY <1>5, <1>9, NamesStay, NetStays, SentStays, NothingLeaves DEF NetFits
<1>17. PoolsFit'
  <2>1. ASSUME NEW i \in Install, NEW r \in pooled'[i]
        PROVE  r.from \subseteq Ids' /\ Commons!Sources(r) >= POOLED_MIN_SOURCES
    BY <1>9, <1>13, <2>1 DEF CommonsInv, PoolsFit
  <2> QED BY <2>1 DEF PoolsFit
<1>18. OnePageEach'
  <2>1. ASSUME NEW u \in Runner, Storing(u)', u[1] \notin stored'
        PROVE  /\ pooled'[u[1]] = {}
               /\ \A v \in Runner : v[1] = u[1] /\ Storing(v)' => v = u
    <3>1. \A v \in Runner \ {x} : Storing(v)' <=> Storing(v)
      BY <1>12 DEF Storing
    <3>2. u[1] \in Install /\ u[1] \notin stored
      BY <1>7, <2>1, CommonsAssumption
    <3>3. CASE u[1] = x[1]
      <4>1. \A v \in Runner \ {x} : v[1] = x[1] => ~ Storing(v)
        BY <1>7, <2>1, <3>3
      <4> QED BY <1>13, <2>1, <3>1, <3>3, <4>1
    <3>4. CASE u[1] # x[1]
      <4>1. Storing(u) /\ \A v \in Runner : v[1] = u[1] => v # x
        BY <2>1, <3>1, <3>4
      <4>2. pooled[u[1]] = {} /\ \A v \in Runner : v[1] = u[1] /\ Storing(v) => v = u
        BY <3>2, <4>1 DEF CommonsInv, OnePageEach
      <4> QED BY <1>13, <3>1, <3>2, <3>4, <4>1, <4>2
    <3> QED BY <3>3, <3>4
  <2> QED BY <2>1 DEF OnePageEach
<1> QED BY <1>11, <1>15, <1>16, <1>17, <1>18 DEF CommonsInv

LEMMA StorePooledStep ==
  ASSUME CommonsInv, NEW x \in Runner, Commons!StorePooled(x)
  PROVE  CommonsInv'
<1> DEFINE rows == Commons!AcceptPooled(sharing[x].page)
<1>1. sharing[x] \in Call /\ CallFits(x, sharing[x]) /\ Storing(x) /\ x[1] \in Install
  BY SharingGet DEF Commons!StorePooled, Commons!At, Storing
<1>2. PICK kept \in SUBSET rows : pooled' = [pooled EXCEPT ![x[1]] = @ \cup kept]
  BY DEF Commons!StorePooled
<1>3. \A r \in kept : r \in Commons!Row /\ r.from \subseteq Ids /\ Commons!Sources(r) >= POOLED_MIN_SOURCES
  BY <1>1, <1>2 DEF Commons!AcceptPooled, Call, CallFits
<1>4. sharing' = [sharing EXCEPT ![x] = Commons!Quiet]
  BY DEF Commons!StorePooled
<1>5. UNCHANGED <<choice, named, bank, net, contributions, withdrawals, minted, promised, stored>>
  BY DEF Commons!StorePooled, Commons!collector, Commons!history
<1> HIDE DEF rows
<1>6. Grows /\ Ids' = Ids
  BY <1>5, GrowsStill
<1>7. PICK c \in Call : c = Commons!Quiet
  BY QuietFits
<1>8. CallFits(x, c)'
  BY <1>6, <1>7, QuietFits, CallStays
<1>9. sharing' = [sharing EXCEPT ![x] = c] /\ c.at = "idle"
  BY <1>4, <1>7, QuietFits
<1>10. \A u \in Runner : CallFits(u, sharing[u])'
  BY <1>6, <1>8, <1>9, CallsFit
<1>11. /\ sharing' \in [Runner -> Call] /\ sharing'[x] = c
       /\ \A u \in Runner \ {x} : sharing'[u] = sharing[u]
  BY <1>9, CallMoves
<1>12. /\ pooled' \in [Install -> SUBSET Commons!Row] /\ pooled'[x[1]] = pooled[x[1]] \cup kept
       /\ \A i \in Install \ {x[1]} : pooled'[i] = pooled[i]
  BY <1>1, <1>2, <1>3, CommonsGet
<1>13. CommonsTyped'
  BY <1>5, <1>6, <1>11, <1>12, CommonsGet DEF CommonsTyped
<1>14. NamesFit' /\ NetFits' /\ SentFits' /\ PromisesKept'
  BY <1>5, <1>6, NamesStay, NetStays, SentStays, NothingLeaves DEF NetFits
<1>15. PoolsFit'
  <2>1. ASSUME NEW i \in Install, NEW r \in pooled'[i]
        PROVE  r.from \subseteq Ids' /\ Commons!Sources(r) >= POOLED_MIN_SOURCES
    <3>1. r \in pooled[i] \/ r \in kept
      BY <1>12, <2>1
    <3> QED BY <1>3, <1>6, <3>1 DEF CommonsInv, PoolsFit
  <2> QED BY <2>1 DEF PoolsFit
<1>16. OnePageEach'
  <2>1. ASSUME NEW u \in Runner, Storing(u)', u[1] \notin stored'
        PROVE  /\ pooled'[u[1]] = {}
               /\ \A v \in Runner : v[1] = u[1] /\ Storing(v)' => v = u
    <3>1. \A v \in Runner : Storing(v)' => v # x /\ Storing(v)
      BY <1>9, <1>11 DEF Storing
    <3>2. pooled[u[1]] = {} /\ \A v \in Runner : v[1] = u[1] /\ Storing(v) => v = u
      BY <1>5, <2>1, <3>1 DEF CommonsInv, OnePageEach
    <3>3. u[1] # x[1] /\ u[1] \in Install
      BY <1>1, <2>1, <3>1, <3>2, CommonsAssumption
    <3> QED BY <1>12, <3>1, <3>2, <3>3
  <2> QED BY <2>1 DEF OnePageEach
<1> QED BY <1>10, <1>13, <1>14, <1>15, <1>16 DEF CommonsInv

(* A thread is done. *)
LEMMA QuietedStep ==
  ASSUME CommonsInv, NEW x \in Runner, sharing' = [sharing EXCEPT ![x] = Commons!Quiet],
         UNCHANGED <<choice, named, bank, pooled, net, contributions, withdrawals,
                     minted, promised, stored>>
  PROVE  CommonsInv'
<1>1. PICK c \in Call : c = Commons!Quiet
  BY QuietFits
<1>2. c.at # "store" /\ CallFits(x, c)
  BY <1>1, QuietFits
<1>3. sharing' = [sharing EXCEPT ![x] = c]
  BY <1>1
<1> QED BY <1>2, <1>3, QuietStep

LEMMA PullNothingStep ==
  ASSUME CommonsInv, NEW x \in Runner, Commons!PullNothing(x) \/ Commons!Unanswered(x)
  PROVE  CommonsInv'
  BY QuietedStep DEF Commons!PullNothing, Commons!Unanswered, Commons!install, Commons!collector,
     Commons!history

LEMMA SayYesStep ==
  ASSUME CommonsInv, NEW x \in Runner, Commons!SayYes(x)
  PROVE  CommonsInv'
<1>1. UNCHANGED <<named, bank, pooled, sharing, net, contributions, withdrawals, minted, stored>>
  BY DEF Commons!SayYes, Commons!collector
<1>2. choice' \in [Install -> {"none", "yes", "no"}] /\ promised' \subseteq promised
  BY CommonsGet DEF Commons!SayYes
<1>3. Grows /\ Ids' = Ids
  BY <1>1, GrowsStill
<1>4. CommonsTyped'
  BY <1>1, <1>2, <1>3, CommonsGet DEF CommonsTyped
<1>5. \A y \in Runner : CallFits(y, sharing[y])'
  BY <1>1, <1>3 DEF CommonsInv, CallFits, HasLeft
<1>6. NamesFit' /\ NetFits' /\ SentFits' /\ PoolsFit'
  BY <1>1, <1>3, NamesStay, NetStays, SentStays, PoolsStay DEF NetFits
<1>7. PromisesKept' /\ OnePageEach'
  BY <1>1, <1>2, <1>3 DEF CommonsInv, PromisesKept, HasLeft, OnePageEach, Storing
<1> QED BY <1>4, <1>5, <1>6, <1>7 DEF CommonsInv

LEMMA SayNoStep ==
  ASSUME CommonsInv, NEW x \in Runner, Commons!SayNo(x)
  PROVE  CommonsInv'
<1> DEFINE y == [Commons!Quiet EXCEPT !.at = "name", !.why = "withdraw"]
<1>1. y \in Call /\ y.at = "name" /\ CallFits(x, y)
  BY QuietFits DEF Call, CallFits, Commons!Quiet
<1>2. PICK c \in Call : c = y
  BY <1>1
<1>3. sharing' = [sharing EXCEPT ![x] = c]
  BY <1>2 DEF Commons!SayNo
<1>4. UNCHANGED <<named, bank, pooled, net, contributions, withdrawals, minted, promised, stored>>
  BY DEF Commons!SayNo, Commons!collector, Commons!history
<1>5. choice' \in [Install -> {"none", "yes", "no"}]
  BY CommonsGet DEF Commons!SayNo
<1>6. c.at # "store" /\ CallFits(x, c)
  BY <1>1, <1>2
<1> HIDE DEF y
<1>7. Grows
  BY <1>4, GrowsStill
<1>8. CallFits(x, c)'
  BY <1>6, <1>7, CallStays
<1>9. NamesFit' /\ NetFits' /\ PromisesKept'
  BY <1>4, <1>7, NamesStay, NetStays, NothingLeaves DEF NetFits
<1>10. /\ named' \in [Install -> 0..MaxIds]
       /\ net' \in SUBSET Message /\ minted' \in Seq(Install) /\ Len(minted') <= MaxIds
       /\ promised' \subseteq Install
  BY <1>4, CommonsGet
<1> QED BY <1>3, <1>4, <1>5, <1>6, <1>7, <1>8, <1>9, <1>10, SharingStep

LEMMA AnsweredStep ==
  ASSUME CommonsInv, NEW x \in Runner, Commons!Answered(x)
  PROVE  CommonsInv'
<1>1. sharing[x] \in Call /\ CallFits(x, sharing[x]) /\ sharing[x].at = "answered" /\ x[1] \in Install
  BY SharingGet DEF Commons!Answered, Commons!At
<1>2. UNCHANGED <<choice, named, bank, pooled, net, contributions, withdrawals, minted, stored>>
  BY DEF Commons!Answered, Commons!install, Commons!collector
<1>3. promised' = promised \cup {x[1]}
  BY DEF Commons!Answered
<1>4. PICK c \in Call : c = Commons!Quiet
  BY QuietFits
<1>5. sharing' = [sharing EXCEPT ![x] = c] /\ c.at # "store" /\ CallFits(x, c)
  BY <1>4, QuietFits DEF Commons!Answered
<1>6. Grows /\ Ids' = Ids
  BY <1>2, GrowsStill
<1>7. CallFits(x, c)'
  BY <1>5, <1>6, CallStays
<1>8. NamesFit' /\ NetFits'
  BY <1>2, <1>6, NamesStay, NetStays DEF NetFits
<1>9. HasLeft(x[1], withdrawals)
  BY <1>1 DEF CallFits, HasLeft
<1>10. PromisesKept'
  <2>1. \A i \in promised' : HasLeft(i, withdrawals)
    BY <1>3, <1>9 DEF CommonsInv, PromisesKept
  <2> QED BY <1>2, <1>6, <2>1 DEF PromisesKept, HasLeft
<1>11. /\ choice' \in [Install -> {"none", "yes", "no"}] /\ named' \in [Install -> 0..MaxIds]
       /\ net' \in SUBSET Message /\ minted' \in Seq(Install) /\ Len(minted') <= MaxIds
       /\ promised' \subseteq Install
  BY <1>1, <1>2, <1>3, CommonsGet
<1> QED BY <1>2, <1>5, <1>6, <1>7, <1>8, <1>10, <1>11, SharingStep

LEMMA CollectorGets ==
  ASSUME CommonsInv, NEW m \in net
  PROVE  m \in Message /\ m.id \in Ids /\ m.id \in 1..MaxIds /\ minted[m.id] = m.by[1]
  BY CommonsGet DEF CommonsInv, NetFits

LEMMA StoreContributionStep ==
  ASSUME CommonsInv, NEW m \in net, Commons!Store(m)
  PROVE  CommonsInv'
<1> DEFINE s == [id |-> m.id, pats |-> m.pats]
<1>1. m \in Message /\ m.id \in Ids /\ m.id \in 1..MaxIds
  BY CollectorGets
<1>2. s \in Sent /\ s.id \in Ids
  BY <1>1 DEF Sent, Message
<1>3. UNCHANGED <<choice, named, bank, pooled, sharing, withdrawals, minted, promised, stored>>
  BY DEF Commons!Store, Commons!install, Commons!history
<1>4. contributions' = Append(contributions, s) /\ net' \subseteq net
  BY DEF Commons!Store
<1> HIDE DEF s
<1>5. /\ contributions' \in Seq(Sent)
      /\ DOMAIN contributions' = 1..(Len(contributions) + 1)
      /\ contributions'[Len(contributions) + 1] = s
      /\ \A n \in 1..Len(contributions) : contributions'[n] = contributions[n]
      /\ Len(contributions) \in Nat /\ DOMAIN contributions = 1..Len(contributions)
  BY <1>2, <1>4, CommonsGet, AppendProperties, LenProperties
<1>6. Grows /\ Ids' = Ids
  BY <1>3, GrowsStill
<1>7. CommonsTyped'
  BY <1>3, <1>4, <1>5, <1>6, CommonsGet DEF CommonsTyped
<1>8. SentFits'
  <2>1. ASSUME NEW n \in DOMAIN contributions' PROVE contributions'[n].id \in Ids
    <3>1. CASE n = Len(contributions) + 1
      BY <1>2, <1>5, <3>1
    <3>2. CASE n # Len(contributions) + 1
      <4>1. n \in 1..Len(contributions)
        BY <1>5, <2>1, <3>2
      <4> QED BY <1>5, <4>1 DEF CommonsInv, SentFits
    <3> QED BY <3>1, <3>2
  <2> QED BY <1>6, <2>1 DEF SentFits
<1>9. \A y \in Runner : CallFits(y, sharing[y])'
  BY <1>3, <1>6 DEF CommonsInv, CallFits, HasLeft
<1>10. NamesFit' /\ NetFits' /\ PoolsFit' /\ PromisesKept'
  BY <1>3, <1>4, <1>6, NamesStay, NetStays, PoolsStay, NothingLeaves DEF NetFits
<1>11. OnePageEach'
  BY <1>3 DEF CommonsInv, OnePageEach, Storing
<1> QED BY <1>7, <1>8, <1>9, <1>10, <1>11 DEF CommonsInv

LEMMA WithdrawIdStep ==
  ASSUME CommonsInv, NEW m \in net, Commons!Withdraw(m)
  PROVE  CommonsInv'
<1> DEFINE x == m.by
<1>1. m \in Message /\ m.id \in Ids /\ x \in Runner
  BY CollectorGets DEF Message
<1>2. UNCHANGED <<choice, named, bank, pooled, contributions, minted, promised, stored>>
  BY DEF Commons!Withdraw, Commons!install, Commons!history
<1>3. withdrawals' = withdrawals \cup {m.id} /\ net' \subseteq net /\ sharing' = Commons!Reply(m)
  BY DEF Commons!Withdraw
<1>4. Grows /\ Ids' = Ids
  BY <1>2, <1>3, GrowsStill
<1>5. PICK c \in Call :
         /\ sharing' = [sharing EXCEPT ![x] = c]
         /\ c.at = "store" <=> sharing[x].at = "store"
         /\ CallFits(x, c)'
  <2>1. sharing[x] \in Call /\ CallFits(x, sharing[x])
    BY <1>1, SharingGet
  <2>2. CASE sharing[x].at = "wait" /\ sharing[x].id = m.id
    <3> DEFINE y == [sharing[x] EXCEPT !.at = "answered"]
    <3>1. y \in Call
      BY <2>1 DEF Call
    <3>2. PICK c \in Call : c = y
      BY <3>1
    <3>3. c.at = "answered" /\ c.id = m.id /\ c.page = sharing[x].page
      BY <2>1, <2>2, <3>2 DEF Call
    <3>4. sharing' = [sharing EXCEPT ![x] = c]
      BY <1>1, <1>3, <2>1, <2>2, <3>2, CommonsGet DEF Commons!Reply, Commons!At, Call
    <3> HIDE DEF y
    <3>5. m.id # 0 /\ minted[m.id] = x[1]
      BY CollectorGets
    <3>6. \A r \in c.page : r.from \subseteq Ids
      BY <2>1, <3>3 DEF CallFits
    <3>7. CallFits(x, c)'
      BY <1>1, <1>2, <1>3, <1>4, <3>3, <3>5, <3>6 DEF CallFits
    <3> QED BY <2>2, <3>3, <3>4, <3>7
  <2>3. CASE ~ (sharing[x].at = "wait" /\ sharing[x].id = m.id)
    <3>1. PICK c \in Call : c = sharing[x]
      BY <2>1
    <3>2. sharing' = sharing
      BY <1>3, <2>3 DEF Commons!Reply, Commons!At
    <3>3. sharing' = [sharing EXCEPT ![x] = c]
      BY <1>1, <3>1, <3>2, CommonsGet
    <3>4. CallFits(x, c)'
      BY <1>1, <1>4, <2>1, <3>1, CallStays
    <3> QED BY <3>1, <3>3, <3>4
  <2> QED BY <2>2, <2>3
<1> HIDE DEF x
<1>6. \A y \in Runner : CallFits(y, sharing[y])'
  BY <1>1, <1>4, <1>5, CallsFit
<1>7. /\ sharing' \in [Runner -> Call] /\ sharing'[x] = c
      /\ \A u \in Runner \ {x} : sharing'[u] = sharing[u]
  BY <1>1, <1>5, CallMoves
<1>8. CommonsTyped'
  BY <1>1, <1>2, <1>3, <1>4, <1>7, CommonsGet DEF CommonsTyped
<1>9. NamesFit' /\ NetFits' /\ SentFits' /\ PoolsFit'
  BY <1>2, <1>3, <1>4, NamesStay, NetStays, SentStays, PoolsStay DEF NetFits
<1>10. PromisesKept'
  BY <1>2, <1>3, <1>4 DEF CommonsInv, PromisesKept, HasLeft
<1>11. \A y \in Runner : Storing(y)' <=> Storing(y)
  BY <1>5, <1>7 DEF Storing
<1>12. OnePageEach'
  BY <1>2, <1>11 DEF CommonsInv, OnePageEach
<1> QED BY <1>6, <1>8, <1>9, <1>10, <1>12 DEF CommonsInv

------------------------------------------------------------------------------
LEMMA CommonsStart == Commons!Init => CommonsInv
<1> SUFFICES ASSUME Commons!Init PROVE CommonsInv
  OBVIOUS
<1>1. /\ choice = [i \in Install |-> "none"] /\ named = [i \in Install |-> 0]
      /\ bank = Banked /\ pooled = [i \in Install |-> {}]
      /\ sharing = [x \in Runner |-> Commons!Quiet]
      /\ net = {} /\ contributions = <<>> /\ withdrawals = {} /\ minted = <<>>
      /\ promised = {} /\ stored = {}
  BY DEF Commons!Init
<1>2. minted \in Seq(Install) /\ Len(minted) = 0 /\ contributions \in Seq(Sent) /\ DOMAIN contributions = {}
  BY <1>1, EmptySeq, LenProperties
<1>3. CommonsTyped
  BY <1>1, <1>2, QuietFits, CommonsAssumption DEF CommonsTyped
<1>4. \A x \in Runner : CallFits(x, sharing[x]) /\ sharing[x].at = "idle"
  BY <1>1, QuietFits
<1>5. NamesFit /\ NetFits /\ SentFits /\ PromisesKept /\ PoolsFit
  BY <1>1, <1>2 DEF NamesFit, NetFits, SentFits, PromisesKept, PoolsFit
<1>6. OnePageEach
  BY <1>4 DEF OnePageEach, Storing
<1> QED BY <1>3, <1>4, <1>5, <1>6 DEF CommonsInv

LEMMA CommonsStays ==
  ASSUME CommonsInv, UNCHANGED Commons!vars
  PROVE  CommonsInv'
<1>1. UNCHANGED <<choice, named, bank, pooled, sharing, net, contributions, withdrawals, minted,
                  promised, stored>>
  BY DEF Commons!vars
<1>2. CommonsTyped' /\ (\A x \in Runner : CallFits(x, sharing[x]))'
  BY <1>1 DEF CommonsInv, CommonsTyped, CallFits, HasLeft, Ids
<1>3. NamesFit' /\ NetFits' /\ SentFits' /\ PromisesKept'
  BY <1>1 DEF CommonsInv, NamesFit, NetFits, SentFits, PromisesKept, HasLeft, Ids
<1>4. PoolsFit' /\ OnePageEach'
  BY <1>1 DEF CommonsInv, PoolsFit, OnePageEach, Storing, Ids
<1> QED BY <1>2, <1>3, <1>4 DEF CommonsInv

LEMMA CommonsStep == CommonsInv /\ [Commons!Next]_(Commons!vars) => CommonsInv'
<1> SUFFICES ASSUME CommonsInv, [Commons!Next]_(Commons!vars) PROVE CommonsInv'
  OBVIOUS
<1>1. ASSUME NEW i \in Install, Commons!Learn(i) PROVE CommonsInv'
  BY <1>1, LearnStep
<1>2. ASSUME NEW x \in Runner,
             \/ Commons!Export(x) \/ Commons!ReadId(x) \/ Commons!Mint(x) \/ Commons!Post(x)
      PROVE  CommonsInv'
  BY <1>2, ExportStep, ReadIdStep, MintStep, PostStep
<1>3. ASSUME NEW x \in Runner,
             \/ Commons!ReadGone(x) \/ Commons!ReadRows(x) \/ Commons!Clear(x)
             \/ Commons!StorePooled(x) \/ Commons!PullNothing(x) \/ Commons!Unanswered(x)
      PROVE  CommonsInv'
  BY <1>3, ReadGoneStep, ReadRowsStep, ClearPoolStep, StorePooledStep, PullNothingStep
<1>4. ASSUME NEW x \in Runner,
             \/ Commons!SayYes(x) \/ Commons!SayNo(x) \/ Commons!Ask(x) \/ Commons!Answered(x)
      PROVE  CommonsInv'
  BY <1>4, SayYesStep, SayNoStep, AskCollectorStep, AnsweredStep
<1>5. ASSUME NEW m \in net, Commons!Store(m) \/ Commons!Withdraw(m) PROVE CommonsInv'
  BY <1>5, StoreContributionStep, WithdrawIdStep
<1>6. CASE UNCHANGED Commons!vars
  BY <1>6, CommonsStays
<1> QED BY <1>1, <1>2, <1>3, <1>4, <1>5, <1>6 DEF Commons!Next

------------------------------------------------------------------------------
LEMMA CommonsCounts == \A S : Commons!Cardinality(S) = Cardinality(S)
  BY Zenon DEF Commons!Cardinality, Cardinality

LEMMA IdsAreFew ==
  ASSUME CommonsInv, NEW S \in SUBSET Ids
  PROVE  IsFiniteSet(S) /\ Cardinality(S) \in Nat
<1>1. IsFiniteSet(Ids)
  BY CommonsGet, FS_Interval DEF Ids
<1>2. IsFiniteSet(S)
  BY <1>1, FS_Subset
<1> QED BY <1>2, FS_CardinalityType

LEMMA TwiceIs ==
  ASSUME CommonsInv, NEW d \in Ids, NEW e \in Ids, d # e, minted[d] = minted[e]
  PROVE  minted[d] \in Commons!Twice
<1> DEFINE S == {n \in DOMAIN minted : minted[n] = minted[d]}
<1>1. S \in SUBSET Ids /\ {d, e} \subseteq S
  BY CommonsGet
<1>2. IsFiniteSet(S) /\ Cardinality(S) \in Nat
  BY <1>1, IdsAreFew
<1>3. Cardinality({d, e}) = 2
  <2>1. IsFiniteSet({d}) /\ Cardinality({d}) = 1 /\ e \notin {d}
    BY FS_Singleton
  <2>2. Cardinality({d} \cup {e}) = 2
    BY <2>1, FS_AddElement
  <2>3. {d, e} = {d} \cup {e}
    OBVIOUS
  <2> QED BY <2>2, <2>3
<1> HIDE DEF S
<1>4. Cardinality({d, e}) <= Cardinality(S)
  BY <1>1, <1>2, FS_Subset
<1>5. Commons!Cardinality(S) > 1
  BY <1>2, <1>3, <1>4, CommonsCounts
<1>6. minted[d] \in Install
  BY CommonsGet
<1> QED BY <1>5, <1>6 DEF Commons!Twice, S

LEMMA CommonsFits == CommonsInv => Commons!CommonsHold
<1> SUFFICES ASSUME CommonsInv PROVE Commons!CommonsHold
  OBVIOUS
<1>1. Commons!TypeOK
  <2>1. \A x \in Runner : sharing[x].id \in 0..MaxIds /\ sharing[x].pats \subseteq Pattern
    BY SharingGet DEF Call
  <2>2. \A n \in DOMAIN contributions : contributions[n].id \in 1..MaxIds
    BY CommonsGet DEF CommonsInv, SentFits
  <2>3. withdrawals \subseteq 1..MaxIds
    BY CommonsGet
  <2> QED BY <2>1, <2>2, <2>3, CommonsGet DEF Commons!TypeOK
<1>2. Commons!WithdrawnIsGone
  <2>1. ASSUME NEW x \in Runner, sharing[x].at \in {"reply", "store"},
               NEW r \in sharing[x].page, NEW d \in r.from, minted[d] \in sharing[x].settled
        PROVE  minted[d] \in Commons!Twice
    <3>1. CallFits(x, sharing[x])
      BY SharingGet
    <3>2. d \in Ids /\ \E e \in Ids \ {d} : minted[e] = minted[d]
      BY <2>1, <3>1 DEF CallFits
    <3> QED BY <3>2, TwiceIs
  <2> QED BY <2>1 DEF Commons!WithdrawnIsGone
<1>3. Commons!NobodyAlone
  <2>1. ASSUME NEW i \in Install, NEW r \in pooled[i],
               {minted[d] : d \in r.from} \cap Commons!Twice = {}
        PROVE  Commons!Cardinality({minted[d] : d \in r.from})
                 + (IF r.pat \in Own THEN 1 ELSE 0) >= POOLED_MIN_SOURCES
    <3> DEFINE S == r.from
               T == {minted[d] : d \in S}
               f == [d \in S |-> minted[d]]
    <3>1. S \subseteq Ids /\ Commons!Sources(r) >= POOLED_MIN_SOURCES
      BY <2>1 DEF CommonsInv, PoolsFit
    <3>2. IsFiniteSet(S) /\ Cardinality(S) \in Nat
      BY <3>1, IdsAreFew
    <3>3. \A d \in S, e \in S : f[d] = f[e] => d = e
      BY <2>1, <3>1, TwiceIs
    <3>4. f \in [S -> T] /\ \A q \in T : \E d \in S : f[d] = q
      OBVIOUS
    <3> HIDE DEF f
    <3>5. f \in Bijection(S, T)
      BY <3>3, <3>4 DEF Bijection, Injection, Surjection, IsInjective
    <3>6. ExistsBijection(S, T)
      BY <3>5 DEF ExistsBijection
    <3>7. Cardinality(T) = Cardinality(S)
      BY <3>2, <3>6, FS_Bijection
    <3>8. Commons!Cardinality(S) + (IF r.pat \in Own THEN 1 ELSE 0) >= POOLED_MIN_SOURCES
      BY <3>1 DEF Commons!Sources
    <3> HIDE DEF S, T
    <3>9. Commons!Cardinality(T) = Commons!Cardinality(S)
      BY <3>7, CommonsCounts
    <3> QED BY <3>8, <3>9 DEF T, S
  <2> QED BY <2>1 DEF Commons!NobodyAlone
<1>4. Commons!OnePage
  BY DEF CommonsInv, OnePageEach, Storing, Commons!OnePage, Commons!At
<1> QED BY <1>1, <1>2, <1>3, <1>4 DEF Commons!CommonsHold

(* A no is a no, the page is of several populations, and it is one page. *)
THEOREM CommonsPromises ==
  Commons!Spec => []Commons!CommonsHold
<1> QED BY CommonsStart, CommonsStep, CommonsFits, PTL DEF Commons!Spec

(* CommonsHold of the run: with the other judgments beside them. *)
THEOREM CommonsAlwaysHold == JudgmentsSpec => []CommonsHold
<1> DEFINE Fits == scenario = "commons" => CommonsInv
           moves == <<scenario, vars, judging, consolidating, guessing, pooling>>
<1>1. JudgmentsInit => Fits
  BY CommonsStart DEF JudgmentsInit
<1>2. Fits /\ [JudgmentsNext]_moves => Fits'
  <2> SUFFICES ASSUME Fits, [JudgmentsNext]_moves, scenario' = "commons" PROVE CommonsInv'
    OBVIOUS
  <2>1. CASE UNCHANGED moves
    BY <2>1, CommonsStays DEF pooling, Commons!vars
  <2>2. CASE CommonsMoves
    BY <2>2, CommonsStep DEF CommonsMoves
  <2>3. scenario' = scenario
    BY DEF JudgmentsNext, QueueMoves, MergesMove, PatternsMove, HunchesMove, CommonsMoves
  <2>4. ~ (QueueMoves \/ MergesMove \/ PatternsMove \/ HunchesMove)
    BY <2>3 DEF QueueMoves, MergesMove, PatternsMove, HunchesMove
  <2> QED BY <2>1, <2>2, <2>4 DEF JudgmentsNext
<1>3. Fits => CommonsHold
  BY CommonsFits DEF CommonsHold
<1> HIDE DEF Fits
<1> QED BY <1>1, <1>2, <1>3, PTL DEF JudgmentsSpec
==============================================================================
