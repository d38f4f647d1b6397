------------------------------ MODULE OpLogProofs ------------------------------
(***************************************************************************)
(* Proofs about OpLog, for any number of handlers, ids and operations.     *)
(*                                                                         *)
(* Two invariants carry them.  Steady holds whatever overlaps: the engine  *)
(* has no loose ends, every row of the log is in force, a request has done *)
(* what its remaining steps say, and a replay that succeeds brings back an *)
(* engine of the same kind.  Sequential holds while requests do not        *)
(* overlap: the log replays, without a refusal, into exactly the engine    *)
(* the request in progress started from.                                   *)
(*                                                                         *)
(* Replay is a recursive function; OperationsProofs says what it does with *)
(* one row more.                                                           *)
(***************************************************************************)
EXTENDS OpLog, OperationsProofs

------------------------------------------------------------------------------
(* The steps left of an operation. *)

Left(kind) ==
  CASE kind = "assert" ->
         {<<"tick", "admit", "store", "log">>, <<"admit", "store", "log">>,
          <<"store", "log">>, <<"log">>, <<>>}
    [] kind = "derive" ->
         {<<"link", "bind", "log">>, <<"bind", "log">>, <<"log">>, <<>>}
    [] kind = "supersede" ->
         {<<"tick", "targets", "admit", "store", "link", "bind", "close", "log">>,
          <<"targets", "admit", "store", "link", "bind", "close", "log">>,
          <<"admit", "store", "link", "bind", "close", "log">>,
          <<"store", "link", "bind", "close", "log">>, <<"link", "bind", "close", "log">>,
          <<"bind", "close", "log">>, <<"close", "log">>, <<"log">>, <<>>}
    [] kind = "retract" ->
         {<<"tick", "exists", "targets", "admit", "store", "link", "bind", "close", "log">>,
          <<"exists", "targets", "admit", "store", "link", "bind", "close", "log">>,
          <<"targets", "admit", "store", "link", "bind", "close", "log">>,
          <<"admit", "store", "link", "bind", "close", "log">>,
          <<"store", "link", "bind", "close", "log">>, <<"link", "bind", "close", "log">>,
          <<"bind", "close", "log">>, <<"close", "log">>, <<"log">>, <<>>}

Revision == {"supersede", "retract"}
Route == {"assert", "derive"} \cup Revision

(* How many steps may be left. *)
LEMMA LeftLen ==
  ASSUME NEW k \in Route, NEW t \in Left(k)
  PROVE  Len(t) \in 0..9 /\ (t = <<>> <=> Len(t) = 0)
BY DEF Route, Revision, Left

(* Taking a step leaves one step less, and no step but the first is the tick. *)
LEMMA LeftTail ==
  ASSUME NEW k \in Route, NEW t \in Left(k), t # <<>>
  PROVE  /\ Tail(t) \in Left(k) /\ Len(Tail(t)) = Len(t) - 1
         /\ Tail(t) # <<>> => Head(Tail(t)) # "tick"
<1>1. CASE k = "assert"
  <2>1. CASE t = <<"tick", "admit", "store", "log">>
    BY <1>1, <2>1 DEF Left
  <2>2. CASE t = <<"admit", "store", "log">>
    BY <1>1, <2>2 DEF Left
  <2>3. CASE t = <<"store", "log">>
    BY <1>1, <2>3 DEF Left
  <2>4. CASE t = <<"log">>
    BY <1>1, <2>4 DEF Left
  <2> QED BY <1>1, <2>1, <2>2, <2>3, <2>4 DEF Left
<1>2. CASE k = "derive"
  <2>1. CASE t = <<"link", "bind", "log">>
    BY <1>2, <2>1 DEF Left
  <2>2. CASE t = <<"bind", "log">>
    BY <1>2, <2>2 DEF Left
  <2>3. CASE t = <<"log">>
    BY <1>2, <2>3 DEF Left
  <2> QED BY <1>2, <2>1, <2>2, <2>3 DEF Left
<1>3. CASE k = "supersede"
  <2>1. CASE t = <<"tick", "targets", "admit", "store", "link",
                      "bind", "close", "log">>
    BY <1>3, <2>1 DEF Left
  <2>2. CASE t = <<"targets", "admit", "store", "link", "bind", "close", "log">>
    BY <1>3, <2>2 DEF Left
  <2>3. CASE t = <<"admit", "store", "link", "bind", "close", "log">>
    BY <1>3, <2>3 DEF Left
  <2>4. CASE t = <<"store", "link", "bind", "close", "log">>
    BY <1>3, <2>4 DEF Left
  <2>5. CASE t = <<"link", "bind", "close", "log">>
    BY <1>3, <2>5 DEF Left
  <2>6. CASE t = <<"bind", "close", "log">>
    BY <1>3, <2>6 DEF Left
  <2>7. CASE t = <<"close", "log">>
    BY <1>3, <2>7 DEF Left
  <2>8. CASE t = <<"log">>
    BY <1>3, <2>8 DEF Left
  <2> QED BY <1>3, <2>1, <2>2, <2>3, <2>4, <2>5, <2>6, <2>7, <2>8 DEF Left
<1>4. CASE k = "retract"
  <2>1. CASE t = <<"tick", "exists", "targets", "admit", "store", "link",
                      "bind", "close", "log">>
    BY <1>4, <2>1 DEF Left
  <2>2. CASE t = <<"exists", "targets", "admit", "store", "link",
                      "bind", "close", "log">>
    BY <1>4, <2>2 DEF Left
  <2>3. CASE t = <<"targets", "admit", "store", "link", "bind", "close", "log">>
    BY <1>4, <2>3 DEF Left
  <2>4. CASE t = <<"admit", "store", "link", "bind", "close", "log">>
    BY <1>4, <2>4 DEF Left
  <2>5. CASE t = <<"store", "link", "bind", "close", "log">>
    BY <1>4, <2>5 DEF Left
  <2>6. CASE t = <<"link", "bind", "close", "log">>
    BY <1>4, <2>6 DEF Left
  <2>7. CASE t = <<"bind", "close", "log">>
    BY <1>4, <2>7 DEF Left
  <2>8. CASE t = <<"close", "log">>
    BY <1>4, <2>8 DEF Left
  <2>9. CASE t = <<"log">>
    BY <1>4, <2>9 DEF Left
  <2> QED BY <1>4, <2>1, <2>2, <2>3, <2>4, <2>5, <2>6, <2>7, <2>8, <2>9 DEF Left
<1> QED BY <1>1, <1>2, <1>3, <1>4 DEF Route, Revision

(* The next step says how many are left, and of which kinds of operation. *)
LEMMA LeftHead ==
  ASSUME NEW k \in Route, NEW t \in Left(k), t # <<>>
  PROVE  /\ Head(t) = "tick" =>
              /\ k # "derive"
              /\ Len(t) = CASE k = "assert" -> 4 [] k = "supersede" -> 8 [] OTHER -> 9
         /\ Head(t) = "exists" => k = "retract" /\ Len(t) = 8
         /\ Head(t) = "targets" => k \in Revision /\ Len(t) = 7
         /\ Head(t) = "admit" => k # "derive" /\ Len(t) = IF k = "assert" THEN 3 ELSE 6
         /\ Head(t) = "store" => k # "derive" /\ Len(t) = IF k = "assert" THEN 2 ELSE 5
         /\ Head(t) = "link" => k # "assert" /\ Len(t) = IF k = "derive" THEN 3 ELSE 4
         /\ Head(t) = "bind" => k # "assert" /\ Len(t) = IF k = "derive" THEN 2 ELSE 3
         /\ Head(t) = "close" => k \in Revision /\ Len(t) = 2
         /\ Head(t) = "log" => Len(t) = 1
<1>1. CASE k = "assert"
  BY <1>1 DEF Left
<1>2. CASE k = "derive"
  BY <1>2 DEF Left
<1>3. CASE k = "supersede"
  BY <1>3 DEF Left, Revision
<1>4. CASE k = "retract"
  BY <1>4 DEF Left, Revision
<1> QED BY <1>1, <1>2, <1>3, <1>4 DEF Route, Revision

Ph == {"tick", "exists", "targets", "admit", "store", "link", "bind", "close", "log"}
Opening(k) ==
  (IF k = "derive" THEN <<>> ELSE <<"tick">>)
    \o (IF k = "retract" THEN <<"exists">> ELSE <<>>) \o Phases(k)

(* One element put before a sequence. *)
LEMMA Prefix ==
  ASSUME NEW x \in Ph, NEW s \in Seq(Ph), NEW t \in Seq(Ph),
         Len(t) = Len(s) + 1, t[1] = x, \A i \in 1..Len(s) : t[i + 1] = s[i]
  PROVE  <<x>> \o s = t
<1>1. <<x>> \in Seq(Ph) /\ Len(<<x>>) = 1 /\ <<x>>[1] = x
  OBVIOUS
<1>2. Len(s) \in Nat
  BY LenProperties
<1>3. /\ <<x>> \o s \in Seq(Ph) /\ Len(<<x>> \o s) = 1 + Len(s)
      /\ \A i \in 1..(1 + Len(s)) : (<<x>> \o s)[i] = IF i <= 1 THEN <<x>>[1] ELSE s[i - 1]
  <2>1. /\ <<x>> \o s \in Seq(Ph) /\ Len(<<x>> \o s) = Len(<<x>>) + Len(s)
        /\ \A i \in 1..(Len(<<x>>) + Len(s)) :
             (<<x>> \o s)[i] = IF i <= Len(<<x>>) THEN <<x>>[i] ELSE s[i - Len(<<x>>)]
    BY <1>1, ConcatProperties
  <2> QED BY <1>1, <1>2, <2>1
<1>4. \A i \in 1..Len(<<x>> \o s) : (<<x>> \o s)[i] = t[i]
  <2> TAKE i \in 1..Len(<<x>> \o s)
  <2>1. CASE i = 1
    BY <1>1, <1>2, <1>3, <2>1
  <2>2. CASE i # 1
    <3>1. i - 1 \in 1..Len(s) /\ (i - 1) + 1 = i
      BY <1>2, <1>3, <2>2
    <3>2. t[i] = s[i - 1]
      BY <3>1
    <3> QED BY <1>2, <1>3, <2>2, <3>2
  <2> QED BY <2>1, <2>2
<1> HIDE <1>1
<1> QED BY <1>2, <1>3, <1>4, SeqEqual

(* The steps a request starts with: the tick, the existence check, the phases. *)
LEMMA OpeningLeft ==
  ASSUME NEW k \in Route
  PROVE  /\ Opening(k) \in Left(k) /\ Opening(k) # <<>>
         /\ Len(Opening(k)) = CASE k = "assert" -> 4 [] k = "derive" -> 3
                                [] k = "supersede" -> 8 [] OTHER -> 9
         /\ k # "derive" => Head(Opening(k)) = "tick"
<1>0. \A s \in Seq(Ph) : <<>> \o s = s /\ s \o <<>> = s
  BY ConcatEmptySeq
<1>1. CASE k = "assert"
  <2>1. <<"tick">> \o <<"admit", "store", "log">>
          = <<"tick", "admit", "store", "log">>
    <3> DEFINE s == <<"admit", "store", "log">>
               t == <<"tick", "admit", "store", "log">>
    <3>1. /\ "tick" \in Ph /\ s \in Seq(Ph) /\ t \in Seq(Ph) /\ Len(t) = Len(s) + 1
          /\ t[1] = "tick" /\ \A i \in 1..Len(s) : t[i + 1] = s[i]
      BY DEF Ph
    <3> HIDE DEF s, t
    <3>2. <<"tick">> \o s = t
      BY <3>1, Prefix
    <3> QED BY <3>2 DEF s, t
  <2>2. Opening(k) = <<"tick", "admit", "store", "log">>
    BY <1>0, <1>1, <2>1 DEF Opening, Phases, Ph
  <2> QED BY <1>1, <2>2 DEF Left
<1>2. CASE k = "derive"
  <2>1. Opening(k) = <<"link", "bind", "log">>
    BY <1>0, <1>2 DEF Opening, Phases, Ph
  <2> QED BY <1>2, <2>1 DEF Left
<1>3. CASE k = "supersede"
  <2>1. <<"tick">> \o <<"targets", "admit", "store", "link", "bind", "close", "log">>
          = <<"tick", "targets", "admit", "store", "link", "bind", "close", "log">>
    <3> DEFINE s == <<"targets", "admit", "store", "link", "bind", "close", "log">>
               t == <<"tick", "targets", "admit", "store", "link", "bind", "close", "log">>
    <3>1. /\ "tick" \in Ph /\ s \in Seq(Ph) /\ t \in Seq(Ph) /\ Len(t) = Len(s) + 1
          /\ t[1] = "tick" /\ \A i \in 1..Len(s) : t[i + 1] = s[i]
      BY DEF Ph
    <3> HIDE DEF s, t
    <3>2. <<"tick">> \o s = t
      BY <3>1, Prefix
    <3> QED BY <3>2 DEF s, t
  <2>2. Opening(k) = <<"tick", "targets", "admit", "store", "link", "bind", "close", "log">>
    BY <1>0, <1>3, <2>1 DEF Opening, Phases, Ph
  <2> QED BY <1>3, <2>2 DEF Left
<1>4. CASE k = "retract"
  <2>1. <<"exists">> \o <<"targets", "admit", "store", "link", "bind", "close", "log">>
          = <<"exists", "targets", "admit", "store", "link", "bind", "close", "log">>
    <3> DEFINE s == <<"targets", "admit", "store", "link", "bind", "close", "log">>
               t == <<"exists", "targets", "admit", "store", "link", "bind", "close", "log">>
    <3>1. /\ "exists" \in Ph /\ s \in Seq(Ph) /\ t \in Seq(Ph) /\ Len(t) = Len(s) + 1
          /\ t[1] = "exists" /\ \A i \in 1..Len(s) : t[i + 1] = s[i]
      BY DEF Ph
    <3> HIDE DEF s, t
    <3>2. <<"exists">> \o s = t
      BY <3>1, Prefix
    <3> QED BY <3>2 DEF s, t
  <2>2. <<"tick">> \o <<"exists", "targets", "admit", "store", "link", "bind", "close", "log">>
          = <<"tick", "exists", "targets", "admit", "store", "link", "bind", "close", "log">>
    <3> DEFINE s == <<"exists", "targets", "admit", "store", "link", "bind", "close", "log">>
               t == <<"tick", "exists", "targets", "admit", "store", "link", "bind", "close", "log">>
    <3>1. /\ "tick" \in Ph /\ s \in Seq(Ph) /\ t \in Seq(Ph) /\ Len(t) = Len(s) + 1
          /\ t[1] = "tick" /\ \A i \in 1..Len(s) : t[i + 1] = s[i]
      BY DEF Ph
    <3> HIDE DEF s, t
    <3>2. <<"tick">> \o s = t
      BY <3>1, Prefix
    <3> QED BY <3>2 DEF s, t
  <2>3. Opening(k) = <<"tick">> \o (<<"exists">> \o
                       <<"targets", "admit", "store", "link", "bind", "close", "log">>)
    <3>1. /\ <<"tick">> \in Seq(Ph) /\ <<"exists">> \in Seq(Ph)
          /\ <<"targets", "admit", "store", "link", "bind", "close", "log">> \in Seq(Ph)
      BY DEF Ph
    <3> QED BY <1>4, <3>1, ConcatAssociative DEF Opening, Phases
  <2> QED BY <1>4, <2>1, <2>2, <2>3 DEF Left
<1> QED BY <1>1, <1>2, <1>3, <1>4 DEF Route, Revision

------------------------------------------------------------------------------
(* Engines without loose ends, and what an operation makes of one. *)

Linked(e, l) ==
  /\ l.consequent \in DOMAIN e.assertions
  /\ \A x \in l.antecedents : Known(e, x)

Admissible(e, c) == c.agent \in DOMAIN e.agents /\ c.subjects \subseteq e.entities

(* An engine without loose ends. *)
Whole(e) ==
  /\ e = [entities |-> e.entities, events |-> e.events, agents |-> e.agents,
          assertions |-> e.assertions, derivations |-> e.derivations,
          close |-> e.close, corefs |-> e.corefs, contra |-> e.contra]
  /\ DOMAIN e.assertions \subseteq AssertionId
  /\ \A a \in DOMAIN e.assertions : Admissible(e, e.assertions[a])
  /\ \A d \in DOMAIN e.derivations : Linked(e, e.derivations[d])
  /\ DOMAIN e.close \subseteq DOMAIN e.assertions
  /\ e.close \in [DOMAIN e.close -> Nat]

(* Nothing is ever removed. *)
Grows(e, f) ==
  /\ e.entities \subseteq f.entities /\ e.events \subseteq f.events
  /\ DOMAIN e.agents \subseteq DOMAIN f.agents
  /\ DOMAIN e.assertions \subseteq DOMAIN f.assertions
  /\ DOMAIN e.derivations \subseteq DOMAIN f.derivations
  /\ DOMAIN e.close \subseteq DOMAIN f.close

(* What an operation of which n steps are left has done in the engine e. *)
Done(e, op, n) ==
  CASE op.kind = "assert" -> /\ n <= 2 => Admissible(e, op.claim)
                             /\ n <= 1 => op.id \in DOMAIN e.assertions
    [] op.kind = "derive" -> /\ n <= 2 => Linked(e, LinkOf(op))
                             /\ n <= 1 => op.did \in DOMAIN e.derivations
    [] OTHER -> /\ n <= 6 => RangeOf(op.olds) \subseteq DOMAIN e.assertions
                /\ n <= 5 => Admissible(e, op.claim)
                /\ n <= 4 => op.id \in DOMAIN e.assertions
                /\ n <= 2 => op.did \in DOMAIN e.derivations
                /\ n <= 1 => RangeOf(op.olds) \subseteq DOMAIN e.close

Effective(e, op) == op.kind \in Route => Done(e, op, 0)

(* An engine grows into itself. *)
LEMMA GrowsItself == \A e : Grows(e, e)
BY DEF Grows

(* Growth is transitive. *)
LEMMA GrowsOn ==
  ASSUME NEW e, NEW f, NEW g, Grows(e, f), Grows(f, g)
  PROVE  Grows(e, g)
BY DEF Grows

(* What is on record stays on record. *)
LEMMA StaysLinked ==
  ASSUME NEW e, NEW f, Grows(e, f)
  PROVE  /\ \A x : Known(e, x) => Known(f, x)
         /\ \A l : Linked(e, l) => Linked(f, l)
         /\ \A c : Admissible(e, c) => Admissible(f, c)
BY DEF Grows, Known, Linked, Admissible

(* What an operation has done stays done. *)
LEMMA StaysDone ==
  ASSUME NEW e, NEW f, Grows(e, f), NEW op, NEW n, Done(e, op, n)
  PROVE  Done(f, op, n)
<1>1. /\ \A l : Linked(e, l) => Linked(f, l)
      /\ \A c : Admissible(e, c) => Admissible(f, c)
  BY StaysLinked
<1>2. /\ DOMAIN e.assertions \subseteq DOMAIN f.assertions
      /\ DOMAIN e.derivations \subseteq DOMAIN f.derivations
      /\ DOMAIN e.close \subseteq DOMAIN f.close
  BY DEF Grows
<1>3. CASE op.kind = "assert"
  BY <1>1, <1>2, <1>3 DEF Done
<1>4. CASE op.kind = "derive"
  BY <1>1, <1>2, <1>4 DEF Done
<1>5. CASE op.kind \notin {"assert", "derive"}
  BY <1>1, <1>2, <1>5 DEF Done
<1> QED BY <1>3, <1>4, <1>5

(* A row in force stays in force. *)
LEMMA StaysEffective ==
  ASSUME NEW e, NEW f, Grows(e, f), NEW op, Effective(e, op)
  PROVE  Effective(f, op)
BY StaysDone DEF Effective

(* The claim of an operation, and its link, on record. *)
Stored(b, op) ==
  WithNegation(Result(WithAssertion(b, op.id, op.claim), "ACCEPTED"), op.claim.prop).eng
Bound(e, op) == WithDerivation(e, op.did, LinkOf(op))
Ended(e, op) == CloseAll(e, op.olds, op.claim.time).eng

(* The engine with a claim, field by field. *)
LEMMA StoredFields ==
  ASSUME NEW e, Whole(e), NEW op
  PROVE  LET f == Stored(e, op)
         IN  /\ f = [entities |-> e.entities, events |-> e.events, agents |-> e.agents,
                     assertions |-> Put(e.assertions, op.id, op.claim),
                     derivations |-> e.derivations,
                     close |-> e.close, corefs |-> e.corefs,
                     contra |-> IF op.claim.prop \in Prop
                                THEN e.contra \cup {{op.claim.prop, Neg[op.claim.prop]}}
                                ELSE e.contra]
<1> DEFINE E == [entities |-> e.entities, events |-> e.events, agents |-> e.agents,
                 assertions |-> e.assertions, derivations |-> e.derivations,
                 close |-> e.close, corefs |-> e.corefs, contra |-> e.contra]
<1>1. e = E
  BY DEF Whole
<1>2. WithAssertion(E, op.id, op.claim) =
         [entities |-> e.entities, events |-> e.events, agents |-> e.agents,
          assertions |-> Put(e.assertions, op.id, op.claim), derivations |-> e.derivations,
          close |-> e.close, corefs |-> e.corefs, contra |-> e.contra]
  BY DEF WithAssertion
<1>3. Stored(E, op) =
        LET w == WithAssertion(E, op.id, op.claim)
        IN  IF op.claim.prop \in Prop
            THEN [w EXCEPT !.contra = @ \cup {{op.claim.prop, Neg[op.claim.prop]}}] ELSE w
  BY DEF Stored, WithNegation, Result
<1>4. QED
  BY <1>1, <1>2, <1>3

(* Recording an admissible claim leaves no loose end. *)
LEMMA StoredWhole ==
  ASSUME NEW e, Whole(e), NEW op, op.id \in AssertionId, Admissible(e, op.claim)
  PROVE  LET f == Stored(e, op)
         IN  Whole(f) /\ Grows(e, f) /\ op.id \in DOMAIN f.assertions
<1> DEFINE f == Stored(e, op)
<1>1. /\ f = [entities |-> f.entities, events |-> f.events, agents |-> f.agents,
              assertions |-> f.assertions, derivations |-> f.derivations,
              close |-> f.close, corefs |-> f.corefs, contra |-> f.contra]
      /\ f.entities = e.entities /\ f.events = e.events /\ f.agents = e.agents
      /\ f.assertions = Put(e.assertions, op.id, op.claim)
      /\ f.derivations = e.derivations /\ f.close = e.close
  BY StoredFields
<1> HIDE DEF f
<1>2. /\ DOMAIN f.assertions = DOMAIN e.assertions \cup {op.id}
      /\ \A a \in DOMAIN f.assertions :
            f.assertions[a] = IF a = op.id THEN op.claim ELSE e.assertions[a]
  BY <1>1 DEF Put
<1>3. Grows(e, f)
  BY <1>1, <1>2 DEF Grows
<1>4. \A a \in DOMAIN f.assertions : Admissible(f, f.assertions[a])
  BY <1>2, <1>3, StaysLinked DEF Whole
<1>5. \A d \in DOMAIN f.derivations : Linked(f, f.derivations[d])
  BY <1>1, <1>3, StaysLinked DEF Whole
<1>6. Whole(f)
  BY <1>1, <1>2, <1>4, <1>5 DEF Whole
<1> QED BY <1>2, <1>3, <1>6 DEF f

(* Recording a link between ids on record leaves no loose end. *)
LEMMA BoundWhole ==
  ASSUME NEW e, Whole(e), NEW op, Linked(e, LinkOf(op))
  PROVE  LET f == Bound(e, op)
         IN  Whole(f) /\ Grows(e, f) /\ op.did \in DOMAIN f.derivations
<1> DEFINE f == Bound(e, op)
           l == LinkOf(op)
<1> HIDE DEF l
<1>1. /\ f = [entities |-> e.entities, events |-> e.events, agents |-> e.agents,
              assertions |-> e.assertions, derivations |-> Put(e.derivations, op.did, l),
              close |-> e.close, corefs |-> e.corefs, contra |-> e.contra]
  BY DEF Bound, WithDerivation, Whole, l
<1> HIDE DEF f
<1>2. /\ DOMAIN f.derivations = DOMAIN e.derivations \cup {op.did}
      /\ \A d \in DOMAIN f.derivations :
            f.derivations[d] = IF d = op.did THEN l ELSE e.derivations[d]
  BY <1>1 DEF Put
<1>3. Grows(e, f)
  BY <1>1, <1>2 DEF Grows
<1>4. \A a \in DOMAIN f.assertions : Admissible(f, f.assertions[a])
  BY <1>1, <1>3, StaysLinked DEF Whole
<1>5. \A d \in DOMAIN f.derivations : Linked(f, f.derivations[d])
  BY <1>1, <1>2, <1>3, StaysLinked DEF Whole, l
<1>6. Whole(f)
  <2>1. f = [entities |-> f.entities, events |-> f.events, agents |-> f.agents,
             assertions |-> f.assertions, derivations |-> f.derivations,
             close |-> f.close, corefs |-> f.corefs, contra |-> f.contra]
    BY <1>1
  <2> QED BY <1>1, <1>4, <1>5, <2>1 DEF Whole
<1> QED BY <1>2, <1>3, <1>6 DEF f

(* A list of one target. *)
LEMMA OneTarget ==
  ASSUME NEW o
  PROVE  /\ RangeOf(<<o>>) = {o} /\ ClosedByLoop(<<o>>) = {o} /\ <<o>>[1] = o /\ <<o>> # <<>>
         /\ \A j, k \in DOMAIN <<o>> : j # k => <<o>>[j] # <<o>>[k]
<1>1. DOMAIN <<o>> = {1}
  OBVIOUS
<1>2. {n \in {1} : \A j, k \in 1..n : j # k => <<o>>[j] # <<o>>[k]} = {1}
  OBVIOUS
<1> QED BY <1>1, <1>2 DEF RangeOf, ClosedByLoop

(* Closing a recorded claim leaves no loose end. *)
LEMMA EndedWhole ==
  ASSUME NEW e, Whole(e), NEW op, NEW o, op.olds = <<o>>, o \in DOMAIN e.assertions,
         op.claim.time \in Nat
  PROVE  LET f == Ended(e, op)
         IN  Whole(f) /\ Grows(e, f) /\ RangeOf(op.olds) \subseteq DOMAIN f.close
<1> DEFINE f == Ended(e, op)
           t == op.claim.time
<1>1. f = WithCloses(e, {o}, t)
  BY OneTarget DEF Ended, CloseAll, Result
<1>2. /\ f = [entities |-> e.entities, events |-> e.events, agents |-> e.agents,
              assertions |-> e.assertions, derivations |-> e.derivations,
              close |-> PutAll(e.close, {o}, t), corefs |-> e.corefs, contra |-> e.contra]
  BY <1>1 DEF WithCloses, Whole
<1> HIDE DEF f
<1>3. /\ DOMAIN f.close = DOMAIN e.close \cup {o}
      /\ f.close \in [DOMAIN f.close -> Nat]
  BY <1>2 DEF PutAll, Whole
<1>4. Grows(e, f)
  BY <1>2, <1>3 DEF Grows
<1>5. \A a \in DOMAIN f.assertions : Admissible(f, f.assertions[a])
  BY <1>2, <1>4, StaysLinked DEF Whole
<1>6. \A d \in DOMAIN f.derivations : Linked(f, f.derivations[d])
  BY <1>2, <1>4, StaysLinked DEF Whole
<1>7. Whole(f)
  <2>1. f = [entities |-> f.entities, events |-> f.events, agents |-> f.agents,
             assertions |-> f.assertions, derivations |-> f.derivations,
             close |-> f.close, corefs |-> f.corefs, contra |-> f.contra]
    BY <1>2
  <2> QED BY <1>2, <1>3, <1>5, <1>6, <2>1 DEF Whole
<1> QED BY <1>3, <1>4, <1>7, OneTarget DEF f

(* An operation as the handlers build it. *)
Asked(op) ==
  /\ op.kind \in Route
  /\ op.kind # "derive" =>
       /\ op.id \in AssertionId
       /\ op.claim.time \in Nat
       /\ op.claim = [agent |-> op.claim.agent, subjects |-> op.claim.subjects,
                      prop |-> op.claim.prop, time |-> op.claim.time]
  /\ op.kind \in Revision => op.did # op.id /\ \E o \in AssertionId : op.olds = <<o>>
  /\ op.kind = "retract" => op.claim.prop = RETRACTED

(* The checks of apply_op, and the engine it makes of b when they pass. *)
Passes(b, op) ==
  CASE op.kind = "assert" -> AssertionFault(b, op.id, op.claim) = "ACCEPTED"
    [] op.kind = "derive" -> DerivationFault(b, op.did, LinkOf(op)) = "ACCEPTED"
    [] OTHER -> /\ SupersedeFault(b, op.claim, op.olds) = "ACCEPTED"
                /\ AssertionFault(b, op.id, op.claim) = "ACCEPTED"
                /\ DerivationFault(Stored(b, op), op.did, LinkOf(op)) = "ACCEPTED"

Outcome(b, op) ==
  CASE op.kind = "assert" -> Stored(b, op)
    [] op.kind = "derive" -> Bound(b, op)
    [] OTHER              -> Ended(Bound(Stored(b, op), op), op)

(* A supersession in one call does what the three writes of a request do. *)
LEMMA SupersedeSteps ==
  ASSUME NEW b, Whole(b), NEW op, Asked(op), op.kind \in Revision,
         NEW r, r = WithNegation(Supersede(b, op.id, op.claim, op.olds, op.did), op.claim.prop)
  PROVE  IF Passes(b, op) THEN r = Result(Outcome(b, op), "ACCEPTED")
         ELSE r.code # "ACCEPTED"
<1>1. PICK o \in AssertionId : op.olds = <<o>>
  BY DEF Asked
<1> DEFINE s == SupersedeFault(b, op.claim, op.olds)
           p == AssertionFault(b, op.id, op.claim)
           w == WithAssertion(b, op.id, op.claim)
           l == LinkOf(op)
           q == DerivationFault(w, op.did, l)
           u == WithDerivation(w, op.did, l)
           c == WithCloses(u, {o}, op.claim.time)
           S == Supersede(b, op.id, op.claim, op.olds, op.did)
<1>2. CloseAll(u, op.olds, op.claim.time) = Result(c, "ACCEPTED")
  BY <1>1, OneTarget DEF CloseAll
<1>3. l = SupersessionOf(op.id, op.olds)
  BY DEF LinkOf, Revision
<1>4. /\ S = IF s # "ACCEPTED" THEN Result(b, s)
             ELSE IF p # "ACCEPTED" THEN Result(b, p)
             ELSE IF q # "ACCEPTED" THEN Result(w, q)
             ELSE Result(c, "ACCEPTED")
  <2> HIDE DEF c
  <2>1. PutAssertion(b, op.id, op.claim) = Result(IF p = "ACCEPTED" THEN w ELSE b, p)
    BY DEF PutAssertion
  <2>2. AddDerivation(w, op.did, l) = Result(IF q = "ACCEPTED" THEN u ELSE w, q)
    BY DEF AddDerivation
  <2> HIDE DEF s, p, w, l, q, u
  <2>3. \A e, k : Result(e, k).eng = e /\ Result(e, k).code = k
    BY DEF Result
  <2> QED BY <1>2, <1>3, <2>1, <2>2, <2>3 DEF Supersede, s, p
<1>5. Passes(b, op) <=> s = "ACCEPTED" /\ p = "ACCEPTED" /\ q = "ACCEPTED"
  <2>1. \/ Stored(b, op) = w
        \/ Stored(b, op) = [w EXCEPT !.contra = @ \cup {{op.claim.prop, Neg[op.claim.prop]}}]
    BY DEF Stored, WithNegation, Result
  <2>2. /\ Stored(b, op).assertions = w.assertions /\ Stored(b, op).derivations = w.derivations
        /\ \A x : Known(Stored(b, op), x) <=> Known(w, x)
    BY <2>1, StoredFields DEF Known, WithAssertion, Whole
  <2>3. DerivationFault(Stored(b, op), op.did, l) = q
    <3> HIDE DEF l, w
    <3>1. \A n : Antecedents(Stored(b, op), n) = Antecedents(w, n)
      BY <2>2 DEF Antecedents
    <3>2. \A A : ReachedAssertions(Stored(b, op), A) = ReachedAssertions(w, A)
      BY <3>1 DEF ReachedAssertions, Closed
    <3> QED BY <2>2, <3>2 DEF DerivationFault, WouldCycle
  <2> HIDE DEF s, p, q, w, l
  <2> QED BY <2>3 DEF Passes, s, p, l, Revision
<1>6. WithNegation(Result(c, "ACCEPTED"), op.claim.prop) = Result(Outcome(b, op), "ACCEPTED")
  <2> DEFINE C == IF op.claim.prop \in Prop
                  THEN b.contra \cup {{op.claim.prop, Neg[op.claim.prop]}} ELSE b.contra
             V == PutAll(b.close, {o}, op.claim.time)
  <2>1. Stored(b, op) =
          [entities |-> b.entities, events |-> b.events, agents |-> b.agents,
           assertions |-> Put(b.assertions, op.id, op.claim), derivations |-> b.derivations,
           close |-> b.close, corefs |-> b.corefs, contra |-> C]
    BY StoredFields
  <2>2. Bound(Stored(b, op), op) =
          [entities |-> b.entities, events |-> b.events, agents |-> b.agents,
           assertions |-> Put(b.assertions, op.id, op.claim),
           derivations |-> Put(b.derivations, op.did, l),
           close |-> b.close, corefs |-> b.corefs, contra |-> C]
    <3> HIDE DEF C, l
    <3> QED BY <2>1 DEF Bound, WithDerivation, l
  <2>3. Outcome(b, op) =
          [entities |-> b.entities, events |-> b.events, agents |-> b.agents,
           assertions |-> Put(b.assertions, op.id, op.claim),
           derivations |-> Put(b.derivations, op.did, l),
           close |-> V, corefs |-> b.corefs, contra |-> C]
    <3> HIDE DEF C, l
    <3>1. Outcome(b, op) = WithCloses(Bound(Stored(b, op), op), {o}, op.claim.time)
      BY <1>1, OneTarget DEF Outcome, Ended, CloseAll, Result, Revision
    <3> QED BY <2>2, <3>1 DEF WithCloses
  <2>4. c = [entities |-> b.entities, events |-> b.events, agents |-> b.agents,
             assertions |-> Put(b.assertions, op.id, op.claim),
             derivations |-> Put(b.derivations, op.did, l),
             close |-> V, corefs |-> b.corefs, contra |-> b.contra]
    <3> HIDE DEF l
    <3>1. w = [entities |-> b.entities, events |-> b.events, agents |-> b.agents,
               assertions |-> Put(b.assertions, op.id, op.claim),
               derivations |-> b.derivations,
               close |-> b.close, corefs |-> b.corefs, contra |-> b.contra]
      BY DEF WithAssertion, Whole
    <3> HIDE DEF w
    <3>2. u = [entities |-> b.entities, events |-> b.events, agents |-> b.agents,
               assertions |-> Put(b.assertions, op.id, op.claim),
               derivations |-> Put(b.derivations, op.did, l),
               close |-> b.close, corefs |-> b.corefs, contra |-> b.contra]
      BY <3>1 DEF WithDerivation
    <3> HIDE DEF u
    <3> QED BY <3>2 DEF WithCloses
  <2> HIDE DEF c, l, V
  <2> QED BY <2>3, <2>4 DEF WithNegation, Result
<1> HIDE DEF s, p, w, l, q, u, c, S
<1>7. r = WithNegation(S, op.claim.prop)
  BY DEF S
<1>8. CASE Passes(b, op)
  BY <1>4, <1>5, <1>6, <1>7, <1>8
<1>9. CASE ~ Passes(b, op)
  <2>1. S.code # "ACCEPTED"
    BY <1>4, <1>5, <1>9 DEF Result
  <2> QED BY <1>7, <1>9, <2>1 DEF WithNegation
<1> QED BY <1>8, <1>9

(* apply_op accepts an operation when its checks pass, and does what the writes *)
(* of a request do.                                                             *)
LEMMA ApplySteps ==
  ASSUME NEW b, Whole(b), NEW op, Asked(op)
  PROVE  IF Passes(b, op) THEN Apply(b, op) = Result(Outcome(b, op), "ACCEPTED")
         ELSE Apply(b, op).code # "ACCEPTED"
<1>1. CASE op.kind = "assert"
  <2> DEFINE p == AssertionFault(b, op.id, op.claim)
             w == WithAssertion(b, op.id, op.claim)
  <2>1. Apply(b, op) = WithNegation(Result(IF p = "ACCEPTED" THEN w ELSE b, p), op.claim.prop)
    BY <1>1 DEF Apply, ApplyAssert, PutAssertion
  <2>2. Passes(b, op) <=> p = "ACCEPTED"
    BY <1>1 DEF Passes
  <2>3. Outcome(b, op) = WithNegation(Result(w, "ACCEPTED"), op.claim.prop).eng
    BY <1>1 DEF Outcome, Stored
  <2> DEFINE r == WithNegation(Result(w, "ACCEPTED"), op.claim.prop)
  <2>4. r = Result(r.eng, "ACCEPTED")
    <3>1. CASE op.claim.prop \in Prop
      BY <3>1 DEF WithNegation, Result
    <3>2. CASE op.claim.prop \notin Prop
      BY <3>2 DEF WithNegation, Result
    <3> QED BY <3>1, <3>2
  <2>5. CASE p = "ACCEPTED"
    <3>1. Apply(b, op) = r
      BY <2>1, <2>5
    <3> HIDE DEF r, p
    <3> QED BY <2>2, <2>3, <2>4, <2>5, <3>1 DEF r
  <2>6. CASE p # "ACCEPTED"
    <3>1. Apply(b, op) = WithNegation(Result(b, p), op.claim.prop)
      BY <2>1, <2>6
    <3> HIDE DEF p
    <3> QED BY <2>2, <2>6, <3>1 DEF WithNegation, Result
  <2> QED BY <2>5, <2>6
<1>2. CASE op.kind = "derive"
  <2> DEFINE q == DerivationFault(b, op.did, LinkOf(op))
  <2>1. Apply(b, op) = AddDerivation(b, op.did, LinkOf(op))
    BY <1>2 DEF Apply, Derive, LinkOf
  <2>2. Apply(b, op) = Result(IF q = "ACCEPTED" THEN Bound(b, op) ELSE b, q)
    BY <2>1 DEF AddDerivation, Bound
  <2>3. Passes(b, op) <=> q = "ACCEPTED"
    BY <1>2 DEF Passes
  <2>4. Outcome(b, op) = Bound(b, op)
    BY <1>2 DEF Outcome
  <2> HIDE DEF q
  <2> QED BY <2>2, <2>3, <2>4 DEF Result
<1>3. CASE op.kind = "supersede"
  <2>1. Apply(b, op) = WithNegation(Supersede(b, op.id, op.claim, op.olds, op.did),
                                    op.claim.prop)
    BY <1>3 DEF Apply, ApplySupersede
  <2> QED BY <1>3, <2>1, SupersedeSteps DEF Revision
<1>4. CASE op.kind = "retract"
  <2>1. PICK o \in AssertionId : op.olds = <<o>>
    BY <1>4 DEF Asked, Revision
  <2>2. <<op.olds[1]>> = op.olds
    BY <2>1, OneTarget
  <2>3. [agent |-> op.claim.agent, subjects |-> op.claim.subjects,
         prop |-> RETRACTED, time |-> op.claim.time] = op.claim
    BY <1>4 DEF Asked, Revision
  <2>4. Apply(b, op) = Supersede(b, op.id, op.claim, op.olds, op.did)
    BY <1>4, <2>2, <2>3 DEF Apply, Retract
  <2>5. WithNegation(Apply(b, op), op.claim.prop) = Apply(b, op)
    BY <1>4, ReservedAssumption DEF WithNegation, Asked, Revision
  <2> QED BY <1>4, <2>4, <2>5, SupersedeSteps DEF Revision
<1> QED BY <1>1, <1>2, <1>3, <1>4 DEF Asked, Route, Revision

(* What a check that passes has seen. *)
LEMMA AcceptedFacts ==
  ASSUME NEW b
  PROVE  /\ \A id, c : AssertionFault(b, id, c) = "ACCEPTED" =>
                         ~ Known(b, id) /\ Admissible(b, c)
         /\ \A id, l : DerivationFault(b, id, l) = "ACCEPTED" => ~ Known(b, id) /\ Linked(b, l)
         /\ \A c, olds : SupersedeFault(b, c, olds) = "ACCEPTED" =>
                           /\ RangeOf(olds) \subseteq DOMAIN b.assertions
                           /\ RangeOf(olds) \cap DOMAIN b.close = {}
<1>1. \A id, c : AssertionFault(b, id, c) = "ACCEPTED" => ~ Known(b, id) /\ Admissible(b, c)
  BY DEF AssertionFault, Admissible
<1>2. \A id, l : DerivationFault(b, id, l) = "ACCEPTED" => ~ Known(b, id) /\ Linked(b, l)
  BY DEF DerivationFault, Linked
<1>3. \A c, olds : SupersedeFault(b, c, olds) = "ACCEPTED" =>
                     /\ RangeOf(olds) \subseteq DOMAIN b.assertions
                     /\ RangeOf(olds) \cap DOMAIN b.close = {}
  BY DEF SupersedeFault
<1> QED BY <1>1, <1>2, <1>3

(* An accepted operation leaves no loose end and is in force. *)
LEMMA OutcomeWhole ==
  ASSUME NEW b, Whole(b), NEW op, Asked(op), Passes(b, op)
  PROVE  LET f == Outcome(b, op)
         IN  Whole(f) /\ Grows(b, f) /\ Effective(f, op)
<1>1. CASE op.kind = "assert"
  <2>1. Admissible(b, op.claim) /\ op.id \in AssertionId
    BY <1>1, AcceptedFacts DEF Passes, Asked
  <2> DEFINE f == Stored(b, op)
  <2>2. Whole(f) /\ Grows(b, f) /\ op.id \in DOMAIN f.assertions
    BY <2>1, StoredWhole
  <2> HIDE DEF f
  <2>3. Effective(f, op)
    BY <1>1, <2>1, <2>2, StaysLinked DEF Effective, Done
  <2> QED BY <1>1, <2>2, <2>3 DEF Outcome, f
<1>2. CASE op.kind = "derive"
  <2>1. Linked(b, LinkOf(op))
    BY <1>2, AcceptedFacts DEF Passes
  <2> DEFINE f == Bound(b, op)
  <2>2. Whole(f) /\ Grows(b, f) /\ op.did \in DOMAIN f.derivations
    BY <2>1, BoundWhole
  <2> HIDE DEF f
  <2>3. Effective(f, op)
    BY <1>2, <2>1, <2>2, StaysLinked DEF Effective, Done
  <2> QED BY <1>2, <2>2, <2>3 DEF Outcome, f
<1>3. CASE op.kind \in Revision
  <2>1. PICK o \in AssertionId : op.olds = <<o>>
    BY <1>3 DEF Asked
  <2> DEFINE f == Stored(b, op)
             g == Bound(f, op)
             h == Ended(g, op)
  <2>2. op.kind # "assert" /\ op.kind # "derive" /\ op.id \in AssertionId /\ op.claim.time \in Nat
    BY <1>3 DEF Revision, Asked
  <2>3. /\ Admissible(b, op.claim) /\ Linked(f, LinkOf(op))
        /\ RangeOf(op.olds) \subseteq DOMAIN b.assertions
    BY <2>2, AcceptedFacts DEF Passes
  <2>4. Whole(f) /\ Grows(b, f) /\ op.id \in DOMAIN f.assertions
    BY <2>2, <2>3, StoredWhole
  <2> HIDE DEF f
  <2>5. Whole(g) /\ Grows(f, g) /\ op.did \in DOMAIN g.derivations
    BY <2>3, <2>4, BoundWhole
  <2> HIDE DEF g
  <2>6. o \in DOMAIN g.assertions
    BY <2>1, <2>3, <2>4, <2>5, OneTarget DEF Grows
  <2>7. Whole(h) /\ Grows(g, h) /\ RangeOf(op.olds) \subseteq DOMAIN h.close
    BY <2>1, <2>2, <2>5, <2>6, EndedWhole
  <2> HIDE DEF h
  <2>8. Grows(b, h)
    BY <2>4, <2>5, <2>7, GrowsOn
  <2>9. Effective(h, op)
    <3>1. Admissible(h, op.claim)
      BY <2>3, <2>8, StaysLinked
    <3>2. RangeOf(op.olds) \subseteq DOMAIN h.assertions
      BY <2>3, <2>8 DEF Grows
    <3>3. op.id \in DOMAIN h.assertions /\ op.did \in DOMAIN h.derivations
      BY <2>4, <2>5, <2>7 DEF Grows
    <3> QED BY <2>2, <2>7, <3>1, <3>2, <3>3 DEF Effective, Done
  <2> QED BY <2>2, <2>7, <2>8, <2>9 DEF Outcome, f, g, h
<1> QED BY <1>1, <1>2, <1>3 DEF Asked, Route

(* The link of a revision closes no cycle: the new claim is new to everything *)
(* its target rests on.                                                       *)
LEMMA RevisionLinks ==
  ASSUME NEW b, Whole(b), NEW op, Asked(op), op.kind \in Revision, ~ Known(b, op.did),
         SupersedeFault(b, op.claim, op.olds) = "ACCEPTED",
         AssertionFault(b, op.id, op.claim) = "ACCEPTED"
  PROVE  DerivationFault(Stored(b, op), op.did, LinkOf(op)) = "ACCEPTED"
<1>1. PICK o \in AssertionId : op.olds = <<o>>
  BY DEF Asked
<1> DEFINE f == Stored(b, op)
           l == LinkOf(op)
           S == {x \in AssertionId : Known(b, x)}
<1>2. l.consequent = op.id /\ l.antecedents = {o}
  BY <1>1, OneTarget DEF LinkOf, SupersessionOf, Revision
<1>3. o \in DOMAIN b.assertions /\ ~ Known(b, op.id) /\ op.did # op.id
  BY <1>1, OneTarget, AcceptedFacts DEF Asked
<1>4. /\ f.assertions = Put(b.assertions, op.id, op.claim)
      /\ f.derivations = b.derivations
      /\ f.entities = b.entities /\ f.events = b.events /\ f.agents = b.agents
  BY StoredFields
<1> HIDE DEF f, l
<1>5. DOMAIN f.assertions = DOMAIN b.assertions \cup {op.id}
  BY <1>4 DEF Put
<1>6. \A x : Known(f, x) <=> Known(b, x) \/ x = op.id
  BY <1>4, <1>5 DEF Known
<1>7. \A n : Antecedents(f, n) \cap AssertionId \subseteq S
  BY <1>4 DEF Antecedents, Whole, Linked
<1>8. Closed(f, S) /\ {o} \cap AssertionId \subseteq S /\ S \in SUBSET AssertionId
  BY <1>3, <1>7 DEF Closed, Known
<1>9. op.id \notin S
  BY <1>3
<1> HIDE DEF S
<1>10. ~ WouldCycle(f, l)
  BY <1>2, <1>8, <1>9 DEF WouldCycle, ReachedAssertions
<1>11. /\ ~ Known(f, op.did) /\ l.consequent \in DOMAIN f.assertions
       /\ l.antecedents # {} /\ \A x \in l.antecedents : Known(f, x)
  BY <1>2, <1>3, <1>5, <1>6 DEF Known
<1> QED BY <1>10, <1>11 DEF DerivationFault, f, l

------------------------------------------------------------------------------
(* A request in progress. *)

(* A request in progress: one operation, or a claim and then its evidence. *)
Shaped(x) ==
  /\ x = [ops |-> x.ops, todo |-> x.todo, loaded |-> x.loaded, done |-> x.done]
  /\ x.ops \in Seq(Op) /\ Len(x.ops) \in {1, 2}
  /\ \A i \in DOMAIN x.ops : Asked(x.ops[i])
  /\ x.todo \in Left(x.ops[1].kind)
  /\ Len(x.ops) = 2 => /\ x.ops[1].kind = "assert" /\ x.ops[2].kind = "derive"
                       /\ x.todo # <<>>
  /\ x.todo # <<>> /\ Head(x.todo) = "tick" => x.loaded \in 0..(MaxClock - 1)

Serving(e, L, x) ==
  IF x.ops = <<>> THEN x = Idle
  ELSE /\ Shaped(x) /\ Done(e, Head(x.ops), Len(x.todo))
       /\ x.done \subseteq {op \in L : op.kind \in Route}

(* The parts of a request in progress. *)
LEMMA ShapedFacts ==
  ASSUME NEW x, Shaped(x)
  PROVE  /\ x.ops # <<>> /\ Head(x.ops) = x.ops[1] /\ x.ops[1] \in Op /\ Asked(x.ops[1])
         /\ x.ops[1].kind \in Route
         /\ Len(x.todo) \in 0..9 /\ (x.todo = <<>> <=> Len(x.todo) = 0)
         /\ Len(x.ops) = 1 => Tail(x.ops) = <<>>
         /\ Len(x.ops) = 2 => /\ Tail(x.ops) \in Seq(Op) /\ Tail(x.ops) # <<>>
                              /\ Len(Tail(x.ops)) = 1 /\ Tail(x.ops)[1] = x.ops[2]
                              /\ x.ops[2] \in Op /\ Asked(x.ops[2])
<1>1. /\ x.ops \in Seq(Op) /\ Len(x.ops) \in {1, 2}
      /\ x.ops # <<>> /\ DOMAIN x.ops = 1..Len(x.ops)
  BY LenProperties DEF Shaped
<1>2. Head(x.ops) = x.ops[1] /\ x.ops[1] \in Op /\ Asked(x.ops[1])
  BY <1>1, ElementOfSeq DEF Shaped
<1>3. x.ops[1].kind \in Route
  BY <1>2 DEF Asked
<1>4. Len(x.todo) \in 0..9 /\ (x.todo = <<>> <=> Len(x.todo) = 0)
  BY <1>3, LeftLen DEF Shaped
<1>5. /\ Tail(x.ops) \in Seq(Op) /\ Len(Tail(x.ops)) = Len(x.ops) - 1
      /\ \A i \in 1..Len(Tail(x.ops)) : Tail(x.ops)[i] = x.ops[i + 1]
  BY <1>1, HeadTailProperties
<1>6. Len(x.ops) = 1 => Tail(x.ops) = <<>>
  <2> SUFFICES ASSUME Len(x.ops) = 1 PROVE Tail(x.ops) = <<>>
    OBVIOUS
  <2>1. Tail(x.ops) \in Seq(Op) /\ Len(Tail(x.ops)) = 0
    BY <1>5
  <2> QED BY <2>1, EmptySeq
<1>7. Len(x.ops) = 2 => Tail(x.ops) # <<>> /\ Len(Tail(x.ops)) = 1 /\ Tail(x.ops)[1] = x.ops[2]
  <2> SUFFICES ASSUME Len(x.ops) = 2
               PROVE  Tail(x.ops) # <<>> /\ Len(Tail(x.ops)) = 1 /\ Tail(x.ops)[1] = x.ops[2]
    OBVIOUS
  <2> DEFINE t == Tail(x.ops)
  <2>1. Len(t) = 1
    BY <1>5
  <2>2. t[1] = x.ops[1 + 1]
    BY <1>5, <2>1
  <2> HIDE DEF t
  <2>3. t # <<>>
    BY <2>1
  <2> QED BY <2>1, <2>2, <2>3 DEF t
<1>8. Len(x.ops) = 2 => x.ops[2] \in Op /\ Asked(x.ops[2])
  BY <1>1, ElementOfSeq DEF Shaped
<1> QED BY <1>1, <1>2, <1>3, <1>4, <1>5, <1>6, <1>7, <1>8

(* A request is not disturbed by an engine that grows, nor by more rows. *)
LEMMA StaysServing ==
  ASSUME NEW e, NEW f, Grows(e, f), NEW L, NEW M, L \subseteq M, NEW x, Serving(e, L, x)
  PROVE  Serving(f, M, x)
<1>1. CASE x.ops = <<>>
  BY <1>1 DEF Serving
<1>2. CASE x.ops # <<>>
  <2>1. Done(f, Head(x.ops), Len(x.todo))
    BY <1>2, StaysDone DEF Serving
  <2> QED BY <1>2, <2>1 DEF Serving
<1> QED BY <1>1, <1>2

(* A handler without a request. *)
LEMMA IdleServes == \A e, L : Serving(e, L, Idle)
BY DEF Serving, Idle

(* A step that leaves more than nothing to do. *)
LEMMA ServingAdvances ==
  ASSUME NEW e, NEW f, NEW L, NEW x, Serving(e, L, x), x.ops # <<>>, Len(x.todo) > 1,
         Done(f, Head(x.ops), Len(x.todo) - 1)
  PROVE  Serving(f, L, [x EXCEPT !.todo = Tail(@)])
<1> DEFINE y == [x EXCEPT !.todo = Tail(@)]
<1>1. Shaped(x) /\ x.done \subseteq {op \in L : op.kind \in Route}
  BY DEF Serving
<1>2. y = [ops |-> x.ops, todo |-> Tail(x.todo), loaded |-> x.loaded, done |-> x.done]
  <2>1. x = [ops |-> x.ops, todo |-> x.todo, loaded |-> x.loaded, done |-> x.done]
    BY <1>1 DEF Shaped
  <2> QED BY <2>1
<1> HIDE DEF y
<1>3. x.ops[1].kind \in Route /\ x.todo \in Left(x.ops[1].kind) /\ x.todo # <<>>
  BY <1>1, ShapedFacts DEF Shaped
<1>4. /\ Tail(x.todo) \in Left(x.ops[1].kind) /\ Len(Tail(x.todo)) = Len(x.todo) - 1
      /\ Tail(x.todo) # <<>> => Head(Tail(x.todo)) # "tick"
  BY <1>3, LeftTail
<1>5. Tail(x.todo) # <<>>
  <2> DEFINE t == Tail(x.todo)
             n == Len(x.todo)
  <2>1. t \in Left(x.ops[1].kind) /\ Len(t) = n - 1 /\ n > 1 /\ n \in 0..9
    BY <1>3, <1>4, LeftLen
  <2> HIDE DEF t, n
  <2>2. Len(t) # 0
    BY <2>1
  <2>3. t # <<>>
    BY <1>3, <2>1, <2>2, LeftLen
  <2> QED BY <2>3 DEF t
<1>6. Shaped(y)
  BY <1>1, <1>2, <1>4, <1>5 DEF Shaped
<1> QED BY <1>1, <1>2, <1>4, <1>6 DEF Serving, y

(* The time is set. *)
Retimed(op, c) == [op EXCEPT !.claim.time = c]

(* An operation that was given its time is still one of its kind. *)
LEMMA RetimedOp ==
  ASSUME NEW op \in Op, Asked(op), op.kind # "derive", NEW c \in 0..MaxClock
  PROVE  LET o == Retimed(op, c)
         IN  /\ o \in Op /\ Asked(o) /\ o.kind = op.kind /\ o.id = op.id
             /\ o.claim.time = c
             /\ op.kind \in Revision => o.olds = op.olds /\ o.did = op.did
<1> DEFINE o == Retimed(op, c)
<1>0. c \in Time /\ c \in Nat
  BY ServerAssumption
<1>1. CASE op.kind = "assert"
  <2>1. op \in [kind : {"assert"}, id : AssertionId, claim : Assertion]
    BY <1>1 DEF Op
  <2>2. o = [kind |-> op.kind, id |-> op.id,
             claim |-> [agent |-> op.claim.agent, subjects |-> op.claim.subjects,
                        prop |-> op.claim.prop, time |-> c]]
    BY <2>1 DEF Retimed, Assertion
  <2> HIDE DEF o
  <2>3. o \in [kind : {"assert"}, id : AssertionId, claim : Assertion]
    BY <1>0, <2>1, <2>2 DEF Assertion
  <2>4. o \in Op
    BY <2>3 DEF Op
  <2>5. Asked(o)
    BY <1>0, <1>1, <2>2 DEF Asked, Revision
  <2> QED BY <1>1, <2>2, <2>4, <2>5 DEF Revision, o
<1>2. CASE op.kind \in Revision
  <2>1. op \in [kind : {"supersede", "retract"}, id : AssertionId, claim : Assertion,
                olds : Seq(AssertionId), did : DerivationId]
    BY <1>2 DEF Op, Revision
  <2>2. o = [kind |-> op.kind, id |-> op.id,
             claim |-> [agent |-> op.claim.agent, subjects |-> op.claim.subjects,
                        prop |-> op.claim.prop, time |-> c],
             olds |-> op.olds, did |-> op.did]
    BY <2>1 DEF Retimed, Assertion
  <2> HIDE DEF o
  <2>3. o \in [kind : {"supersede", "retract"}, id : AssertionId, claim : Assertion,
               olds : Seq(AssertionId), did : DerivationId]
    BY <1>0, <2>1, <2>2 DEF Assertion
  <2>4. o \in Op
    BY <2>3 DEF Op
  <2>5. Asked(o)
    BY <1>0, <1>2, <2>2 DEF Asked, Revision
  <2> QED BY <1>2, <2>2, <2>4, <2>5 DEF Revision, o
<1> QED BY <1>1, <1>2 DEF Asked, Route

Ticked(x, c) == [x EXCEPT !.todo = Tail(@),
                          !.ops = [i \in DOMAIN @ |-> IF Timed(@[i]) THEN Retimed(@[i], c)
                                                      ELSE @[i]]]

(* The tick gives the request its time and changes nothing else of it. *)
LEMMA ServingTicks ==
  ASSUME NEW e, NEW L, NEW x, Serving(e, L, x), x.ops # <<>>, x.todo # <<>>,
         Head(x.todo) = "tick", NEW c \in 0..MaxClock
  PROVE  LET y == Ticked(x, c)
         IN  /\ Serving(e, L, y) /\ y.ops # <<>> /\ Len(y.todo) = Len(x.todo) - 1
             /\ Head(y.ops) = Retimed(Head(x.ops), c) /\ Head(x.ops).kind # "derive"
<1> DEFINE y == Ticked(x, c)
           s == [i \in DOMAIN x.ops |-> IF Timed(x.ops[i]) THEN Retimed(x.ops[i], c)
                                        ELSE x.ops[i]]
<1>1. Shaped(x) /\ x.done \subseteq {op \in L : op.kind \in Route}
  BY DEF Serving
<1>2. y = [ops |-> s, todo |-> Tail(x.todo), loaded |-> x.loaded, done |-> x.done]
  <2>1. x = [ops |-> x.ops, todo |-> x.todo, loaded |-> x.loaded, done |-> x.done]
    BY <1>1 DEF Shaped
  <2>2. y = [[x EXCEPT !.todo = Tail(x.todo)] EXCEPT !.ops = s]
    BY <2>1 DEF Ticked
  <2> HIDE DEF y, s
  <2> QED BY <2>1, <2>2
<1> HIDE DEF y
<1>3. /\ x.ops[1].kind \in Route /\ x.todo \in Left(x.ops[1].kind)
      /\ x.ops \in Seq(Op) /\ Len(x.ops) \in {1, 2} /\ DOMAIN x.ops = 1..Len(x.ops)
  BY <1>1, ShapedFacts, LenProperties DEF Shaped
<1>4. /\ Tail(x.todo) \in Left(x.ops[1].kind) /\ Len(Tail(x.todo)) = Len(x.todo) - 1
      /\ Tail(x.todo) # <<>> => Head(Tail(x.todo)) # "tick"
  BY <1>3, LeftTail
<1>5. /\ x.ops[1].kind # "derive"
      /\ Len(x.todo) = CASE x.ops[1].kind = "assert" -> 4 [] x.ops[1].kind = "supersede" -> 8
                         [] OTHER -> 9
  BY <1>3, LeftHead
<1>6. \A i \in 1..Len(x.ops) :
         /\ x.ops[i] \in Op /\ Asked(x.ops[i])
         /\ Timed(x.ops[i]) <=> x.ops[i].kind # "derive"
  BY <1>1, <1>3, ElementOfSeq DEF Shaped, Asked, Timed, Route, Revision
<1>7. \A i \in 1..Len(x.ops) : s[i] \in Op /\ Asked(s[i]) /\ s[i].kind = x.ops[i].kind
  <2> TAKE i \in 1..Len(x.ops)
  <2>1. CASE x.ops[i].kind = "derive"
    BY <1>3, <1>6, <2>1
  <2>2. CASE x.ops[i].kind # "derive"
    <3>1. s[i] = Retimed(x.ops[i], c)
      BY <1>3, <1>6, <2>2
    <3> HIDE DEF s
    <3> QED BY <1>6, <2>2, <3>1, RetimedOp
  <2> QED BY <2>1, <2>2
<1>8. s \in Seq(Op) /\ Len(s) = Len(x.ops) /\ s # <<>> /\ Head(s) = s[1]
      /\ DOMAIN s = DOMAIN x.ops
  <2>1. s \in [1..Len(x.ops) -> Op] /\ DOMAIN s = DOMAIN x.ops
    BY <1>3, <1>7
  <2> HIDE DEF s
  <2>2. s \in Seq(Op)
    BY <1>3, <2>1, SeqDef
  <2>3. Len(s) = Len(x.ops)
    BY <1>3, <2>1, <2>2, LenProperties
  <2> QED BY <1>3, <2>1, <2>2, <2>3, EmptySeq
<1>9. s[1] = Retimed(x.ops[1], c) /\ Head(x.ops) = x.ops[1]
  BY <1>1, <1>3, <1>5, <1>6, ShapedFacts
<1> HIDE DEF s
<1>10. s[1].kind = x.ops[1].kind /\ (Len(x.ops) = 2 => s[2].kind = x.ops[2].kind)
  <2> DEFINE n == Len(x.ops)
  <2>1. n \in {1, 2}
    BY <1>3
  <2> HIDE DEF n
  <2>2. 1 \in 1..n /\ (n = 2 => 2 \in 1..n)
    BY <2>1
  <2> QED BY <1>7, <2>2 DEF n
<1>11. Tail(x.todo) # <<>>
  <2> DEFINE t == Tail(x.todo)
             n == Len(x.todo)
             k == x.ops[1].kind
  <2>1. t \in Left(k) /\ Len(t) = n - 1 /\ k \in Route
    BY <1>3, <1>4
  <2>2. n = CASE k = "assert" -> 4 [] k = "supersede" -> 8 [] OTHER -> 9
    BY <1>5
  <2> HIDE DEF t, n, k
  <2>3. Len(t) # 0
    BY <2>1, <2>2
  <2>4. t # <<>>
    BY <2>1, <2>3, LeftLen
  <2> QED BY <2>4 DEF t
<1>12. Shaped(y)
  <2>1. \A i \in DOMAIN s : Asked(s[i])
    BY <1>3, <1>7, <1>8
  <2>2. /\ y.ops = s /\ y.todo = Tail(x.todo)
        /\ y = [ops |-> y.ops, todo |-> y.todo, loaded |-> y.loaded, done |-> y.done]
    BY <1>2
  <2> QED BY <1>1, <1>3, <1>4, <1>8, <1>10, <1>11, <2>1, <2>2 DEF Shaped
<1>13. Done(e, s[1], Len(x.todo) - 1)
  BY <1>3, <1>5, <1>10 DEF Done, Route, Revision
<1>14. y.ops = s /\ y.todo = Tail(x.todo) /\ y.done = x.done
  BY <1>2
<1> QED BY <1>1, <1>4, <1>5, <1>8, <1>9, <1>12, <1>13, <1>14 DEF Serving, y

------------------------------------------------------------------------------
(* What holds whatever overlaps. *)

Logs(x) ==
  LET rest == Tail(x.ops)
  IN  [x EXCEPT !.done = @ \cup {Head(x.ops)},
                !.ops  = IF rest = <<>> THEN @ ELSE rest,
                !.todo = IF rest = <<>> THEN Tail(@) ELSE Phases(rest[1].kind)]

(* Writing the row ends the operation, and the row is in force. *)
LEMMA ServingLogs ==
  ASSUME NEW e, NEW L, NEW x, Serving(e, L, x), x.ops # <<>>, x.todo # <<>>,
         Head(x.todo) = "log"
  PROVE  LET y == Logs(x)
             op == Head(x.ops)
         IN  /\ Serving(e, L \cup {op}, y) /\ y.ops # <<>>
             /\ Effective(e, op) /\ op \in Op /\ Asked(op) /\ op.kind \in Route
             /\ Len(x.todo) = 1
             /\ \/ y.todo = <<>> /\ Head(y.ops) = op
                \/ y.todo = Phases("derive") /\ Head(y.ops).kind = "derive"
<1> DEFINE y == Logs(x)
           op == Head(x.ops)
           rest == Tail(x.ops)
<1>1. Shaped(x) /\ x.done \subseteq {o \in L : o.kind \in Route} /\ Done(e, op, Len(x.todo))
  BY DEF Serving
<1>2. /\ op = x.ops[1] /\ op \in Op /\ Asked(op) /\ op.kind \in Route
      /\ x.todo \in Left(op.kind)
  BY <1>1, ShapedFacts DEF Shaped
<1>3. Len(x.todo) = 1
  BY <1>2, LeftHead
<1>4. Effective(e, op)
  BY <1>1, <1>3 DEF Effective, Done
<1>5. y = [ops |-> IF rest = <<>> THEN x.ops ELSE rest,
           todo |-> IF rest = <<>> THEN Tail(x.todo) ELSE Phases(rest[1].kind),
           loaded |-> x.loaded, done |-> x.done \cup {op}]
  <2>1. x = [ops |-> x.ops, todo |-> x.todo, loaded |-> x.loaded, done |-> x.done]
    BY <1>1 DEF Shaped
  <2> DEFINE r == IF rest = <<>> THEN x.ops ELSE rest
             t == IF rest = <<>> THEN Tail(x.todo) ELSE Phases(rest[1].kind)
  <2>2. y = [[[x EXCEPT !.done = x.done \cup {op}] EXCEPT !.ops = r] EXCEPT !.todo = t]
    BY <2>1 DEF Logs
  <2> HIDE DEF y, r, t, op
  <2>3. y = [ops |-> r, todo |-> t, loaded |-> x.loaded, done |-> x.done \cup {op}]
    BY <2>1, <2>2
  <2> QED BY <2>3 DEF r, t
<1>6. y.done \subseteq {o \in L \cup {op} : o.kind \in Route}
  <2> HIDE DEF y, op, rest
  <2> QED BY <1>1, <1>2, <1>5
<1>7. CASE Len(x.ops) = 1
  <2>1. rest = <<>>
    BY <1>1, <1>7, ShapedFacts
  <2>2. Tail(x.todo) \in Left(op.kind) /\ Len(Tail(x.todo)) = 1 - 1
    BY <1>2, <1>3, LeftTail
  <2> DEFINE t == Tail(x.todo)
  <2>3. t \in Left(op.kind) /\ Len(t) = 0
    BY <2>2
  <2>4. y = [ops |-> x.ops, todo |-> t, loaded |-> x.loaded, done |-> x.done \cup {op}]
    <3> HIDE DEF y, op
    <3> QED BY <1>5, <2>1
  <2> HIDE DEF t, y, op, rest
  <2>5. t = <<>>
    BY <1>2, <2>3, LeftLen
  <2>6. y.ops = x.ops /\ y.todo = t /\ y.loaded = x.loaded /\ Len(y.ops) # 2
    BY <1>7, <2>4
  <2>7. Shaped(y)
    <3>1. y = [ops |-> y.ops, todo |-> y.todo, loaded |-> y.loaded, done |-> y.done]
      BY <2>4
    <3> QED BY <1>1, <1>2, <2>3, <2>5, <2>6, <3>1 DEF Shaped
  <2>8. Done(e, op, Len(y.todo))
    BY <1>4, <2>3, <2>6, <1>2 DEF Effective
  <2>9. Serving(e, L \cup {op}, y)
    BY <1>6, <2>6, <2>7, <2>8 DEF Serving, op
  <2> QED BY <1>2, <1>3, <1>4, <2>5, <2>6, <2>9 DEF y, op
<1>8. CASE Len(x.ops) = 2
  <2>1. /\ rest \in Seq(Op) /\ rest # <<>> /\ Len(rest) = 1 /\ rest[1] = x.ops[2]
        /\ x.ops[2] \in Op /\ Asked(x.ops[2])
    BY <1>1, <1>8, ShapedFacts
  <2>2. x.ops[2].kind = "derive"
    BY <1>1, <1>8 DEF Shaped
  <2>3. y = [ops |-> rest, todo |-> Phases("derive"), loaded |-> x.loaded,
             done |-> x.done \cup {op}]
    <3> HIDE DEF y, op, rest
    <3> QED BY <1>5, <2>1, <2>2
  <2> HIDE DEF y, op, rest
  <2>4. y.ops = rest /\ y.todo = Phases("derive") /\ y.loaded = x.loaded
    BY <2>3
  <2>5. /\ Phases("derive") \in Left("derive") /\ Len(Phases("derive")) = 3
        /\ Phases("derive") # <<>> /\ Head(Phases("derive")) # "tick"
    BY DEF Phases, Left
  <2>6. Shaped(y)
    <3>1. y = [ops |-> y.ops, todo |-> y.todo, loaded |-> y.loaded, done |-> y.done]
      BY <2>3
    <3>2. DOMAIN rest = {1}
      BY <2>1, LenProperties
    <3> QED BY <2>1, <2>2, <2>4, <2>5, <3>1, <3>2 DEF Shaped
  <2>7. Head(rest) = rest[1]
    BY <2>1
  <2>8. Done(e, Head(y.ops), Len(y.todo))
    <3>1. Done(e, x.ops[2], 3)
      BY <2>2 DEF Done
    <3> QED BY <2>1, <2>4, <2>5, <2>7, <3>1
  <2>9. Serving(e, L \cup {op}, y)
    BY <1>6, <2>1, <2>4, <2>6, <2>8 DEF Serving
  <2> QED BY <1>2, <1>3, <1>4, <2>1, <2>2, <2>4, <2>7, <2>9 DEF y, op
<1> QED BY <1>1, <1>7, <1>8 DEF Shaped

------------------------------------------------------------------------------
Row == [op : Op, clock : 0..MaxClock]
Ops(l) == {l[i].op : i \in DOMAIN l}

(* A restart would bring back an engine in which every row is in force. *)
Durable(l) ==
  LET r == Replay(l)
  IN  r.code = "ACCEPTED" => Whole(r.eng) /\ \A op \in Ops(l) : Effective(r.eng, op)

Steady ==
  /\ up \in BOOLEAN /\ clock \in 0..MaxClock /\ log \in Seq(Row)
  /\ Whole(eng) /\ Durable(log)
  /\ up => \A op \in Ops(log) : Effective(eng, op)
  /\ acked \subseteq {op \in Ops(log) : op.kind \in Route}
  /\ req = [h \in Handler |-> req[h]]
  /\ \A h \in Handler : Serving(eng, Ops(log), req[h]) /\ (req[h].ops # <<>> => up)

(* The operations of a log with one row more. *)
LEMMA OpsAppend ==
  ASSUME NEW S, NEW l \in Seq(S), NEW x \in S
  PROVE  Ops(Append(l, x)) = Ops(l) \cup {x.op}
<1> DEFINE m == Append(l, x)
<1>1. /\ DOMAIN m = 1..(Len(l) + 1) /\ DOMAIN l = 1..Len(l) /\ Len(l) \in Nat
      /\ \A i \in 1..Len(l) : m[i] = l[i]
      /\ m[Len(l) + 1] = x
  BY AppendProperties, LenProperties
<1> HIDE DEF m
<1>2. \A i \in 1..(Len(l) + 1) : i = Len(l) + 1 \/ i \in 1..Len(l)
  BY <1>1
<1> QED BY <1>1, <1>2 DEF Ops, m

(* One row more is in force after a replay that succeeds. *)
LEMMA DurableAppend ==
  ASSUME NEW S, NEW l \in Seq(S), NEW x \in S, Durable(l), Asked(x.op)
  PROVE  Durable(Append(l, x))
<1> DEFINE r == Replay(l)
           q == Replay(Append(l, x))
<1>1. q = After(r, x)
  BY ReplayAppend
<1> HIDE DEF r, q
<1> SUFFICES ASSUME q.code = "ACCEPTED"
             PROVE  Whole(q.eng) /\ \A op \in Ops(Append(l, x)) : Effective(q.eng, op)
  BY DEF Durable, q
<1>2. r.code = "ACCEPTED" /\ q = Apply(r.eng, x.op)
  BY <1>1 DEF After
<1>3. Whole(r.eng) /\ \A op \in Ops(l) : Effective(r.eng, op)
  BY <1>2 DEF Durable, r
<1>4. Passes(r.eng, x.op) /\ q = Result(Outcome(r.eng, x.op), "ACCEPTED")
  BY <1>2, <1>3, ApplySteps
<1>5. q.eng = Outcome(r.eng, x.op)
  BY <1>4 DEF Result
<1>6. Whole(q.eng) /\ Grows(r.eng, q.eng) /\ Effective(q.eng, x.op)
  BY <1>3, <1>4, <1>5, OutcomeWhole
<1>7. \A op \in Ops(l) : Effective(q.eng, op)
  BY <1>3, <1>6, StaysEffective
<1> QED BY <1>6, <1>7, OpsAppend

(* A step of one handler that leaves the log alone. *)
LEMMA OneMoves ==
  ASSUME Steady, up, NEW h \in Handler, NEW x, req' = [req EXCEPT ![h] = x],
         Serving(eng', Ops(log), x), Whole(eng'), Grows(eng, eng'),
         clock' \in 0..MaxClock, acked' \subseteq {op \in Ops(log) : op.kind \in Route},
         UNCHANGED <<up, log>>
  PROVE  Steady'
<1>1. \A g \in Handler : req'[g] = IF g = h THEN x ELSE req[g]
  BY DEF Steady
<1>2. req' = [g \in Handler |-> req'[g]]
  BY DEF Steady
<1>3. \A g \in Handler : Serving(eng', Ops(log), req'[g])
  BY <1>1, StaysServing DEF Steady
<1>4. \A op \in Ops(log) : Effective(eng', op)
  BY StaysEffective DEF Steady
<1> QED BY <1>2, <1>3, <1>4 DEF Steady

Start == [entities |-> {Ent}, events |-> {Evt}, agents |-> Put(EmptyDict, Agt, 0),
          assertions |-> EmptyDict, derivations |-> EmptyDict,
          close |-> EmptyDict, corefs |-> EmptyDict, contra |-> {}]

(* The claims clients make. *)
LEMMA ClaimTyped ==
  ASSUME NEW p \in Prop \cup {RETRACTED}
  PROVE  /\ ClaimOf(p, 0) \in Assertion /\ ClaimOf(p, 0).time = 0 /\ ClaimOf(p, 0).prop = p
         /\ ClaimOf(p, 0) = [agent |-> ClaimOf(p, 0).agent, subjects |-> ClaimOf(p, 0).subjects,
                             prop |-> ClaimOf(p, 0).prop, time |-> ClaimOf(p, 0).time]
BY ServerAssumption DEF ClaimOf, Assertion, Token

(* The log of a project as it is set up replays. *)
LEMMA BackgroundReplay ==
  Background \in Seq(Row) /\ Replay(Background) = Result(Start, "ACCEPTED")
<1> DEFINE r1 == [op |-> [kind |-> "entity", id |-> Ent], clock |-> 0]
           r2 == [op |-> [kind |-> "agent", id |-> Agt], clock |-> 0]
           r3 == [op |-> [kind |-> "event", id |-> Evt], clock |-> 0]
<1>1. r1 \in Row /\ r2 \in Row /\ r3 \in Row
  <2>1. {Ent, Agt, Evt} \subseteq Primitive /\ 0 \in 0..MaxClock
    BY ServerAssumption DEF Primitive
  <2>2. \A k \in {"entity", "event", "agent"}, i \in Primitive : [kind |-> k, id |-> i] \in Op
    BY DEF Op
  <2> QED BY <2>1, <2>2 DEF Row
<1>2. Background = <<r1, r2, r3>>
  BY DEF Background
<1> DEFINE e1 == [NewEngine EXCEPT !.entities = {Ent}]
           e2 == [e1 EXCEPT !.agents = Put(EmptyDict, Agt, 0)]
           g == [n \in 0..3 |-> CASE n = 0 -> Result(NewEngine, "ACCEPTED")
                                  [] n = 1 -> Result(e1, "ACCEPTED")
                                  [] n = 2 -> Result(e2, "ACCEPTED")
                                  [] n = 3 -> Result(Start, "ACCEPTED")]
<1>3. After(Result(NewEngine, "ACCEPTED"), r1) = Result(e1, "ACCEPTED")
  <2>1. NewEngine.entities \cup {Ent} = {Ent} /\ ~ Known(NewEngine, Ent)
    BY DEF NewEngine, Known, EmptyDict
  <2> QED BY <2>1 DEF After, Result, Apply, PutEntity
<1>4. e1 = [entities |-> {Ent}, events |-> {}, agents |-> EmptyDict,
            assertions |-> EmptyDict, derivations |-> EmptyDict,
            close |-> EmptyDict, corefs |-> EmptyDict, contra |-> {}]
  BY DEF NewEngine
<1>a. DOMAIN EmptyDict = {}
  BY DEF EmptyDict
<1>5. After(Result(e1, "ACCEPTED"), r2) = Result(e2, "ACCEPTED")
  <2> HIDE DEF e1
  <2>1. ~ Known(e1, Agt) /\ e1.agents = EmptyDict
    BY <1>4, <1>a, ServerAssumption DEF Known
  <2>2. PutAgent(e1, Agt, 0) = Result(e2, "ACCEPTED")
    BY <2>1 DEF PutAgent, Result
  <2> HIDE DEF e2
  <2> QED BY <2>2 DEF After, Result, Apply
<1>6. e2 = [entities |-> {Ent}, events |-> {}, agents |-> Put(EmptyDict, Agt, 0),
            assertions |-> EmptyDict, derivations |-> EmptyDict,
            close |-> EmptyDict, corefs |-> EmptyDict, contra |-> {}]
  <2> DEFINE p == Put(EmptyDict, Agt, 0)
             q == [e1 EXCEPT !.agents = p]
  <2>1. q = e2
    OBVIOUS
  <2> HIDE DEF e1, e2, p
  <2>2. q = [entities |-> {Ent}, events |-> {}, agents |-> p,
             assertions |-> EmptyDict, derivations |-> EmptyDict,
             close |-> EmptyDict, corefs |-> EmptyDict, contra |-> {}]
    BY <1>4
  <2> QED BY <2>1, <2>2 DEF p
<1>7. After(Result(e2, "ACCEPTED"), r3) = Result(Start, "ACCEPTED")
  <2> HIDE DEF e2
  <2>1. DOMAIN e2.agents = {Agt}
    BY <1>a, <1>6 DEF Put
  <2>2. ~ Known(e2, Evt)
    BY <1>a, <1>6, <2>1, ServerAssumption DEF Known
  <2>3. [e2 EXCEPT !.events = @ \cup {Evt}] = Start
    BY <1>6 DEF Start
  <2>4. PutEvent(e2, Evt) = Result(Start, "ACCEPTED")
    BY <2>2, <2>3 DEF PutEvent, Result
  <2> QED BY <2>4 DEF After, Result, Apply
<1> HIDE DEF e1, e2
<1>8. /\ g = [n \in 0..3 |-> g[n]] /\ g[0] = Result(NewEngine, "ACCEPTED")
      /\ g[1] = Result(e1, "ACCEPTED") /\ g[2] = Result(e2, "ACCEPTED")
      /\ g[3] = Result(Start, "ACCEPTED")
  OBVIOUS
<1> HIDE DEF g, r1, r2, r3
<1> DEFINE l == <<r1, r2, r3>>
<1>9. Len(l) = 3 /\ l[1] = r1 /\ l[2] = r2 /\ l[3] = r3 /\ l \in Seq(Row)
  BY <1>1
<1> HIDE DEF l
<1>10. Runs(g, l)
  <2>1. \A n \in 1..3 : n = 1 \/ n = 2 \/ n = 3
    OBVIOUS
  <2>2. \A n \in 1..3 : g[n] = After(g[n - 1], l[n])
    BY <1>3, <1>5, <1>7, <1>8, <1>9, <2>1
  <2> QED BY <1>8, <1>9, <2>2 DEF Runs
<1>11. Replay(l) = g[Len(l)]
  BY <1>9, <1>10, ReplayRuns
<1> QED BY <1>2, <1>8, <1>9, <1>11 DEF l

(* Steady holds at the start. *)
LEMMA InitSteady == Init => Steady
<1> SUFFICES ASSUME Init PROVE Steady
  OBVIOUS
<1>1. log \in Seq(Row) /\ Replay(log) = Result(Start, "ACCEPTED") /\ eng = Start
  BY BackgroundReplay DEF Init, Result
<1>2. DOMAIN EmptyDict = {}
  BY DEF EmptyDict
<1>3. Whole(Start)
  <2>1. EmptyDict \in [DOMAIN EmptyDict -> Nat]
    BY DEF EmptyDict
  <2> QED BY <1>2, <2>1 DEF Whole, Start
<1>4. \A op \in Ops(log) : op.kind \notin Route
  <2>1. log = Background
    BY DEF Init
  <2>2. DOMAIN Background = 1..3
    BY DEF Background
  <2>3. \A i \in 1..3 : i = 1 \/ i = 2 \/ i = 3
    OBVIOUS
  <2>4. \A i \in 1..3 : Background[i].op.kind \notin Route
    BY <2>3 DEF Background, Route, Revision
  <2> QED BY <2>1, <2>2, <2>4 DEF Ops
<1>5. \A op \in Ops(log) : Effective(Start, op)
  BY <1>4 DEF Effective
<1>6. Durable(log)
  BY <1>1, <1>3, <1>5 DEF Durable, Result
<1>7. \A h \in Handler : req[h] = Idle
  BY DEF Init
<1>8. req = [h \in Handler |-> req[h]]
  BY DEF Init
<1>9. \A h \in Handler : req[h].ops = <<>>
  BY <1>7 DEF Idle
<1>10. clock \in 0..MaxClock /\ up \in BOOLEAN /\ acked = {}
  BY ServerAssumption DEF Init
<1> QED BY <1>1, <1>3, <1>5, <1>6, <1>7, <1>8, <1>9, <1>10, IdleServes DEF Steady

------------------------------------------------------------------------------
(* What a request asks for. *)
Requested(k, ops) ==
  /\ ops \in Seq(Op) /\ Len(ops) \in {1, 2} /\ DOMAIN ops = 1..Len(ops)
  /\ \A i \in DOMAIN ops : Asked(ops[i])
  /\ ops[1].kind = k /\ k \in Route
  /\ Len(ops) = 2 => ops[1].kind = "assert" /\ ops[2].kind = "derive"
  /\ k \in Revision => ~ Known(eng, ops[1].did)

(* A request of one operation. *)
LEMMA OneRequested ==
  ASSUME NEW op \in Op, Asked(op), op.kind \in Revision => ~ Known(eng, op.did)
  PROVE  Requested(op.kind, <<op>>)
BY DEF Requested, Asked

(* Every request the routes build is one or two operations of their kinds, and a *)
(* revision brings a derivation id nobody has.                                   *)
LEMMA WantedRequested ==
  ASSUME NEW k \in RequestKinds, NEW ops \in Wanted(k)
  PROVE  Requested(k, ops)
<1>0. k \in Route /\ \A p \in ClaimProps : p \in Prop
  BY ServerAssumption DEF Route, Revision
<1>1. CASE k = "assert"
  <2>1. ops \in AssertRequests
    BY <1>1 DEF Wanted
  <2>2. ASSUME NEW a \in AssertionId, NEW p \in ClaimProps
        PROVE  LET op == [kind |-> "assert", id |-> a, claim |-> ClaimOf(p, 0)]
               IN  op \in Op /\ Asked(op)
    <3> DEFINE c == ClaimOf(p, 0)
    <3>1. /\ c \in Assertion /\ c.time = 0
          /\ c = [agent |-> c.agent, subjects |-> c.subjects, prop |-> c.prop, time |-> c.time]
      BY <1>0, ClaimTyped
    <3> HIDE DEF c
    <3> DEFINE op == [kind |-> "assert", id |-> a, claim |-> c]
    <3>2. op \in [kind : {"assert"}, id : AssertionId, claim : Assertion]
      BY <3>1
    <3>3. op \in Op
      BY <3>2 DEF Op
    <3>4. op.kind = "assert" /\ op.id = a /\ op.claim = c
      OBVIOUS
    <3> HIDE DEF op
    <3>5. Asked(op)
      BY <3>1, <3>4 DEF Asked, Route, Revision
    <3> QED BY <3>3, <3>5 DEF op, c
  <2>3. ASSUME NEW a \in AssertionId, NEW p \in ClaimProps,
               ops = <<[kind |-> "assert", id |-> a, claim |-> ClaimOf(p, 0)]>>
        PROVE  Requested(k, ops)
    <3> DEFINE op == [kind |-> "assert", id |-> a, claim |-> ClaimOf(p, 0)]
    <3>1. op \in Op /\ Asked(op) /\ op.kind = "assert"
      BY <2>2
    <3> HIDE DEF op
    <3> QED BY <1>1, <2>3, <3>1, OneRequested DEF Revision, op
  <2>4. ASSUME NEW a \in AssertionId, NEW p \in ClaimProps, NEW d \in DerivationId,
               NEW B \in BecauseSets,
               ops = <<[kind |-> "assert", id |-> a, claim |-> ClaimOf(p, 0)],
                       [kind |-> "derive", did |-> d, of |-> a, ants |-> B]>>
        PROVE  Requested(k, ops)
    <3> DEFINE op == [kind |-> "assert", id |-> a, claim |-> ClaimOf(p, 0)]
               ev == [kind |-> "derive", did |-> d, of |-> a, ants |-> B]
    <3>1. op \in Op /\ Asked(op) /\ op.kind = "assert"
      BY <2>2
    <3>2. ev \in Op /\ Asked(ev) /\ ev.kind = "derive"
      BY ServerAssumption DEF Op, Asked, Route, Revision
    <3>3. ops = <<op, ev>>
      BY <2>4
    <3> HIDE DEF op, ev
    <3> QED BY <1>0, <1>1, <3>1, <3>2, <3>3 DEF Requested, Revision
  <2> QED BY <2>1, <2>3, <2>4 DEF AssertRequests
<1>2. CASE k = "derive"
  <2>1. PICK d \in DerivationId, a \in AssertionId, A \in AntecedentSets :
           ops = <<[kind |-> "derive", did |-> d, of |-> a, ants |-> A]>>
    BY <1>2 DEF Wanted, DeriveRequests
  <2> DEFINE op == [kind |-> "derive", did |-> d, of |-> a, ants |-> A]
  <2>2. op \in Op /\ Asked(op) /\ op.kind = "derive"
    BY ServerAssumption DEF Op, Asked, Route, Revision
  <2> HIDE DEF op
  <2> QED BY <1>2, <2>1, <2>2, OneRequested DEF Revision, op
<1>3. CASE k \in Revision
  <2>1. ops \in RevisionRequests(k)
    BY <1>3 DEF Wanted, Revision
  <2>2. PICK a \in AssertionId : \E p \in ClaimProps, o \in AssertionId,
                d \in {x \in DerivationId : Fresh(x) /\ x # a} :
           ops = <<[kind |-> k, id |-> a, olds |-> <<o>>, did |-> d,
                    claim |-> ClaimOf(IF k = "retract" THEN RETRACTED ELSE p, 0)]>>
    BY <2>1 DEF RevisionRequests
  <2>3. PICK p \in ClaimProps, o \in AssertionId,
                d \in {x \in DerivationId : Fresh(x) /\ x # a} :
           ops = <<[kind |-> k, id |-> a, olds |-> <<o>>, did |-> d,
                    claim |-> ClaimOf(IF k = "retract" THEN RETRACTED ELSE p, 0)]>>
    BY <2>2
  <2> DEFINE q == IF k = "retract" THEN RETRACTED ELSE p
             c == ClaimOf(q, 0)
             s == <<o>>
             op == [kind |-> k, id |-> a, olds |-> s, did |-> d, claim |-> c]
  <2>4. q \in Prop \cup {RETRACTED} /\ (k = "retract" => q = RETRACTED)
    BY <1>0
  <2> HIDE DEF q
  <2>5. /\ c \in Assertion /\ c.time = 0 /\ c.prop = q
        /\ c = [agent |-> c.agent, subjects |-> c.subjects, prop |-> c.prop, time |-> c.time]
    BY <2>4, ClaimTyped
  <2> HIDE DEF c
  <2>6. s \in Seq(AssertionId)
    OBVIOUS
  <2>7. d \in DerivationId /\ d # a /\ ~ Known(eng, d)
    BY DEF Fresh
  <2>8. \E x \in AssertionId : s = <<x>>
    OBVIOUS
  <2>a. ops = <<op>>
    BY <2>3 DEF q, c
  <2> HIDE DEF s
  <2>9. op \in Op
    BY <1>3, <2>5, <2>6, <2>7 DEF Op, Revision
  <2>10. Asked(op)
    BY <1>0, <1>3, <2>4, <2>5, <2>7, <2>8 DEF Asked, Revision
  <2>11. op.kind = k /\ op.did = d
    OBVIOUS
  <2> HIDE DEF op
  <2> QED BY <2>7, <2>9, <2>10, <2>11, <2>a, OneRequested
<1> QED BY <1>0, <1>1, <1>2, <1>3 DEF Route

(* A request that has just arrived. *)
LEMMA ServingBegins ==
  ASSUME NEW e, NEW L, NEW k, NEW ops, Requested(k, ops), NEW c \in 0..(MaxClock - 1)
  PROVE  LET x == [ops |-> ops, loaded |-> c, done |-> {}, todo |-> Opening(k)]
         IN  Serving(e, L, x) /\ x.ops # <<>> /\ Head(x.ops) = ops[1]
             /\ Len(x.todo) = (CASE k = "assert" -> 4 [] k = "derive" -> 3
                                 [] k = "supersede" -> 8 [] OTHER -> 9)
<1> DEFINE x == [ops |-> ops, loaded |-> c, done |-> {}, todo |-> Opening(k)]
           t == Opening(k)
<1>1. t \in Left(k) /\ t # <<>>
  BY OpeningLeft DEF Requested
<1>2. ops # <<>> /\ Head(ops) = ops[1]
  BY EmptySeq DEF Requested
<1>3. Len(t) = CASE k = "assert" -> 4 [] k = "derive" -> 3
                 [] k = "supersede" -> 8 [] OTHER -> 9
  BY OpeningLeft DEF Requested
<1> HIDE DEF t
<1>4. x = [ops |-> ops, todo |-> t, loaded |-> c, done |-> {}]
  BY DEF t
<1> HIDE DEF x
<1>5. x.ops = ops /\ x.todo = t /\ x.loaded = c /\ x.done = {}
  BY <1>4
<1>6. Shaped(x)
  <2>1. x = [ops |-> x.ops, todo |-> x.todo, loaded |-> x.loaded, done |-> x.done]
    BY <1>4
  <2> QED BY <1>1, <1>5, <2>1 DEF Shaped, Requested
<1>7. Done(e, ops[1], Len(t))
  BY <1>3 DEF Done, Requested, Route, Revision
<1> QED BY <1>2, <1>3, <1>5, <1>6, <1>7 DEF Serving, x, t

(* What is known of a handler about to take a step. *)
LEMMA AtWork ==
  ASSUME Steady, NEW h \in Handler, NEW phase, Doing(h, phase)
  PROVE  LET x == req[h]
             k == Now(h).kind
         IN  /\ up /\ Serving(eng, Ops(log), x) /\ Shaped(x)
             /\ x.ops # <<>> /\ x.todo # <<>> /\ Head(x.todo) = phase
             /\ Head(x.ops) = Now(h) /\ Now(h) \in Op /\ Asked(Now(h))
             /\ k \in Route /\ x.todo \in Left(k) /\ Len(x.todo) \in 1..9
             /\ Done(eng, Now(h), Len(x.todo))
<1> DEFINE x == req[h]
<1>1. up /\ Serving(eng, Ops(log), x) /\ x.ops # <<>> /\ x.todo # <<>> /\ Head(x.todo) = phase
  BY DEF Steady, Doing, IsIdle
<1> HIDE DEF x
<1>2. Shaped(x) /\ Done(eng, Head(x.ops), Len(x.todo))
  BY <1>1 DEF Serving
<1>3. /\ Head(x.ops) = x.ops[1] /\ x.ops[1] \in Op /\ Asked(x.ops[1]) /\ x.ops[1].kind \in Route
      /\ Len(x.todo) \in 0..9 /\ (x.todo = <<>> <=> Len(x.todo) = 0)
  BY <1>2, ShapedFacts
<1>4. x.todo \in Left(x.ops[1].kind)
  BY <1>2 DEF Shaped
<1>5. Len(x.todo) \in 1..9
  BY <1>1, <1>3
<1> QED BY <1>1, <1>2, <1>3, <1>4, <1>5 DEF Now, x

(* A refusal keeps Steady. *)
LEMMA RefuseSteady ==
  ASSUME Steady, up, NEW h \in Handler, Refuse(h), UNCHANGED <<up, eng, clock, log>>,
         acked' \subseteq {op \in Ops(log) : op.kind \in Route}
  PROVE  Steady'
<1>1. req' = [req EXCEPT ![h] = Idle]
  BY DEF Refuse
<1>2. Whole(eng') /\ Grows(eng, eng') /\ clock' \in 0..MaxClock
  BY GrowsItself DEF Steady
<1> QED BY <1>1, <1>2, IdleServes, OneMoves

(* A step that does its part keeps Steady. *)
LEMMA AdvanceSteady ==
  ASSUME Steady, up, NEW h \in Handler, Advance(h), req[h].ops # <<>>,
         Len(req[h].todo) > 1, Done(eng', Now(h), Len(req[h].todo) - 1),
         Whole(eng'), Grows(eng, eng'), UNCHANGED <<up, clock, log, acked>>
  PROVE  Steady'
<1> DEFINE y == [req[h] EXCEPT !.todo = Tail(@)]
<1>1. req' = [req EXCEPT ![h] = y]
  BY DEF Advance
<1>2. Serving(eng, Ops(log), req[h]) /\ Now(h) = Head(req[h].ops)
  BY DEF Steady, Now
<1>3. Serving(eng', Ops(log), y)
  BY <1>2, ServingAdvances
<1> HIDE DEF y
<1>4. clock' \in 0..MaxClock /\ acked' \subseteq {op \in Ops(log) : op.kind \in Route}
  BY DEF Steady
<1> QED BY <1>1, <1>3, <1>4, OneMoves

(* A check keeps Steady when passing it establishes what the next step needs. *)
LEMMA CheckSteady ==
  ASSUME Steady, NEW h \in Handler, NEW phase, NEW fault, Check(h, phase, fault),
         fault = "ACCEPTED" => /\ Len(req[h].todo) > 1
                               /\ Done(eng, Now(h), Len(req[h].todo) - 1)
  PROVE  Steady'
<1>1. Doing(h, phase) /\ UNCHANGED <<up, eng, clock, log, acked>>
  BY DEF Check
<1>2. up /\ req[h].ops # <<>>
  BY <1>1, AtWork
<1>3. CASE fault = "ACCEPTED"
  <2>1. Advance(h)
    BY <1>3 DEF Check
  <2>2. Done(eng', Now(h), Len(req[h].todo) - 1)
    BY <1>1, <1>3
  <2>3. Whole(eng') /\ Grows(eng, eng')
    BY <1>1, GrowsItself DEF Steady
  <2> QED BY <1>1, <1>2, <1>3, <2>1, <2>2, <2>3, AdvanceSteady
<1>4. CASE fault # "ACCEPTED"
  <2>1. Refuse(h)
    BY <1>4 DEF Check
  <2>2. acked' \subseteq {op \in Ops(log) : op.kind \in Route}
    BY <1>1 DEF Steady
  <2> QED BY <1>1, <1>2, <2>1, <2>2, RefuseSteady
<1> QED BY <1>3, <1>4

(* The arrival of a request keeps Steady. *)
LEMMA BeginSteady ==
  ASSUME Steady, NEW h \in Handler, Begin(h)
  PROVE  Steady'
<1>1. PICK k \in RequestKinds : \E ops \in Wanted(k) :
         req' = [req EXCEPT ![h] = [ops |-> ops, loaded |-> clock, done |-> {},
                                    todo |-> Opening(k)]]
  BY DEF Begin, Opening
<1>2. PICK ops \in Wanted(k) :
         req' = [req EXCEPT ![h] = [ops |-> ops, loaded |-> clock, done |-> {},
                                    todo |-> Opening(k)]]
  BY <1>1
<1> DEFINE x == [ops |-> ops, loaded |-> clock, done |-> {}, todo |-> Opening(k)]
<1>3. clock \in 0..(MaxClock - 1)
  BY ServerAssumption DEF Begin, Steady
<1>4. Requested(k, ops)
  BY WantedRequested
<1>5. Serving(eng, Ops(log), x)
  BY <1>3, <1>4, ServingBegins
<1>6. req' = [req EXCEPT ![h] = x]
  BY <1>2
<1> HIDE DEF x
<1>7. up /\ UNCHANGED <<up, eng, clock, log, acked>>
  BY DEF Begin
<1>8. /\ Whole(eng') /\ Grows(eng, eng') /\ clock' \in 0..MaxClock
      /\ acked' \subseteq {op \in Ops(log) : op.kind \in Route}
  BY <1>7, GrowsItself DEF Steady
<1>9. Serving(eng', Ops(log), x)
  BY <1>5, <1>7
<1> QED BY <1>6, <1>7, <1>8, <1>9, OneMoves

(* The tick as a change of one request. *)
LEMMA TickMoves ==
  ASSUME Steady, NEW h \in Handler, Tick(h)
  PROVE  req' = [req EXCEPT ![h] = Ticked(req[h], clock')] /\ clock' \in 1..MaxClock
<1>1. Doing(h, "tick")
  BY DEF Tick
<1> DEFINE x == req[h]
<1>2. Shaped(x) /\ x.todo # <<>> /\ Head(x.todo) = "tick"
  BY <1>1, AtWork
<1> HIDE DEF x
<1>3. x.loaded \in 0..(MaxClock - 1)
  BY <1>2 DEF Shaped
<1>4. clock' \in 1..MaxClock
  BY <1>3, ServerAssumption DEF Tick, x
<1>5. x = [ops |-> x.ops, todo |-> x.todo, loaded |-> x.loaded, done |-> x.done]
  BY <1>2 DEF Shaped
<1>6. req = [g \in Handler |-> req[g]]
  BY DEF Steady
<1>7. req' = [req EXCEPT ![h] = Ticked(req[h], clock')]
  BY <1>5, <1>6 DEF Tick, Ticked, Retimed, x
<1> QED BY <1>4, <1>7

(* The tick keeps Steady. *)
LEMMA TickSteady ==
  ASSUME Steady, NEW h \in Handler, Tick(h)
  PROVE  Steady'
<1> DEFINE y == Ticked(req[h], clock')
<1>1. req' = [req EXCEPT ![h] = y] /\ clock' \in 0..MaxClock
  BY TickMoves
<1>2. Doing(h, "tick") /\ UNCHANGED <<up, eng, log, acked>>
  BY DEF Tick
<1>3. /\ up /\ Serving(eng, Ops(log), req[h]) /\ req[h].ops # <<>> /\ req[h].todo # <<>>
      /\ Head(req[h].todo) = "tick"
  BY <1>2, AtWork
<1>4. Serving(eng, Ops(log), y)
  BY <1>1, <1>3, ServingTicks
<1> HIDE DEF y
<1>5. /\ Whole(eng') /\ Grows(eng, eng') /\ Serving(eng', Ops(log), y)
      /\ acked' \subseteq {op \in Ops(log) : op.kind \in Route}
  BY <1>2, <1>4, GrowsItself DEF Steady
<1> QED BY <1>1, <1>2, <1>3, <1>5, OneMoves

(* The four checks keep Steady. *)
LEMMA ChecksSteady ==
  ASSUME Steady, NEW h \in Handler,
         CheckExists(h) \/ CheckTargets(h) \/ CheckClaim(h) \/ CheckLink(h)
  PROVE  Steady'
<1> DEFINE n == Len(req[h].todo)
           op == Now(h)
<1>1. CASE CheckExists(h)
  <2>1. Doing(h, "exists")
    BY <1>1 DEF CheckExists, Check
  <2>2. op.kind = "retract" /\ n = 8
    BY <2>1, AtWork, LeftHead
  <2> HIDE DEF n, op
  <2>3. n > 1 /\ Done(eng, op, n - 1)
    BY <2>2 DEF Done
  <2> QED BY <1>1, <2>3, CheckSteady DEF CheckExists, n, op
<1>2. CASE CheckTargets(h)
  <2>1. Doing(h, "targets")
    BY <1>2 DEF CheckTargets, Check
  <2>2. op.kind \in Revision /\ n = 7
    BY <2>1, AtWork, LeftHead
  <2>3. SupersedeFault(eng, op.claim, op.olds) = "ACCEPTED" => n > 1 /\ Done(eng, op, n - 1)
    <3> HIDE DEF n, op
    <3> SUFFICES ASSUME SupersedeFault(eng, op.claim, op.olds) = "ACCEPTED"
                 PROVE  n > 1 /\ Done(eng, op, n - 1)
      OBVIOUS
    <3>1. RangeOf(op.olds) \subseteq DOMAIN eng.assertions
      BY AcceptedFacts
    <3> QED BY <2>2, <3>1 DEF Done, Revision
  <2> QED BY <1>2, <2>3, CheckSteady DEF CheckTargets
<1>3. CASE CheckClaim(h)
  <2>1. Doing(h, "admit")
    BY <1>3 DEF CheckClaim, Check
  <2>2. /\ op.kind \in Route \ {"derive"} /\ n = IF op.kind = "assert" THEN 3 ELSE 6
        /\ Done(eng, op, n)
    BY <2>1, AtWork, LeftHead
  <2>3. AssertionFault(eng, op.id, op.claim) = "ACCEPTED" => n > 1 /\ Done(eng, op, n - 1)
    <3> HIDE DEF n, op
    <3> SUFFICES ASSUME AssertionFault(eng, op.id, op.claim) = "ACCEPTED"
                 PROVE  n > 1 /\ Done(eng, op, n - 1)
      OBVIOUS
    <3>1. Admissible(eng, op.claim)
      BY AcceptedFacts
    <3> QED BY <2>2, <3>1 DEF Done
  <2> QED BY <1>3, <2>3, CheckSteady DEF CheckClaim
<1>4. CASE CheckLink(h)
  <2>1. Doing(h, "link")
    BY <1>4 DEF CheckLink, Check
  <2>2. /\ op.kind \in Route \ {"assert"} /\ n = IF op.kind = "derive" THEN 3 ELSE 4
        /\ Done(eng, op, n)
    BY <2>1, AtWork, LeftHead
  <2>3. DerivationFault(eng, op.did, LinkOf(op)) = "ACCEPTED" => n > 1 /\ Done(eng, op, n - 1)
    <3> HIDE DEF n, op
    <3> SUFFICES ASSUME DerivationFault(eng, op.did, LinkOf(op)) = "ACCEPTED"
                 PROVE  n > 1 /\ Done(eng, op, n - 1)
      OBVIOUS
    <3>1. Linked(eng, LinkOf(op))
      BY AcceptedFacts
    <3> QED BY <2>2, <3>1 DEF Done
  <2> QED BY <1>4, <2>3, CheckSteady DEF CheckLink
<1> QED BY <1>1, <1>2, <1>3, <1>4

(* Recording the claim keeps Steady. *)
LEMMA StoreClaimSteady ==
  ASSUME Steady, NEW h \in Handler, StoreClaim(h)
  PROVE  Steady'
<1> DEFINE n == Len(req[h].todo)
           op == Now(h)
<1>1. /\ Doing(h, "store") /\ eng' = Stored(eng, op) /\ Advance(h)
      /\ UNCHANGED <<up, clock, log, acked>>
  BY DEF StoreClaim, Write, Stored
<1>2. /\ op.kind \in Route \ {"derive"} /\ n = IF op.kind = "assert" THEN 2 ELSE 5
      /\ Done(eng, op, n) /\ Asked(op) /\ up /\ req[h].ops # <<>>
  BY <1>1, AtWork, LeftHead
<1> HIDE DEF n, op
<1>3. Admissible(eng, op.claim) /\ op.id \in AssertionId /\ Whole(eng)
  BY <1>2 DEF Done, Asked, Steady
<1>4. Whole(eng') /\ Grows(eng, eng') /\ op.id \in DOMAIN eng'.assertions
  BY <1>1, <1>3, StoredWhole
<1>5. Done(eng', op, n)
  BY <1>2, <1>4, StaysDone
<1>6. n > 1 /\ Done(eng', op, n - 1)
  BY <1>2, <1>4, <1>5 DEF Done
<1> QED BY <1>1, <1>2, <1>4, <1>6, AdvanceSteady DEF n, op

(* Recording the link keeps Steady. *)
LEMMA StoreLinkSteady ==
  ASSUME Steady, NEW h \in Handler, StoreLink(h)
  PROVE  Steady'
<1> DEFINE n == Len(req[h].todo)
           op == Now(h)
<1>1. /\ Doing(h, "bind") /\ eng' = Bound(eng, op) /\ Advance(h)
      /\ UNCHANGED <<up, clock, log, acked>>
  BY DEF StoreLink, Write, Bound
<1>2. /\ op.kind \in Route \ {"assert"} /\ n = IF op.kind = "derive" THEN 2 ELSE 3
      /\ Done(eng, op, n) /\ Asked(op) /\ up /\ req[h].ops # <<>>
  BY <1>1, AtWork, LeftHead
<1> HIDE DEF n, op
<1>3. Linked(eng, LinkOf(op))
  <2>1. CASE op.kind = "derive"
    BY <1>2, <2>1 DEF Done
  <2>2. CASE op.kind # "derive"
    <3>1. RangeOf(op.olds) \subseteq DOMAIN eng.assertions /\ op.id \in DOMAIN eng.assertions
      BY <1>2, <2>2 DEF Done
    <3> QED BY <2>2, <3>1 DEF Linked, LinkOf, SupersessionOf, Known
  <2> QED BY <2>1, <2>2
<1>4. Whole(eng') /\ Grows(eng, eng') /\ op.did \in DOMAIN eng'.derivations
  BY <1>1, <1>3, BoundWhole DEF Steady
<1>5. Done(eng', op, n)
  BY <1>2, <1>4, StaysDone
<1>6. n > 1 /\ Done(eng', op, n - 1)
  BY <1>2, <1>4, <1>5 DEF Done
<1> QED BY <1>1, <1>2, <1>4, <1>6, AdvanceSteady DEF n, op

(* Closing the targets keeps Steady. *)
LEMMA CloseTargetsSteady ==
  ASSUME Steady, NEW h \in Handler, CloseTargets(h)
  PROVE  Steady'
<1> DEFINE n == Len(req[h].todo)
           op == Now(h)
<1>1. Doing(h, "close") /\ UNCHANGED <<up, clock, log, acked>>
  BY DEF CloseTargets
<1>2. /\ op.kind \in Revision /\ n = 2 /\ op.kind \in Route
      /\ Done(eng, op, n) /\ Asked(op) /\ up /\ req[h].ops # <<>>
  BY <1>1, AtWork, LeftHead
<1>3. CASE RangeOf(op.olds) \cap DOMAIN eng.close = {}
  <2>1. eng' = Ended(eng, op) /\ Advance(h)
    BY <1>3 DEF CloseTargets, Ended
  <2> HIDE DEF n, op
  <2>2. PICK o \in AssertionId : op.olds = <<o>>
    BY <1>2 DEF Asked
  <2>3. RangeOf(op.olds) \subseteq DOMAIN eng.assertions /\ op.claim.time \in Nat
    BY <1>2 DEF Done, Asked, Revision
  <2>4. o \in DOMAIN eng.assertions
    BY <2>2, <2>3, OneTarget
  <2>5. Whole(eng') /\ Grows(eng, eng') /\ RangeOf(op.olds) \subseteq DOMAIN eng'.close
    BY <2>1, <2>2, <2>3, <2>4, EndedWhole DEF Steady
  <2>6. Done(eng', op, n)
    BY <1>2, <2>5, StaysDone
  <2>7. n > 1 /\ Done(eng', op, n - 1)
    BY <1>2, <2>5, <2>6 DEF Done, Revision
  <2> QED BY <1>1, <1>2, <2>1, <2>5, <2>7, AdvanceSteady DEF n, op
<1>4. CASE RangeOf(op.olds) \cap DOMAIN eng.close # {}
  <2>1. Refuse(h) /\ eng' = eng
    BY <1>4 DEF CloseTargets
  <2>2. acked' \subseteq {o \in Ops(log) : o.kind \in Route}
    BY <1>1 DEF Steady
  <2> QED BY <1>1, <1>2, <2>1, <2>2, RefuseSteady
<1> QED BY <1>3, <1>4

(* The row as a change of one request and of the log. *)
LEMMA LogMoves ==
  ASSUME Steady, NEW h \in Handler, LogOp(h)
  PROVE  /\ req' = [req EXCEPT ![h] = Logs(req[h])]
         /\ log' = Append(log, [op |-> Now(h), clock |-> clock])
         /\ [op |-> Now(h), clock |-> clock] \in Row
<1> DEFINE x == req[h]
<1>1. Doing(h, "log")
  BY DEF LogOp
<1>2. Shaped(x) /\ Now(h) \in Op
  BY <1>1, AtWork
<1>3. x = [ops |-> x.ops, todo |-> x.todo, loaded |-> x.loaded, done |-> x.done]
  BY <1>2 DEF Shaped
<1>4. req = [g \in Handler |-> req[g]]
  BY DEF Steady
<1>5. req' = [req EXCEPT ![h] = Logs(req[h])]
  <2> DEFINE rest == Tail(x.ops)
             r == IF rest = <<>> THEN x.ops ELSE rest
             t == IF rest = <<>> THEN Tail(x.todo) ELSE Phases(rest[1].kind)
             d == x.done \cup {Now(h)}
  <2>1. req' = [req EXCEPT ![h].done = d, ![h].ops = r, ![h].todo = t]
    BY <1>3, <1>4 DEF LogOp
  <2>2. Logs(x) = [x EXCEPT !.done = d, !.ops = r, !.todo = t]
    BY <1>3 DEF Logs, Now
  <2> HIDE DEF d, r, t
  <2> QED BY <1>3, <1>4, <2>1, <2>2
<1>6. log' = Append(log, [op |-> Now(h), clock |-> clock])
  BY DEF LogOp
<1>7. [op |-> Now(h), clock |-> clock] \in Row
  BY <1>2 DEF Row, Steady
<1> QED BY <1>5, <1>6, <1>7

(* Writing the row keeps Steady. *)
LEMMA LogSteady ==
  ASSUME Steady, NEW h \in Handler, LogOp(h)
  PROVE  Steady'
<1> DEFINE op == Now(h)
           row == [op |-> op, clock |-> clock]
           y == Logs(req[h])
<1>1. req' = [req EXCEPT ![h] = y] /\ log' = Append(log, row) /\ row \in Row
  BY LogMoves
<1>2. Doing(h, "log") /\ UNCHANGED <<up, eng, clock, acked>>
  BY DEF LogOp
<1>3. /\ up /\ Serving(eng, Ops(log), req[h]) /\ req[h].ops # <<>> /\ req[h].todo # <<>>
      /\ Head(req[h].todo) = "log" /\ op = Head(req[h].ops)
  BY <1>2, AtWork
<1>4. /\ Serving(eng, Ops(log) \cup {op}, y) /\ Effective(eng, op)
      /\ Asked(op)
  BY <1>3, ServingLogs
<1>5. row.op = op
  OBVIOUS
<1> HIDE DEF y, row, op
<1>6. Ops(log') = Ops(log) \cup {op}
  BY <1>1, <1>5, OpsAppend DEF Steady
<1>7. Durable(log')
  BY <1>1, <1>4, <1>5, DurableAppend DEF Steady
<1>8. log' \in Seq(Row)
  BY <1>1, AppendProperties DEF Steady
<1>9. \A o \in Ops(log') : Effective(eng', o)
  BY <1>2, <1>3, <1>4, <1>6 DEF Steady
<1>10. acked' \subseteq {o \in Ops(log') : o.kind \in Route}
  BY <1>2, <1>6 DEF Steady
<1>11. /\ req' = [g \in Handler |-> req'[g]]
       /\ \A g \in Handler : req'[g] = IF g = h THEN y ELSE req[g]
  BY <1>1 DEF Steady
<1>12. \A g \in Handler : Serving(eng', Ops(log'), req'[g])
  <2>1. Grows(eng, eng') /\ Ops(log) \subseteq Ops(log')
    BY <1>2, <1>6, GrowsItself
  <2>2. \A g \in Handler : Serving(eng, Ops(log), req[g])
    BY DEF Steady
  <2>3. \A g \in Handler : Serving(eng', Ops(log'), req[g])
    BY <2>1, <2>2, StaysServing
  <2>4. Serving(eng', Ops(log'), y)
    BY <1>2, <1>4, <1>6
  <2> QED BY <1>11, <2>3, <2>4
<1>13. Whole(eng') /\ clock' \in 0..MaxClock /\ up' \in BOOLEAN /\ up'
  BY <1>2, <1>3 DEF Steady
<1> QED BY <1>7, <1>8, <1>9, <1>10, <1>11, <1>12, <1>13 DEF Steady

(* The reply keeps Steady. *)
LEMMA ReplySteady ==
  ASSUME Steady, NEW h \in Handler, Reply(h)
  PROVE  Steady'
<1>1. req[h].ops # <<>> /\ up /\ Refuse(h) /\ UNCHANGED <<up, eng, clock, log>>
  BY DEF Reply, IsIdle
<1>2. req[h].done \subseteq {op \in Ops(log) : op.kind \in Route}
  BY <1>1 DEF Steady, Serving
<1>3. acked' \subseteq {op \in Ops(log) : op.kind \in Route}
  BY <1>2 DEF Reply, Steady
<1> QED BY <1>1, <1>3, RefuseSteady

(* A new engine has no loose end. *)
LEMMA WholeNew == Whole(NewEngine)
<1>1. DOMAIN EmptyDict = {} /\ EmptyDict \in [DOMAIN EmptyDict -> Nat]
  BY DEF EmptyDict
<1> QED BY <1>1 DEF Whole, NewEngine

(* A crash keeps Steady. *)
LEMMA CrashSteady ==
  ASSUME Steady, Crash
  PROVE  Steady'
<1>1. req' = [h \in Handler |-> Idle] /\ up' = FALSE /\ eng' = NewEngine /\ clock' = 0
      /\ UNCHANGED <<log, acked>>
  BY DEF Crash
<1>2. \A h \in Handler :
         req'[h] = Idle /\ Serving(eng', Ops(log'), req'[h]) /\ req'[h].ops = <<>>
  BY <1>1, IdleServes DEF Idle
<1>3. req' = [h \in Handler |-> req'[h]]
  BY <1>1
<1>4. Whole(eng') /\ clock' \in 0..MaxClock
  BY <1>1, WholeNew, ServerAssumption
<1> QED BY <1>1, <1>2, <1>3, <1>4 DEF Steady

(* A boot keeps Steady. *)
LEMMA BootSteady ==
  ASSUME Steady, Boot
  PROVE  Steady'
<1>1. /\ ~ up /\ Replay(log).code = "ACCEPTED" /\ up' = TRUE /\ eng' = Replay(log).eng
      /\ clock' = LatestClock(log) /\ UNCHANGED <<log, req, acked>>
  BY DEF Boot
<1>2. Whole(eng') /\ \A op \in Ops(log) : Effective(eng', op)
  BY <1>1 DEF Steady, Durable
<1>3. \A h \in Handler : req[h] = Idle
  BY <1>1 DEF Steady, Serving
<1>4. \A h \in Handler : Serving(eng', Ops(log'), req'[h])
  BY <1>1, <1>3, IdleServes
<1>5. clock' \in 0..MaxClock
  <2>1. \A i \in DOMAIN log : log[i].clock \in 0..MaxClock /\ log[i].clock \in Nat
    <3>1. log \in Seq(Row) /\ DOMAIN log = 1..Len(log)
      BY LenProperties DEF Steady
    <3>2. \A i \in DOMAIN log : log[i] \in Row
      BY <3>1, ElementOfSeq
    <3> QED BY <3>2, ServerAssumption DEF Row
  <2>2. LatestClock(log) \in {0} \cup {log[i].clock : i \in DOMAIN log}
    BY <2>1, LatestClockIs DEF Steady
  <2> QED BY <1>1, <2>1, <2>2, ServerAssumption
<1> QED BY <1>1, <1>2, <1>4, <1>5 DEF Steady

(* Every step keeps Steady. *)
LEMMA NextSteady == Steady /\ [Next]_vars => Steady'
<1> SUFFICES ASSUME Steady, [Next]_vars PROVE Steady'
  OBVIOUS
<1>1. ASSUME NEW h \in Handler, Begin(h) \/ Tick(h) PROVE Steady'
  BY <1>1, BeginSteady, TickSteady
<1>2. ASSUME NEW h \in Handler,
             CheckExists(h) \/ CheckTargets(h) \/ CheckClaim(h) \/ CheckLink(h)
      PROVE  Steady'
  BY <1>2, ChecksSteady
<1>3. ASSUME NEW h \in Handler, StoreClaim(h) \/ StoreLink(h) \/ CloseTargets(h) PROVE Steady'
  BY <1>3, StoreClaimSteady, StoreLinkSteady, CloseTargetsSteady
<1>4. ASSUME NEW h \in Handler, LogOp(h) \/ Reply(h) PROVE Steady'
  BY <1>4, LogSteady, ReplySteady
<1>5. CASE Crash \/ Boot
  BY <1>5, CrashSteady, BootSteady
<1>6. CASE UNCHANGED vars
  BY <1>6 DEF vars, Steady
<1> QED BY <1>1, <1>2, <1>3, <1>4, <1>5, <1>6 DEF Next

(* Whatever overlaps, the engine has no loose ends and every row of the log is in *)
(* force, in memory and after a replay that succeeds (apply_op, record, boot).    *)
THEOREM ServerSteady == Spec => []Steady
BY InitSteady, NextSteady, PTL DEF Spec

(* The rows of a log. *)
LEMMA RowsTyped == ASSUME NEW l \in Seq(Row)
                   PROVE  /\ DOMAIN l = 1..Len(l)
                          /\ \A i \in DOMAIN l : l[i].op \in Op /\ l[i].clock \in 0..MaxClock
                                               /\ l[i].clock \in Nat
<1>1. DOMAIN l = 1..Len(l)
  BY LenProperties
<1>2. \A i \in DOMAIN l : l[i] \in Row
  BY <1>1, ElementOfSeq
<1> QED BY <1>1, <1>2, ServerAssumption DEF Row

(* The state is well typed and the live engine wired, under any interleaving of *)
(* the handlers (Project in api.py).                                            *)
THEOREM ServerTyped == Spec => []TypeOK
<1>1. Steady => TypeOK
  <2> SUFFICES ASSUME Steady PROVE TypeOK
    OBVIOUS
  <2>1. Wired
    BY DEF Steady, Whole, Wired, Admissible, Linked
  <2>2. eng.close \in [DOMAIN eng.close -> Nat] /\ DOMAIN eng.assertions \subseteq AssertionId
    BY DEF Steady, Whole
  <2>3. \A i \in DOMAIN log : log[i].op \in Op /\ log[i].clock \in Nat
    BY RowsTyped DEF Steady
  <2>4. acked \subseteq Op
    BY <2>3 DEF Steady, Ops
  <2>5. \A h \in Handler : \A i \in DOMAIN req[h].ops : req[h].ops[i] \in Op
    <3> TAKE h \in Handler
    <3>1. req[h] = Idle \/ req[h].ops \in Seq(Op)
      BY DEF Steady, Serving, Shaped
    <3>2. Idle.ops \in Seq(Op)
      BY DEF Idle
    <3>3. req[h].ops \in Seq(Op)
      BY <3>1, <3>2
    <3> QED BY <3>3, LenProperties, ElementOfSeq
  <2> QED BY <2>1, <2>2, <2>3, <2>4, <2>5 DEF Steady, TypeOK
<1> QED BY <1>1, ServerSteady, PTL

(* What a client was told succeeded is in the engine, before and after every   *)
(* crash, whatever the other handlers do (record_op commits before the reply). *)
THEOREM AckedStays == Spec => []AckedIsDurable
<1>1. Steady => AckedIsDurable
  <2> SUFFICES ASSUME Steady, up, NEW op \in acked PROVE InForce(op)
    BY DEF AckedIsDurable
  <2>1. op \in Ops(log) /\ op.kind \in Route
    BY DEF Steady
  <2>2. Effective(eng, op)
    BY <2>1 DEF Steady
  <2> QED BY <2>1, <2>2 DEF Effective, Done, InForce, Route, Revision
<1> QED BY <1>1, ServerSteady, PTL

------------------------------------------------------------------------------
(* What holds while requests do not overlap. *)

(* The engine the log would bring back. *)
Base == Replay(log).eng

(* The engine e is what an operation with n steps left has made of b. *)
Partial(e, b, op, n) ==
  CASE op.kind = "assert" ->
         /\ n \in {1, 2} => AssertionFault(b, op.id, op.claim) = "ACCEPTED"
         /\ e = IF n = 1 THEN Stored(b, op) ELSE b
    [] op.kind = "derive" ->
         /\ n \in {1, 2} => DerivationFault(b, op.did, LinkOf(op)) = "ACCEPTED"
         /\ e = IF n = 1 THEN Bound(b, op) ELSE b
    [] OTHER ->
         /\ n \in 1..6 => SupersedeFault(b, op.claim, op.olds) = "ACCEPTED"
         /\ n \in 1..5 => AssertionFault(b, op.id, op.claim) = "ACCEPTED"
         /\ n > 0 => ~ Known(b, op.did)
         /\ e = CASE n \in {3, 4} -> Stored(b, op)
                  [] n = 2        -> Bound(Stored(b, op), op)
                  [] n = 1        -> Ended(Bound(Stored(b, op), op), op)
                  [] OTHER        -> b

InTime(x, c) ==
  IF x.todo # <<>> /\ Head(x.todo) = "tick" THEN x.loaded = c
  ELSE Timed(Head(x.ops)) => Head(x.ops).claim.time <= c

OneAtATime == \A g, h \in Handler : ~ IsIdle(g) /\ ~ IsIdle(h) => g = h

(* The log replays into the engine the request in progress started from. *)
Exact ==
  /\ Replay(log) = Result(Base, "ACCEPTED")
  /\ up /\ (\A h \in Handler : IsIdle(h)) => eng = Base
  /\ \A h \in Handler : ~ IsIdle(h) => Partial(eng, Base, Now(h), Len(req[h].todo))

(* No row is ahead of the clock. *)
OnTime ==
  /\ \A i \in DOMAIN log : Timed(log[i].op) => log[i].op.claim.time <= log[i].clock
  /\ up => \A i \in DOMAIN log : log[i].clock <= clock
  /\ \A h \in Handler : ~ IsIdle(h) => InTime(req[h], clock)

Sequential == ~ overlapped => OneAtATime /\ Exact /\ OnTime

(* While requests do not overlap the log replays, without loose ends. *)
LEMMA WholeBase ==
  ASSUME Steady, Sequential, ~ overlapped
  PROVE  Whole(Base) /\ Replay(log).code = "ACCEPTED"
BY DEF Steady, Durable, Sequential, Exact, Base, Result

(* Sequential holds at the start. *)
LEMMA InitSequential == Init => Sequential
<1> SUFFICES ASSUME Init PROVE Sequential
  OBVIOUS
<1>1. log = Background /\ Replay(log) = Result(Start, "ACCEPTED") /\ eng = Base /\ Base = Start
  BY BackgroundReplay DEF Init, Result, Base
<1>2. \A h \in Handler : IsIdle(h)
  BY DEF Init, Idle, IsIdle
<1>3. Exact /\ OneAtATime
  BY <1>1, <1>2 DEF Exact, OneAtATime
<1>4. OnTime
  <2>1. DOMAIN Background = 1..3 /\ \A i \in 1..3 : i = 1 \/ i = 2 \/ i = 3
    BY DEF Background
  <2>2. \A i \in DOMAIN log : ~ Timed(log[i].op) /\ log[i].clock = 0
    BY <1>1, <2>1 DEF Background, Timed
  <2>3. clock = 0
    BY DEF Init
  <2> QED BY <1>2, <2>2, <2>3 DEF OnTime
<1> QED BY <1>3, <1>4 DEF Sequential

(* A step of the one handler at work that leaves the log alone. *)
LEMMA OneMovesAlone ==
  ASSUME Steady, Sequential, ~ overlapped, up, NEW h \in Handler, NEW x,
         req' = [req EXCEPT ![h] = x], \A g \in Handler : g # h => IsIdle(g),
         UNCHANGED <<up, log>>,
         x.ops = <<>> => eng' = Base,
         x.ops # <<>> => Partial(eng', Base, Head(x.ops), Len(x.todo)) /\ InTime(x, clock'),
         clock' \in 0..MaxClock, clock <= clock'
  PROVE  Sequential'
<1>1. \A g \in Handler : req'[g] = IF g = h THEN x ELSE req[g]
  BY DEF Steady
<1>2. \A g \in Handler : g # h => req'[g].ops = <<>>
  BY <1>1 DEF IsIdle
<1>3. OneAtATime'
  BY <1>2 DEF OneAtATime, IsIdle
<1>4. Base' = Base
  BY DEF Base
<1>5. Exact'
  <2>1. Replay(log') = Result(Base', "ACCEPTED")
    BY <1>4 DEF Sequential, Exact
  <2>2. (\A g \in Handler : req'[g].ops = <<>>) => eng' = Base'
    BY <1>1, <1>4
  <2>3. \A g \in Handler : req'[g].ops # <<>> =>
           Partial(eng', Base', Head(req'[g].ops), Len(req'[g].todo))
    BY <1>1, <1>2, <1>4
  <2> QED BY <2>1, <2>2, <2>3 DEF Exact, IsIdle, Now
<1>6. OnTime'
  <2>1. \A i \in DOMAIN log : log[i].clock <= clock'
    <3>1. \A i \in DOMAIN log : log[i].clock \in Nat
      BY RowsTyped DEF Steady
    <3>2. clock \in Nat /\ clock' \in Nat
      BY ServerAssumption DEF Steady
    <3> QED BY <3>1, <3>2 DEF Sequential, OnTime
  <2>2. \A g \in Handler : req'[g].ops # <<>> => InTime(req'[g], clock')
    BY <1>1, <1>2
  <2> QED BY <2>1, <2>2 DEF OnTime, Sequential, IsIdle
<1> QED BY <1>3, <1>5, <1>6 DEF Sequential

(* The handler about to take a step is the only one at work. *)
LEMMA AloneAtWork ==
  ASSUME Steady, Sequential, ~ overlapped, NEW h \in Handler, NEW phase, Doing(h, phase)
  PROVE  /\ Partial(eng, Base, Now(h), Len(req[h].todo)) /\ InTime(req[h], clock)
         /\ \A g \in Handler : g # h => IsIdle(g)
BY DEF Doing, Sequential, OneAtATime, Exact, OnTime

(* A step that makes of the engine what it should keeps Sequential. *)
LEMMA AdvanceAlone ==
  ASSUME Steady, Sequential, ~ overlapped, NEW h \in Handler, NEW phase, Doing(h, phase),
         phase # "tick", Advance(h), Len(req[h].todo) > 1,
         Partial(eng', Base, Now(h), Len(req[h].todo) - 1), UNCHANGED <<up, clock, log>>
  PROVE  Sequential'
<1> DEFINE x == req[h]
           y == [x EXCEPT !.todo = Tail(@)]
<1>1. req' = [req EXCEPT ![h] = y]
  BY DEF Advance
<1>2. /\ Shaped(x) /\ x.todo # <<>> /\ x.ops # <<>> /\ Now(h) = Head(x.ops) /\ up
      /\ Now(h).kind \in Route /\ x.todo \in Left(Now(h).kind) /\ Head(x.todo) = phase
  BY AtWork
<1>3. Partial(eng, Base, Now(h), Len(x.todo)) /\ InTime(x, clock)
      /\ \A g \in Handler : g # h => IsIdle(g)
  BY AloneAtWork
<1> HIDE DEF x
<1>4. y.ops = x.ops /\ y.todo = Tail(x.todo)
  BY <1>2 DEF Shaped
<1>5. /\ Len(Tail(x.todo)) = Len(x.todo) - 1
      /\ Tail(x.todo) # <<>> => Head(Tail(x.todo)) # "tick"
  BY <1>2, LeftTail
<1> DEFINE t == Tail(x.todo)
<1> HIDE DEF y
<1>6. InTime(y, clock')
  <2>1. Timed(Head(x.ops)) => Head(x.ops).claim.time <= clock
    BY <1>2, <1>3 DEF InTime
  <2>2. y.todo # <<>> => Head(y.todo) # "tick"
    BY <1>4, <1>5
  <2> QED BY <1>4, <2>1, <2>2 DEF InTime
<1>7. Partial(eng', Base, Head(y.ops), Len(y.todo))
  <2>1. Len(y.todo) = Len(x.todo) - 1
    BY <1>4, <1>5
  <2> QED BY <1>2, <1>4, <2>1 DEF x
<1>8. clock' \in 0..MaxClock /\ clock <= clock'
  BY ServerAssumption DEF Steady
<1> QED BY <1>1, <1>2, <1>3, <1>4, <1>6, <1>7, <1>8, OneMovesAlone

(* A refusal that leaves the engine as the log has it keeps Sequential. *)
LEMMA RefuseAlone ==
  ASSUME Steady, Sequential, ~ overlapped, up, NEW h \in Handler, ~ IsIdle(h), Refuse(h),
         eng' = Base, UNCHANGED <<up, clock, log>>
  PROVE  Sequential'
<1>1. req' = [req EXCEPT ![h] = Idle] /\ Idle.ops = <<>>
  BY DEF Refuse, Idle
<1>2. \A g \in Handler : g # h => IsIdle(g)
  BY DEF Sequential, OneAtATime
<1>3. clock' \in 0..MaxClock /\ clock <= clock'
  BY ServerAssumption DEF Steady
<1> QED BY <1>1, <1>2, <1>3, OneMovesAlone

(* The arrival of a request keeps Sequential. *)
LEMMA BeginAlone ==
  ASSUME Steady, Sequential, ~ overlapped', NEW h \in Handler, Begin(h)
  PROVE  Sequential'
<1>1. PICK k \in RequestKinds : \E ops \in Wanted(k) :
         req' = [req EXCEPT ![h] = [ops |-> ops, loaded |-> clock, done |-> {},
                                    todo |-> Opening(k)]]
  BY DEF Begin, Opening
<1>2. PICK ops \in Wanted(k) :
         req' = [req EXCEPT ![h] = [ops |-> ops, loaded |-> clock, done |-> {},
                                    todo |-> Opening(k)]]
  BY <1>1
<1> DEFINE x == [ops |-> ops, loaded |-> clock, done |-> {}, todo |-> Opening(k)]
<1>3. clock \in 0..(MaxClock - 1) /\ clock \in 0..MaxClock
  BY ServerAssumption DEF Begin, Steady
<1>4. Requested(k, ops)
  BY WantedRequested
<1>5. /\ x.ops # <<>> /\ Head(x.ops) = ops[1]
      /\ Len(x.todo) = CASE k = "assert" -> 4 [] k = "derive" -> 3
                         [] k = "supersede" -> 8 [] OTHER -> 9
  BY <1>3, <1>4, ServingBegins
<1>6. req' = [req EXCEPT ![h] = x] /\ x.loaded = clock /\ x.todo = Opening(k)
  BY <1>2
<1>7. up /\ UNCHANGED <<up, eng, clock, log>> /\ ~ overlapped /\ \A g \in Handler : IsIdle(g)
  BY DEF Begin
<1>8. eng = Base
  BY <1>7 DEF Sequential, Exact
<1>9. ops[1].kind = k /\ k \in Route /\ (k \in Revision => ~ Known(Base, ops[1].did))
  BY <1>4, <1>8 DEF Requested
<1> HIDE DEF x
<1>10. Partial(eng', Base, Head(x.ops), Len(x.todo))
  <2>1. eng' = Base
    BY <1>7, <1>8
  <2> DEFINE n == Len(x.todo)
             op == ops[1]
  <2>2. n = CASE k = "assert" -> 4 [] k = "derive" -> 3 [] k = "supersede" -> 8 [] OTHER -> 9
    BY <1>5
  <2> HIDE DEF n, op
  <2>3. Partial(Base, Base, op, n)
    BY <1>9, <2>2 DEF Partial, Route, Revision, op
  <2> QED BY <1>5, <2>1, <2>3 DEF op, n
<1>11. InTime(x, clock')
  <2>1. CASE k = "derive"
    <3>1. ~ Timed(ops[1])
      BY <1>9, <2>1 DEF Timed
    <3>2. x.todo # <<>> /\ Head(x.todo) = "tick" => x.loaded = clock'
      BY <1>6, <1>7
    <3> QED BY <1>5, <3>1, <3>2 DEF InTime
  <2>2. CASE k # "derive"
    <3>1. Opening(k) # <<>> /\ Head(Opening(k)) = "tick"
      BY <1>9, <2>2, OpeningLeft
    <3> QED BY <1>6, <1>7, <3>1 DEF InTime
  <2> QED BY <2>1, <2>2
<1>12. clock' \in 0..MaxClock /\ clock <= clock'
  BY <1>3, <1>7
<1> QED BY <1>5, <1>6, <1>7, <1>10, <1>11, <1>12, OneMovesAlone

(* The tick keeps Sequential. *)
LEMMA TickAlone ==
  ASSUME Steady, Sequential, ~ overlapped, NEW h \in Handler, Tick(h)
  PROVE  Sequential'
<1> DEFINE x == req[h]
           y == Ticked(x, clock')
<1>1. req' = [req EXCEPT ![h] = y] /\ clock' \in 1..MaxClock
  BY TickMoves
<1>2. Doing(h, "tick") /\ UNCHANGED <<up, eng, log>>
  BY DEF Tick
<1>3. /\ up /\ Serving(eng, Ops(log), x) /\ x.ops # <<>> /\ x.todo # <<>>
      /\ Head(x.todo) = "tick" /\ Now(h) = Head(x.ops) /\ Now(h) \in Op /\ Asked(Now(h))
      /\ Now(h).kind \in Route /\ x.todo \in Left(Now(h).kind) /\ Shaped(x)
  BY <1>2, AtWork
<1>4. Partial(eng, Base, Now(h), Len(x.todo)) /\ InTime(x, clock)
      /\ \A g \in Handler : g # h => IsIdle(g)
  BY <1>2, AloneAtWork
<1> HIDE DEF x
<1>5. clock' \in 0..MaxClock
  BY <1>1, ServerAssumption
<1>6. /\ Serving(eng, Ops(log), y) /\ y.ops # <<>> /\ Len(y.todo) = Len(x.todo) - 1
      /\ Head(y.ops) = Retimed(Head(x.ops), clock') /\ Head(x.ops).kind # "derive"
  BY <1>3, <1>5, ServingTicks
<1>7. /\ Now(h).kind # "derive"
      /\ Len(x.todo) = CASE Now(h).kind = "assert" -> 4 [] Now(h).kind = "supersede" -> 8
                         [] OTHER -> 9
  BY <1>3, LeftHead
<1> DEFINE op == Now(h)
           o == Retimed(op, clock')
<1>8. /\ o.kind = op.kind /\ o.claim.time = clock'
      /\ op.kind \in Revision => o.did = op.did
  BY <1>3, <1>5, <1>7, RetimedOp
<1>9. Head(y.ops) = o
  BY <1>3, <1>6
<1> DEFINE n == Len(x.todo)
           m == Len(y.todo)
<1>a. n = (CASE op.kind = "assert" -> 4 [] op.kind = "supersede" -> 8 [] OTHER -> 9) /\ m = n - 1
  BY <1>6, <1>7
<1>b. Partial(eng, Base, op, n) /\ op.kind \in Route /\ op.kind # "derive"
  BY <1>3, <1>4, <1>7
<1> HIDE DEF n, m, op, o, y
<1>10. Partial(eng', Base, o, m)
  <2>1. CASE op.kind = "assert"
    BY <1>2, <1>8, <1>a, <1>b, <2>1 DEF Partial
  <2>2. CASE op.kind # "assert"
    BY <1>2, <1>8, <1>a, <1>b, <2>2 DEF Partial, Route, Revision
  <2> QED BY <2>1, <2>2
<1>11. InTime(y, clock')
  <2>1. y.todo # <<>> => Head(y.todo) # "tick"
    <3>1. y.todo = Tail(x.todo)
      BY <1>3 DEF Shaped, Ticked, y
    <3> QED BY <1>3, <3>1, LeftTail
  <2>2. clock' <= clock'
    BY <1>1
  <2> QED BY <1>8, <1>9, <2>1, <2>2 DEF InTime
<1>12. clock <= clock'
  <2>1. x.loaded = clock
    BY <1>3, <1>4 DEF InTime
  <2>2. clock' = clock + 1
    BY <2>1 DEF Tick, x
  <2>3. clock \in Nat
    BY ServerAssumption DEF Steady
  <2> QED BY <2>2, <2>3
<1>13. Partial(eng', Base, Head(y.ops), Len(y.todo))
  BY <1>9, <1>10 DEF m
<1> QED BY <1>1, <1>2, <1>3, <1>4, <1>5, <1>6, <1>11, <1>12, <1>13, OneMovesAlone

(* A check keeps Sequential. *)
LEMMA CheckAlone ==
  ASSUME Steady, Sequential, ~ overlapped, NEW h \in Handler, NEW phase, NEW fault,
         Check(h, phase, fault), phase # "tick",
         fault = "ACCEPTED" => /\ Len(req[h].todo) > 1
                               /\ Partial(eng, Base, Now(h), Len(req[h].todo) - 1),
         fault # "ACCEPTED" => eng = Base
  PROVE  Sequential'
<1>1. Doing(h, phase) /\ UNCHANGED <<up, eng, clock, log>>
  BY DEF Check
<1>2. up /\ ~ IsIdle(h)
  BY <1>1 DEF Doing
<1>3. CASE fault = "ACCEPTED"
  <2>1. Advance(h)
    BY <1>3 DEF Check
  <2>2. Partial(eng', Base, Now(h), Len(req[h].todo) - 1)
    BY <1>1, <1>3
  <2> QED BY <1>1, <1>3, <2>1, <2>2, AdvanceAlone
<1>4. CASE fault # "ACCEPTED"
  <2>1. Refuse(h)
    BY <1>4 DEF Check
  <2>2. eng' = Base
    BY <1>1, <1>4
  <2> QED BY <1>1, <1>2, <2>1, <2>2, RefuseAlone
<1> QED BY <1>3, <1>4

(* The four checks keep Sequential: a revision past its first check is never refused. *)
LEMMA ChecksAlone ==
  ASSUME Steady, Sequential, ~ overlapped, NEW h \in Handler,
         CheckExists(h) \/ CheckTargets(h) \/ CheckClaim(h) \/ CheckLink(h)
  PROVE  Sequential'
<1> DEFINE n == Len(req[h].todo)
           op == Now(h)
<1>1. CASE CheckExists(h)
  <2>1. Doing(h, "exists")
    BY <1>1 DEF CheckExists, Check
  <2>2. op.kind = "retract" /\ n = 8 /\ Partial(eng, Base, op, n)
    BY <2>1, AtWork, LeftHead, AloneAtWork
  <2> HIDE DEF n, op
  <2>3. n > 1 /\ Partial(eng, Base, op, n - 1) /\ eng = Base
    BY <2>2 DEF Partial
  <2> QED BY <1>1, <2>3, CheckAlone DEF CheckExists, n, op
<1>2. CASE CheckTargets(h)
  <2>1. Doing(h, "targets")
    BY <1>2 DEF CheckTargets, Check
  <2>2. op.kind \in Revision /\ n = 7 /\ Partial(eng, Base, op, n)
    BY <2>1, AtWork, LeftHead, AloneAtWork
  <2> HIDE DEF n, op
  <2>3. eng = Base
    BY <2>2 DEF Partial, Revision
  <2>4. SupersedeFault(eng, op.claim, op.olds) = "ACCEPTED" =>
          n > 1 /\ Partial(eng, Base, op, n - 1)
    BY <2>2, <2>3 DEF Partial, Revision
  <2> QED BY <1>2, <2>3, <2>4, CheckAlone DEF CheckTargets, n, op
<1>3. CASE CheckClaim(h)
  <2>1. Doing(h, "admit")
    BY <1>3 DEF CheckClaim, Check
  <2>2. /\ op.kind \in Route \ {"derive"} /\ n = IF op.kind = "assert" THEN 3 ELSE 6
        /\ Partial(eng, Base, op, n)
    BY <2>1, AtWork, LeftHead, AloneAtWork
  <2> HIDE DEF n, op
  <2>3. eng = Base
    BY <2>2 DEF Partial, Route, Revision
  <2>4. AssertionFault(eng, op.id, op.claim) = "ACCEPTED" =>
          n > 1 /\ Partial(eng, Base, op, n - 1)
    BY <2>2, <2>3 DEF Partial, Route, Revision
  <2> QED BY <1>3, <2>3, <2>4, CheckAlone DEF CheckClaim, n, op
<1>4. CASE CheckLink(h)
  <2> DEFINE fault == DerivationFault(eng, op.did, LinkOf(op))
  <2>1. Doing(h, "link") /\ Check(h, "link", fault)
    BY <1>4 DEF CheckLink, Check
  <2>2. /\ op.kind \in Route \ {"assert"} /\ n = IF op.kind = "derive" THEN 3 ELSE 4
        /\ Partial(eng, Base, op, n) /\ Asked(op)
    BY <2>1, AtWork, LeftHead, AloneAtWork
  <2> HIDE DEF n, op
  <2>3. CASE op.kind = "derive"
    <3>1. eng = Base
      BY <2>2, <2>3 DEF Partial
    <3>2. fault = "ACCEPTED" => n > 1 /\ Partial(eng, Base, op, n - 1)
      BY <2>2, <2>3, <3>1 DEF Partial
    <3> HIDE DEF fault
    <3> QED BY <2>1, <3>1, <3>2, CheckAlone DEF n, op
  <2>4. CASE op.kind # "derive"
    <3>1. /\ op.kind \in Revision /\ n = 4 /\ eng = Stored(Base, op)
          /\ SupersedeFault(Base, op.claim, op.olds) = "ACCEPTED"
          /\ AssertionFault(Base, op.id, op.claim) = "ACCEPTED"
          /\ ~ Known(Base, op.did)
      BY <2>2, <2>4 DEF Partial, Route, Revision
    <3>2. fault = "ACCEPTED"
      BY <2>2, <3>1, WholeBase, RevisionLinks
    <3>3. n > 1 /\ Partial(eng, Base, op, n - 1)
      BY <2>2, <2>4, <3>1 DEF Partial, Revision
    <3> HIDE DEF fault
    <3> QED BY <2>1, <3>2, <3>3, CheckAlone DEF n, op
  <2> QED BY <2>3, <2>4
<1> QED BY <1>1, <1>2, <1>3, <1>4

(* Recording a claim or a link keeps Sequential. *)
LEMMA WritesAlone ==
  ASSUME Steady, Sequential, ~ overlapped, NEW h \in Handler, StoreClaim(h) \/ StoreLink(h)
  PROVE  Sequential'
<1> DEFINE n == Len(req[h].todo)
           op == Now(h)
<1>1. CASE StoreClaim(h)
  <2>1. /\ Doing(h, "store") /\ eng' = Stored(eng, op) /\ Advance(h)
        /\ UNCHANGED <<up, clock, log, acked>>
    BY <1>1 DEF StoreClaim, Write, Stored
  <2>2. /\ op.kind \in Route \ {"derive"} /\ n = IF op.kind = "assert" THEN 2 ELSE 5
        /\ Partial(eng, Base, op, n)
    BY <2>1, AtWork, LeftHead, AloneAtWork
  <2> HIDE DEF n, op
  <2>3. eng = Base
    BY <2>2 DEF Partial, Route, Revision
  <2>4. n > 1 /\ Partial(eng', Base, op, n - 1)
    BY <2>1, <2>2, <2>3 DEF Partial, Route, Revision
  <2> QED BY <2>1, <2>4, AdvanceAlone DEF n, op
<1>2. CASE StoreLink(h)
  <2>1. /\ Doing(h, "bind") /\ eng' = Bound(eng, op) /\ Advance(h)
        /\ UNCHANGED <<up, clock, log, acked>>
    BY <1>2 DEF StoreLink, Write, Bound
  <2>2. /\ op.kind \in Route \ {"assert"} /\ n = IF op.kind = "derive" THEN 2 ELSE 3
        /\ Partial(eng, Base, op, n)
    BY <2>1, AtWork, LeftHead, AloneAtWork
  <2> HIDE DEF n, op
  <2>3. n > 1 /\ Partial(eng', Base, op, n - 1)
    <3>1. CASE op.kind = "derive"
      BY <2>1, <2>2, <3>1 DEF Partial
    <3>2. CASE op.kind # "derive"
      BY <2>1, <2>2, <3>2 DEF Partial, Route, Revision
    <3> QED BY <3>1, <3>2
  <2> QED BY <2>1, <2>3, AdvanceAlone DEF n, op
<1> QED BY <1>1, <1>2

(* Closing the targets keeps Sequential: they are still open. *)
LEMMA CloseAlone ==
  ASSUME Steady, Sequential, ~ overlapped, NEW h \in Handler, CloseTargets(h)
  PROVE  Sequential'
<1> DEFINE n == Len(req[h].todo)
           op == Now(h)
<1>1. Doing(h, "close") /\ UNCHANGED <<up, clock, log, acked>>
  BY DEF CloseTargets
<1>2. op.kind \in Revision /\ n = 2 /\ Partial(eng, Base, op, n)
  BY <1>1, AtWork, LeftHead, AloneAtWork
<1> HIDE DEF n, op
<1>3. eng = Bound(Stored(Base, op), op) /\ SupersedeFault(Base, op.claim, op.olds) = "ACCEPTED"
  BY <1>2 DEF Partial, Revision
<1>4. eng.close = Base.close
  <2> DEFINE f == Stored(Base, op)
  <2>1. f = [entities |-> f.entities, events |-> f.events, agents |-> f.agents,
             assertions |-> f.assertions, derivations |-> f.derivations,
             close |-> Base.close, corefs |-> f.corefs, contra |-> f.contra]
    BY WholeBase, StoredFields
  <2> HIDE DEF f
  <2>2. Bound(f, op).close = Base.close
    BY <2>1 DEF Bound, WithDerivation
  <2> QED BY <1>3, <2>2 DEF f
<1>5. RangeOf(op.olds) \cap DOMAIN eng.close = {}
  BY <1>3, <1>4, AcceptedFacts
<1>6. eng' = Ended(eng, op) /\ Advance(h)
  BY <1>5 DEF CloseTargets, Ended, op
<1>7. n > 1 /\ Partial(eng', Base, op, n - 1)
  BY <1>2, <1>3, <1>6 DEF Partial, Revision
<1> QED BY <1>1, <1>6, <1>7, AdvanceAlone DEF n, op

(* Writing the row keeps Sequential: the row does again what the steps did. *)
LEMMA LogAlone ==
  ASSUME Steady, Sequential, ~ overlapped, NEW h \in Handler, LogOp(h)
  PROVE  Sequential'
<1> DEFINE x == req[h]
           op == Now(h)
           row == [op |-> op, clock |-> clock]
           y == Logs(x)
<1>1. req' = [req EXCEPT ![h] = y] /\ log' = Append(log, row) /\ row \in Row
  BY LogMoves
<1>2. Doing(h, "log") /\ UNCHANGED <<up, eng, clock>>
  BY DEF LogOp
<1>3. /\ up /\ Serving(eng, Ops(log), x) /\ x.ops # <<>> /\ x.todo # <<>>
      /\ Head(x.todo) = "log" /\ op = Head(x.ops)
  BY <1>2, AtWork
<1>4. /\ y.ops # <<>> /\ Asked(op) /\ op.kind \in Route /\ Len(x.todo) = 1
      /\ \/ y.todo = <<>> /\ Head(y.ops) = op
         \/ y.todo = Phases("derive") /\ Head(y.ops).kind = "derive"
      /\ Serving(eng, Ops(log) \cup {op}, y)
  BY <1>3, ServingLogs
<1>5. /\ Partial(eng, Base, op, Len(x.todo)) /\ InTime(x, clock)
      /\ \A g \in Handler : g # h => IsIdle(g)
  BY <1>2, AloneAtWork
<1>6. row.op = op /\ row.clock = clock
  OBVIOUS
<1> HIDE DEF y, op, row, x
<1>7. Whole(Base) /\ Replay(log) = Result(Base, "ACCEPTED")
  BY WholeBase DEF Sequential, Exact
<1>8. Passes(Base, op) /\ eng = Outcome(Base, op)
  <2>1. Partial(eng, Base, op, 1)
    BY <1>4, <1>5
  <2>2. CASE op.kind \in {"assert", "derive"}
    BY <2>1, <2>2 DEF Partial, Passes, Outcome
  <2>3. CASE op.kind \in Revision
    <3>1. /\ SupersedeFault(Base, op.claim, op.olds) = "ACCEPTED"
          /\ AssertionFault(Base, op.id, op.claim) = "ACCEPTED"
          /\ ~ Known(Base, op.did)
          /\ eng = Ended(Bound(Stored(Base, op), op), op)
      BY <2>1, <2>3 DEF Partial, Revision
    <3>2. DerivationFault(Stored(Base, op), op.did, LinkOf(op)) = "ACCEPTED"
      BY <1>4, <1>7, <2>3, <3>1, RevisionLinks
    <3> QED BY <2>3, <3>1, <3>2 DEF Passes, Outcome, Revision
  <2> QED BY <1>4, <2>2, <2>3 DEF Route
<1>9. Replay(log') = Result(eng, "ACCEPTED")
  <2>1. Replay(log') = After(Replay(log), row)
    BY <1>1, ReplayAppend DEF Steady
  <2>2. Apply(Base, op) = Result(eng, "ACCEPTED")
    BY <1>4, <1>7, <1>8, ApplySteps
  <2> QED BY <1>6, <1>7, <2>1, <2>2 DEF After, Result
<1>10. Base' = eng'
  BY <1>2, <1>9 DEF Base, Result
<1>11. \A g \in Handler : req'[g] = IF g = h THEN y ELSE req[g]
  BY <1>1 DEF Steady
<1>12. \A g \in Handler : g # h => req'[g].ops = <<>>
  BY <1>5, <1>11 DEF IsIdle
<1>13. OneAtATime'
  BY <1>12 DEF OneAtATime, IsIdle
<1>14. Len(y.todo) \in {0, 3} /\ (Len(y.todo) = 3 => Head(y.ops).kind = "derive")
       /\ Head(y.ops).kind \in Route
  <2>1. Len(Phases("derive")) = 3 /\ Len(<<>>) = 0
    BY DEF Phases
  <2>2. Head(y.ops).kind \in Route
    <3>1. Shaped(y)
      BY <1>4 DEF Serving
    <3> QED BY <3>1, ShapedFacts
  <2> QED BY <1>4, <2>1, <2>2
<1>15. Partial(eng', Base', Head(y.ops), Len(y.todo))
  <2> DEFINE o == Head(y.ops)
             m == Len(y.todo)
  <2>1. m \in {0, 3} /\ (m = 3 => o.kind = "derive") /\ o.kind \in Route
    BY <1>14
  <2> HIDE DEF o, m
  <2>2. \A e : Partial(e, e, o, m)
    BY <2>1 DEF Partial, Route, Revision
  <2> QED BY <1>10, <2>2 DEF o, m
<1>16. Exact'
  <2>1. Replay(log') = Result(Base', "ACCEPTED")
    BY <1>2, <1>9, <1>10
  <2>2. \A g \in Handler : req'[g].ops # <<>> =>
           Partial(eng', Base', Head(req'[g].ops), Len(req'[g].todo))
    BY <1>11, <1>12, <1>15
  <2> QED BY <1>10, <2>1, <2>2 DEF Exact, IsIdle, Now
<1>17. OnTime'
  <2>1. Timed(op) => op.claim.time <= clock
    BY <1>3, <1>5 DEF InTime
  <2>2. /\ DOMAIN log' = 1..(Len(log) + 1) /\ DOMAIN log = 1..Len(log) /\ Len(log) \in Nat
        /\ \A i \in 1..Len(log) : log'[i] = log[i]
        /\ log'[Len(log) + 1] = row
    BY <1>1, AppendProperties, LenProperties DEF Steady
  <2>3. \A i \in DOMAIN log' : i \in DOMAIN log \/ i = Len(log) + 1
    BY <2>2
  <2>4. /\ \A i \in DOMAIN log : Timed(log[i].op) => log[i].op.claim.time <= log[i].clock
        /\ \A i \in DOMAIN log : log[i].clock <= clock
    BY <1>3 DEF Sequential, OnTime
  <2>5. clock \in Nat
    BY ServerAssumption DEF Steady
  <2>6. \A i \in DOMAIN log' :
          /\ Timed(log'[i].op) => log'[i].op.claim.time <= log'[i].clock
          /\ log'[i].clock <= clock
    BY <1>6, <2>1, <2>2, <2>3, <2>4, <2>5
  <2>7. InTime(y, clock')
    <3>1. CASE y.todo = <<>>
      <4>1. Head(y.ops) = op
        BY <1>4, <3>1 DEF Phases
      <4> QED BY <1>2, <2>1, <3>1, <4>1 DEF InTime
    <3>2. CASE y.todo # <<>>
      <4>1. Head(y.ops).kind = "derive" /\ Head(y.todo) # "tick"
        BY <1>4, <3>2 DEF Phases
      <4> QED BY <4>1 DEF InTime, Timed
    <3> QED BY <3>1, <3>2
  <2>8. \A g \in Handler : req'[g].ops # <<>> => InTime(req'[g], clock')
    BY <1>11, <1>12, <2>7
  <2> QED BY <1>2, <2>6, <2>8 DEF OnTime, IsIdle
<1> QED BY <1>13, <1>16, <1>17 DEF Sequential

(* The reply keeps Sequential. *)
LEMMA ReplyAlone ==
  ASSUME Steady, Sequential, ~ overlapped, NEW h \in Handler, Reply(h)
  PROVE  Sequential'
<1>1. /\ up /\ ~ IsIdle(h) /\ req[h].ops # <<>> /\ req[h].todo = <<>> /\ Refuse(h)
      /\ UNCHANGED <<up, eng, clock, log>>
  BY DEF Reply, IsIdle
<1>2. Partial(eng, Base, Now(h), Len(req[h].todo))
  BY <1>1 DEF Sequential, Exact
<1>3. Shaped(req[h]) /\ Now(h) = Head(req[h].ops)
  BY <1>1 DEF Steady, Serving, Now
<1>4. Now(h).kind \in Route /\ Len(req[h].todo) = 0
  BY <1>1, <1>3, ShapedFacts
<1> DEFINE n == Len(req[h].todo)
           op == Now(h)
<1>5. Partial(eng, Base, op, n) /\ n = 0 /\ op.kind \in Route
  BY <1>2, <1>4
<1> HIDE DEF n, op
<1>6. eng = Base
  BY <1>5 DEF Partial, Route, Revision
<1> QED BY <1>1, <1>6, RefuseAlone

(* A crash keeps Sequential. *)
LEMMA CrashAlone ==
  ASSUME Steady, Sequential, ~ overlapped, Crash
  PROVE  Sequential'
<1>1. req' = [h \in Handler |-> Idle] /\ up' = FALSE /\ UNCHANGED log
  BY DEF Crash
<1>2. \A h \in Handler : req'[h].ops = <<>>
  BY <1>1 DEF Idle
<1>3. Base' = Base
  BY <1>1 DEF Base
<1> QED BY <1>1, <1>2, <1>3 DEF Sequential, OneAtATime, Exact, OnTime, IsIdle

(* A boot keeps Sequential. *)
LEMMA BootAlone ==
  ASSUME Steady, Sequential, ~ overlapped, Boot
  PROVE  Sequential'
<1>1. /\ ~ up /\ up' = TRUE /\ eng' = Base /\ clock' = LatestClock(log)
      /\ UNCHANGED <<log, req>>
  BY DEF Boot, Base
<1>2. \A h \in Handler : req'[h].ops = <<>>
  BY <1>1 DEF Steady
<1>3. Base' = Base
  BY <1>1 DEF Base
<1>4. \A i \in DOMAIN log : log[i].clock <= clock'
  BY <1>1, RowsTyped, LatestClockIs DEF Steady
<1> QED BY <1>1, <1>2, <1>3, <1>4 DEF Sequential, OneAtATime, Exact, OnTime, IsIdle

(* Every step keeps Sequential. *)
LEMMA NextSequential == Steady /\ Sequential /\ [Next]_vars => Sequential'
<1> SUFFICES ASSUME Steady, Sequential, [Next]_vars, ~ overlapped' PROVE Sequential'
  BY DEF Sequential
<1>1. ASSUME NEW h \in Handler, Begin(h) PROVE Sequential'
  BY <1>1, BeginAlone
<1>2. ~ Next \/ (\E h \in Handler : Begin(h)) \/ ~ overlapped
  BY DEF Next, Tick, CheckExists, CheckTargets, CheckClaim, CheckLink, Check, StoreClaim,
         StoreLink, Write, CloseTargets, LogOp, Reply, Crash, Boot
<1> SUFFICES ASSUME ~ overlapped PROVE Sequential'
  BY <1>1, <1>2 DEF vars
<1>3. ASSUME NEW h \in Handler, Tick(h) PROVE Sequential'
  BY <1>3, TickAlone
<1>4. ASSUME NEW h \in Handler,
             CheckExists(h) \/ CheckTargets(h) \/ CheckClaim(h) \/ CheckLink(h)
      PROVE  Sequential'
  BY <1>4, ChecksAlone
<1>5. ASSUME NEW h \in Handler, StoreClaim(h) \/ StoreLink(h) \/ CloseTargets(h)
      PROVE  Sequential'
  BY <1>5, WritesAlone, CloseAlone
<1>6. ASSUME NEW h \in Handler, LogOp(h) PROVE Sequential'
  BY <1>6, LogAlone
<1>7. ASSUME NEW h \in Handler, Reply(h) PROVE Sequential'
  BY <1>7, ReplyAlone
<1>8. CASE Crash \/ Boot
  BY <1>8, CrashAlone, BootAlone
<1>9. CASE UNCHANGED vars
  BY <1>9 DEF vars, Sequential, OneAtATime, Exact, OnTime, IsIdle, Now, Base
<1> QED BY <1>1, <1>3, <1>4, <1>5, <1>6, <1>7, <1>8, <1>9 DEF Next

(* While requests do not overlap, the log replays into exactly the engine the *)
(* request in progress started from, and no row is ahead of the clock.        *)
THEOREM ServerSequential == Spec => []Sequential
BY InitSteady, NextSteady, InitSequential, NextSequential, PTL DEF Spec

(* While requests do not overlap, a restart brings back exactly the engine in *)
(* memory (boot in api.py).                                                   *)
THEOREM RestartsChangeNothing == Spec => []RestartChangesNothing
<1>1. Sequential => RestartChangesNothing
  BY DEF Sequential, Exact, RestartChangesNothing, Quiet
<1> QED BY <1>1, ServerSequential, PTL

(* While requests do not overlap, boot never meets a row it refuses: the log *)
(* replays after refused requests and after a crash at any step.             *)
THEOREM BootsSucceed == Spec => [](~ overlapped => Replay(log).code = "ACCEPTED")
<1>1. Sequential => (~ overlapped => Replay(log).code = "ACCEPTED")
  BY DEF Sequential, Exact, Result
<1> QED BY <1>1, ServerSequential, PTL

(* While requests do not overlap, the clock never falls behind a claim a client *)
(* was told succeeded, also after a boot.                                       *)
THEOREM NowIsLate == Spec => []NowSeesAcked
<1>1. Steady /\ Sequential => NowSeesAcked
  <2> SUFFICES ASSUME Steady, Sequential, up, ~ overlapped, NEW op \in acked, Timed(op)
               PROVE  op.claim.time <= clock
    BY DEF NowSeesAcked
  <2>1. PICK i \in DOMAIN log : op = log[i].op
    BY DEF Steady, Ops
  <2>2. op.claim.time <= log[i].clock /\ log[i].clock <= clock
    BY <2>1 DEF Sequential, OnTime
  <2>3. log[i].clock \in Nat /\ clock \in Nat /\ op \in Op
    BY <2>1, RowsTyped, ServerAssumption DEF Steady
  <2>4. op.claim.time \in Int
    BY <2>3, TimeAssumption DEF Op, Timed, Assertion
  <2> QED BY <2>2, <2>3, <2>4
<1> QED BY <1>1, ServerSteady, ServerSequential, PTL
================================================================================
