----------------------------- MODULE ErasureProofs -----------------------------
(***************************************************************************)
(* Proofs about Erasure and Tenants, for any ids, messages, projects,      *)
(* threads and bounds.                                                     *)
(*                                                                         *)
(* The log and the engine say the same in two ways: Fits relates the rows  *)
(* of a log that replays to the engine it replays into.  An erasure works  *)
(* on rows and is verified on an engine; that nothing of a person is left  *)
(* takes both: the rows that name them are in the cascade, which is closed *)
(* under its rule, and what the cascade does not follow (a derivation from *)
(* the person, or of a merge with them) would not have replayed.           *)
(*                                                                         *)
(* A project goes table by table while others write: of each erasure it is *)
(* known what it has emptied so far, whoever filled it again is known as   *)
(* late, and of each thread at the end of a chain that its row comes next. *)
(***************************************************************************)
EXTENDS MCErasures, OperationsProofs, FiniteSetTheorems

------------------------------------------------------------------------------
(* The function g over 0..n starts from z and goes on with F. *)
Recurs(g, n, z, F) ==
  /\ g = [i \in 0..n |-> g[i]]
  /\ g[0] = z
  /\ \A i \in 1..n : g[i] = F[<<i, g[i - 1]>>]

(* There is such a function, and it stays in S if F does. *)
LEMMA Recursion ==
  ASSUME NEW n \in Nat, NEW S, NEW z \in S, NEW F,
         \A i \in 1..n, s \in S : F[<<i, s>>] \in S
  PROVE  \E g : Recurs(g, n, z, F) /\ \A i \in 0..n : g[i] \in S
<1> DEFINE P(m, g) == Recurs(g, m, z, F) /\ \A i \in 0..m : g[i] \in S
           T == {m \in Nat : m <= n => \E g : P(m, g)}
<1>1. 0 \in T
  <2> DEFINE g == [i \in 0..0 |-> z]
  <2>1. g = [i \in 0..0 |-> g[i]] /\ g[0] = z
    OBVIOUS
  <2> HIDE DEF g
  <2>2. P(0, g)
    BY <2>1 DEF Recurs
  <2> QED BY <2>2
<1>2. ASSUME NEW m \in Nat, m \in T PROVE m + 1 \in T
  <2> SUFFICES ASSUME m + 1 <= n PROVE \E g : P(m + 1, g)
    OBVIOUS
  <2>1. PICK g : P(m, g)
    BY <1>2
  <2> DEFINE h == [i \in 0..(m + 1) |-> IF i = m + 1 THEN F[<<m + 1, g[m]>>] ELSE g[i]]
  <2>2. h = [i \in 0..(m + 1) |-> h[i]]
    OBVIOUS
  <2>3. h[m + 1] = F[<<m + 1, g[m]>>] /\ \A i \in 0..m : h[i] = g[i]
    OBVIOUS
  <2> HIDE DEF h
  <2>4. h[m + 1] = F[<<m + 1, h[m]>>] /\ h[m + 1] \in S
    BY <2>1, <2>3
  <2>5. h[0] = z /\ \A i \in 0..m : h[i] \in S
    BY <2>1, <2>3 DEF Recurs
  <2>6. \A i \in 1..(m + 1) : h[i] = F[<<i, h[i - 1]>>]
    <3> TAKE i \in 1..(m + 1)
    <3>1. CASE i = m + 1
      BY <2>4, <3>1
    <3>2. CASE i \in 1..m
      <4>1. i \in 0..m /\ i - 1 \in 0..m
        BY <3>2
      <4>2. h[i] = g[i] /\ h[i - 1] = g[i - 1]
        BY <2>3, <4>1
      <4> QED BY <2>1, <3>2, <4>2 DEF Recurs
    <3> QED BY <3>1, <3>2
  <2>7. \A i \in 0..(m + 1) : h[i] \in S
    BY <2>4, <2>5
  <2>8. P(m + 1, h)
    BY <2>2, <2>5, <2>6, <2>7 DEF Recurs
  <2> QED BY <2>8
<1> HIDE DEF T
<1>3. n \in T
  BY <1>1, <1>2, SetInduction
<1> QED BY <1>3 DEF T

(* The enumeration of a finite set. *)
LEMMA Enumerated ==
  ASSUME NEW S, IsFiniteSet(S)
  PROVE  LET s == Seqs!SetToSeq(S)
         IN  /\ s \in Seq(S) /\ Len(s) = Cardinality(S) /\ DOMAIN s = 1..Cardinality(S)
             /\ \A i, j \in DOMAIN s : s[i] = s[j] => i = j
             /\ RangeOf(s) = S
<1> DEFINE n == Cardinality(S)
           s == Seqs!SetToSeq(S)
<1>1. n \in Nat /\ ExistsBijection(1..n, S)
  BY FS_CardinalityType
<1>2. PICK b \in Bijection(1..n, S) : TRUE
  BY <1>1 DEF ExistsBijection
<1>3. b \in [1..n -> S] /\ \A i, j \in DOMAIN b : b[i] = b[j] => i = j
  BY <1>2 DEF Bijection, Injection, IsInjective
<1>4. s \in [1..n -> S] /\ \A i, j \in DOMAIN s : s[i] = s[j] => i = j
  <2>1. s = CHOOSE f \in [1..n -> S] : \A i, j \in DOMAIN f : f[i] = f[j] => i = j
    BY DEF Seqs!SetToSeq, Seqs!IsInjective, Seqs!Cardinality, Cardinality
  <2> DEFINE P(f) == f \in [1..n -> S] /\ \A i, j \in DOMAIN f : f[i] = f[j] => i = j
  <2>2. s = CHOOSE f : P(f)
    BY <2>1
  <2>3. P(b)
    BY <1>3
  <2> HIDE DEF s, P
  <2>4. P(s)
    BY <2>2, <2>3
  <2> QED BY <2>4 DEF P
<1> HIDE DEF s, n
<1>5. s \in Seq(S) /\ Len(s) = n /\ DOMAIN s = 1..n
  BY <1>1, <1>4, SeqDef
<1>6. RangeOf(s) = S
  <2> DEFINE T == RangeOf(s)
  <2>1. T \in SUBSET S
    BY <1>4, <1>5 DEF RangeOf
  <2>2. ExistsBijection(1..n, T)
    <3>1. s \in Bijection(1..n, T)
      BY <1>4, <1>5 DEF Bijection, Injection, Surjection, IsInjective, RangeOf
    <3> QED BY <3>1 DEF ExistsBijection
  <2>3. Cardinality(T) = n
    <3>1. IsFiniteSet(1..n) /\ Cardinality(1..n) = n
      BY <1>1, FS_Interval
    <3> QED BY <2>2, <3>1, FS_Bijection
  <2> QED BY <2>1, <2>3, FS_Subset DEF n
<1> QED BY <1>4, <1>5, <1>6 DEF s, n

------------------------------------------------------------------------------
(* Operations a request may log, rows, items of a request. *)

Claiming == {"assert", "supersede", "retract"}
Revising == {"supersede", "retract", "split"}
Linking  == Revising \cup {"derive"}
Stating  == Claiming \cup {"corefer", "split"}

Writable(op) ==
  \/ op.kind = "entity" /\ op.id \in EntityId
  \/ op.kind = "event" /\ op.id \in EventId
  \/ op.kind = "agent" /\ op.id \in AgentId
  \/ op.kind \in Stating \cup {"derive"}

Loggable == {op \in Op : Writable(op)}
Quoted == [source : EventId, words : EntityId \cup {ERASURE_NOTE}]
Row    == [op : Loggable, label : Label, clock : Nat]
Item   == [what : {"op"}, op : Loggable, label : Label]
          \cup [what : {"quote"}, of : AssertionId, quote : Quoted]

(* What there is to know of such an operation. *)
LEMMA Kinds ==
  ASSUME NEW op \in Loggable
  PROVE  /\ op \in Op
         /\ \/ op.kind = "entity" /\ op.id \in EntityId
            \/ op.kind = "event" /\ op.id \in EventId
            \/ op.kind = "agent" /\ op.id \in AgentId
            \/ op.kind = "assert" /\ op.id \in AssertionId /\ op.claim \in Assertion
            \/ /\ op.kind = "derive" /\ op.did \in DerivationId
               /\ op.of \in AssertionId /\ op.ants \in SUBSET Primitive
            \/ /\ op.kind \in {"supersede", "retract"} /\ op.id \in AssertionId
               /\ op.claim \in Assertion /\ op.olds \in Seq(AssertionId) /\ op.did \in DerivationId
            \/ /\ op.kind = "corefer" /\ op.id \in AssertionId
               /\ op.x \in EntityId /\ op.y \in EntityId
            \/ /\ op.kind = "split" /\ op.id \in AssertionId /\ op.cor \in AssertionId
               /\ op.did \in DerivationId
BY DEF Loggable, Writable, Op, Stating, Claiming

(* The engine of a log of such rows. *)
TypedEngine(e) ==
  /\ e = [entities |-> e.entities, events |-> e.events, agents |-> e.agents,
          assertions |-> e.assertions, derivations |-> e.derivations,
          close |-> e.close, corefs |-> e.corefs, contra |-> e.contra]
  /\ e.entities \subseteq EntityId /\ e.events \subseteq EventId
  /\ DOMAIN e.agents \subseteq AgentId
  /\ DOMAIN e.assertions \subseteq AssertionId
  /\ DOMAIN e.derivations \subseteq DerivationId
  /\ DOMAIN e.corefs \subseteq AssertionId
  /\ \A a \in DOMAIN e.assertions : e.assertions[a].subjects \subseteq EntityId

(* The primitive steps of the operations, field by field. *)
LEMMA StatedFields ==
  ASSUME NEW e, TypedEngine(e), NEW id, NEW a
  PROVE  LET f == WithAssertion(e, id, a)
         IN  /\ f = [entities |-> e.entities, events |-> e.events, agents |-> e.agents,
                     assertions |-> Put(e.assertions, id, a), derivations |-> e.derivations,
                     close |-> e.close, corefs |-> e.corefs, contra |-> e.contra]
             /\ DOMAIN f.assertions = DOMAIN e.assertions \cup {id}
             /\ f.assertions[id] = a
             /\ \A b \in DOMAIN e.assertions \ {id} : f.assertions[b] = e.assertions[b]
             /\ id \in AssertionId /\ a.subjects \subseteq EntityId => TypedEngine(f)
<1> DEFINE f == WithAssertion(e, id, a)
           p == Put(e.assertions, id, a)
<1>1. /\ DOMAIN p = DOMAIN e.assertions \cup {id} /\ p[id] = a
      /\ \A b \in DOMAIN e.assertions \ {id} : p[b] = e.assertions[b]
  BY DEF Put
<1> HIDE DEF p
<1>2. f = [entities |-> e.entities, events |-> e.events, agents |-> e.agents,
           assertions |-> p, derivations |-> e.derivations,
           close |-> e.close, corefs |-> e.corefs, contra |-> e.contra]
  <2>1. f = [e EXCEPT !.assertions = p]
    BY DEF WithAssertion, p
  <2> QED BY <2>1 DEF TypedEngine
<1> HIDE DEF f
<1>3. ASSUME id \in AssertionId, a.subjects \subseteq EntityId PROVE TypedEngine(f)
  <2>1. \A b \in DOMAIN p : p[b].subjects \subseteq EntityId
    BY <1>1, <1>3 DEF TypedEngine
  <2> QED BY <1>1, <1>2, <1>3, <2>1 DEF TypedEngine
<1> QED BY <1>1, <1>2, <1>3 DEF f, p

(* What storing a derivation changes (add_derivation, engine/engine.py). *)
LEMMA LinkedFields ==
  ASSUME NEW e, TypedEngine(e), NEW id, NEW d
  PROVE  LET f == WithDerivation(e, id, d)
         IN  /\ f = [entities |-> e.entities, events |-> e.events, agents |-> e.agents,
                     assertions |-> e.assertions, derivations |-> Put(e.derivations, id, d),
                     close |-> e.close, corefs |-> e.corefs, contra |-> e.contra]
             /\ DOMAIN f.derivations = DOMAIN e.derivations \cup {id}
             /\ f.derivations[id] = d
             /\ \A b \in DOMAIN e.derivations \ {id} : f.derivations[b] = e.derivations[b]
             /\ id \in DerivationId => TypedEngine(f)
<1> DEFINE f == WithDerivation(e, id, d)
           p == Put(e.derivations, id, d)
<1>1. /\ DOMAIN p = DOMAIN e.derivations \cup {id} /\ p[id] = d
      /\ \A b \in DOMAIN e.derivations \ {id} : p[b] = e.derivations[b]
  BY DEF Put
<1> HIDE DEF p
<1>2. f = [entities |-> e.entities, events |-> e.events, agents |-> e.agents,
           assertions |-> e.assertions, derivations |-> p,
           close |-> e.close, corefs |-> e.corefs, contra |-> e.contra]
  <2>1. f = [e EXCEPT !.derivations = p]
    BY DEF WithDerivation, p
  <2> QED BY <2>1 DEF TypedEngine
<1> HIDE DEF f
<1>3. ASSUME id \in DerivationId PROVE TypedEngine(f)
  BY <1>1, <1>2, <1>3 DEF TypedEngine
<1> QED BY <1>1, <1>2, <1>3 DEF f, p

(* A change of close times or of declared contradictions. *)
Alike(e, f) ==
  f = [entities |-> e.entities, events |-> e.events, agents |-> e.agents,
       assertions |-> e.assertions, derivations |-> e.derivations,
       close |-> f.close, corefs |-> e.corefs, contra |-> f.contra]

(* It keeps the type of the engine. *)
LEMMA AlikeTyped ==
  ASSUME NEW e, TypedEngine(e), NEW f, Alike(e, f)
  PROVE  TypedEngine(f)
BY DEF Alike, TypedEngine

(* A revision that closes claims is such a change. *)
LEMMA CloseAlike ==
  ASSUME NEW e, TypedEngine(e), NEW olds, NEW t
  PROVE  Alike(e, CloseAll(e, olds, t).eng)
<1> DEFINE p == PutAll(e.close, ClosedByLoop(olds), t)
<1>1. CloseAll(e, olds, t).eng = [e EXCEPT !.close = p]
  BY DEF CloseAll, WithCloses, Result
<1> HIDE DEF p
<1> QED BY <1>1 DEF TypedEngine, Alike

(* So is a declared contradiction. *)
LEMMA NegationAlike ==
  ASSUME NEW r, TypedEngine(r.eng), r = Result(r.eng, r.code), NEW p
  PROVE  LET s == WithNegation(r, p)
         IN  Alike(r.eng, s.eng) /\ s.code = r.code /\ s = Result(s.eng, s.code)
<1> DEFINE e == r.eng
           c == e.contra \cup {{p, Neg[p]}}
<1>1. WithNegation(r, p) \in {r, Result([e EXCEPT !.contra = c], r.code)}
  BY DEF WithNegation
<1> HIDE DEF c
<1>2. Alike(e, e) /\ Alike(e, [e EXCEPT !.contra = c])
  BY DEF TypedEngine, Alike
<1> QED BY <1>1, <1>2 DEF Result

(* An assertion is stored, or refused and nothing changes. *)
LEMMA PutsAssertion ==
  ASSUME NEW e, NEW id, NEW a
  PROVE  LET r == PutAssertion(e, id, a)
         IN  /\ r = Result(r.eng, r.code)
             /\ r.code # "ACCEPTED" => r.eng = e
             /\ r.code = "ACCEPTED" => /\ ~ Known(e, id) /\ a.subjects \subseteq e.entities
                                       /\ r.eng = WithAssertion(e, id, a)
BY DEF PutAssertion, AssertionFault, Result

(* A derivation is stored, or refused and nothing changes. *)
LEMMA AddsDerivation ==
  ASSUME NEW e, NEW id, NEW d
  PROVE  LET r == AddDerivation(e, id, d)
         IN  /\ r = Result(r.eng, r.code)
             /\ r.code # "ACCEPTED" => r.eng = e
             /\ r.code = "ACCEPTED" => /\ ~ Known(e, id) /\ d.consequent \in DOMAIN e.assertions
                                       /\ \A x \in d.antecedents : Known(e, x)
                                       /\ r.eng = WithDerivation(e, id, d)
BY DEF AddDerivation, DerivationFault, Result

(* A revision, accepted or refused at any point. *)
LEMMA Supersedes ==
  ASSUME NEW e, TypedEngine(e), NEW id \in AssertionId, NEW a, a.subjects \subseteq EntityId,
         NEW olds, NEW did \in DerivationId
  PROVE  LET r == Supersede(e, id, a, olds, did)
             f == r.eng
         IN  /\ r = Result(r.eng, r.code)
             /\ TypedEngine(f)
             /\ r.code = "ACCEPTED" =>
                  /\ ~ Known(e, id) /\ ~ Known(e, did) /\ a.subjects \subseteq e.entities
                  /\ RangeOf(olds) \subseteq DOMAIN e.assertions
                  /\ f.entities = e.entities /\ f.events = e.events /\ f.agents = e.agents
                  /\ DOMAIN f.assertions = DOMAIN e.assertions \cup {id}
                  /\ f.assertions[id] = a
                  /\ \A b \in DOMAIN e.assertions : f.assertions[b] = e.assertions[b]
                  /\ DOMAIN f.derivations = DOMAIN e.derivations \cup {did}
                  /\ f.derivations[did] = SupersessionOf(id, olds)
                  /\ \A b \in DOMAIN e.derivations : f.derivations[b] = e.derivations[b]
                  /\ f.corefs = e.corefs
<1> DEFINE fault == SupersedeFault(e, a, olds)
           put   == PutAssertion(e, id, a)
           d     == SupersessionOf(id, olds)
           added == AddDerivation(put.eng, did, d)
           done  == CloseAll(added.eng, olds, a.time)
           r     == Supersede(e, id, a, olds, did)
<1>1. r = IF fault # "ACCEPTED" THEN Result(e, fault)
          ELSE IF put.code # "ACCEPTED" THEN put
          ELSE IF added.code # "ACCEPTED" THEN added
          ELSE done
  BY DEF Supersede
<1>2. fault = "ACCEPTED" => RangeOf(olds) \subseteq DOMAIN e.assertions
  BY DEF SupersedeFault
<1>3. /\ put = Result(put.eng, put.code)
      /\ put.code # "ACCEPTED" => put.eng = e
      /\ put.code = "ACCEPTED" => /\ ~ Known(e, id) /\ a.subjects \subseteq e.entities
                                  /\ put.eng = WithAssertion(e, id, a)
  BY PutsAssertion
<1>4. /\ added = Result(added.eng, added.code)
      /\ added.code # "ACCEPTED" => added.eng = put.eng
      /\ added.code = "ACCEPTED" => /\ ~ Known(put.eng, did)
                                    /\ added.eng = WithDerivation(put.eng, did, d)
  BY AddsDerivation
<1>5. done = Result(done.eng, done.code)
  BY DEF CloseAll, Result
<1> HIDE DEF fault, put, added, done, d, r
<1>6. TypedEngine(put.eng)
  BY <1>3, StatedFields
<1>7. TypedEngine(added.eng)
  BY <1>4, <1>6, LinkedFields
<1>8. Alike(added.eng, done.eng) /\ TypedEngine(done.eng)
  BY <1>7, CloseAlike, AlikeTyped DEF done
<1>9. r = Result(r.eng, r.code) /\ TypedEngine(r.eng)
  BY <1>1, <1>3, <1>4, <1>5, <1>6, <1>7, <1>8 DEF Result
<1>10. ASSUME r.code = "ACCEPTED"
       PROVE  /\ fault = "ACCEPTED" /\ put.code = "ACCEPTED" /\ added.code = "ACCEPTED"
              /\ r.eng = done.eng
  BY <1>1, <1>10 DEF Result
<1>11. ASSUME r.code = "ACCEPTED"
       PROVE  LET f == r.eng
              IN  /\ ~ Known(e, did)
                  /\ f.entities = e.entities /\ f.events = e.events /\ f.agents = e.agents
                  /\ DOMAIN f.assertions = DOMAIN e.assertions \cup {id}
                  /\ f.assertions[id] = a
                  /\ \A b \in DOMAIN e.assertions : f.assertions[b] = e.assertions[b]
                  /\ DOMAIN f.derivations = DOMAIN e.derivations \cup {did}
                  /\ f.derivations[did] = d
                  /\ \A b \in DOMAIN e.derivations : f.derivations[b] = e.derivations[b]
                  /\ f.corefs = e.corefs
  <2>1. /\ put.eng = WithAssertion(e, id, a) /\ ~ Known(e, id)
        /\ added.eng = WithDerivation(put.eng, did, d) /\ ~ Known(put.eng, did)
        /\ r.eng = done.eng
    BY <1>3, <1>4, <1>10, <1>11
  <2> DEFINE g == put.eng
             h == added.eng
             f == r.eng
  <2>2. /\ g.entities = e.entities /\ g.events = e.events /\ g.agents = e.agents
        /\ g.derivations = e.derivations /\ g.corefs = e.corefs
        /\ DOMAIN g.assertions = DOMAIN e.assertions \cup {id}
        /\ g.assertions[id] = a
        /\ \A b \in DOMAIN e.assertions \ {id} : g.assertions[b] = e.assertions[b]
    BY <2>1, StatedFields
  <2>3. /\ h.entities = g.entities /\ h.events = g.events /\ h.agents = g.agents
        /\ h.assertions = g.assertions /\ h.corefs = g.corefs
        /\ DOMAIN h.derivations = DOMAIN g.derivations \cup {did}
        /\ h.derivations[did] = d
        /\ \A b \in DOMAIN g.derivations \ {did} : h.derivations[b] = g.derivations[b]
    BY <1>6, <2>1, LinkedFields
  <2>4. /\ f.entities = h.entities /\ f.events = h.events /\ f.agents = h.agents
        /\ f.assertions = h.assertions /\ f.corefs = h.corefs /\ f.derivations = h.derivations
    BY <1>8, <2>1 DEF Alike
  <2>5. id \notin DOMAIN e.assertions /\ did \notin DOMAIN g.derivations
    BY <2>1 DEF Known
  <2>6. ~ Known(e, did)
    BY <2>1, <2>2 DEF Known
  <2> HIDE DEF g, h, f
  <2> QED BY <2>2, <2>3, <2>4, <2>5, <2>6 DEF f
<1> QED BY <1>2, <1>3, <1>9, <1>10, <1>11 DEF r, d

(* What an operation that states a claim is about. *)
Subjects(e, op) ==
  CASE op.kind \in Claiming  -> op.claim.subjects
    [] op.kind = "corefer"   -> {op.x, op.y}
    [] OTHER                 -> SubjectsOf(e, op.cor)

(* The derivation that an operation records. *)
Link(op) ==
  CASE op.kind = "derive"    -> [consequent |-> op.of, antecedents |-> op.ants,
                                 kind |-> "inference"]
    [] op.kind = "supersede" -> SupersessionOf(op.id, op.olds)
    [] op.kind = "retract"   -> SupersessionOf(op.id, <<op.olds[1]>>)
    [] OTHER                 -> SupersessionOf(op.id, <<op.cor>>)

(* What an accepted operation adds to an engine e. *)
Records(e, f, op) ==
  /\ \A y \in Mentions(op) : ~ Known(e, y)
  /\ op.kind \in Linking => f.derivations[op.did] = Link(op)
  /\ f.entities = e.entities \cup (IF op.kind = "entity" THEN {op.id} ELSE {})
  /\ f.events = e.events \cup (IF op.kind = "event" THEN {op.id} ELSE {})
  /\ DOMAIN f.agents = DOMAIN e.agents \cup (IF op.kind = "agent" THEN {op.id} ELSE {})
  /\ DOMAIN f.assertions = DOMAIN e.assertions \cup (IF op.kind \in Stating THEN {op.id} ELSE {})
  /\ \A a \in DOMAIN e.assertions : f.assertions[a] = e.assertions[a]
  /\ op.kind \in Stating => /\ Subjects(e, op) \subseteq e.entities
                            /\ f.assertions[op.id].subjects = Subjects(e, op)
  /\ DOMAIN f.derivations =
       DOMAIN e.derivations \cup (IF op.kind \in Linking THEN {op.did} ELSE {})
  /\ \A d \in DOMAIN e.derivations : f.derivations[d] = e.derivations[d]
  /\ op.kind \in Revising => f.derivations[op.did].antecedents \subseteq DOMAIN e.assertions
  /\ op.kind = "derive" => /\ op.of \in DOMAIN e.assertions
                           /\ \A x \in op.ants : Known(e, x)
                           /\ f.derivations[op.did].consequent = op.of
                           /\ f.derivations[op.did].antecedents = op.ants
  /\ op.kind = "split" => op.cor \in DOMAIN e.assertions
  /\ DOMAIN f.corefs = DOMAIN e.corefs \cup (IF op.kind = "corefer" THEN {op.id} ELSE {})

(* Applying an operation: what comes back, and what is on record then. *)
LEMMA Applied ==
  ASSUME NEW e, TypedEngine(e), NEW op \in Loggable
  PROVE  LET r == Apply(e, op)
         IN  /\ r = Result(r.eng, r.code)
             /\ TypedEngine(r.eng)
             /\ r.code = "ACCEPTED" => Records(e, r.eng, op)
<1> DEFINE r == Apply(e, op)
           Goal == /\ r = Result(r.eng, r.code)
                   /\ TypedEngine(r.eng)
                   /\ r.code = "ACCEPTED" => Records(e, r.eng, op)
<1>0. e = [entities |-> e.entities, events |-> e.events, agents |-> e.agents,
           assertions |-> e.assertions, derivations |-> e.derivations,
           close |-> e.close, corefs |-> e.corefs, contra |-> e.contra]
  BY DEF TypedEngine
<1>1. CASE op.kind = "entity"
  <2>1. r = PutEntity(e, op.id) /\ op.id \in EntityId
    BY <1>1, Kinds DEF Apply
  <2> DEFINE f == [e EXCEPT !.entities = @ \cup {op.id}]
  <2>2. f = [entities |-> e.entities \cup {op.id}, events |-> e.events, agents |-> e.agents,
             assertions |-> e.assertions, derivations |-> e.derivations,
             close |-> e.close, corefs |-> e.corefs, contra |-> e.contra]
    BY <1>0
  <2>3. r = IF Known(e, op.id) THEN Result(e, "R_MUTATION") ELSE Result(f, "ACCEPTED")
    BY <2>1 DEF PutEntity
  <2> HIDE DEF f, r
  <2>4. TypedEngine(f)
    BY <2>1, <2>2 DEF TypedEngine
  <2>5. ASSUME ~ Known(e, op.id) PROVE Records(e, f, op)
    BY <1>1, <2>2, <2>5 DEF Records, Stating, Claiming, Revising, Linking, Mentions
  <2> QED BY <2>3, <2>4, <2>5 DEF Result, r
<1>2. CASE op.kind = "event"
  <2>1. r = PutEvent(e, op.id) /\ op.id \in EventId
    BY <1>2, Kinds DEF Apply
  <2> DEFINE f == [e EXCEPT !.events = @ \cup {op.id}]
  <2>2. f = [entities |-> e.entities, events |-> e.events \cup {op.id}, agents |-> e.agents,
             assertions |-> e.assertions, derivations |-> e.derivations,
             close |-> e.close, corefs |-> e.corefs, contra |-> e.contra]
    BY <1>0
  <2>3. r = IF Known(e, op.id) THEN Result(e, "R_MUTATION") ELSE Result(f, "ACCEPTED")
    BY <2>1 DEF PutEvent
  <2> HIDE DEF f, r
  <2>4. TypedEngine(f)
    BY <2>1, <2>2 DEF TypedEngine
  <2>5. ASSUME ~ Known(e, op.id) PROVE Records(e, f, op)
    BY <1>2, <2>2, <2>5 DEF Records, Stating, Claiming, Revising, Linking, Mentions
  <2> QED BY <2>3, <2>4, <2>5 DEF Result, r
<1>3. CASE op.kind = "agent"
  <2>1. r = PutAgent(e, op.id, 0) /\ op.id \in AgentId
    BY <1>3, Kinds DEF Apply
  <2> DEFINE p == Put(e.agents, op.id, 0)
             f == [e EXCEPT !.agents = p]
  <2>2. DOMAIN p = DOMAIN e.agents \cup {op.id}
    BY DEF Put
  <2>3. r = IF Known(e, op.id) THEN Result(e, "R_MUTATION") ELSE Result(f, "ACCEPTED")
    BY <2>1 DEF PutAgent
  <2> HIDE DEF p
  <2>4. f = [entities |-> e.entities, events |-> e.events, agents |-> p,
             assertions |-> e.assertions, derivations |-> e.derivations,
             close |-> e.close, corefs |-> e.corefs, contra |-> e.contra]
    BY <1>0
  <2> HIDE DEF f, r
  <2>5. TypedEngine(f)
    BY <2>1, <2>2, <2>4 DEF TypedEngine
  <2>6. ASSUME ~ Known(e, op.id) PROVE Records(e, f, op)
    BY <1>3, <2>2, <2>4, <2>6 DEF Records, Stating, Claiming, Revising, Linking, Mentions
  <2> QED BY <2>3, <2>5, <2>6 DEF Result, r
<1>4. CASE op.kind = "assert"
  <2> DEFINE put == PutAssertion(e, op.id, op.claim)
             f == r.eng
  <2>1. r = WithNegation(put, op.claim.prop)
    BY <1>4 DEF Apply, ApplyAssert
  <2>2. op.id \in AssertionId /\ op.claim.subjects \subseteq EntityId
    BY <1>4, Kinds DEF Assertion
  <2>3. /\ put = Result(put.eng, put.code)
        /\ put.code # "ACCEPTED" => put.eng = e
        /\ put.code = "ACCEPTED" => /\ ~ Known(e, op.id) /\ op.claim.subjects \subseteq e.entities
                                    /\ put.eng = WithAssertion(e, op.id, op.claim)
    BY PutsAssertion
  <2> HIDE DEF put, r
  <2>4. TypedEngine(put.eng)
    BY <2>2, <2>3, StatedFields
  <2>5. Alike(put.eng, f) /\ r.code = put.code /\ r = Result(f, r.code)
    BY <2>1, <2>3, <2>4, NegationAlike
  <2>6. TypedEngine(f)
    BY <2>4, <2>5, AlikeTyped
  <2>7. ASSUME r.code = "ACCEPTED" PROVE Records(e, f, op)
    <3>1. /\ put.eng = WithAssertion(e, op.id, op.claim) /\ op.id \notin DOMAIN e.assertions
          /\ op.claim.subjects \subseteq e.entities /\ ~ Known(e, op.id)
      BY <2>3, <2>5, <2>7 DEF Known
    <3> DEFINE g == put.eng
    <3>2. /\ g.entities = e.entities /\ g.events = e.events /\ g.agents = e.agents
          /\ g.derivations = e.derivations /\ g.corefs = e.corefs
          /\ DOMAIN g.assertions = DOMAIN e.assertions \cup {op.id}
          /\ g.assertions[op.id] = op.claim
          /\ \A b \in DOMAIN e.assertions \ {op.id} : g.assertions[b] = e.assertions[b]
      BY <3>1, StatedFields
    <3>3. /\ f.entities = g.entities /\ f.events = g.events /\ f.agents = g.agents
          /\ f.derivations = g.derivations /\ f.corefs = g.corefs /\ f.assertions = g.assertions
      BY <2>5 DEF Alike
    <3> HIDE DEF f, g
    <3>4. Subjects(e, op) = op.claim.subjects
      BY <1>4 DEF Subjects, Claiming
    <3>5. \A y \in Mentions(op) : ~ Known(e, y)
      BY <1>4, <3>1 DEF Mentions
    <3> QED BY <1>4, <3>1, <3>2, <3>3, <3>4, <3>5 DEF Records, Stating, Claiming, Revising, Linking
  <2> QED BY <2>5, <2>6, <2>7 DEF r
<1>5. CASE op.kind = "derive"
  <2> DEFINE d == [consequent |-> op.of, antecedents |-> op.ants, kind |-> "inference"]
             f == r.eng
  <2>1. r = AddDerivation(e, op.did, d)
    BY <1>5 DEF Apply, Derive
  <2>2. /\ r = Result(f, r.code)
        /\ r.code # "ACCEPTED" => f = e
        /\ r.code = "ACCEPTED" => /\ ~ Known(e, op.did) /\ d.consequent \in DOMAIN e.assertions
                                  /\ \A x \in d.antecedents : Known(e, x)
                                  /\ f = WithDerivation(e, op.did, d)
    BY <2>1, AddsDerivation
  <2>3. op.did \in DerivationId
    BY <1>5, Kinds
  <2>4. d.consequent = op.of /\ d.antecedents = op.ants /\ d = Link(op) /\ Mentions(op) = {op.did}
    BY <1>5 DEF Link, Mentions
  <2> HIDE DEF d, r, f
  <2>5. TypedEngine(f)
    BY <2>2, <2>3, LinkedFields
  <2>6. ASSUME r.code = "ACCEPTED" PROVE Records(e, f, op)
    <3>1. /\ f.entities = e.entities /\ f.events = e.events /\ f.agents = e.agents
          /\ f.assertions = e.assertions /\ f.corefs = e.corefs
          /\ DOMAIN f.derivations = DOMAIN e.derivations \cup {op.did}
          /\ f.derivations[op.did] = d
          /\ \A b \in DOMAIN e.derivations \ {op.did} : f.derivations[b] = e.derivations[b]
      BY <2>2, <2>6, LinkedFields
    <3>2. op.did \notin DOMAIN e.derivations
      BY <2>2, <2>6 DEF Known
    <3> QED BY <1>5, <2>2, <2>4, <2>6, <3>1, <3>2 DEF Records, Stating, Claiming, Revising, Linking
  <2> QED BY <2>2, <2>5, <2>6 DEF f, r
<1>6. CASE op.kind \in Revising
  <2> DEFINE claim == [agent |-> op.claim.agent, subjects |-> op.claim.subjects,
                       prop |-> RETRACTED, time |-> op.claim.time]
             merge == [agent |-> op.agent, subjects |-> SubjectsOf(e, op.cor),
                       prop |-> RETRACTED, time |-> op.time]
             a == CASE op.kind = "supersede" -> op.claim [] op.kind = "retract" -> claim
                    [] OTHER -> merge
             olds == CASE op.kind = "supersede" -> op.olds [] op.kind = "retract" -> <<op.olds[1]>>
                       [] OTHER -> <<op.cor>>
             s == Supersede(e, op.id, a, olds, op.did)
             f == r.eng
  <2>1. /\ op.kind = "supersede" => r = WithNegation(s, op.claim.prop)
        /\ op.kind # "supersede" => r = s
    <3>1. CASE op.kind = "supersede"
      BY <3>1 DEF Apply, ApplySupersede
    <3>2. CASE op.kind = "retract"
      BY <3>2 DEF Apply, Retract
    <3>3. CASE op.kind = "split"
      BY <3>3 DEF Apply, Retract, Split
    <3> QED BY <1>6, <3>1, <3>2, <3>3 DEF Revising
  <2>2. op.id \in AssertionId /\ op.did \in DerivationId
    BY <1>6, Kinds DEF Revising
  <2>3. a.subjects = Subjects(e, op) /\ a.subjects \subseteq EntityId
    <3>1. CASE op.kind \in {"supersede", "retract"}
      BY <3>1, Kinds DEF Subjects, Claiming, Assertion
    <3>2. CASE op.kind = "split"
      BY <3>2 DEF Subjects, Claiming, SubjectsOf, TypedEngine
    <3> QED BY <1>6, <3>1, <3>2 DEF Revising
  <2>4. op.kind = "split" => op.cor \in RangeOf(olds)
    BY DEF RangeOf
  <2>d. SupersessionOf(op.id, olds) = Link(op) /\ Mentions(op) = {op.id, op.did}
    BY <1>6 DEF Link, Mentions, Revising
  <2> HIDE DEF a, olds, r
  <2>5. /\ s = Result(s.eng, s.code)
        /\ TypedEngine(s.eng)
        /\ s.code = "ACCEPTED" =>
                  /\ ~ Known(e, op.id) /\ ~ Known(e, op.did) /\ a.subjects \subseteq e.entities
                  /\ RangeOf(olds) \subseteq DOMAIN e.assertions
                  /\ s.eng.entities = e.entities /\ s.eng.events = e.events
                  /\ s.eng.agents = e.agents
                  /\ DOMAIN s.eng.assertions = DOMAIN e.assertions \cup {op.id}
                  /\ s.eng.assertions[op.id] = a
                  /\ \A b \in DOMAIN e.assertions : s.eng.assertions[b] = e.assertions[b]
                  /\ DOMAIN s.eng.derivations = DOMAIN e.derivations \cup {op.did}
                  /\ s.eng.derivations[op.did] = SupersessionOf(op.id, olds)
                  /\ \A b \in DOMAIN e.derivations : s.eng.derivations[b] = e.derivations[b]
                  /\ s.eng.corefs = e.corefs
    BY <2>2, <2>3, Supersedes
  <2>6. SupersessionOf(op.id, olds).antecedents = RangeOf(olds)
    BY DEF SupersessionOf
  <2> HIDE DEF s
  <2>7. Alike(s.eng, f) /\ r.code = s.code /\ r = Result(f, r.code)
    <3>1. CASE op.kind = "supersede"
      BY <2>1, <2>5, <3>1, NegationAlike
    <3>2. CASE op.kind # "supersede"
      BY <2>1, <2>5, <3>2 DEF Alike, TypedEngine
    <3> QED BY <3>1, <3>2
  <2>8. TypedEngine(f)
    BY <2>5, <2>7, AlikeTyped
  <2>9. ASSUME r.code = "ACCEPTED" PROVE Records(e, f, op)
    <3>1. /\ f.entities = s.eng.entities /\ f.events = s.eng.events /\ f.agents = s.eng.agents
          /\ f.derivations = s.eng.derivations /\ f.corefs = s.eng.corefs
          /\ f.assertions = s.eng.assertions
      BY <2>7 DEF Alike
    <3>2. s.code = "ACCEPTED"
      BY <2>7, <2>9
    <3>3. /\ op.kind \in Stating /\ op.kind \notin {"entity", "event", "agent", "corefer", "derive"}
      BY <1>6 DEF Revising, Stating, Claiming
    <3>4. \A y \in Mentions(op) : ~ Known(e, y)
      BY <2>5, <2>d, <3>2
    <3> HIDE DEF f
    <3>5. op.kind \in Linking
      BY <1>6 DEF Linking
    <3> QED BY <1>6, <2>3, <2>4, <2>5, <2>6, <2>d, <3>1, <3>2, <3>3, <3>4, <3>5 DEF Records
  <2> QED BY <2>7, <2>8, <2>9 DEF r
<1>7. CASE op.kind = "corefer"
  <2> DEFINE a == [agent |-> op.agent, subjects |-> {op.x, op.y}, prop |-> COREF, time |-> op.time]
             put == PutAssertion(e, op.id, a)
             p == Put(put.eng.corefs, op.id, {op.x, op.y})
             f == [put.eng EXCEPT !.corefs = p]
  <2>1. r = IF put.code # "ACCEPTED" THEN put ELSE Result(f, "ACCEPTED")
    BY <1>7 DEF Apply, Corefer
  <2>2. op.id \in AssertionId /\ {op.x, op.y} \subseteq EntityId
    BY <1>7, Kinds
  <2>3. a.subjects = {op.x, op.y}
    OBVIOUS
  <2> HIDE DEF a
  <2>4. /\ put = Result(put.eng, put.code)
        /\ put.code # "ACCEPTED" => put.eng = e
        /\ put.code = "ACCEPTED" => /\ ~ Known(e, op.id) /\ a.subjects \subseteq e.entities
                                    /\ put.eng = WithAssertion(e, op.id, a)
    BY PutsAssertion
  <2> HIDE DEF put, r
  <2>5. DOMAIN p = DOMAIN put.eng.corefs \cup {op.id}
    BY DEF Put
  <2>6. TypedEngine(put.eng)
    BY <2>2, <2>3, <2>4, StatedFields
  <2> HIDE DEF p
  <2>7. f = [entities |-> put.eng.entities, events |-> put.eng.events, agents |-> put.eng.agents,
             assertions |-> put.eng.assertions, derivations |-> put.eng.derivations,
             close |-> put.eng.close, corefs |-> p, contra |-> put.eng.contra]
    BY <2>6 DEF TypedEngine
  <2> HIDE DEF f
  <2>8. TypedEngine(f)
    BY <2>2, <2>5, <2>6, <2>7 DEF TypedEngine
  <2>9. ASSUME put.code = "ACCEPTED" PROVE Records(e, f, op)
    <3>1. /\ put.eng.entities = e.entities /\ put.eng.events = e.events
          /\ put.eng.agents = e.agents
          /\ put.eng.derivations = e.derivations /\ put.eng.corefs = e.corefs
          /\ DOMAIN put.eng.assertions = DOMAIN e.assertions \cup {op.id}
          /\ put.eng.assertions[op.id] = a
          /\ \A b \in DOMAIN e.assertions \ {op.id} : put.eng.assertions[b] = e.assertions[b]
      BY <2>4, <2>9, StatedFields
    <3>2. op.id \notin DOMAIN e.assertions
      BY <2>4, <2>9 DEF Known
    <3>3. Subjects(e, op) = {op.x, op.y}
      BY <1>7 DEF Subjects, Claiming
    <3>4. \A y \in Mentions(op) : ~ Known(e, y)
      BY <1>7, <2>4, <2>9 DEF Mentions
    <3> QED BY <1>7, <2>3, <2>4, <2>5, <2>7, <2>9, <3>1, <3>2, <3>3, <3>4
            DEF Records, Stating, Claiming, Revising, Linking
  <2> QED BY <2>1, <2>4, <2>6, <2>8, <2>9 DEF Result, r
<1>8. op.kind \in {"entity", "event", "agent", "assert", "derive", "corefer"} \cup Revising
  BY Kinds DEF Revising
<1> QED BY <1>1, <1>2, <1>3, <1>4, <1>5, <1>6, <1>7, <1>8

------------------------------------------------------------------------------
(* A log and the engine it replays into. *)

OpsIn(l) == {l[i].op : i \in DOMAIN l}

(* The operations O account for all of e, and e for all of them. *)
Fits(e, O) ==
  /\ \A x \in e.entities : \E op \in O : op.kind = "entity" /\ op.id = x
  /\ \A a \in DOMAIN e.assertions : /\ e.assertions[a].subjects \subseteq e.entities
                                    /\ \E op \in O : op.kind \in Stating /\ op.id = a
  /\ \A op \in O : op.kind \in Stating =>
        op.id \in DOMAIN e.assertions /\ e.assertions[op.id].subjects = Subjects(e, op)
  /\ \A op \in O : op.kind = "split" => op.cor \in DOMAIN e.assertions
  /\ \A op \in O : op.kind = "derive" =>
        op.of \in DOMAIN e.assertions /\ \A x \in op.ants : Known(e, x)
  /\ \A d \in DOMAIN e.derivations :
        \/ e.derivations[d].antecedents \subseteq DOMAIN e.assertions
        \/ \E op \in O : /\ op.kind = "derive" /\ op.of = e.derivations[d].consequent
                         /\ op.ants = e.derivations[d].antecedents
  /\ \A c \in DOMAIN e.corefs : \E op \in O : op.kind = "corefer" /\ op.id = c
  /\ \A y : Known(e, y) => \E op \in O : y \in Mentions(op)

(* The derivation of an operation, field by field. *)
LEMMA LinkIs ==
  ASSUME NEW op \in Loggable, op.kind \in Linking
  PROVE  /\ op.kind = "derive" => /\ Link(op).consequent = op.of /\ Link(op).antecedents = op.ants
                                  /\ Link(op).kind = "inference"
         /\ op.kind \in Revising => Link(op).consequent = op.id /\ Link(op).kind = "supersession"
         /\ op.kind = "supersede" => Link(op).antecedents = RangeOf(op.olds)
         /\ op.kind = "retract" => Link(op).antecedents = {op.olds[1]}
         /\ op.kind = "split" => Link(op).antecedents = {op.cor}
<1>1. \A y : RangeOf(<<y>>) = {y}
  BY DEF RangeOf
<1> QED BY <1>1 DEF Link, SupersessionOf, Linking, Revising

(* What a row of such a log puts on record. *)
LEMMA MentionsIs ==
  ASSUME NEW op \in Loggable
  PROVE  /\ Mentions(op) # {}
         /\ op.kind \in Stating \cup {"entity", "event", "agent"} => op.id \in Mentions(op)
         /\ op.kind \in Linking => op.did \in Mentions(op)
         /\ op.kind \in {"entity", "event", "agent", "assert", "corefer"} => Mentions(op) = {op.id}
         /\ op.kind = "derive" => Mentions(op) = {op.did}
         /\ op.kind \in Revising => Mentions(op) = {op.id, op.did}
BY Kinds DEF Mentions, Stating, Claiming, Linking, Revising

(* What an operation put on record is there. *)
OnRecord(e, op) ==
  /\ \A y \in Mentions(op) : Known(e, y)
  /\ op.kind = "entity" => op.id \in e.entities
  /\ op.kind = "event" => op.id \in e.events
  /\ op.kind = "agent" => op.id \in DOMAIN e.agents
  /\ op.kind \in Linking =>
        op.did \in DOMAIN e.derivations /\ e.derivations[op.did] = Link(op)
  /\ op.kind \in Revising => Link(op).antecedents \subseteq DOMAIN e.assertions

(* The first n rows of l, one by one, account for e: what a row puts on     *)
(* record no other does, and a merge is undone after the row of its claim.  *)
Accounted(e, l, n) ==
  /\ \A i \in 1..n : OnRecord(e, l[i].op)
  /\ \A i, j \in 1..n : i < j => Mentions(l[i].op) \cap Mentions(l[j].op) = {}
  /\ \A i \in 1..n : l[i].op.kind = "split" =>
        \E j \in 1..n : j < i /\ l[j].op.kind \in Stating /\ l[j].op.id = l[i].op.cor

(* One accepted operation more is on record beside those before it. *)
LEMMA AccountedMore ==
  ASSUME NEW e, NEW f, NEW l, NEW n \in Nat, Accounted(e, l, n),
         Fits(e, {l[i].op : i \in 1..n}), l[n + 1].op \in Loggable, Records(e, f, l[n + 1].op)
  PROVE  Accounted(f, l, n + 1)
<1> DEFINE op == l[n + 1].op
<1>1. 1..(n + 1) = (1..n) \cup {n + 1} /\ \A i \in 1..n : i < n + 1 /\ i # n + 1
  OBVIOUS
<1>2. Records(e, f, op) /\ op \in Loggable
  OBVIOUS
<1> HIDE DEF op
<1>3. \A y : Known(e, y) => Known(f, y)
  BY <1>2 DEF Known, Records
<1>4. ASSUME NEW o, OnRecord(e, o) PROVE OnRecord(f, o)
  BY <1>2, <1>3, <1>4 DEF OnRecord, Records
<1>5. OnRecord(f, op)
  <2>1. \A y \in Mentions(op) : Known(f, y)
    <3>1. op.kind \in Stating \cup {"entity", "event", "agent"} => Known(f, op.id)
      BY <1>2 DEF Records, Known
    <3>2. op.kind \in Linking => Known(f, op.did)
      BY <1>2 DEF Records, Known, Linking
    <3> QED BY <1>2, <3>1, <3>2, Kinds, MentionsIs DEF Stating, Claiming, Revising, Linking
  <2>2. op.kind \in Linking => op.did \in DOMAIN f.derivations /\ f.derivations[op.did] = Link(op)
    BY <1>2 DEF Records
  <2>3. op.kind \in Revising => Link(op).antecedents \subseteq DOMAIN f.assertions
    BY <1>2, <2>2 DEF Records, Linking
  <2>4. /\ op.kind = "entity" => op.id \in f.entities
        /\ op.kind = "event" => op.id \in f.events
        /\ op.kind = "agent" => op.id \in DOMAIN f.agents
    BY <1>2 DEF Records
  <2> QED BY <2>1, <2>2, <2>3, <2>4 DEF OnRecord
<1>6. \A i \in 1..(n + 1) : OnRecord(f, l[i].op)
  BY <1>1, <1>4, <1>5 DEF Accounted, op
<1>7. \A i \in 1..n : Mentions(l[i].op) \cap Mentions(op) = {}
  BY <1>2 DEF Accounted, OnRecord, Records
<1>8. \A i, j \in 1..(n + 1) : i < j => Mentions(l[i].op) \cap Mentions(l[j].op) = {}
  <2> SUFFICES ASSUME NEW i \in 1..(n + 1), NEW j \in 1..(n + 1), i < j
               PROVE  Mentions(l[i].op) \cap Mentions(l[j].op) = {}
    OBVIOUS
  <2>1. i \in 1..n
    OBVIOUS
  <2>2. CASE j \in 1..n
    BY <2>1, <2>2 DEF Accounted
  <2>3. CASE j = n + 1
    BY <1>7, <2>1, <2>3 DEF op
  <2> QED BY <1>1, <2>2, <2>3
<1>9. ASSUME NEW i \in 1..(n + 1), l[i].op.kind = "split"
      PROVE  \E j \in 1..(n + 1) : j < i /\ l[j].op.kind \in Stating /\ l[j].op.id = l[i].op.cor
  <2>1. CASE i \in 1..n
    BY <1>1, <1>9, <2>1 DEF Accounted
  <2>2. CASE i = n + 1
    <3>1. op.cor \in DOMAIN e.assertions
      BY <1>2, <1>9, <2>2 DEF Records, op
    <3>2. PICK j \in 1..n : l[j].op.kind \in Stating /\ l[j].op.id = op.cor
      BY <3>1 DEF Fits
    <3> QED BY <1>1, <2>2, <3>2 DEF op
  <2> QED BY <1>1, <2>1, <2>2
<1> QED BY <1>6, <1>8, <1>9 DEF Accounted

(* One accepted operation more. *)
LEMMA FitsMore ==
  ASSUME NEW e, NEW f, NEW O, NEW op \in Loggable, Fits(e, O), Records(e, f, op)
  PROVE  Fits(f, O \cup {op})
<1> DEFINE Q == O \cup {op}
<1>0. /\ \A y : Known(e, y) => Known(f, y)
      /\ \A a \in DOMAIN e.assertions : a \in DOMAIN f.assertions /\ f.assertions[a] = e.assertions[a]
      /\ e.entities \subseteq f.entities
  BY DEF Known, Records
<1>2. \A x \in f.entities : \E o \in Q : o.kind = "entity" /\ o.id = x
  BY DEF Records, Fits
<1>3. \A a \in DOMAIN f.assertions : /\ f.assertions[a].subjects \subseteq f.entities
                                     /\ \E o \in Q : o.kind \in Stating /\ o.id = a
  <2> TAKE a \in DOMAIN f.assertions
  <2>1. CASE a \in DOMAIN e.assertions
    BY <1>0, <2>1 DEF Fits
  <2>2. CASE op.kind \in Stating /\ a = op.id
    BY <1>0, <2>2 DEF Records
  <2> QED BY <2>1, <2>2 DEF Records
<1>4. \A o \in Q : o.kind = "split" => o.cor \in DOMAIN e.assertions
  BY DEF Records, Fits
<1>5. \A o \in Q : o.kind \in Stating => Subjects(f, o) = Subjects(e, o)
  BY <1>0, <1>4 DEF Subjects, SubjectsOf, Stating
<1>6. \A o \in Q : o.kind \in Stating =>
        o.id \in DOMAIN f.assertions /\ f.assertions[o.id].subjects = Subjects(f, o)
  <2> TAKE o \in Q
  <2>1. CASE o \in O
    BY <1>0, <1>5, <2>1 DEF Fits
  <2>2. CASE o = op
    BY <1>5, <2>2 DEF Records
  <2> QED BY <2>1, <2>2
<1>7. \A o \in Q : o.kind = "split" => o.cor \in DOMAIN f.assertions
  BY <1>0, <1>4
<1>8. \A o \in Q : o.kind = "derive" =>
        o.of \in DOMAIN f.assertions /\ \A x \in o.ants : Known(f, x)
  <2> TAKE o \in Q
  <2>1. CASE o \in O
    BY <1>0, <2>1 DEF Fits
  <2>2. CASE o = op
    BY <1>0, <2>2 DEF Records
  <2> QED BY <2>1, <2>2
<1>9. \A d \in DOMAIN f.derivations :
        \/ f.derivations[d].antecedents \subseteq DOMAIN f.assertions
        \/ \E o \in Q : /\ o.kind = "derive" /\ o.of = f.derivations[d].consequent
                        /\ o.ants = f.derivations[d].antecedents
  <2> TAKE d \in DOMAIN f.derivations
  <2>1. CASE d \in DOMAIN e.derivations
    <3>1. f.derivations[d] = e.derivations[d]
      BY <2>1 DEF Records
    <3> QED BY <1>0, <2>1, <3>1 DEF Fits
  <2>2. CASE d \notin DOMAIN e.derivations
    <3>1. op.kind \in Linking /\ d = op.did
      BY <2>2 DEF Records
    <3>2. CASE op.kind = "derive"
      BY <3>1, <3>2 DEF Records
    <3>3. CASE op.kind \in Revising
      BY <1>0, <3>1, <3>3 DEF Records
    <3> QED BY <3>1, <3>2, <3>3 DEF Linking
  <2> QED BY <2>1, <2>2
<1>10. \A c \in DOMAIN f.corefs : \E o \in Q : o.kind = "corefer" /\ o.id = c
  BY DEF Records, Fits
<1>11. ASSUME NEW y, Known(f, y) PROVE \E o \in Q : y \in Mentions(o)
  <2>1. CASE Known(e, y)
    BY <2>1 DEF Fits
  <2>2. CASE ~ Known(e, y)
    <3>1. \/ op.kind \in {"entity", "event", "agent"} \cup Stating /\ y = op.id
          \/ op.kind \in Linking /\ y = op.did
      BY <1>11, <2>2 DEF Known, Records
    <3>2. y \in Mentions(op)
      BY <3>1 DEF Mentions, Stating, Claiming, Revising, Linking
    <3> QED BY <3>2
  <2> QED BY <2>1, <2>2
<1> QED BY <1>2, <1>3, <1>6, <1>7, <1>8, <1>9, <1>10, <1>11 DEF Fits

(* What a log replays into, refused or not. *)
LEMMA Replayed ==
  ASSUME NEW l \in Seq(Row)
  PROVE  LET r == Replay(l)
         IN  /\ r = Result(r.eng, r.code)
             /\ TypedEngine(r.eng)
             /\ r.code = "ACCEPTED" => Fits(r.eng, OpsIn(l)) /\ Accounted(r.eng, l, Len(l))
<1>1. PICK g : Runs(g, l)
  BY RunsExists
<1>2. Replay(l) = g[Len(l)]
  BY <1>1, ReplayRuns
<1>3. DOMAIN l = 1..Len(l) /\ Len(l) \in Nat /\ \A i \in 1..Len(l) : l[i].op \in Loggable
  <2>1. DOMAIN l = 1..Len(l) /\ Len(l) \in Nat /\ \A i \in 1..Len(l) : l[i] \in Row
    BY LenProperties, ElementOfSeq
  <2> QED BY <2>1 DEF Row
<1> DEFINE OpsTo(n) == {l[i].op : i \in 1..n}
           P(n) == /\ g[n] = Result(g[n].eng, g[n].code)
                   /\ TypedEngine(g[n].eng)
                   /\ g[n].code = "ACCEPTED" => Fits(g[n].eng, OpsTo(n)) /\ Accounted(g[n].eng, l, n)
           T == {n \in Nat : n <= Len(l) => P(n)}
<1> HIDE DEF P
<1>4. 0 \in T
  <2>1. g[0] = Result(NewEngine, "ACCEPTED")
    BY <1>1 DEF Runs
  <2>2. TypedEngine(NewEngine)
    BY DEF TypedEngine, NewEngine, EmptyDict
  <2>3. OpsTo(0) = {}
    OBVIOUS
  <2>4. \A y : ~ Known(NewEngine, y)
    BY DEF Known, NewEngine, EmptyDict
  <2>5. Fits(NewEngine, {})
    BY <2>4 DEF Fits, NewEngine, EmptyDict
  <2> HIDE DEF OpsTo
  <2>6. g[0].eng = NewEngine /\ g[0].code = "ACCEPTED"
    BY <2>1 DEF Result
  <2>7. Accounted(NewEngine, l, 0)
    BY DEF Accounted
  <2>8. P(0)
    BY <2>1, <2>2, <2>3, <2>5, <2>6, <2>7 DEF P
  <2> QED BY <2>8
<1>5. ASSUME NEW n \in Nat, n \in T PROVE n + 1 \in T
  <2> SUFFICES ASSUME n + 1 <= Len(l) PROVE P(n + 1)
    OBVIOUS
  <2> DEFINE r == g[n]
             op == l[n + 1].op
             s == Apply(r.eng, op)
  <2>1. P(n)
    BY <1>3, <1>5
  <2>2. g[n + 1] = After(r, l[n + 1])
    <3>1. n + 1 \in 1..Len(l) /\ (n + 1) - 1 = n
      BY <1>3
    <3> QED BY <1>1, <3>1 DEF Runs
  <2>3. OpsTo(n + 1) = OpsTo(n) \cup {op}
    <3>1. 1..(n + 1) = (1..n) \cup {n + 1}
      OBVIOUS
    <3> QED BY <3>1
  <2>4. op \in Loggable
    BY <1>3
  <2>5. /\ s = Result(s.eng, s.code) /\ TypedEngine(s.eng)
        /\ s.code = "ACCEPTED" => Records(r.eng, s.eng, op)
    BY <2>1, <2>4, Applied DEF P
  <2>6. CASE r.code = "ACCEPTED"
    <3>1. g[n + 1] = s
      BY <2>2, <2>6 DEF After
    <3>2. s.code = "ACCEPTED" => Fits(s.eng, OpsTo(n) \cup {op})
      <4> HIDE DEF s, r, op, OpsTo
      <4> QED BY <2>1, <2>4, <2>5, <2>6, FitsMore DEF r, P
    <3>3. s.code = "ACCEPTED" => Accounted(s.eng, l, n + 1)
      <4>1. Fits(r.eng, {l[i].op : i \in 1..n}) /\ Accounted(r.eng, l, n)
        BY <2>1, <2>6 DEF P
      <4>2. s.code = "ACCEPTED" => Records(r.eng, s.eng, l[n + 1].op)
        BY <2>5
      <4> HIDE DEF s, r, op, OpsTo
      <4> QED BY <2>4, <4>1, <4>2, AccountedMore DEF op
    <3> HIDE DEF s, OpsTo
    <3> QED BY <2>3, <2>5, <3>1, <3>2, <3>3 DEF P
  <2>7. CASE r.code # "ACCEPTED"
    <3>1. g[n + 1] = r
      BY <2>2, <2>7 DEF After
    <3> HIDE DEF OpsTo
    <3> QED BY <2>1, <2>7, <3>1 DEF P
  <2> QED BY <2>6, <2>7
<1> HIDE DEF T
<1>6. Len(l) \in T
  BY <1>3, <1>4, <1>5, SetInduction
<1>7. OpsTo(Len(l)) = OpsIn(l)
  BY <1>3 DEF OpsIn
<1>8. P(Len(l))
  BY <1>3, <1>6 DEF T
<1> HIDE DEF OpsTo
<1> QED BY <1>2, <1>7, <1>8 DEF P

------------------------------------------------------------------------------
(* A refused operation changes nothing, if its ids are new. *)

Apart(s) == \A i, j \in DOMAIN s : s[i] = s[j] => i = j

(* A known id of an assertion is one of an assertion. *)
LEMMA KnownClaim ==
  ASSUME NEW e, TypedEngine(e), NEW y \in AssertionId, Known(e, y)
  PROVE  y \in DOMAIN e.assertions
BY IdAssumption DEF Known, TypedEngine

(* A known id of an entity is one of an entity. *)
LEMMA KnownEntity ==
  ASSUME NEW e, TypedEngine(e), NEW y \in EntityId, Known(e, y)
  PROVE  y \in e.entities
BY IdAssumption DEF Known, TypedEngine

(* Once its claim is stored, a revision with a new link id goes through. *)
LEMMA RevisionLinks ==
  ASSUME NEW e, TypedEngine(e), NEW O, Fits(e, O), NEW id \in AssertionId, NEW a,
         ~ Known(e, id), NEW S, NEW olds \in Seq(S), olds # <<>>,
         RangeOf(olds) \subseteq DOMAIN e.assertions, NEW did \in DerivationId, ~ Known(e, did)
  PROVE  AddDerivation(WithAssertion(e, id, a), did, SupersessionOf(id, olds)).code = "ACCEPTED"
<1> DEFINE f == WithAssertion(e, id, a)
           d == SupersessionOf(id, olds)
           D == DOMAIN e.assertions
<1>1. /\ f.entities = e.entities /\ f.events = e.events /\ f.agents = e.agents
      /\ f.derivations = e.derivations /\ DOMAIN f.assertions = D \cup {id}
  BY StatedFields
<1>2. d.consequent = id /\ d.antecedents = RangeOf(olds)
  BY DEF SupersessionOf
<1>3. D \subseteq AssertionId /\ id \notin D
  BY DEF TypedEngine, Known
<1> HIDE DEF f, d
<1>4. ~ Known(f, did)
  <2>1. did # id
    BY IdAssumption
  <2> QED BY <1>1, <2>1 DEF Known
<1>5. d.antecedents # {}
  <2>1. Len(olds) \in Nat /\ Len(olds) # 0 /\ DOMAIN olds = 1..Len(olds)
    BY LenProperties, EmptySeq
  <2>2. 1 \in DOMAIN olds
    BY <2>1
  <2> QED BY <1>2, <2>2 DEF RangeOf
<1>6. \A x \in d.antecedents : Known(f, x)
  BY <1>1, <1>2 DEF Known
<1>7. ASSUME NEW c \in D PROVE Antecedents(f, c) \cap AssertionId \subseteq D
  <2> SUFFICES ASSUME NEW x \in Antecedents(f, c), x \in AssertionId PROVE x \in D
    OBVIOUS
  <2>1. PICK k \in DOMAIN e.derivations : x \in e.derivations[k].antecedents
    BY <1>1 DEF Antecedents
  <2>2. CASE e.derivations[k].antecedents \subseteq D
    BY <2>1, <2>2
  <2>3. CASE \E op \in O : op.kind = "derive" /\ op.ants = e.derivations[k].antecedents
    BY <2>1, <2>3, KnownClaim DEF Fits
  <2> QED BY <2>2, <2>3 DEF Fits
<1>8. ~ WouldCycle(f, d)
  <2>1. d.antecedents \cap AssertionId \subseteq D /\ Closed(f, D) /\ D \in SUBSET AssertionId
    BY <1>2, <1>3, <1>7 DEF Closed
  <2>2. id \notin ReachedAssertions(f, d.antecedents)
    BY <1>3, <2>1 DEF ReachedAssertions
  <2> QED BY <1>2, <2>2 DEF WouldCycle
<1> QED BY <1>1, <1>2, <1>4, <1>5, <1>6, <1>8 DEF AddDerivation, DerivationFault, Result, f, d

(* A refused revision leaves no claim behind: the fault is found first. *)
LEMMA RevisionRefused ==
  ASSUME NEW e, TypedEngine(e), NEW O, Fits(e, O), NEW id \in AssertionId, NEW a,
         NEW S, NEW olds \in Seq(S), Apart(olds),
         NEW did \in DerivationId, ~ Known(e, did),
         Supersede(e, id, a, olds, did).code # "ACCEPTED"
  PROVE  Supersede(e, id, a, olds, did).eng = e
<1> DEFINE fault == SupersedeFault(e, a, olds)
           put   == PutAssertion(e, id, a)
           d     == SupersessionOf(id, olds)
           added == AddDerivation(put.eng, did, d)
           done  == CloseAll(added.eng, olds, a.time)
           r     == Supersede(e, id, a, olds, did)
<1>1. r = IF fault # "ACCEPTED" THEN Result(e, fault)
          ELSE IF put.code # "ACCEPTED" THEN put
          ELSE IF added.code # "ACCEPTED" THEN added
          ELSE done
  BY DEF Supersede
<1>2. done.code = "ACCEPTED"
  BY DEF CloseAll, Result, Apart
<1>3. fault = "ACCEPTED" => olds # <<>> /\ RangeOf(olds) \subseteq DOMAIN e.assertions
  BY DEF SupersedeFault
<1>4. /\ put.code # "ACCEPTED" => put.eng = e
      /\ put.code = "ACCEPTED" => ~ Known(e, id) /\ put.eng = WithAssertion(e, id, a)
  BY PutsAssertion
<1>5. fault = "ACCEPTED" /\ put.code = "ACCEPTED" => added.code = "ACCEPTED"
  BY <1>3, <1>4, RevisionLinks
<1> HIDE DEF fault, put, added, done, r
<1> QED BY <1>1, <1>2, <1>4, <1>5 DEF Result, r

(* A refused operation that is ready (new link, no claim twice) changes nothing. *)
LEMMA Refused ==
  ASSUME NEW e, TypedEngine(e), NEW O, Fits(e, O), NEW op \in Loggable,
         op.kind \in Revising => ~ Known(e, op.did),
         op.kind = "supersede" => Apart(op.olds),
         Apply(e, op).code # "ACCEPTED"
  PROVE  Apply(e, op).eng = e
<1>1. CASE op.kind \in {"entity", "event", "agent"}
  BY <1>1 DEF Apply, PutEntity, PutEvent, PutAgent, Result
<1>2. CASE op.kind = "assert"
  <2>1. Apply(e, op) = WithNegation(PutAssertion(e, op.id, op.claim), op.claim.prop)
    BY <1>2 DEF Apply, ApplyAssert
  <2> QED BY <2>1, PutsAssertion DEF WithNegation, Result
<1>3. CASE op.kind = "derive"
  BY <1>3, AddsDerivation DEF Apply, Derive
<1>4. CASE op.kind = "corefer"
  BY <1>4, PutsAssertion DEF Apply, Corefer, Result
<1>5. CASE op.kind = "supersede"
  <2> DEFINE s == Supersede(e, op.id, op.claim, op.olds, op.did)
  <2>1. Apply(e, op) = WithNegation(s, op.claim.prop)
    BY <1>5 DEF Apply, ApplySupersede
  <2>2. op.id \in AssertionId /\ op.olds \in Seq(AssertionId) /\ op.did \in DerivationId
    BY <1>5, Kinds
  <2>3. op.did \in DerivationId /\ ~ Known(e, op.did) /\ Apart(op.olds)
    BY <1>5, <2>2 DEF Revising
  <2>4. s.code # "ACCEPTED" => s.eng = e
    <3> HIDE <2>1
    <3> QED BY <2>2, <2>3, RevisionRefused
  <2> HIDE DEF s
  <2>5. s.code # "ACCEPTED" /\ Apply(e, op) = s
    BY <2>1 DEF WithNegation, Result
  <2> QED BY <2>4, <2>5
<1>6. CASE op.kind \in {"retract", "split"}
  <2> DEFINE claim == [agent |-> op.claim.agent, subjects |-> op.claim.subjects,
                       prop |-> RETRACTED, time |-> op.claim.time]
             merge == [agent |-> op.agent, subjects |-> SubjectsOf(e, op.cor),
                       prop |-> RETRACTED, time |-> op.time]
             a == IF op.kind = "retract" THEN claim ELSE merge
             old == IF op.kind = "retract" THEN op.olds[1] ELSE op.cor
             olds == <<old>>
             s == Supersede(e, op.id, a, olds, op.did)
  <2>1. Apply(e, op) = s
    BY <1>6 DEF Apply, Retract, Split
  <2>2. op.id \in AssertionId /\ op.did \in DerivationId
    BY <1>6, Kinds
  <2>3. ~ Known(e, op.did)
    BY <1>6 DEF Revising
  <2> HIDE DEF a, old
  <2>4. olds \in Seq({old}) /\ Apart(olds)
    BY DEF Apart
  <2> HIDE DEF olds
  <2>5. s.code # "ACCEPTED" => s.eng = e
    BY <2>2, <2>3, <2>4, RevisionRefused
  <2> HIDE DEF s
  <2> QED BY <2>1, <2>5
<1> QED BY <1>1, <1>2, <1>3, <1>4, <1>5, <1>6, Kinds

------------------------------------------------------------------------------
(* The cascade is closed under its rule. *)

Wider(l, R) == R \cup {i \in DOMAIN l : Dragged(l, R, i)}

(* The waves of the cascade. *)
LEMMA Waves ==
  ASSUME NEW S, NEW l \in Seq(S), NEW x
  PROVE  \E W : /\ Cascade(l, x) = W[Len(l)]
                /\ W[0] = {i \in DOMAIN l : Names(l[i].op, x)}
                /\ \A k \in Nat : k + 1 <= Len(l) => W[k + 1] = Wider(l, W[k])
<1> DEFINE n == Len(l)
           D == DOMAIN l
           first == {i \in D : Names(l[i].op, x)}
           F == [p \in (1..n) \X SUBSET D |-> Wider(l, p[2])]
           W == CHOOSE u : u = [k \in 0..n |-> IF k = 0 THEN first ELSE Wider(l, u[k - 1])]
<1>1. Cascade(l, x) = W[n]
  BY DEF Cascade, Wider
<1>2. n \in Nat /\ D = 1..n
  BY LenProperties
<1>3. first \in SUBSET D
  OBVIOUS
<1>4. \A i \in 1..n, R \in SUBSET D : F[<<i, R>>] = Wider(l, R) /\ Wider(l, R) \in SUBSET D
  BY DEF Wider
<1> HIDE DEF F, first
<1>5. PICK g : Recurs(g, n, first, F) /\ \A k \in 0..n : g[k] \in SUBSET D
  <2> DEFINE U == SUBSET D
  <2> HIDE DEF n, D
  <2>1. first \in U /\ \A i \in 1..n, R \in U : F[<<i, R>>] \in U
    BY <1>3, <1>4
  <2> HIDE DEF U
  <2>2. \E g : Recurs(g, n, first, F) /\ \A k \in 0..n : g[k] \in U
    BY <1>2, <2>1, Recursion
  <2> QED BY <2>2 DEF U
<1>6. \A k \in 0..n : g[k] = IF k = 0 THEN first ELSE Wider(l, g[k - 1])
  <2> TAKE k \in 0..n
  <2>1. CASE k = 0
    BY <1>5, <2>1 DEF Recurs
  <2>2. CASE k # 0
    <3>1. k \in 1..n /\ k - 1 \in 0..n
      BY <1>2, <2>2
    <3>2. g[k] = F[<<k, g[k - 1]>>] /\ g[k - 1] \in SUBSET D
      BY <1>5, <3>1 DEF Recurs
    <3> QED BY <1>4, <2>2, <3>1, <3>2
  <2> QED BY <2>1, <2>2
<1>7. g = [k \in 0..n |-> IF k = 0 THEN first ELSE Wider(l, g[k - 1])]
  BY <1>5, <1>6 DEF Recurs
<1>8. W = [k \in 0..n |-> IF k = 0 THEN first ELSE Wider(l, W[k - 1])]
  BY <1>7
<1> HIDE DEF W, n
<1>9. W[0] = first /\ \A k \in Nat : k + 1 <= n => W[k + 1] = Wider(l, W[k])
  <2>1. W[0] = first
    BY <1>2, <1>8
  <2>2. ASSUME NEW k \in Nat, k + 1 <= n PROVE W[k + 1] = Wider(l, W[k])
    <3>1. k + 1 \in 0..n /\ k + 1 # 0 /\ (k + 1) - 1 = k
      BY <1>2, <2>2
    <3> QED BY <1>8, <3>1
  <2> QED BY <2>1, <2>2
<1> QED BY <1>1, <1>9 DEF first, n, D

(* It holds what names the person and what its rows drag along: Len(l) *)
(* rounds are enough, for each but the last adds a row.                *)
LEMMA CascadeIs ==
  ASSUME NEW S, NEW l \in Seq(S), NEW x
  PROVE  LET R == Cascade(l, x)
         IN  /\ R \subseteq DOMAIN l
             /\ \A i \in DOMAIN l : Names(l[i].op, x) => i \in R
             /\ \A i \in DOMAIN l : Dragged(l, R, i) => i \in R
<1> DEFINE n == Len(l)
           D == DOMAIN l
           first == {i \in D : Names(l[i].op, x)}
<1>1. PICK W : /\ Cascade(l, x) = W[n] /\ W[0] = first
               /\ \A k \in Nat : k + 1 <= n => W[k + 1] = Wider(l, W[k])
  BY Waves
<1>2. n \in Nat /\ D = 1..n
  BY LenProperties
<1>3. first \in SUBSET D
  OBVIOUS
<1> HIDE DEF first, n
<1>9. W[0] = first /\ \A k \in Nat : k + 1 <= n => W[k + 1] = Wider(l, W[k])
  BY <1>1
<1>10. IsFiniteSet(D) /\ Cardinality(D) = n
  BY <1>2, FS_Interval
<1> HIDE DEF D
<1> DEFINE P(k) == /\ W[k] \in SUBSET D /\ first \subseteq W[k]
                   /\ Wider(l, W[k]) = W[k] \/ Cardinality(W[k]) >= k
           T == {k \in Nat : k <= n => P(k)}
<1>11. 0 \in T
  <2>1. IsFiniteSet(first) /\ Cardinality(first) \in Nat
    BY <1>3, <1>10, FS_Subset, FS_CardinalityType
  <2> QED BY <1>3, <1>9, <2>1
<1>12. ASSUME NEW k \in Nat, k \in T PROVE k + 1 \in T
  <2> SUFFICES ASSUME k + 1 <= n PROVE P(k + 1)
    OBVIOUS
  <2>1. P(k) /\ W[k + 1] = Wider(l, W[k])
    BY <1>2, <1>9, <1>12
  <2>2. W[k + 1] \in SUBSET D /\ W[k] \subseteq W[k + 1] /\ first \subseteq W[k + 1]
    BY <2>1 DEF Wider, D
  <2>3. CASE Wider(l, W[k]) = W[k]
    BY <2>1, <2>2, <2>3
  <2>4. CASE Wider(l, W[k]) # W[k]
    <3>1. IsFiniteSet(W[k + 1]) /\ Cardinality(W[k + 1]) \in Nat
      BY <1>10, <2>2, FS_Subset, FS_CardinalityType
    <3>2. /\ Cardinality(W[k]) \in Nat /\ Cardinality(W[k]) <= Cardinality(W[k + 1])
          /\ Cardinality(W[k + 1]) # Cardinality(W[k])
      BY <2>1, <2>2, <2>4, <3>1, FS_Subset, FS_CardinalityType
    <3>3. Cardinality(W[k]) >= k
      BY <2>1, <2>4
    <3>4. Cardinality(W[k + 1]) >= k + 1
      BY <3>1, <3>2, <3>3
    <3> QED BY <2>2, <3>4
  <2> QED BY <2>3, <2>4
<1> HIDE DEF T
<1>13. P(n)
  <2>1. n \in T
    BY <1>2, <1>11, <1>12, SetInduction
  <2> QED BY <1>2, <2>1 DEF T
<1>14. Wider(l, W[n]) = W[n]
  <2>1. CASE Cardinality(W[n]) >= n
    <3>1. Cardinality(W[n]) <= n /\ Cardinality(W[n]) \in Nat
      BY <1>10, <1>13, FS_Subset, FS_CardinalityType
    <3>2. W[n] = D
      BY <1>2, <1>10, <1>13, <2>1, <3>1, FS_Subset
    <3> QED BY <3>2 DEF Wider, D
  <2> QED BY <1>13, <2>1
<1> QED BY <1>1, <1>13, <1>14 DEF Wider, first, D

(* It takes no more: it lies within all that holds the rows that name the   *)
(* person and what any part of it drags along.                              *)
LEMMA CascadeLeast ==
  ASSUME NEW S, NEW l \in Seq(S), NEW x, NEW C,
         \A i \in DOMAIN l : Names(l[i].op, x) => i \in C,
         \A Q \in SUBSET C : \A i \in DOMAIN l : Dragged(l, Q, i) => i \in C
  PROVE  Cascade(l, x) \subseteq C
<1> DEFINE n == Len(l)
<1>1. PICK W : /\ Cascade(l, x) = W[n] /\ W[0] = {i \in DOMAIN l : Names(l[i].op, x)}
               /\ \A k \in Nat : k + 1 <= n => W[k + 1] = Wider(l, W[k])
  BY Waves
<1>2. n \in Nat
  BY LenProperties
<1> HIDE DEF n
<1> DEFINE T == {k \in Nat : k <= n => W[k] \subseteq C}
<1>3. 0 \in T
  BY <1>1
<1>4. ASSUME NEW k \in Nat, k \in T PROVE k + 1 \in T
  <2> SUFFICES ASSUME k + 1 <= n PROVE W[k + 1] \subseteq C
    OBVIOUS
  <2>1. W[k] \in SUBSET C /\ W[k + 1] = Wider(l, W[k])
    BY <1>1, <1>2, <1>4
  <2> QED BY <2>1 DEF Wider
<1> HIDE DEF T
<1>5. n \in T
  BY <1>2, <1>3, <1>4, SetInduction
<1> QED BY <1>1, <1>2, <1>5 DEF T

(* The passes over a log: the rows that stay, one by one. *)
LEMMA RewritePasses ==
  ASSUME NEW l \in Seq(Row), NEW dropped, NEW events
  PROVE  \E W : /\ Rewritten(l, dropped, events) = W[Len(l)]
                /\ W[0] = <<>>
                /\ \A k \in Nat : k + 1 <= Len(l) =>
                     /\ Redacted(l[k + 1], events) \in Row
                     /\ W[k + 1] = IF k + 1 \in dropped THEN W[k]
                                   ELSE Append(W[k], Redacted(l[k + 1], events))
<1> DEFINE n == Len(l)
           Pass(s, k) == IF k \in dropped THEN s ELSE Append(s, Redacted(l[k], events))
           S == Seq(Row)
           F == [p \in (1..n) \X S |-> Pass(p[2], p[1])]
           W == CHOOSE u : u = [k \in 0..n |-> IF k = 0 THEN <<>> ELSE Pass(u[k - 1], k)]
<1>1. Rewritten(l, dropped, events) = W[n]
  BY DEF Rewritten
<1>2. n \in Nat /\ DOMAIN l = 1..n /\ \A i \in 1..n : l[i] \in Row
  BY LenProperties, ElementOfSeq
<1>3. \A i \in 1..n : Redacted(l[i], events) \in Row
  <2> TAKE i \in 1..n
  <2>1. l[i] \in Row /\ ERASURE_NOTE \in Label
    BY <1>2 DEF Label
  <2>2. [l[i] EXCEPT !.label = ERASURE_NOTE] \in Row
    BY <2>1 DEF Row
  <2> QED BY <2>1, <2>2 DEF Redacted
<1> HIDE DEF n
<1>4. \A i \in 1..n, s \in S : F[<<i, s>>] = Pass(s, i) /\ Pass(s, i) \in S
  <2> TAKE i \in 1..n, s \in S
  <2>1. Append(s, Redacted(l[i], events)) \in S
    BY <1>3, AppendProperties
  <2> HIDE DEF S
  <2> QED BY <2>1
<1>5. <<>> \in S
  BY EmptySeq
<1> HIDE DEF F, S
<1>6. PICK g : Recurs(g, n, <<>>, F) /\ \A k \in 0..n : g[k] \in S
  <2>1. \A i \in 1..n, s \in S : F[<<i, s>>] \in S
    BY <1>4
  <2> QED BY <1>2, <1>5, <2>1, Recursion
<1>7. \A k \in 0..n : g[k] = IF k = 0 THEN <<>> ELSE Pass(g[k - 1], k)
  <2> TAKE k \in 0..n
  <2>1. CASE k = 0
    BY <1>6, <2>1 DEF Recurs
  <2>2. CASE k # 0
    <3>1. k \in 1..n /\ k - 1 \in 0..n
      BY <1>2, <2>2
    <3>2. g[k] = F[<<k, g[k - 1]>>] /\ g[k - 1] \in S
      BY <1>6, <3>1 DEF Recurs
    <3> HIDE DEF Pass
    <3> QED BY <1>4, <2>2, <3>1, <3>2
  <2> QED BY <2>1, <2>2
<1> HIDE DEF Pass
<1>8. g = [k \in 0..n |-> IF k = 0 THEN <<>> ELSE Pass(g[k - 1], k)]
  BY <1>6, <1>7 DEF Recurs
<1>9. W = [k \in 0..n |-> IF k = 0 THEN <<>> ELSE Pass(W[k - 1], k)]
  BY <1>8
<1> HIDE DEF W
<1>10. ASSUME NEW k \in Nat, k + 1 <= n
       PROVE  k + 1 \in 1..n /\ W[k + 1] = Pass(W[k], k + 1)
  <2>1. k + 1 \in 0..n /\ k + 1 # 0 /\ (k + 1) - 1 = k /\ k + 1 \in 1..n
    BY <1>2, <1>10
  <2> QED BY <1>9, <2>1
<1>11. 0 \in 0..n /\ W[0] = <<>>
  BY <1>2, <1>9
<1> QED BY <1>1, <1>3, <1>10, <1>11 DEF n, Pass

(* What is left of a log. *)
LEMMA RewrittenIs ==
  ASSUME NEW l \in Seq(Row), NEW dropped, NEW events
  PROVE  LET m == Rewritten(l, dropped, events)
         IN  /\ m \in Seq(Row)
             /\ \A r : r \in RangeOf(m) <=>
                         \E i \in DOMAIN l : i \notin dropped /\ r = Redacted(l[i], events)
<1> DEFINE n == Len(l)
           Kept(k, r) == \E i \in 1..k : i \notin dropped /\ r = Redacted(l[i], events)
           S == Seq(Row)
<1>1. PICK W : /\ Rewritten(l, dropped, events) = W[Len(l)]
               /\ W[0] = <<>>
               /\ \A k \in Nat : k + 1 <= Len(l) =>
                    /\ Redacted(l[k + 1], events) \in Row
                    /\ W[k + 1] = IF k + 1 \in dropped THEN W[k]
                                  ELSE Append(W[k], Redacted(l[k + 1], events))
  BY RewritePasses
<1>2. n \in Nat /\ DOMAIN l = 1..n
  BY LenProperties
<1> HIDE DEF n, S, Kept
<1> DEFINE P(k) == W[k] \in S /\ \A r : r \in RangeOf(W[k]) <=> Kept(k, r)
           T == {k \in Nat : k <= n => P(k)}
<1>3. 0 \in T
  <2>1. W[0] = <<>> /\ W[0] \in S
    BY <1>1, EmptySeq DEF S
  <2>2. \A r : r \notin RangeOf(<<>>) /\ ~ Kept(0, r)
    BY DEF RangeOf, Kept
  <2> QED BY <2>1, <2>2
<1>4. ASSUME NEW k \in Nat, k \in T PROVE k + 1 \in T
  <2> SUFFICES ASSUME k + 1 <= n PROVE P(k + 1)
    OBVIOUS
  <2>1. k + 1 \in 0..n /\ k + 1 # 0 /\ (k + 1) - 1 = k /\ k + 1 \in 1..n
    BY <1>2
  <2>2. P(k)
    BY <1>2, <1>4, <2>1
  <2> DEFINE y == Redacted(l[k + 1], events)
  <2>3. \A r : Kept(k + 1, r) <=> Kept(k, r) \/ (k + 1 \notin dropped /\ r = y)
    <3>1. 1..(k + 1) = (1..k) \cup {k + 1}
      OBVIOUS
    <3> HIDE DEF y
    <3> QED BY <3>1 DEF Kept, y
  <2>4. y \in Row /\ W[k + 1] = IF k + 1 \in dropped THEN W[k] ELSE Append(W[k], y)
    BY <1>1 DEF n
  <2> HIDE DEF y
  <2>5. CASE k + 1 \in dropped
    <3>1. W[k + 1] = W[k]
      BY <2>4, <2>5
    <3> QED BY <2>2, <2>3, <2>5, <3>1
  <2>6. CASE k + 1 \notin dropped
    <3> DEFINE s == W[k]
    <3>1. W[k + 1] = Append(s, y)
      BY <2>4, <2>6
    <3>2. s \in Seq(Row)
      BY <2>2 DEF S
    <3> HIDE DEF s
    <3>3. /\ Append(s, y) \in Seq(Row) /\ Len(Append(s, y)) = Len(s) + 1
          /\ Append(s, y)[Len(s) + 1] = y /\ \A j \in 1..Len(s) : Append(s, y)[j] = s[j]
      BY <2>4, <3>2, AppendProperties
    <3>4. /\ Len(s) \in Nat /\ DOMAIN s = 1..Len(s)
          /\ DOMAIN Append(s, y) = 1..(Len(s) + 1)
      BY <3>2, <3>3, LenProperties
    <3>5. RangeOf(Append(s, y)) = RangeOf(s) \cup {y}
      <4>1. 1..(Len(s) + 1) = (1..Len(s)) \cup {Len(s) + 1}
        BY <3>4
      <4> QED BY <3>3, <3>4, <4>1 DEF RangeOf
    <3>6. \A r : r \in RangeOf(s) <=> Kept(k, r)
      BY <2>2 DEF s
    <3> QED BY <2>3, <2>6, <3>1, <3>3, <3>5, <3>6 DEF S
  <2> QED BY <2>5, <2>6
<1> HIDE DEF T
<1>5. P(n)
  <2>1. n \in T
    BY <1>2, <1>3, <1>4, SetInduction
  <2> QED BY <1>2, <2>1 DEF T
<1> QED BY <1>1, <1>2, <1>5 DEF n, S, Kept

(* A row that is left has the operation of a row of the log; its label may  *)
(* be redacted.                                                             *)
LEMMA LeftRows ==
  ASSUME NEW l \in Seq(Row), NEW dropped, NEW events
  PROVE  LET m == Rewritten(l, dropped, events)
         IN  /\ m \in Seq(Row)
             /\ OpsIn(m) = {l[i].op : i \in {k \in DOMAIN l : k \notin dropped}}
             /\ \A j \in DOMAIN m : \E i \in DOMAIN l :
                  /\ i \notin dropped /\ m[j].op = l[i].op
                  /\ m[j].label \in {l[i].label, ERASURE_NOTE}
                  /\ l[i].op.kind = "event" /\ l[i].op.id \in events => m[j].label = ERASURE_NOTE
<1> DEFINE m == Rewritten(l, dropped, events)
<1>1. /\ m \in Seq(Row)
      /\ \A r : r \in RangeOf(m) <=>
                  \E i \in DOMAIN l : i \notin dropped /\ r = Redacted(l[i], events)
  BY RewrittenIs
<1> HIDE DEF m
<1>2. ASSUME NEW i \in DOMAIN l
      PROVE  LET r == Redacted(l[i], events)
             IN  /\ r.op = l[i].op /\ r.label \in {l[i].label, ERASURE_NOTE}
                 /\ l[i].op.kind = "event" /\ l[i].op.id \in events => r.label = ERASURE_NOTE
  <2>1. PICK r \in Row : r = l[i]
    BY ElementOfSeq, LenProperties
  <2>2. /\ [r EXCEPT !.label = ERASURE_NOTE].op = r.op
        /\ [r EXCEPT !.label = ERASURE_NOTE].label = ERASURE_NOTE
    BY <2>1 DEF Row
  <2> QED BY <2>1, <2>2 DEF Redacted
<1>3. ASSUME NEW j \in DOMAIN m
      PROVE  \E i \in DOMAIN l : i \notin dropped /\ m[j] = Redacted(l[i], events)
  BY <1>1 DEF RangeOf
<1>4. OpsIn(m) = {l[i].op : i \in {k \in DOMAIN l : k \notin dropped}}
  <2>1. ASSUME NEW i \in DOMAIN l, i \notin dropped PROVE l[i].op \in OpsIn(m)
    <3>1. PICK j \in DOMAIN m : m[j] = Redacted(l[i], events)
      BY <1>1, <2>1 DEF RangeOf
    <3>2. m[j].op = l[i].op
      BY <1>2, <3>1
    <3> QED BY <3>2 DEF OpsIn
  <2>2. ASSUME NEW j \in DOMAIN m
        PROVE  m[j].op \in {l[i].op : i \in {k \in DOMAIN l : k \notin dropped}}
    <3>1. PICK i \in DOMAIN l : i \notin dropped /\ m[j] = Redacted(l[i], events)
      BY <1>3
    <3>2. m[j].op = l[i].op
      BY <1>2, <3>1
    <3> QED BY <3>1, <3>2
  <2> QED BY <2>1, <2>2 DEF OpsIn
<1>5. ASSUME NEW j \in DOMAIN m
      PROVE  \E i \in DOMAIN l :
               /\ i \notin dropped /\ m[j].op = l[i].op
               /\ m[j].label \in {l[i].label, ERASURE_NOTE}
               /\ l[i].op.kind = "event" /\ l[i].op.id \in events => m[j].label = ERASURE_NOTE
  <2>1. PICK i \in DOMAIN l : i \notin dropped /\ m[j] = Redacted(l[i], events)
    BY <1>3
  <2> QED BY <1>2, <2>1
<1> QED BY <1>1, <1>4, <1>5 DEF m

------------------------------------------------------------------------------
(* What an erasure leaves. *)

Store(d) == /\ d = [log |-> d.log, quotes |-> d.quotes]
            /\ d.log \in Seq(Row) /\ DictOf(d.quotes, AssertionId, Quoted)

(* A store that boots, whose rows mention ids in M. *)
Solid(d, M) ==
  /\ Replay(d.log).code = "ACCEPTED"
  /\ \A op \in OpsIn(d.log) : Mentions(op) \subseteq M \cup EntityId \cup AgentId
  /\ \A op \in OpsIn(d.log) :
        op.kind = "split" => \E c \in OpsIn(d.log) : c.kind = "corefer" /\ c.id = op.cor
  /\ \A a \in DOMAIN d.quotes :
        /\ d.quotes[a].source \in M
        /\ \E op \in OpsIn(d.log) : op.kind \in Claiming /\ op.id = a

(* Nothing of those in E.who, nothing cited or heard for them in E. *)
CleanRow(r, E) ==
  /\ \A x \in E.who : ~ Names(r.op, x) /\ (r.op.kind = "derive" => x \notin r.op.ants)
  /\ r.op.kind = "event" /\ r.op.id \in E.cited => r.label = ERASURE_NOTE

CleanLog(l, E)    == \A i \in DOMAIN l : CleanRow(l[i], E)
CleanQuotes(q, E) == \A a \in DOMAIN q : q[a].source \in E.heard => q[a].words = ERASURE_NOTE
Clean(d, E)       == CleanLog(d.log, E) /\ CleanQuotes(d.quotes, E)

Heard(q, as) == {q[a].source : a \in as \cap DOMAIN q}

Cut(l, f)    == Rewritten(l, f.gone, f.redact)
Purged(q, f) == [a \in DOMAIN q \ f.claims |->
                   IF q[a].source \in f.sources THEN [q[a] EXCEPT !.words = ERASURE_NOTE]
                   ELSE q[a]]

(* The erasure f was computed from the store d. *)
Planned(f, d) ==
  \E x \in EntityId :
    LET R == Cascade(d.log, x)
        e == Replay(d.log).eng
    IN  /\ f.who = {x} /\ f.gone = R /\ f.claims = ClaimsIn(d.log, R)
        /\ f.redact = RedactedEvents(d.log, R) /\ f.cited = CitedFor(e, x)
        /\ f.heard = Heard(d.quotes, AboutIn(e, x))
        /\ Replay(Cut(d.log, f)).code = "ACCEPTED"

(* What is clean stays clean when rows go and words are redacted. *)
LEMMA CutStaysClean ==
  ASSUME NEW l \in Seq(Row), NEW f, NEW E, CleanLog(l, E)
  PROVE  Cut(l, f) \in Seq(Row) /\ CleanLog(Cut(l, f), E)
<1> DEFINE m == Cut(l, f)
<1>1. /\ m \in Seq(Row)
      /\ \A j \in DOMAIN m : \E i \in DOMAIN l :
            m[j].op = l[i].op /\ m[j].label \in {l[i].label, ERASURE_NOTE}
  BY LeftRows DEF Cut
<1> HIDE DEF m
<1>2. ASSUME NEW j \in DOMAIN m PROVE CleanRow(m[j], E)
  <2>1. PICK i \in DOMAIN l : m[j].op = l[i].op /\ m[j].label \in {l[i].label, ERASURE_NOTE}
    BY <1>1
  <2>2. CleanRow(l[i], E)
    BY DEF CleanLog
  <2> QED BY <2>1, <2>2 DEF CleanRow
<1> QED BY <1>1, <1>2 DEF CleanLog, m

Masks(p, q, f) ==
  /\ DictOf(p, AssertionId, Quoted)
  /\ DOMAIN p = DOMAIN q \ f.claims
  /\ \A a \in DOMAIN p : /\ p[a].source = q[a].source
                         /\ p[a].words \in {q[a].words, ERASURE_NOTE}
                         /\ q[a].source \in f.sources => p[a].words = ERASURE_NOTE

(* Purging drops the quotes of the claims that go and blanks those of their *)
(* sources.                                                                 *)
LEMMA PurgedIs ==
  ASSUME NEW q, DictOf(q, AssertionId, Quoted), NEW f
  PROVE  Masks(Purged(q, f), q, f)
<1> DEFINE p == Purged(q, f)
           Mask(w) == [w EXCEPT !.words = ERASURE_NOTE]
           Word(w) == IF w.source \in f.sources THEN Mask(w) ELSE w
<1>1. p = [a \in DOMAIN q \ f.claims |-> Word(q[a])]
  BY DEF Purged
<1>2. ASSUME NEW w \in Quoted
      PROVE  /\ Word(w) \in Quoted /\ Word(w).source = w.source
             /\ Word(w).words \in {w.words, ERASURE_NOTE}
             /\ w.source \in f.sources => Word(w).words = ERASURE_NOTE
  <2>1. Mask(w) \in Quoted /\ Mask(w).source = w.source /\ Mask(w).words = ERASURE_NOTE
    BY DEF Quoted
  <2> HIDE DEF Mask
  <2> QED BY <2>1
<1>3. \A a \in DOMAIN q : q[a] \in Quoted
  BY DEF DictOf
<1> HIDE DEF Word, p
<1>4. DOMAIN p = DOMAIN q \ f.claims /\ \A a \in DOMAIN p : p[a] = Word(q[a])
  BY <1>1
<1>5. DictOf(p, AssertionId, Quoted)
  BY <1>1, <1>2, <1>3, <1>4 DEF DictOf
<1> QED BY <1>2, <1>3, <1>4, <1>5 DEF p, Masks

(* Every claim about x, a merge of x and the undoing of one included, has   *)
(* its row in the cascade of x.                                             *)
LEMMA StatementsGo ==
  ASSUME NEW d, Store(d), NEW M, Solid(d, M), NEW x, NEW op \in OpsIn(d.log),
         op.kind \in Stating, x \in Replay(d.log).eng.assertions[op.id].subjects
  PROVE  LET R == Cascade(d.log, x)
         IN  \A i \in DOMAIN d.log : d.log[i].op = op => i \in R
<1> DEFINE l == d.log
           R == Cascade(l, x)
           e == Replay(l).eng
<1>1. l \in Seq(Row)
  BY DEF Store
<1>2. Fits(e, OpsIn(l))
  BY <1>1, Replayed DEF Solid
<1>3. /\ \A i \in DOMAIN l : Names(l[i].op, x) => i \in R
      /\ \A i \in DOMAIN l : Dragged(l, R, i) => i \in R
  BY <1>1, CascadeIs
<1>4. x \in Subjects(e, op)
  BY <1>2 DEF Fits
<1> HIDE DEF R, e, l
<1>5. CASE op.kind \in Claiming \cup {"corefer"}
  <2>1. Names(op, x)
    BY <1>4, <1>5 DEF Names, Subjects, Claiming
  <2> QED BY <1>3, <2>1 DEF R, l
<1>6. CASE op.kind = "split"
  <2>1. PICK c \in OpsIn(l) : c.kind = "corefer" /\ c.id = op.cor
    BY <1>6 DEF Solid, l
  <2>2. c.kind \in Stating /\ c.kind \notin Claiming
    BY <2>1 DEF Stating, Claiming
  <2>3. e.assertions[c.id].subjects = {c.x, c.y} /\ op.cor \in DOMAIN e.assertions
    BY <1>2, <1>6, <2>1, <2>2 DEF Fits, Subjects, l
  <2>4. Names(c, x)
    BY <1>4, <1>6, <2>1, <2>3 DEF Names, Subjects, Claiming, SubjectsOf
  <2>5. op.cor \in CorefsIn(l, R)
    BY <1>3, <2>1, <2>4 DEF OpsIn, CorefsIn
  <2>6. \A i \in DOMAIN l : l[i].op = op => Dragged(l, R, i)
    BY <1>6, <2>5 DEF Dragged
  <2> QED BY <1>3, <2>6 DEF R, l
<1> QED BY <1>5, <1>6 DEF Stating

(* A planned erasure, carried out on the store it was computed from, leaves *)
(* a store that boots and has nothing of whom it erases, cites or quotes.   *)
LEMMA ErasureLeaves ==
  ASSUME NEW d, Store(d), NEW M, Solid(d, M), NEW f, Planned(f, d),
         f.sources = Heard(d.quotes, f.claims)
  PROVE  LET t == [log |-> Cut(d.log, f), quotes |-> Purged(d.quotes, f)]
         IN  Store(t) /\ Solid(t, M) /\ Clean(t, f)
<1> DEFINE l == d.log
           m == Cut(l, f)
           p == Purged(d.quotes, f)
           t == [log |-> m, quotes |-> p]
           e == Replay(l).eng
<1>1. PICK x \in EntityId :
        LET R == Cascade(l, x)
        IN  /\ f.who = {x} /\ f.gone = R /\ f.claims = ClaimsIn(l, R)
            /\ f.redact = RedactedEvents(l, R) /\ f.cited = CitedFor(e, x)
            /\ f.heard = Heard(d.quotes, AboutIn(e, x))
            /\ Replay(m).code = "ACCEPTED"
  BY DEF Planned
<1> DEFINE R == Cascade(l, x)
           e2 == Replay(m).eng
<1>2. l \in Seq(Row) /\ DictOf(d.quotes, AssertionId, Quoted)
  BY DEF Store
<1>3. /\ R \subseteq DOMAIN l
      /\ \A i \in DOMAIN l : Names(l[i].op, x) => i \in R
      /\ \A i \in DOMAIN l : Dragged(l, R, i) => i \in R
  BY <1>2, CascadeIs
<1>4. TypedEngine(e) /\ Fits(e, OpsIn(l))
  BY <1>2, Replayed DEF Solid
<1>5. /\ m \in Seq(Row)
      /\ OpsIn(m) = {l[i].op : i \in {k \in DOMAIN l : k \notin f.gone}}
      /\ \A j \in DOMAIN m : \E i \in DOMAIN l :
           /\ i \notin f.gone /\ m[j].op = l[i].op
           /\ l[i].op.kind = "event" /\ l[i].op.id \in f.redact => m[j].label = ERASURE_NOTE
  BY SMTT(30), <1>2, LeftRows DEF Cut
<1>6. TypedEngine(e2) /\ Fits(e2, OpsIn(m))
  <2>1. m \in Seq(Row)
    BY <1>5
  <2>2. Replay(m).code = "ACCEPTED"
    BY <1>1
  <2> HIDE DEF m
  <2> QED BY <2>1, <2>2, Replayed
<1>7. /\ f.who = {x} /\ f.gone = R /\ f.claims = ClaimsIn(l, R)
      /\ f.redact = RedactedEvents(l, R) /\ f.cited = CitedFor(e, x)
      /\ f.heard = Heard(d.quotes, AboutIn(e, x)) /\ Replay(m).code = "ACCEPTED"
  BY <1>1
<1>8. /\ DictOf(p, AssertionId, Quoted) /\ DOMAIN p = DOMAIN d.quotes \ f.claims
      /\ \A a \in DOMAIN p : /\ p[a].source = d.quotes[a].source
                             /\ d.quotes[a].source \in f.sources => p[a].words = ERASURE_NOTE
  <2>1. Masks(p, d.quotes, f)
    BY <1>2, PurgedIs
  <2> QED BY <2>1 DEF Masks
<1>9. \A op \in OpsIn(d.log), i \in DOMAIN d.log :
        op.kind \in Stating /\ x \in e.assertions[op.id].subjects /\ d.log[i].op = op => i \in R
  BY StatementsGo
<1>10. /\ \A op \in OpsIn(l) : Mentions(op) \subseteq M \cup EntityId \cup AgentId
       /\ \A op \in OpsIn(l) :
             op.kind = "split" => \E c \in OpsIn(l) : c.kind = "corefer" /\ c.id = op.cor
       /\ \A a \in DOMAIN d.quotes :
             /\ d.quotes[a].source \in M
             /\ \E op \in OpsIn(l) : op.kind \in Claiming /\ op.id = a
  BY DEF Solid
<1>11. t.log = m /\ t.quotes = p /\ t = [log |-> t.log, quotes |-> t.quotes]
  OBVIOUS
<1>12. \A i \in R : i \in f.gone
  BY <1>7
<1> HIDE DEF l, m, p, t, e, e2, R
<1>13. OpsIn(m) \subseteq OpsIn(l)
  BY <1>5 DEF OpsIn
<1>14. \A op \in OpsIn(m) : ~ Names(op, x)
  BY <1>3, <1>5, <1>12
<1>15. Store(t)
  BY <1>5, <1>8, <1>11 DEF Store
<1>16. Solid(t, M)
  <2>1. \A op \in OpsIn(m) : Mentions(op) \subseteq M \cup EntityId \cup AgentId
    BY <1>10, <1>13
  <2>2. ASSUME NEW op \in OpsIn(m), op.kind = "split"
        PROVE  \E c \in OpsIn(m) : c.kind = "corefer" /\ c.id = op.cor
    <3>1. PICK i \in DOMAIN l : i \notin f.gone /\ l[i].op = op
      BY <1>5
    <3>2. PICK k \in DOMAIN l : l[k].op.kind = "corefer" /\ l[k].op.id = op.cor
      <4>1. op \in OpsIn(l)
        BY <1>13, <2>2
      <4>2. PICK c \in OpsIn(l) : c.kind = "corefer" /\ c.id = op.cor
        BY <1>10, <2>2, <4>1
      <4> QED BY <4>2 DEF OpsIn
    <3>3. CASE k \in f.gone
      <4>1. op.cor \in CorefsIn(l, R)
        BY <1>7, <3>2, <3>3 DEF CorefsIn
      <4>2. Dragged(l, R, i)
        BY <2>2, <3>1, <4>1 DEF Dragged
      <4> QED BY <1>3, <1>12, <3>1, <4>2
    <3>4. CASE k \notin f.gone
      BY <1>5, <3>2, <3>4
    <3> QED BY <3>3, <3>4
  <2>3. ASSUME NEW a \in DOMAIN p
        PROVE  /\ p[a].source \in M
               /\ \E op \in OpsIn(m) : op.kind \in Claiming /\ op.id = a
    <3>1. a \in DOMAIN d.quotes /\ a \notin f.claims /\ p[a].source = d.quotes[a].source
      BY <1>8
    <3>2. PICK k \in DOMAIN l : l[k].op.kind \in Claiming /\ l[k].op.id = a
      BY <1>10, <3>1 DEF OpsIn
    <3>3. CASE k \in f.gone
      <4>1. k \in R
        BY <1>7, <3>3
      <4>2. a \in ClaimsIn(l, R)
        BY <3>2, <4>1 DEF ClaimsIn, Claiming
      <4> QED BY <1>7, <3>1, <4>2
    <3>4. CASE k \notin f.gone
      BY <1>5, <1>10, <3>1, <3>2, <3>4
    <3> QED BY <3>3, <3>4
  <2> QED BY <1>7, <1>11, <2>1, <2>2, <2>3 DEF Solid
<1>17. ASSUME NEW j \in DOMAIN m PROVE CleanRow(m[j], f)
  <2>1. PICK i \in DOMAIN l :
           /\ i \notin f.gone /\ m[j].op = l[i].op
           /\ l[i].op.kind = "event" /\ l[i].op.id \in f.redact => m[j].label = ERASURE_NOTE
    BY <1>5
  <2>2. ~ Names(m[j].op, x)
    BY <1>14 DEF OpsIn
  <2>3. ASSUME m[j].op.kind = "derive", x \in m[j].op.ants PROVE FALSE
    <3>1. Known(e2, x)
      BY <1>6, <2>3 DEF Fits, OpsIn
    <3>2. x \in e2.entities
      BY <1>6, <3>1, KnownEntity
    <3>3. PICK op \in OpsIn(m) : op.kind = "entity" /\ op.id = x
      BY <1>6, <3>2 DEF Fits
    <3> QED BY <1>14, <3>3 DEF Names
  <2>4. ASSUME m[j].op.kind = "event", m[j].op.id \in f.cited PROVE m[j].label = ERASURE_NOTE
    <3> DEFINE v == m[j].op.id
    <3>1. PICK a \in DOMAIN e.assertions :
            x \in e.assertions[a].subjects /\ v \in Antecedents(e, a) /\ v \in e.events
      BY <1>7, <2>4 DEF CitedFor, AboutIn
    <3>2. PICK c \in DOMAIN e.derivations :
            e.derivations[c].consequent = a /\ v \in e.derivations[c].antecedents
      BY <3>1 DEF Antecedents
    <3>3. ~ (e.derivations[c].antecedents \subseteq DOMAIN e.assertions)
      BY <1>4, <3>1, <3>2, IdAssumption DEF TypedEngine
    <3>4. PICK k \in DOMAIN l : l[k].op.kind = "derive" /\ l[k].op.of = a /\ v \in l[k].op.ants
      BY <1>4, <3>2, <3>3 DEF Fits, OpsIn
    <3>5. ASSUME k \notin f.gone PROVE FALSE
      <4>1. l[k].op \in OpsIn(m)
        BY <1>5, <3>5
      <4>2. a \in DOMAIN e2.assertions
        BY <1>6, <3>4, <4>1 DEF Fits
      <4>3. PICK op \in OpsIn(m) : op.kind \in Stating /\ op.id = a
        BY <1>6, <4>2 DEF Fits
      <4>4. PICK q \in DOMAIN l : q \notin f.gone /\ l[q].op = op
        BY <1>5, <4>3
      <4>5. q \in R
        BY <1>9, <1>13, <3>1, <4>3, <4>4 DEF l
      <4> QED BY <1>12, <4>4, <4>5
    <3>6. k \in R
      BY <1>7, <3>5
    <3>7. k \in Citing(l, v) \cap R
      BY <1>3, <3>4, <3>6 DEF Citing
    <3>8. ~ (Citing(l, v) \subseteq R)
      <4>1. ~ Dragged(l, R, i)
        BY <1>3, <1>12, <2>1
      <4> QED BY <2>1, <2>4, <3>7, <4>1 DEF Dragged
    <3>9. v \in RedactedEvents(l, R)
      BY <2>1, <2>4, <3>7, <3>8 DEF RedactedEvents
    <3> QED BY <1>7, <2>1, <2>4, <3>9
  <2> QED BY <1>7, <2>2, <2>3, <2>4 DEF CleanRow
<1>18. ASSUME NEW b \in DOMAIN p, p[b].source \in f.heard PROVE p[b].words = ERASURE_NOTE
  <2>1. PICK a \in DOMAIN d.quotes : a \in AboutIn(e, x) /\ d.quotes[a].source = p[b].source
    BY <1>7, <1>18 DEF Heard
  <2>2. PICK k \in DOMAIN l : l[k].op.kind \in Claiming /\ l[k].op.id = a
    BY <1>10 DEF OpsIn
  <2>3. x \in e.assertions[a].subjects
    BY <2>1 DEF AboutIn
  <2>4. k \in R
    BY <1>9, <2>2, <2>3 DEF Stating, OpsIn, l
  <2>5. a \in f.claims
    BY <1>7, <2>2, <2>4 DEF ClaimsIn, Claiming
  <2>6. p[b].source \in f.sources
    BY <2>1, <2>5 DEF Heard
  <2> QED BY <1>8, <2>6
<1>19. Clean(t, f)
  BY <1>11, <1>17, <1>18 DEF Clean, CleanLog, CleanQuotes
<1> QED BY <1>15, <1>16, <1>19 DEF t, m, p, l

(* A request for an erasure finds no more cited or heard than there is. *)
LEMMA PlannedWithin ==
  ASSUME NEW d, Store(d), NEW M, Solid(d, M), NEW f, Planned(f, d)
  PROVE  /\ f.cited \cup f.heard \subseteq M
         /\ \E x \in EntityId : f.who = {x}
<1> DEFINE l == d.log
           e == Replay(l).eng
<1>1. PICK x \in EntityId : /\ f.who = {x} /\ f.cited = CitedFor(e, x)
                            /\ f.heard = Heard(d.quotes, AboutIn(e, x))
  BY DEF Planned
<1>2. TypedEngine(e) /\ Fits(e, OpsIn(l))
  BY Replayed DEF Solid, Store
<1>3. f.heard \subseteq M
  BY <1>1 DEF Heard, Solid
<1>4. \A op \in OpsIn(l) : Mentions(op) \subseteq M \cup EntityId \cup AgentId
  BY DEF Solid
<1> HIDE DEF l, e
<1>5. ASSUME NEW v \in f.cited PROVE v \in M
  <2>1. v \in e.events
    BY <1>1 DEF CitedFor
  <2>2. Known(e, v) /\ v \in EventId
    BY <1>2, <2>1 DEF Known, TypedEngine
  <2>3. PICK op \in OpsIn(l) : v \in Mentions(op)
    BY <1>2, <2>2 DEF Fits
  <2> QED BY <1>4, <2>2, <2>3, IdAssumption
<1> QED BY <1>1, <1>3, <1>5

(* What the rows do not name, the engine does not know of. *)
LEMMA CleanReplay ==
  ASSUME NEW l \in Seq(Row), Replay(l).code = "ACCEPTED", NEW E, CleanLog(l, E)
  PROVE  LET e == Replay(l).eng
         IN  e.entities \cap E.who = {}
<1> DEFINE e == Replay(l).eng
<1>1. Fits(e, OpsIn(l))
  BY Replayed
<1> HIDE DEF e
<1>2. ASSUME NEW x \in e.entities, x \in E.who PROVE FALSE
  <2>1. PICK i \in DOMAIN l : l[i].op.kind = "entity" /\ l[i].op.id = x
    BY <1>1 DEF Fits, OpsIn
  <2>2. Names(l[i].op, x)
    BY <2>1 DEF Names
  <2> QED BY <1>2, <2>2 DEF CleanLog, CleanRow
<1> QED BY <1>2 DEF e

------------------------------------------------------------------------------
(* What a request will record. *)

(* A list of items that mention ids in X: revisions have link ids of their  *)
(* own, from D, and quotes from the event v follow their claims.            *)
Orderly(s, X, v, D) ==
  /\ \A i \in DOMAIN s : s[i].what = "op" =>
        LET op == s[i].op
        IN  /\ Mentions(op) \subseteq X /\ op.kind # "split"
            /\ op.kind = "event" => op.id = v
            /\ op.kind = "supersede" => Apart(op.olds)
            /\ op.kind \in Revising =>
                 /\ op.did \in D
                 /\ \A j \in 1..(i - 1) : s[j].what = "op" => op.did \notin Mentions(s[j].op)
  /\ \A i \in DOMAIN s : s[i].what = "quote" =>
        /\ s[i].quote.source = v
        /\ \E j \in 1..(i - 1) : /\ s[j].what = "op" /\ s[j].op.kind \in Claiming
                                 /\ s[j].op.id = s[i].of

(* One list after another. *)
LEMMA Joined ==
  ASSUME NEW s \in Seq(Item), NEW t \in Seq(Item), NEW X, NEW Y, NEW v, NEW C, NEW D,
         Orderly(s, X, v, C), Orderly(t, Y, v, D), X \cap D = {}
  PROVE  s \o t \in Seq(Item) /\ Orderly(s \o t, X \cup Y, v, C \cup D)
<1> DEFINE u == s \o t
<1>1. /\ u \in Seq(Item) /\ Len(u) = Len(s) + Len(t)
      /\ \A i \in 1..(Len(s) + Len(t)) : u[i] = IF i <= Len(s) THEN s[i] ELSE t[i - Len(s)]
  BY ConcatProperties
<1>2. /\ Len(s) \in Nat /\ Len(t) \in Nat /\ DOMAIN s = 1..Len(s) /\ DOMAIN t = 1..Len(t)
      /\ DOMAIN u = 1..(Len(s) + Len(t))
  BY <1>1, LenProperties
<1> HIDE DEF u
<1>3. \A i \in DOMAIN s : u[i] = s[i] /\ i \in DOMAIN u
  BY <1>1, <1>2
<1>4. \A i \in DOMAIN t : u[i + Len(s)] = t[i] /\ i + Len(s) \in DOMAIN u
  BY <1>1, <1>2
<1>5. \A i \in DOMAIN u : i \in DOMAIN s \/ \E k \in DOMAIN t : i = k + Len(s)
  <2> TAKE i \in DOMAIN u
  <2>1. CASE i <= Len(s)
    BY <1>2, <2>1
  <2>2. CASE i > Len(s)
    <3>1. i - Len(s) \in DOMAIN t /\ i = (i - Len(s)) + Len(s)
      BY <1>2, <2>2
    <3> QED BY <3>1
  <2> QED BY <1>2, <2>1, <2>2
<1>6. ASSUME NEW i \in DOMAIN u, u[i].what = "op"
      PROVE  LET op == u[i].op
             IN  /\ Mentions(op) \subseteq X \cup Y /\ op.kind # "split"
                 /\ op.kind = "event" => op.id = v
                 /\ op.kind = "supersede" => Apart(op.olds)
                 /\ op.kind \in Revising =>
                      /\ op.did \in C \cup D
                      /\ \A j \in 1..(i - 1) :
                            u[j].what = "op" => op.did \notin Mentions(u[j].op)
  <2>1. CASE i \in DOMAIN s
    <3>1. \A j \in 1..(i - 1) : u[j] = s[j]
      BY <1>2, <1>3, <2>1
    <3> QED BY <1>3, <1>6, <2>1, <3>1 DEF Orderly
  <2>2. ASSUME NEW k \in DOMAIN t, i = k + Len(s)
        PROVE  LET op == u[i].op
               IN  /\ Mentions(op) \subseteq X \cup Y /\ op.kind # "split"
                   /\ op.kind = "event" => op.id = v
                   /\ op.kind = "supersede" => Apart(op.olds)
                   /\ op.kind \in Revising =>
                        /\ op.did \in C \cup D
                        /\ \A j \in 1..(i - 1) :
                              u[j].what = "op" => op.did \notin Mentions(u[j].op)
    <3>1. u[i] = t[k]
      BY <1>4, <2>2
    <3> DEFINE op == t[k].op
    <3>2. /\ Mentions(op) \subseteq Y /\ op.kind # "split"
          /\ op.kind = "event" => op.id = v
          /\ op.kind = "supersede" => Apart(op.olds)
          /\ op.kind \in Revising =>
               /\ op.did \in D
               /\ \A j \in 1..(k - 1) : t[j].what = "op" => op.did \notin Mentions(t[j].op)
      BY <1>6, <2>2, <3>1 DEF Orderly
    <3> HIDE DEF op
    <3>3. ASSUME op.kind \in Revising, NEW j \in 1..(i - 1), u[j].what = "op"
          PROVE  op.did \notin Mentions(u[j].op)
      <4>1. CASE j \in DOMAIN s
        <5>1. Mentions(s[j].op) \subseteq X
          BY <1>3, <3>3, <4>1 DEF Orderly
        <5> QED BY <1>3, <3>2, <3>3, <4>1, <5>1
      <4>2. CASE j \notin DOMAIN s
        <5>1. j - Len(s) \in 1..(k - 1) /\ j - Len(s) \in DOMAIN t
          BY <1>2, <2>2, <4>2
        <5>2. u[j] = t[j - Len(s)]
          <6>1. (j - Len(s)) + Len(s) = j
            BY <1>2
          <6> QED BY <1>4, <5>1, <6>1
        <5> QED BY <3>2, <3>3, <5>1, <5>2
      <4> QED BY <4>1, <4>2
    <3> QED BY <3>1, <3>2, <3>3 DEF op
  <2> QED BY <1>5, <2>1, <2>2
<1>7. ASSUME NEW i \in DOMAIN u, u[i].what = "quote"
      PROVE  /\ u[i].quote.source = v
             /\ \E j \in 1..(i - 1) : /\ u[j].what = "op" /\ u[j].op.kind \in Claiming
                                      /\ u[j].op.id = u[i].of
  <2>1. CASE i \in DOMAIN s
    <3>1. \A j \in 1..(i - 1) : u[j] = s[j]
      BY <1>2, <1>3, <2>1
    <3> QED BY <1>3, <1>7, <2>1, <3>1 DEF Orderly
  <2>2. ASSUME NEW k \in DOMAIN t, i = k + Len(s)
        PROVE  /\ u[i].quote.source = v
               /\ \E j \in 1..(i - 1) : /\ u[j].what = "op" /\ u[j].op.kind \in Claiming
                                        /\ u[j].op.id = u[i].of
    <3>1. u[i] = t[k]
      BY <1>4, <2>2
    <3>2. PICK j \in 1..(k - 1) : /\ t[j].what = "op" /\ t[j].op.kind \in Claiming
                                  /\ t[j].op.id = t[k].of
      BY <1>7, <2>2, <3>1 DEF Orderly
    <3>3. j \in DOMAIN t /\ j + Len(s) \in 1..(i - 1)
      BY <1>2, <2>2
    <3>4. t[k].quote.source = v
      BY <1>7, <2>2, <3>1 DEF Orderly
    <3> QED BY <1>4, <3>1, <3>2, <3>3, <3>4
  <2> QED BY <1>5, <2>1, <2>2
<1>8. Orderly(u, X \cup Y, v, C \cup D)
  BY <1>6, <1>7 DEF Orderly
<1> QED BY <1>1, <1>8 DEF u

(* The entities a request finds new. *)
LEMMA EntitiesFirst ==
  ASSUME NEW e, NEW xs \in SUBSET EntityId, NEW v
  PROVE  EntityItems(e, xs) \in Seq(Item) /\ Orderly(EntityItems(e, xs), EntityId, v, {})
<1> DEFINE S == xs \ e.entities
           new == Seqs!SetToSeq(S)
           s == EntityItems(e, xs)
<1>1. IsFiniteSet(S)
  BY IdAssumption, FS_Subset
<1>2. new \in Seq(S)
  BY <1>1, Enumerated
<1> HIDE DEF new
<1>3. Len(new) \in Nat /\ DOMAIN new = 1..Len(new) /\ \A i \in 1..Len(new) : new[i] \in S
  BY <1>2, LenProperties, ElementOfSeq
<1>4. s = [i \in 1..Len(new) |-> OpItem([kind |-> "entity", id |-> new[i]])]
  BY <1>3 DEF EntityItems, new
<1>5. ASSUME NEW y \in EntityId
      PROVE  LET t == OpItem([kind |-> "entity", id |-> y])
             IN  /\ t \in Item /\ t.what = "op" /\ t.op.kind = "entity"
                 /\ Mentions(t.op) \subseteq EntityId
  <2> DEFINE op == [kind |-> "entity", id |-> y]
  <2>1. op \in Loggable /\ op.kind = "entity" /\ Mentions(op) = {y}
    BY DEF Loggable, Writable, Op, Primitive, Mentions
  <2> HIDE DEF op
  <2> QED BY <2>1 DEF OpItem, Item, Label, op
<1> HIDE DEF s
<1>6. \A i \in 1..Len(new) :
        s[i] \in Item /\ s[i].what = "op" /\ s[i].op.kind = "entity"
        /\ Mentions(s[i].op) \subseteq EntityId
  BY <1>3, <1>4, <1>5
<1>7. s \in Seq(Item) /\ DOMAIN s = 1..Len(new)
  BY <1>3, <1>4, <1>6, SeqDef
<1> QED BY <1>6, <1>7 DEF Orderly, Revising, s

(* More may be mentioned, more links may be made. *)
LEMMA Looser ==
  ASSUME NEW s, NEW X, NEW Y, X \subseteq Y, NEW v, NEW C, NEW D, C \subseteq D, Orderly(s, X, v, C)
  PROVE  Orderly(s, Y, v, D)
BY DEF Orderly

(* A claim that replaces others, with its quote. *)
LEMMA ReplacementOrderly ==
  ASSUME NEW a \in AssertionId, NEW d \in DerivationId, NEW v \in EventId, NEW from \in EntityId,
         NEW claim \in Assertion, NEW olds \in Seq(AssertionId), Apart(olds)
  PROVE  LET s == <<OpItem([kind |-> "supersede", id |-> a, claim |-> claim,
                            olds |-> olds, did |-> d]),
                    QuoteItem(a, v, from)>>
         IN  s \in Seq(Item) /\ Orderly(s, {a, d}, v, {d})
<1> DEFINE op == [kind |-> "supersede", id |-> a, claim |-> claim, olds |-> olds, did |-> d]
           t1 == OpItem(op)
           t2 == QuoteItem(a, v, from)
           s  == <<t1, t2>>
<1>1. /\ op \in Loggable /\ op.kind = "supersede" /\ op.id = a /\ op.did = d /\ op.olds = olds
      /\ Mentions(op) = {a, d}
  BY DEF Loggable, Writable, Op, Mentions, Stating, Claiming
<1> HIDE DEF op
<1>2. t1 \in Item /\ t1.what = "op" /\ t1.op = op
  BY <1>1 DEF OpItem, Item, Label
<1>3. t2 \in Item /\ t2.what = "quote" /\ t2.quote.source = v /\ t2.of = a
  BY DEF QuoteItem, Item, Quoted
<1> HIDE DEF t1, t2
<1>4. s \in Seq(Item) /\ DOMAIN s = {1, 2} /\ s[1] = t1 /\ s[2] = t2
  BY <1>2, <1>3
<1> HIDE DEF s
<1>5. /\ \A j \in 1..0 : FALSE
      /\ 1 - 1 = 0 /\ 1 \in 1..(2 - 1)
  OBVIOUS
<1>6. op.kind \in Claiming /\ op.kind # "split" /\ op.kind # "event"
  BY <1>1 DEF Claiming
<1> QED BY <1>1, <1>2, <1>3, <1>4, <1>5, <1>6 DEF Orderly, s, t1, t2, op

(* A new claim, derived from the event, with its quote. *)
LEMMA ClaimOrderly ==
  ASSUME NEW a \in AssertionId, NEW d \in DerivationId, NEW v \in EventId, NEW from \in EntityId,
         NEW claim \in Assertion
  PROVE  LET s == <<OpItem([kind |-> "assert", id |-> a, claim |-> claim]),
                    OpItem([kind |-> "derive", did |-> d, of |-> a, ants |-> {v}]),
                    QuoteItem(a, v, from)>>
         IN  s \in Seq(Item) /\ Orderly(s, {a, d}, v, {d})
<1> DEFINE o1 == [kind |-> "assert", id |-> a, claim |-> claim]
           o2 == [kind |-> "derive", did |-> d, of |-> a, ants |-> {v}]
           t1 == OpItem(o1)
           t2 == OpItem(o2)
           t3 == QuoteItem(a, v, from)
           s  == <<t1, t2, t3>>
<1>1. /\ o1 \in Loggable /\ o1.kind = "assert" /\ o1.id = a /\ Mentions(o1) = {a}
  BY DEF Loggable, Writable, Op, Mentions, Stating, Claiming
<1>2. /\ o2 \in Loggable /\ o2.kind = "derive" /\ Mentions(o2) = {d}
  BY DEF Loggable, Writable, Op, Primitive, Mentions, Stating, Claiming
<1> HIDE DEF o1, o2
<1>3. /\ t1 \in Item /\ t1.what = "op" /\ t1.op = o1
      /\ t2 \in Item /\ t2.what = "op" /\ t2.op = o2
  BY <1>1, <1>2 DEF OpItem, Item, Label
<1>4. t3 \in Item /\ t3.what = "quote" /\ t3.quote.source = v /\ t3.of = a
  BY DEF QuoteItem, Item, Quoted
<1> HIDE DEF t1, t2, t3
<1>5. s \in Seq(Item) /\ DOMAIN s = {1, 2, 3} /\ s[1] = t1 /\ s[2] = t2 /\ s[3] = t3
  BY <1>3, <1>4
<1> HIDE DEF s
<1>6. 1 \in 1..(3 - 1)
  OBVIOUS
<1>7. /\ o1.kind \in Claiming /\ o1.kind \notin Revising \cup {"event", "split"}
      /\ o2.kind \notin Revising \cup {"event", "split"}
  BY <1>1, <1>2 DEF Claiming, Revising
<1>8. o1.kind # "supersede" /\ o2.kind # "supersede"
  BY <1>1, <1>2
<1>9. ASSUME NEW i \in DOMAIN s, s[i].what = "op"
      PROVE  /\ Mentions(s[i].op) \subseteq {a, d} /\ s[i].op.kind \notin Revising
             /\ s[i].op.kind \notin {"split", "event", "supersede"}
  BY <1>1, <1>2, <1>3, <1>4, <1>5, <1>7, <1>8, <1>9
<1>10. ASSUME NEW i \in DOMAIN s, s[i].what = "quote"
       PROVE  /\ s[i].quote.source = v
              /\ \E j \in 1..(i - 1) : /\ s[j].what = "op" /\ s[j].op.kind \in Claiming
                                       /\ s[j].op.id = s[i].of
  <2>1. i = 3
    BY <1>3, <1>5, <1>10
  <2> QED BY <1>1, <1>3, <1>4, <1>5, <1>6, <1>7, <2>1
<1>11. Orderly(s, {a, d}, v, {d})
  BY <1>9, <1>10 DEF Orderly
<1> QED BY <1>5, <1>11 DEF s, t1, t2, t3, o1, o2

(* What one fact records. *)
LEMMA FactOrderly ==
  ASSUME NEW e, TypedEngine(e), NEW T \in Time, NEW from \in EntityId, NEW f \in Fact,
         NEW v \in EventId, NEW a \in AssertionId, NEW d \in DerivationId
  PROVE  LET s == FactItems(e, T, from, f, v, a, d)
         IN  s \in Seq(Item) /\ Orderly(s, EntityId \cup {a, d}, v, {d})
<1> DEFINE O == OpenAbout(e, f, Weaker[f.prop], T)
           olds  == Seqs!SetToSeq(O)
           claim == [agent |-> Agt, subjects |-> Parties(f), prop |-> f.prop, time |-> T]
           self  == EntityItems(e, {f.subject})
           more  == EntityItems(e, f.others \ {f.subject})
           known == self \o more
           sup   == <<OpItem([kind |-> "supersede", id |-> a, claim |-> claim,
                              olds |-> olds, did |-> d]),
                      QuoteItem(a, v, from)>>
           new   == <<OpItem([kind |-> "assert", id |-> a, claim |-> claim]),
                      OpItem([kind |-> "derive", did |-> d, of |-> a, ants |-> {v}]),
                      QuoteItem(a, v, from)>>
           s     == FactItems(e, T, from, f, v, a, d)
<1>1. s \in {self, known \o sup, known \o new}
  BY DEF FactItems
<1>2. f.subject \in EntityId /\ f.others \in SUBSET EntityId /\ f.prop \in Prop
  BY DEF Fact
<1>3. claim \in Assertion
  BY <1>2, ErasureAssumption DEF Assertion, Parties, Token
<1>4. olds \in Seq(AssertionId) /\ Apart(olds)
  <2>1. O \subseteq AssertionId
    BY DEF OpenAbout, TypedEngine
  <2>2. IsFiniteSet(O)
    BY <2>1, IdAssumption, FS_Subset
  <2> HIDE DEF O
  <2>3. olds \in Seq(O) /\ Apart(olds)
    BY <2>2, Enumerated DEF Apart
  <2> HIDE DEF olds
  <2> QED BY <2>1, <2>3
<1> HIDE DEF claim, olds, s, O
<1>5. sup \in Seq(Item) /\ Orderly(sup, {a, d}, v, {d})
  BY <1>3, <1>4, ReplacementOrderly
<1>6. new \in Seq(Item) /\ Orderly(new, {a, d}, v, {d})
  BY <1>3, ClaimOrderly
<1> HIDE DEF sup, new
<1>7. self \in Seq(Item) /\ Orderly(self, EntityId, v, {})
  <2>1. {f.subject} \in SUBSET EntityId
    BY <1>2
  <2> QED BY <2>1, EntitiesFirst
<1>8. more \in Seq(Item) /\ Orderly(more, EntityId, v, {})
  <2> DEFINE xs == f.others \ {f.subject}
  <2>1. xs \in SUBSET EntityId
    BY <1>2
  <2> HIDE DEF xs
  <2>2. EntityItems(e, xs) \in Seq(Item) /\ Orderly(EntityItems(e, xs), EntityId, v, {})
    BY <2>1, EntitiesFirst
  <2> QED BY <2>2 DEF xs
<1> HIDE DEF self, more
<1> DEFINE Z == {}
<1>9. known \in Seq(Item) /\ Orderly(known, EntityId, v, {})
  <2>1. EntityId \cap Z = {} /\ EntityId \cup EntityId = EntityId /\ Z \cup Z = Z
    OBVIOUS
  <2>2. Orderly(self, EntityId, v, Z) /\ Orderly(more, EntityId, v, Z)
    BY <1>7, <1>8
  <2> HIDE DEF Z
  <2>3. /\ self \o more \in Seq(Item)
        /\ Orderly(self \o more, EntityId \cup EntityId, v, Z \cup Z)
    BY <1>7, <1>8, <2>1, <2>2, Joined
  <2>4. known \in Seq(Item) /\ Orderly(known, EntityId, v, Z)
    BY <2>1, <2>3
  <2> QED BY <2>4 DEF Z
<1> HIDE DEF known
<1> DEFINE X == {a, d}
           D == {d}
<1>10. EntityId \cap D = {} /\ Z \cup D = D
  BY IdAssumption
<1>11. /\ Orderly(known, EntityId, v, Z) /\ Orderly(sup, X, v, D) /\ Orderly(new, X, v, D)
       /\ Orderly(self, EntityId, v, Z) /\ Z \subseteq D /\ EntityId \subseteq EntityId \cup X
  BY <1>5, <1>6, <1>7, <1>9
<1> HIDE DEF X, D, Z
<1>12. /\ known \o sup \in Seq(Item) /\ Orderly(known \o sup, EntityId \cup X, v, Z \cup D)
  BY <1>5, <1>9, <1>10, <1>11, Joined
<1>13. /\ known \o new \in Seq(Item) /\ Orderly(known \o new, EntityId \cup X, v, Z \cup D)
  BY <1>6, <1>9, <1>10, <1>11, Joined
<1>14. Orderly(self, EntityId \cup X, v, D)
  BY <1>11, Looser
<1> QED BY <1>1, <1>7, <1>10, <1>12, <1>13, <1>14 DEF s, X, D

(* The engine goes on from item to item, and keeps its type. *)
LEMMA RecordedTyped ==
  ASSUME NEW e, TypedEngine(e), NEW s \in Seq(Item)
  PROVE  TypedEngine(Recorded(e, s))
<1> DEFINE n == Len(s)
           N(x, t) == IF t.what = "op" THEN Apply(x, t.op).eng ELSE x
           G(m, g) == /\ g = [i \in 0..m |-> g[i]]
                      /\ g[0] = e
                      /\ \A i \in 1..m : g[i] = N(g[i - 1], s[i])
           T == {m \in Nat : \E g : G(m, g)}
           W == CHOOSE u : u = [k \in 0..n |-> IF k = 0 THEN e
                                               ELSE IF s[k].what = "op"
                                               THEN Apply(u[k - 1], s[k].op).eng
                                               ELSE u[k - 1]]
<1>1. Recorded(e, s) = W[n]
  BY DEF Recorded
<1>2. n \in Nat /\ \A k \in 1..n : s[k] \in Item
  BY LenProperties, ElementOfSeq
<1>3. 0 \in T
  <2> DEFINE g == [i \in 0..0 |-> e]
  <2>1. g = [i \in 0..0 |-> g[i]] /\ g[0] = e
    OBVIOUS
  <2> HIDE DEF g
  <2>2. G(0, g)
    BY <2>1
  <2> QED BY <2>2
<1>4. ASSUME NEW m \in Nat, m \in T PROVE m + 1 \in T
  <2>1. PICK g : G(m, g)
    BY <1>4
  <2> DEFINE h == [i \in 0..(m + 1) |-> IF i = m + 1 THEN N(g[m], s[m + 1]) ELSE g[i]]
  <2>2. h = [i \in 0..(m + 1) |-> h[i]]
    OBVIOUS
  <2>3. h[m + 1] = N(g[m], s[m + 1]) /\ \A i \in 0..m : h[i] = g[i]
    OBVIOUS
  <2> HIDE DEF h, N
  <2>4. h[m + 1] = N(h[m], s[m + 1]) /\ h[0] = e
    BY <2>1, <2>3
  <2>5. \A i \in 1..(m + 1) : h[i] = N(h[i - 1], s[i])
    <3> TAKE i \in 1..(m + 1)
    <3>1. CASE i = m + 1
      BY <2>4, <3>1
    <3>2. CASE i \in 1..m
      <4>1. i \in 0..m /\ i - 1 \in 0..m
        BY <3>2
      <4>2. h[i] = g[i] /\ h[i - 1] = g[i - 1]
        BY <2>3, <4>1
      <4> QED BY <2>1, <3>2, <4>2
    <3> QED BY <3>1, <3>2
  <2>6. G(m + 1, h)
    BY <2>2, <2>4, <2>5
  <2>7. m + 1 \in Nat
    OBVIOUS
  <2> HIDE DEF G
  <2> QED BY <2>6, <2>7
<1> HIDE DEF T, n
<1>5. n \in T
  BY <1>2, <1>3, <1>4, SetInduction
<1>6. PICK g : G(n, g)
  BY <1>5 DEF T
<1>7. \A k \in 0..n : g[k] = IF k = 0 THEN e ELSE N(g[k - 1], s[k])
  <2> TAKE k \in 0..n
  <2>1. CASE k = 0
    BY <1>6, <2>1
  <2>2. CASE k \in 1..n
    BY <1>6, <2>2
  <2> QED BY <1>2, <2>1, <2>2
<1>8. g = [k \in 0..n |-> IF k = 0 THEN e ELSE N(g[k - 1], s[k])]
  <2> HIDE DEF N
  <2> QED BY <1>6, <1>7
<1>9. W = [k \in 0..n |-> IF k = 0 THEN e ELSE N(W[k - 1], s[k])]
  BY <1>8
<1> HIDE DEF W
<1> DEFINE U == {k \in Nat : k <= n => TypedEngine(W[k])}
<1>10. 0 \in U
  BY <1>2, <1>9
<1>11. ASSUME NEW k \in Nat, k \in U PROVE k + 1 \in U
  <2> SUFFICES ASSUME k + 1 <= n PROVE TypedEngine(W[k + 1])
    OBVIOUS
  <2>1. k + 1 \in 1..n /\ (k + 1) - 1 = k /\ TypedEngine(W[k])
    BY <1>2, <1>11
  <2> DEFINE t == s[k + 1]
  <2>2. W[k + 1] = N(W[k], t)
    <3> HIDE DEF N
    <3> QED BY <1>2, <1>9, <2>1
  <2>3. t \in Item
    BY <1>2, <2>1
  <2>4. t.what = "op" => t.op \in Loggable
    BY <2>3 DEF Item
  <2> HIDE DEF t
  <2>5. CASE t.what = "op"
    BY <2>1, <2>2, <2>4, <2>5, Applied
  <2>6. CASE t.what # "op"
    BY <2>1, <2>2, <2>6
  <2> QED BY <2>5, <2>6
<1> HIDE DEF U
<1>12. n \in U
  BY <1>2, <1>10, <1>11, SetInduction
<1> QED BY <1>1, <1>2, <1>12 DEF U

(* What an observed message records, and what it may mention. *)
FirstOf(q, n) == {q[i] : i \in 1..n}
MayMention(v, as, ds, n) == EntityId \cup {v} \cup FirstOf(as, n) \cup FirstOf(ds, n)

(* Its items come in the order in which they need each other. *)
LEMMA MessageOrderly ==
  ASSUME NEW e, TypedEngine(e), NEW T \in Time, NEW m \in Messages, NEW v \in EventId,
         NEW as \in Seq(AssertionId), NEW ds \in Seq(DerivationId), Apart(ds),
         Len(m.facts) <= Len(as), Len(m.facts) <= Len(ds)
  PROVE  LET n == Len(m.facts)
             s == MessageItems(e, T, m, v, as, ds)
         IN  /\ n \in Nat /\ s \in Seq(Item)
             /\ Orderly(s, MayMention(v, as, ds, n), v, FirstOf(ds, n))
<1> DEFINE n == Len(m.facts)
           S == Seq(Item)
           z == <<EventItem(v, m.from)>>
           Said(k, s) == FactItems(Recorded(e, s), T, m.from, m.facts[k], v, as[k], ds[k])
           F == [p \in (1..n) \X S |-> p[2] \o Said(p[1], p[2])]
           W == CHOOSE u : u = [k \in 0..n |-> IF k = 0 THEN z
                                               ELSE u[k - 1] \o Said(k, u[k - 1])]
           X(k) == EntityId \cup {v} \cup {as[i] : i \in 1..k} \cup {ds[i] : i \in 1..k}
           D(k) == {ds[i] : i \in 1..k}
<1>1. MessageItems(e, T, m, v, as, ds) = W[n]
  BY DEF MessageItems
<1>2. /\ m.from \in EntityId /\ m.facts \in Seq(Fact)
  BY ErasureAssumption
<1>3. n \in Nat /\ \A k \in 1..n : m.facts[k] \in Fact
  BY <1>2, LenProperties, ElementOfSeq
<1>4. \A k \in 1..n : as[k] \in AssertionId /\ ds[k] \in DerivationId
  <2>1. Len(as) \in Nat /\ Len(ds) \in Nat
    BY LenProperties
  <2> DEFINE p == Len(as)
             q == Len(ds)
  <2>2. p \in Nat /\ q \in Nat /\ n \in Nat /\ n <= p /\ n <= q
    BY <1>3, <2>1
  <2> HIDE DEF n, p, q
  <2>3. \A k \in 1..n : k \in 1..p /\ k \in 1..q
    BY <2>2
  <2> QED BY <2>3, ElementOfSeq DEF p, q
<1>5. \A i, j \in 1..n : ds[i] = ds[j] => i = j
  <2>1. DOMAIN ds = 1..Len(ds) /\ Len(ds) \in Nat
    BY LenProperties
  <2> DEFINE k == Len(ds)
  <2>2. k \in Nat /\ n <= k
    BY <2>1
  <2> HIDE DEF n, k
  <2>3. \A i \in 1..n : i \in 1..k
    BY <1>3, <2>2
  <2>4. \A i, j \in 1..k : ds[i] = ds[j] => i = j
    BY <2>1 DEF Apart, k
  <2> QED BY <2>3, <2>4 DEF k
<1> HIDE DEF n
<1>6. \A k \in 1..n, s \in S :
        /\ Said(k, s) \in S
        /\ Orderly(Said(k, s), EntityId \cup {as[k], ds[k]}, v, {ds[k]})
  BY <1>2, <1>3, <1>4, RecordedTyped, FactOrderly
<1>7. z \in S /\ Orderly(z, EntityId \cup {v}, v, {})
  <2> DEFINE op == [kind |-> "event", id |-> v]
             t  == EventItem(v, m.from)
  <2>1. op \in Loggable /\ op.kind = "event" /\ op.id = v /\ Mentions(op) = {v}
    BY DEF Loggable, Writable, Op, Primitive, Mentions
  <2> HIDE DEF op
  <2>2. t \in Item /\ t.what = "op" /\ t.op = op
    BY <1>2, <2>1 DEF EventItem, Item, Label, op
  <2> HIDE DEF t
  <2>3. z \in Seq(Item) /\ DOMAIN z = {1} /\ z[1] = t
    BY <2>2 DEF t
  <2> HIDE DEF z
  <2> QED BY <2>1, <2>2, <2>3 DEF Orderly, Revising
<1> HIDE DEF Said, z
<1>8. \A i \in 1..n, s \in S : F[<<i, s>>] = s \o Said(i, s) /\ s \o Said(i, s) \in S
  <2> TAKE i \in 1..n, s \in S
  <2>1. s \o Said(i, s) \in S
    BY <1>6, ConcatProperties
  <2> HIDE DEF S
  <2> QED BY <2>1
<1> HIDE DEF F, S
<1>9. PICK g : Recurs(g, n, z, F) /\ \A k \in 0..n : g[k] \in S
  <2>1. \A i \in 1..n, s \in S : F[<<i, s>>] \in S
    BY <1>8
  <2> QED BY <1>3, <1>7, <2>1, Recursion
<1>10. \A k \in 0..n : g[k] = IF k = 0 THEN z ELSE g[k - 1] \o Said(k, g[k - 1])
  <2> TAKE k \in 0..n
  <2>1. CASE k = 0
    BY <1>9, <2>1 DEF Recurs
  <2>2. CASE k # 0
    <3>1. k \in 1..n /\ k - 1 \in 0..n
      BY <1>3, <2>2
    <3>2. g[k] = F[<<k, g[k - 1]>>] /\ g[k - 1] \in S
      BY <1>9, <3>1 DEF Recurs
    <3> QED BY <1>8, <2>2, <3>1, <3>2
  <2> QED BY <2>1, <2>2
<1>11. g = [k \in 0..n |-> IF k = 0 THEN z ELSE g[k - 1] \o Said(k, g[k - 1])]
  BY <1>9, <1>10 DEF Recurs
<1>12. W = [k \in 0..n |-> IF k = 0 THEN z ELSE W[k - 1] \o Said(k, W[k - 1])]
  BY <1>11
<1> HIDE DEF W
<1> DEFINE P(k) == W[k] \in S /\ Orderly(W[k], X(k), v, D(k))
           U == {k \in Nat : k <= n => P(k)}
<1>13. 0 \in U
  <2>1. W[0] = z
    BY <1>3, <1>12
  <2>2. X(0) = EntityId \cup {v} /\ D(0) = {}
    OBVIOUS
  <2>3. P(0)
    BY <1>7, <2>1, <2>2
  <2> HIDE DEF P
  <2> QED BY <2>3
<1>14. ASSUME NEW k \in Nat, k \in U PROVE k + 1 \in U
  <2> SUFFICES ASSUME k + 1 <= n PROVE P(k + 1)
    OBVIOUS
  <2>1. k + 1 \in 0..n /\ k + 1 # 0 /\ (k + 1) - 1 = k /\ k + 1 \in 1..n
    BY <1>3
  <2>2. W[k + 1] = W[k] \o Said(k + 1, W[k])
    BY <1>12, <2>1
  <2>3. P(k)
    BY <1>3, <1>14, <2>1
  <2> DEFINE Y == EntityId \cup {as[k + 1], ds[k + 1]}
             C == {ds[k + 1]}
  <2>4. X(k) \cap C = {}
    <3>1. ds[k + 1] \notin EntityId \cup {v} \cup {as[i] : i \in 1..k}
      <4>1. \A i \in 1..k : as[i] \in AssertionId
        <5>1. \A i \in 1..k : i \in 1..n
          BY <1>3, <2>1
        <5> QED BY <1>4, <5>1
      <4> QED BY <1>4, <2>1, <4>1, IdAssumption
    <3>2. ds[k + 1] \notin {ds[i] : i \in 1..k}
      <4>1. \A i \in 1..k : i \in 1..n /\ i # k + 1
        BY <1>3, <2>1
      <4> QED BY <1>5, <2>1, <4>1
    <3> QED BY <3>1, <3>2
  <2>5. X(k) \cup Y = X(k + 1) /\ D(k) \cup C = D(k + 1)
    <3>1. 1..(k + 1) = (1..k) \cup {k + 1}
      OBVIOUS
    <3> QED BY <3>1
  <2>6. Said(k + 1, W[k]) \in S /\ Orderly(Said(k + 1, W[k]), Y, v, C)
    BY <1>6, <2>1, <2>3
  <2> HIDE DEF X, D, Y, C
  <2>7. /\ W[k] \o Said(k + 1, W[k]) \in Seq(Item)
        /\ Orderly(W[k] \o Said(k + 1, W[k]), X(k) \cup Y, v, D(k) \cup C)
    BY <2>3, <2>4, <2>6, Joined DEF S
  <2> QED BY <2>2, <2>5, <2>7 DEF S
<1> HIDE DEF U
<1>15. P(n)
  <2>1. n \in U
    BY <1>3, <1>13, <1>14, SetInduction
  <2> QED BY <1>3, <2>1 DEF U
<1>16. X(n) = MayMention(v, as, ds, n) /\ D(n) = FirstOf(ds, n)
  BY DEF MayMention, FirstOf
<1> HIDE DEF X, D
<1> QED BY <1>1, <1>3, <1>15, <1>16 DEF n, S

(* An operation that will change nothing if it is refused, on an engine e   *)
(* whose log holds O; `cited' are events that must stay as they are.        *)
ReadyOp(op, M, e, O, cited) ==
  /\ Mentions(op) \subseteq M \cup EntityId
  /\ op.kind \in Revising => ~ Known(e, op.did)
  /\ op.kind = "supersede" => Apart(op.olds)
  /\ op.kind = "split" => \E c \in O : c.kind = "corefer" /\ c.id = op.cor
  /\ op.kind = "event" => op.id \notin cited

(* What is left of a request: M are the ids given out, E the erasures.      *)
Ready(todo, M, e, O, E) ==
  /\ \A i \in DOMAIN todo : todo[i].what = "op" =>
        /\ ReadyOp(todo[i].op, M, e, O, E.cited)
        /\ todo[i].op.kind \in Revising =>
             \A j \in 1..(i - 1) :
                todo[j].what = "op" => todo[i].op.did \notin Mentions(todo[j].op)
  /\ \A i \in DOMAIN todo : todo[i].what = "quote" =>
        /\ todo[i].quote.source \in M \ E.heard
        /\ \/ \E op \in O : op.kind \in Claiming /\ op.id = todo[i].of
           \/ \E j \in 1..(i - 1) : /\ todo[j].what = "op" /\ todo[j].op.kind \in Claiming
                                    /\ todo[j].op.id = todo[i].of

(* An orderly list whose ids are new is ready. *)
LEMMA OrderlyReady ==
  ASSUME NEW s, NEW X, NEW v, NEW D, Orderly(s, X, v, D), NEW M, NEW e, NEW O, NEW E,
         X \subseteq M \cup EntityId, \A d \in D : ~ Known(e, d),
         v \in M, v \notin E.cited \cup E.heard
  PROVE  Ready(s, M, e, O, E)
<1>1. ASSUME NEW i \in DOMAIN s, s[i].what = "op"
      PROVE  /\ ReadyOp(s[i].op, M, e, O, E.cited)
             /\ s[i].op.kind \in Revising =>
                  \A j \in 1..(i - 1) : s[j].what = "op" => s[i].op.did \notin Mentions(s[j].op)
  BY <1>1 DEF Orderly, ReadyOp
<1>2. ASSUME NEW i \in DOMAIN s, s[i].what = "quote"
      PROVE  /\ s[i].quote.source \in M \ E.heard
             /\ \E j \in 1..(i - 1) : /\ s[j].what = "op" /\ s[j].op.kind \in Claiming
                                      /\ s[j].op.id = s[i].of
  BY <1>2 DEF Orderly
<1> QED BY <1>1, <1>2 DEF Ready

(* A request of one operation. *)
LEMMA SingleReady ==
  ASSUME NEW op \in Loggable
  PROVE  /\ <<OpItem(op)>> \in Seq(Item)
         /\ \A M, e, O, E :
               ReadyOp(op, M, e, O, E.cited) => Ready(<<OpItem(op)>>, M, e, O, E)
<1> DEFINE t == OpItem(op)
           s == <<t>>
<1>1. t \in Item /\ t.what = "op" /\ t.op = op
  BY DEF OpItem, Item, Label
<1> HIDE DEF t
<1>2. s \in Seq(Item) /\ DOMAIN s = {1} /\ s[1] = t
  BY <1>1
<1>3. \A j \in 1..(1 - 1) : FALSE
  OBVIOUS
<1> HIDE DEF s
<1>4. ASSUME NEW M, NEW e, NEW O, NEW E, ReadyOp(op, M, e, O, E.cited)
      PROVE  Ready(s, M, e, O, E)
  <2>1. ASSUME NEW i \in DOMAIN s PROVE i = 1 /\ s[i].what = "op" /\ s[i].op = op
    BY <1>1, <1>2
  <2> QED BY <1>3, <1>4, <2>1 DEF Ready
<1> QED BY <1>2, <1>4 DEF s, t

(* An operation makes known only what it mentions. *)
LEMMA KnownMore ==
  ASSUME NEW e, NEW f, NEW op, Records(e, f, op), NEW y, Known(f, y)
  PROVE  Known(e, y) \/ y \in Mentions(op)
<1> SUFFICES ASSUME ~ Known(e, y) PROVE y \in Mentions(op)
  OBVIOUS
<1>1. \/ op.kind \in {"entity", "event", "agent"} \cup Stating /\ y = op.id
      \/ op.kind \in Linking /\ y = op.did
  BY DEF Known, Records
<1> QED BY <1>1 DEF Mentions, Stating, Claiming, Revising, Linking

(* The rest of a list. *)
LEMMA RestIs ==
  ASSUME NEW S, NEW s \in Seq(S), s # <<>>
  PROVE  /\ Head(s) = s[1] /\ 1 \in DOMAIN s /\ Tail(s) \in Seq(S) /\ s[1] \in S
         /\ \A i \in DOMAIN Tail(s) : /\ i + 1 \in DOMAIN s /\ Tail(s)[i] = s[i + 1]
                                      /\ i \in Nat
         /\ \A i \in DOMAIN Tail(s) : \A j \in 1..(i - 1) : j \in DOMAIN Tail(s)
<1>1. /\ Head(s) \in S /\ Tail(s) \in Seq(S) /\ Len(Tail(s)) = Len(s) - 1
      /\ \A i \in 1..Len(Tail(s)) : Tail(s)[i] = s[i + 1]
  BY HeadTailProperties
<1>2. /\ Len(s) \in Nat /\ DOMAIN s = 1..Len(s) /\ DOMAIN Tail(s) = 1..Len(Tail(s))
      /\ Len(Tail(s)) \in Nat
  BY <1>1, LenProperties
<1>3. Head(s) = s[1]
  OBVIOUS
<1> DEFINE t == Tail(s)
<1> HIDE DEF t
<1>4. 1 \in 1..Len(s)
  BY <1>1, <1>2
<1>5. \A i \in 1..Len(t) : i + 1 \in 1..Len(s) /\ i \in Nat /\ \A j \in 1..(i - 1) : j \in 1..Len(t)
  BY <1>1, <1>2 DEF t
<1> QED BY <1>1, <1>2, <1>3, <1>4, <1>5 DEF t

(* Once its first operation is on record, the rest of a request is ready. *)
LEMMA NextReady ==
  ASSUME NEW todo \in Seq(Item), todo # <<>>, NEW M, NEW e, NEW O, NEW E,
         Ready(todo, M, e, O, E), todo[1].what = "op", NEW f, Records(e, f, todo[1].op),
         NEW G, G.cited = E.cited, G.heard = E.heard
  PROVE  Ready(Tail(todo), M, f, O \cup {todo[1].op}, G)
<1> DEFINE t  == Tail(todo)
           op == todo[1].op
           Q  == O \cup {op}
<1>1. /\ \A i \in DOMAIN t : i + 1 \in DOMAIN todo /\ t[i] = todo[i + 1] /\ i \in Nat
      /\ \A i \in DOMAIN t : \A j \in 1..(i - 1) : j \in DOMAIN t
  BY RestIs
<1> HIDE DEF t, op
<1>2. ASSUME NEW i \in DOMAIN t, t[i].what = "op"
      PROVE  /\ ReadyOp(t[i].op, M, f, Q, G.cited)
             /\ t[i].op.kind \in Revising =>
                  \A j \in 1..(i - 1) : t[j].what = "op" => t[i].op.did \notin Mentions(t[j].op)
  <2> DEFINE k == i + 1
             o == todo[k].op
  <2>1. k \in DOMAIN todo /\ t[i] = todo[k] /\ i \in Nat
    BY <1>1
  <2>2. /\ ReadyOp(o, M, e, O, E.cited)
        /\ o.kind \in Revising =>
             \A j \in 1..(k - 1) : todo[j].what = "op" => o.did \notin Mentions(todo[j].op)
    BY <1>2, <2>1 DEF Ready
  <2>3. 1 \in 1..(k - 1)
    BY <1>2, <2>1, RestIs, LenProperties DEF t
  <2>4. o.kind \in Revising => ~ Known(f, o.did)
    <3>1. o.kind \in Revising => ~ Known(e, o.did) /\ o.did \notin Mentions(op)
      BY <2>2, <2>3 DEF ReadyOp, op
    <3> QED BY <3>1, KnownMore DEF op
  <2>5. ReadyOp(o, M, f, Q, G.cited)
    BY <2>2, <2>4 DEF ReadyOp
  <2>6. ASSUME o.kind \in Revising, NEW j \in 1..(i - 1), t[j].what = "op"
        PROVE  o.did \notin Mentions(t[j].op)
    <3>1. t[j] = todo[j + 1] /\ j + 1 \in 1..(k - 1)
      BY <1>1, <2>1
    <3> QED BY <2>2, <2>6, <3>1
  <2> HIDE DEF k, o
  <2> QED BY <2>1, <2>5, <2>6 DEF o
<1>3. ASSUME NEW i \in DOMAIN t, t[i].what = "quote"
      PROVE  /\ t[i].quote.source \in M \ G.heard
             /\ \/ \E o \in Q : o.kind \in Claiming /\ o.id = t[i].of
                \/ \E j \in 1..(i - 1) : /\ t[j].what = "op" /\ t[j].op.kind \in Claiming
                                         /\ t[j].op.id = t[i].of
  <2> DEFINE k == i + 1
  <2>1. k \in DOMAIN todo /\ t[i] = todo[k] /\ i \in Nat
    BY <1>1
  <2>2. /\ todo[k].quote.source \in M \ E.heard
        /\ \/ \E o \in O : o.kind \in Claiming /\ o.id = todo[k].of
           \/ \E j \in 1..(k - 1) : /\ todo[j].what = "op" /\ todo[j].op.kind \in Claiming
                                    /\ todo[j].op.id = todo[k].of
    BY <1>3, <2>1 DEF Ready
  <2>3. ASSUME NEW j \in 1..(k - 1), todo[j].what = "op", todo[j].op.kind \in Claiming,
               todo[j].op.id = todo[k].of
        PROVE  \/ \E o \in Q : o.kind \in Claiming /\ o.id = t[i].of
               \/ \E j2 \in 1..(i - 1) : /\ t[j2].what = "op" /\ t[j2].op.kind \in Claiming
                                         /\ t[j2].op.id = t[i].of
    <3>1. CASE j = 1
      BY <2>1, <2>3, <3>1 DEF op
    <3>2. CASE j # 1
      <4> DEFINE j2 == j - 1
      <4>1. j2 \in 1..(i - 1) /\ j2 + 1 = j
        BY <2>1, <3>2
      <4>2. t[j2] = todo[j]
        BY <1>1, <4>1
      <4> HIDE DEF j2
      <4> QED BY <2>1, <2>3, <4>1, <4>2
    <3> QED BY <3>1, <3>2
  <2> QED BY <2>1, <2>2, <2>3
<1> QED BY <1>2, <1>3 DEF Ready, t, op

(* A quote on record leaves the rest of the request ready. *)
LEMMA AfterQuoteReady ==
  ASSUME NEW todo \in Seq(Item), todo # <<>>, NEW M, NEW e, NEW O, NEW E,
         Ready(todo, M, e, O, E), todo[1].what = "quote"
  PROVE  Ready(Tail(todo), M, e, O, E)
<1> DEFINE t  == Tail(todo)
<1>1. /\ \A i \in DOMAIN t : i + 1 \in DOMAIN todo /\ t[i] = todo[i + 1] /\ i \in Nat
      /\ \A i \in DOMAIN t : \A j \in 1..(i - 1) : j \in DOMAIN t
  BY RestIs
<1> HIDE DEF t
<1>2. ASSUME NEW i \in DOMAIN t, t[i].what = "op"
      PROVE  /\ ReadyOp(t[i].op, M, e, O, E.cited)
             /\ t[i].op.kind \in Revising =>
                  \A j \in 1..(i - 1) : t[j].what = "op" => t[i].op.did \notin Mentions(t[j].op)
  <2> DEFINE k == i + 1
  <2>1. k \in DOMAIN todo /\ t[i] = todo[k] /\ i \in Nat
    BY <1>1
  <2>2. /\ ReadyOp(todo[k].op, M, e, O, E.cited)
        /\ todo[k].op.kind \in Revising =>
             \A j \in 1..(k - 1) :
                todo[j].what = "op" => todo[k].op.did \notin Mentions(todo[j].op)
    BY <1>2, <2>1 DEF Ready
  <2>3. \A j \in 1..(i - 1) : t[j] = todo[j + 1] /\ j + 1 \in 1..(k - 1)
    <3> TAKE j \in 1..(i - 1)
    <3>1. t[j] = todo[j + 1]
      BY <1>1, <1>2
    <3>2. j + 1 \in 1..(k - 1)
      BY <2>1
    <3> QED BY <3>1, <3>2
  <2> HIDE DEF k
  <2> QED BY <2>1, <2>2, <2>3
<1>3. ASSUME NEW i \in DOMAIN t, t[i].what = "quote"
      PROVE  /\ t[i].quote.source \in M \ E.heard
             /\ \/ \E o \in O : o.kind \in Claiming /\ o.id = t[i].of
                \/ \E j \in 1..(i - 1) : /\ t[j].what = "op" /\ t[j].op.kind \in Claiming
                                         /\ t[j].op.id = t[i].of
  <2> DEFINE k == i + 1
  <2>1. k \in DOMAIN todo /\ t[i] = todo[k] /\ i \in Nat
    BY <1>1
  <2>2. /\ todo[k].quote.source \in M \ E.heard
        /\ \/ \E o \in O : o.kind \in Claiming /\ o.id = todo[k].of
           \/ \E j \in 1..(k - 1) : /\ todo[j].what = "op" /\ todo[j].op.kind \in Claiming
                                    /\ todo[j].op.id = todo[k].of
    BY <1>3, <2>1 DEF Ready
  <2>3. ASSUME NEW j \in 1..(k - 1), todo[j].what = "op", todo[j].op.kind \in Claiming,
               todo[j].op.id = todo[k].of
        PROVE  \E j2 \in 1..(i - 1) : /\ t[j2].what = "op" /\ t[j2].op.kind \in Claiming
                                      /\ t[j2].op.id = t[i].of
    <3> DEFINE j2 == j - 1
    <3>1. j # 1
      BY <2>3
    <3>2. j2 \in 1..(i - 1) /\ j2 + 1 = j
      BY <2>1, <3>1
    <3>3. t[j2] = todo[j]
      BY <1>1, <3>2
    <3> HIDE DEF j2
    <3> QED BY <2>1, <2>3, <3>2, <3>3
  <2> QED BY <2>1, <2>2, <2>3
<1> QED BY <1>2, <1>3 DEF Ready, t

------------------------------------------------------------------------------
(* The shape of the state, whatever overlaps. *)

TypedProject(p) == /\ p = [eng |-> p.eng, clock |-> p.clock]
                   /\ TypedEngine(p.eng) /\ p.clock \in Nat

TypedWriter(w) == /\ w = [todo |-> w.todo, stale |-> w.stale]
                  /\ w.todo \in Seq(Item) /\ w.stale \in BOOLEAN
                  /\ w.stale => w.todo # <<>>

TypedForget(f) ==
  /\ f = [step |-> f.step, gone |-> f.gone, claims |-> f.claims, redact |-> f.redact,
          sources |-> f.sources, who |-> f.who, rows |-> f.rows, cited |-> f.cited,
          heard |-> f.heard]
  /\ f.step \in {"idle", "rewrite", "purge", "commit", "rebuild", "sign"}
  /\ f.rows \in Seq(Row) /\ f.claims \subseteq AssertionId /\ f.who \subseteq EntityId
  /\ f.redact \subseteq EventId /\ f.sources \subseteq EventId
  /\ f.cited \subseteq EventId /\ f.heard \subseteq EventId

TypedErasures(E) == /\ E = [who |-> E.who, cited |-> E.cited, heard |-> E.heard]
                    /\ E.who \subseteq EntityId
                    /\ E.cited \subseteq EventId /\ E.heard \subseteq EventId

Typed ==
  /\ up \in BOOLEAN /\ overlapped \in BOOLEAN
  /\ TypedProject(project) /\ TypedProject(orphan)
  /\ Store(db) /\ Store(disk)
  /\ TypedWriter(writer) /\ TypedForget(forget) /\ TypedErasures(erasures)

(* What a request may count on where no erasure is in progress. *)
Grounds ==
  /\ Fits(project.eng, OpsIn(db.log))
  /\ \A y : Known(project.eng, y) => y \in minted \cup EntityId \cup AgentId
  /\ erasures.cited \cup erasures.heard \subseteq minted

(* The ids that are free. *)
LEMMA FreeIds ==
  ASSUME NEW S, IsFiniteSet(S), NEW M
  PROVE  LET s == Seqs!SetToSeq(S \ M)
         IN  /\ s \in Seq(S) /\ Apart(s)
             /\ Len(s) \in Nat /\ \A i \in 1..Len(s) : s[i] \in S \ M
             /\ S \ M # {} => s[1] \in S \ M
<1> DEFINE R == S \ M
           s == Seqs!SetToSeq(R)
<1>1. IsFiniteSet(R) /\ R \subseteq S
  BY FS_Subset
<1> HIDE DEF R
<1>2. s \in Seq(R) /\ Apart(s) /\ RangeOf(s) = R
  BY <1>1, Enumerated DEF Apart
<1> HIDE DEF s
<1>3. s \in Seq(S)
  BY <1>1, <1>2
<1>4. Len(s) \in Nat /\ DOMAIN s = 1..Len(s) /\ \A i \in 1..Len(s) : s[i] \in R
  BY <1>2, LenProperties, ElementOfSeq
<1>5. ASSUME R # {} PROVE s[1] \in R
  <2>1. PICK i \in DOMAIN s : TRUE
    BY <1>2, <1>5 DEF RangeOf
  <2>2. 1 \in 1..Len(s)
    BY <1>4, <2>1
  <2> QED BY <1>4, <2>2
<1> QED BY <1>2, <1>3, <1>4, <1>5 DEF s, R

(* A request of one operation: its parts. *)
Request(todo, ids) ==
  /\ todo \in Seq(Item)
  /\ Grounds => Ready(todo, minted \cup ids, project.eng, OpsIn(db.log), erasures)

(* A request of one operation that is ready is ready. *)
LEMMA SingleRequest ==
  ASSUME NEW op \in Loggable, NEW ids,
         Grounds => ReadyOp(op, minted \cup ids, project.eng, OpsIn(db.log), erasures.cited)
  PROVE  Request(<<OpItem(op)>>, ids)
<1> DEFINE s == <<OpItem(op)>>
<1>1. s \in Seq(Item) /\ \A M, e, O, E : ReadyOp(op, M, e, O, E.cited) => Ready(s, M, e, O, E)
  BY SingleReady
<1> HIDE DEF s
<1> QED BY <1>1 DEF Request, s

(* An observed message becomes such a request. *)
LEMMA ObserveTakes ==
  ASSUME Typed, NEW m \in Messages, Observe(m)
  PROVE  \E todo, ids : Take(1, todo, ids) /\ Request(todo, ids)
<1> DEFINE n  == Len(m.facts)
           as == Seqs!SetToSeq(AssertionId \ minted)
           ds == Seqs!SetToSeq(DerivationId \ minted)
           v  == Seqs!SetToSeq(EventId \ minted)[1]
           e  == project.eng
           T  == project.clock + 1
           s  == MessageItems(e, T, m, v, as, ds)
           ids == {v} \cup {as[i] : i \in 1..n} \cup {ds[i] : i \in 1..n}
           D  == FirstOf(ds, n)
           X  == MayMention(v, as, ds, n)
<1>1. /\ EventId \ minted # {} /\ Len(as) >= n /\ Len(ds) >= n
      /\ Take(1, s, ids)
  BY DEF Observe, Unminted
<1>2. /\ as \in Seq(AssertionId) /\ Len(as) \in Nat
      /\ \A i \in 1..Len(as) : as[i] \in AssertionId \ minted
  BY IdAssumption, FreeIds
<1>3. /\ ds \in Seq(DerivationId) /\ Apart(ds) /\ Len(ds) \in Nat
      /\ \A i \in 1..Len(ds) : ds[i] \in DerivationId \ minted
  BY IdAssumption, FreeIds
<1>4. v \in EventId \ minted
  BY <1>1, IdAssumption, FreeIds
<1>5. T \in Time /\ TypedEngine(e)
  BY <1>1 DEF Take, Typed, TypedProject
<1> HIDE DEF as, ds, v, e, T
<1>6. n \in Nat
  <2>1. m.facts \in Seq(Fact)
    BY ErasureAssumption
  <2> QED BY <2>1, LenProperties
<1>7. n <= Len(as) /\ n <= Len(ds)
  <2> HIDE DEF n
  <2> QED BY <1>1, <1>2, <1>3, <1>6
<1>8. s \in Seq(Item) /\ Orderly(s, X, v, D)
  BY <1>2, <1>3, <1>4, <1>5, <1>7, MessageOrderly
<1> HIDE DEF n, s
<1>9. \A d \in D : d \in DerivationId \ minted
  BY <1>3, <1>6, <1>7 DEF FirstOf
<1>10. X \subseteq (minted \cup ids) \cup EntityId /\ v \in minted \cup ids
  BY DEF MayMention, FirstOf
<1> HIDE DEF X, D, ids
<1>12. ASSUME Grounds PROVE Ready(s, minted \cup ids, e, OpsIn(db.log), erasures)
  <2>1. \A d \in D : ~ Known(e, d)
    BY <1>9, <1>12, IdAssumption DEF Grounds, e
  <2>2. v \notin erasures.cited \cup erasures.heard
    BY <1>4, <1>12 DEF Grounds
  <2> QED BY <1>8, <1>10, <2>1, <2>2, OrderlyReady
<1>13. Request(s, ids)
  BY <1>8, <1>12 DEF Request, e
<1> QED BY <1>1, <1>13

(* So does every other write. *)
LEMMA WriteTakes ==
  ASSUME Typed, NEW kind \in RequestKinds, Write(kind)
  PROVE  \E ticks \in {0, 1} : \E todo, ids : Take(ticks, todo, ids) /\ Request(todo, ids)
<1> DEFINE e == project.eng
           T == project.clock + 1
           a == Seqs!SetToSeq(AssertionId \ minted)[1]
           d == Seqs!SetToSeq(DerivationId \ minted)[1]
           Claim(xs, p) == [agent |-> Agt, subjects |-> xs, prop |-> p, time |-> T]
           retract(o) == [kind |-> "retract", id |-> a, olds |-> <<o>>, did |-> d,
                          claim |-> Claim(e.assertions[o].subjects, RETRACTED)]
           supersede(o, x, p) == [kind |-> "supersede", id |-> a, olds |-> <<o>>, did |-> d,
                                  claim |-> Claim({x}, p)]
           derive(c, b) == [kind |-> "derive", did |-> d, of |-> c, ants |-> {b}]
           corefer(x, y) == [kind |-> "corefer", id |-> a, x |-> x, y |-> y,
                             agent |-> Agt, time |-> T]
           split(c) == [kind |-> "split", id |-> a, cor |-> c, did |-> d,
                        agent |-> Agt, time |-> T]
<1>1. /\ AssertionId \ minted # {} /\ DerivationId \ minted # {}
      /\ \/ \E o \in DOMAIN e.assertions : Take(1, <<OpItem(retract(o))>>, {a, d})
         \/ \E o \in DOMAIN e.assertions, x \in e.entities, p \in ClaimProps :
               Take(1, <<OpItem(supersede(o, x, p))>>, {a, d})
         \/ \E c \in DOMAIN e.assertions, b \in {y \in Citable : Known(e, y)} :
               Take(0, <<OpItem(derive(c, b))>>, {d})
         \/ \E x, y \in e.entities : Take(1, <<OpItem(corefer(x, y))>>, {a})
         \/ \E c \in DOMAIN e.corefs : Take(1, <<OpItem(split(c))>>, {a, d})
  <2> USE DEF Write, Unminted
  <2>1. CASE kind = "retract"
    BY <2>1
  <2>2. CASE kind = "supersede"
    BY <2>2
  <2>3. CASE kind = "derive"
    BY <2>3
  <2>4. CASE kind = "corefer"
    BY <2>4
  <2>5. CASE kind = "split"
    BY <2>5
  <2> QED BY <2>1, <2>2, <2>3, <2>4, <2>5, ErasureAssumption
<1>2. a \in AssertionId \ minted /\ d \in DerivationId \ minted
  BY <1>1, IdAssumption, FreeIds
<1>3. TypedEngine(e)
  BY DEF Typed, TypedProject
<1>4. \A ticks, todo, ids : Take(ticks, todo, ids) => project.clock + ticks \in Time
  BY DEF Take
<1> HIDE DEF a, d, e, T
<1>5. ASSUME T \in Time, NEW xs \in SUBSET EntityId, NEW p \in Prop \cup {RETRACTED}
      PROVE  Claim(xs, p) \in Assertion
  BY <1>5, ErasureAssumption DEF Assertion, Token
<1>6. ASSUME NEW o \in AssertionId PROVE <<o>> \in Seq(AssertionId) /\ Apart(<<o>>)
  BY DEF Apart
<1>7. Grounds => ~ Known(e, d)
  BY <1>2, IdAssumption DEF Grounds, e
<1> HIDE DEF Claim
<1>8. ASSUME NEW o \in DOMAIN e.assertions, Take(1, <<OpItem(retract(o))>>, {a, d})
      PROVE  Request(<<OpItem(retract(o))>>, {a, d})
  <2> DEFINE op == retract(o)
             claim == Claim(e.assertions[o].subjects, RETRACTED)
             olds  == <<o>>
  <2>1. T \in Time
    BY <1>4, <1>8 DEF T
  <2>2. claim \in Assertion /\ olds \in Seq(AssertionId)
    <3>1. e.assertions[o].subjects \in SUBSET EntityId /\ o \in AssertionId
      BY <1>3 DEF TypedEngine
    <3> QED BY <1>5, <1>6, <2>1, <3>1
  <2> HIDE DEF claim, olds
  <2>3. op = [kind |-> "retract", id |-> a, olds |-> olds, did |-> d, claim |-> claim]
    BY DEF claim, olds
  <2> HIDE DEF op
  <2>4. op \in Loggable /\ op.kind = "retract" /\ op.did = d /\ Mentions(op) = {a, d}
    BY <1>2, <2>2, <2>3 DEF Loggable, Writable, Op, Mentions, Stating, Claiming
  <2>5. Grounds => ReadyOp(op, minted \cup {a, d}, e, OpsIn(db.log), erasures.cited)
    BY <1>7, <2>4 DEF ReadyOp
  <2>6. Request(<<OpItem(op)>>, {a, d})
    BY <2>4, <2>5, SingleRequest DEF e
  <2> QED BY <2>6 DEF op
<1>9. ASSUME NEW o \in DOMAIN e.assertions, NEW x \in e.entities, NEW p \in ClaimProps,
             Take(1, <<OpItem(supersede(o, x, p))>>, {a, d})
      PROVE  Request(<<OpItem(supersede(o, x, p))>>, {a, d})
  <2> DEFINE op == supersede(o, x, p)
             claim == Claim({x}, p)
             olds  == <<o>>
  <2>1. T \in Time
    BY <1>4, <1>9 DEF T
  <2>2. claim \in Assertion /\ olds \in Seq(AssertionId) /\ Apart(olds)
    <3>1. {x} \in SUBSET EntityId /\ o \in AssertionId /\ p \in Prop
      BY <1>3, ErasureAssumption DEF TypedEngine
    <3> QED BY <1>5, <1>6, <2>1, <3>1
  <2> HIDE DEF claim, olds
  <2>3. op = [kind |-> "supersede", id |-> a, olds |-> olds, did |-> d, claim |-> claim]
    BY DEF claim, olds
  <2> HIDE DEF op
  <2>4. /\ op \in Loggable /\ op.kind = "supersede" /\ op.did = d /\ Mentions(op) = {a, d}
        /\ op.olds = olds
    BY <1>2, <2>2, <2>3 DEF Loggable, Writable, Op, Mentions, Stating, Claiming
  <2>5. Grounds => ReadyOp(op, minted \cup {a, d}, e, OpsIn(db.log), erasures.cited)
    BY <1>7, <2>2, <2>4 DEF ReadyOp
  <2>6. Request(<<OpItem(op)>>, {a, d})
    BY <2>4, <2>5, SingleRequest DEF e
  <2> QED BY <2>6 DEF op
<1>10. ASSUME NEW c \in DOMAIN e.assertions, NEW b \in {y \in Citable : Known(e, y)}
       PROVE  Request(<<OpItem(derive(c, b))>>, {d})
  <2> DEFINE op == derive(c, b)
  <2>1. c \in AssertionId /\ b \in Primitive
    BY <1>3, ErasureAssumption DEF TypedEngine
  <2>2. op \in Loggable /\ op.kind = "derive" /\ Mentions(op) = {d}
    BY <1>2, <2>1 DEF Loggable, Writable, Op, Mentions, Stating, Claiming
  <2> HIDE DEF op
  <2>3. Grounds => ReadyOp(op, minted \cup {d}, e, OpsIn(db.log), erasures.cited)
    BY <2>2 DEF ReadyOp, Revising
  <2>4. Request(<<OpItem(op)>>, {d})
    BY <2>2, <2>3, SingleRequest DEF e
  <2> QED BY <2>4 DEF op
<1>11. ASSUME NEW x \in e.entities, NEW y \in e.entities,
              Take(1, <<OpItem(corefer(x, y))>>, {a})
       PROVE  Request(<<OpItem(corefer(x, y))>>, {a})
  <2> DEFINE op == corefer(x, y)
  <2>1. T \in Time
    BY <1>4, <1>11 DEF T
  <2>2. op \in Loggable /\ op.kind = "corefer" /\ Mentions(op) = {a}
    BY <1>2, <1>3, <2>1, ErasureAssumption
       DEF Loggable, Writable, Op, Mentions, Stating, Claiming, TypedEngine
  <2> HIDE DEF op
  <2>3. Grounds => ReadyOp(op, minted \cup {a}, e, OpsIn(db.log), erasures.cited)
    BY <2>2 DEF ReadyOp, Revising
  <2>4. Request(<<OpItem(op)>>, {a})
    BY <2>2, <2>3, SingleRequest DEF e
  <2> QED BY <2>4 DEF op
<1>12. ASSUME NEW c \in DOMAIN e.corefs, Take(1, <<OpItem(split(c))>>, {a, d})
       PROVE  Request(<<OpItem(split(c))>>, {a, d})
  <2> DEFINE op == split(c)
  <2>1. T \in Time
    BY <1>4, <1>12 DEF T
  <2>2. /\ op \in Loggable /\ op.kind = "split" /\ op.did = d /\ op.cor = c
        /\ Mentions(op) = {a, d}
    BY <1>2, <1>3, <2>1, ErasureAssumption
       DEF Loggable, Writable, Op, Mentions, Stating, Claiming, TypedEngine
  <2> HIDE DEF op
  <2>3. Grounds => \E o \in OpsIn(db.log) : o.kind = "corefer" /\ o.id = c
    BY DEF Grounds, Fits, e
  <2>4. Grounds => ReadyOp(op, minted \cup {a, d}, e, OpsIn(db.log), erasures.cited)
    BY <1>7, <2>2, <2>3 DEF ReadyOp
  <2>5. Request(<<OpItem(op)>>, {a, d})
    BY <2>2, <2>4, SingleRequest DEF e
  <2> QED BY <2>5 DEF op
<1> HIDE DEF retract, supersede, derive, corefer, split
<1> QED BY <1>1, <1>8, <1>9, <1>10, <1>11, <1>12

(* Both begin a request. *)
LEMMA RequestTakes ==
  ASSUME Typed, (\E m \in Messages : Observe(m)) \/ (\E k \in RequestKinds : Write(k))
  PROVE  \E ticks \in {0, 1} : \E todo, ids : Take(ticks, todo, ids) /\ Request(todo, ids)
BY ObserveTakes, WriteTakes

(* A project rebuilt from a log. *)
LEMMA RebuiltTyped ==
  ASSUME NEW l \in Seq(Row)
  PROVE  TypedProject(Rebuilt(l)) /\ Rebuilt(l).eng = Replay(l).eng
<1>1. TypedEngine(Replay(l).eng)
  BY Replayed
<1>2. LatestClock(l) \in Nat
  <2>1. \A i \in DOMAIN l : l[i] \in Row
    BY LenProperties, ElementOfSeq
  <2>2. \A i \in DOMAIN l : l[i].clock \in Nat
    BY <2>1 DEF Row
  <2>3. LatestClock(l) \in {0} \cup {l[i].clock : i \in DOMAIN l}
    BY <2>2, LatestClockIs
  <2> QED BY <2>2, <2>3
<1> QED BY <1>1, <1>2 DEF Rebuilt, TypedProject

(* A fresh project, no request and no erasure have their types. *)
LEMMA EmptyTyped == TypedProject(NewProject) /\ TypedWriter(Free) /\ TypedForget(Nobody)
<1>1. <<>> \in Seq(Item) /\ <<>> \in Seq(Row)
  BY EmptySeq
<1> QED BY <1>1 DEF TypedProject, NewProject, TypedEngine, NewEngine, EmptyDict,
                    TypedWriter, Free, TypedForget, Nobody

(* The log the server starts from: its agent. *)
LEMMA BackgroundTyped == Background \in Seq(Row) /\ OpsIn(Background) = {Background[1].op}
                         /\ Background[1].op = [kind |-> "agent", id |-> Agt]
<1> DEFINE op  == [kind |-> "agent", id |-> Agt]
           row == [op |-> op, label |-> "none", clock |-> 0]
<1>1. op \in Loggable
  BY ErasureAssumption DEF Loggable, Writable, Op, Primitive
<1> HIDE DEF op
<1>2. row \in Row /\ row.op = op
  BY <1>1 DEF Row, Label
<1> HIDE DEF row
<1>3. <<row>> \in Seq(Row) /\ DOMAIN <<row>> = {1} /\ <<row>>[1] = row
  BY <1>2
<1>4. Background = <<row>>
  BY DEF Background, row, op
<1> QED BY <1>2, <1>3, <1>4 DEF OpsIn, op

(* The types hold at the start. *)
LEMMA TypedInit ==
  ASSUME Init
  PROVE  Typed
<1>1. TypedProject(project) /\ TypedProject(orphan)
  BY BackgroundTyped, RebuiltTyped, EmptyTyped DEF Init
<1>2. Store(db) /\ Store(disk)
  BY BackgroundTyped DEF Init, Store, DictOf, EmptyDict
<1> QED BY <1>1, <1>2, EmptyTyped DEF Init, Typed, TypedErasures

(* The next thing a request records. *)
LEMMA BusyHas ==
  ASSUME Typed, Busy
  PROVE  LET t == Head(writer.todo)
         IN  /\ writer.todo # <<>> /\ t = writer.todo[1] /\ t \in Item
             /\ t.what = "op" => t.op \in Loggable /\ t.label \in Label
             /\ t.what = "quote" => t.of \in AssertionId /\ t.quote \in Quoted
             /\ TypedWriter(Going(Tail(writer.todo)))
<1>1. TypedWriter(writer) /\ writer # Free
  BY DEF Typed, Busy
<1>2. writer.todo \in Seq(Item) /\ writer.todo # <<>>
  BY <1>1 DEF TypedWriter, Free
<1>3. /\ Head(writer.todo) = writer.todo[1] /\ Tail(writer.todo) \in Seq(Item)
      /\ writer.todo[1] \in Item
  BY <1>2, RestIs
<1> DEFINE rest == Tail(writer.todo)
<1> HIDE DEF rest
<1>4. TypedWriter(Going(rest))
  <2>1. CASE rest = <<>>
    BY <2>1, EmptyTyped DEF Going
  <2>2. CASE rest # <<>>
    BY <1>1, <1>3, <2>2 DEF Going, TypedWriter, rest
  <2> QED BY <2>1, <2>2
<1> QED BY <1>2, <1>3, <1>4 DEF Item, rest

(* Also of the project a stale request still holds. *)
LEMMA HeldTyped ==
  ASSUME Typed
  PROVE  TypedProject(Held)
BY DEF Typed, Held

(* A request keeps the types. *)
LEMMA TypedTake ==
  ASSUME Typed, NEW ticks \in {0, 1}, NEW todo, NEW ids, Take(ticks, todo, ids),
         Request(todo, ids)
  PROVE  Typed'
<1>1. TypedProject(project)'
  BY DEF Typed, Take, TypedProject
<1>2. TypedWriter(writer)'
  BY DEF Take, TypedWriter, Request
<1>3. overlapped' \in BOOLEAN
  BY DEF Typed, Take
<1> QED BY <1>1, <1>2, <1>3 DEF Typed, Take

(* Recording an operation keeps the types. *)
LEMMA TypedRecord ==
  ASSUME Typed, Record
  PROVE  Typed'
<1> DEFINE item == Head(writer.todo)
           done == Apply(Held.eng, item.op)
           mine == [Held EXCEPT !.eng = done.eng]
           row  == [op |-> item.op, label |-> item.label, clock |-> Held.clock]
<1>1. /\ Busy /\ item.what = "op"
      /\ writer' \in {Going(Tail(writer.todo)), Free}
      /\ project' \in {project, mine} /\ orphan' \in {orphan, mine, NewProject}
      /\ db' \in {db, [db EXCEPT !.log = Append(db.log, row)]}
      /\ disk' \in {disk, db'}
      /\ erasures' \in {erasures, [erasures EXCEPT !.who = erasures.who \ {item.op.id}]}
      /\ UNCHANGED <<up, forget, minted, crashes, overlapped>>
  BY DEF Record
<1>2. item.op \in Loggable /\ item.label \in Label /\ TypedWriter(writer)'
  BY <1>1, BusyHas, EmptyTyped
<1>3. TypedProject(Held)
  BY HeldTyped
<1>4. TypedProject(mine)
  <2>1. TypedEngine(done.eng)
    BY <1>2, <1>3, Applied DEF TypedProject
  <2> HIDE DEF done
  <2> QED BY <1>3, <2>1 DEF TypedProject
<1>5. row \in Row
  BY <1>2, <1>3 DEF Row, TypedProject
<1> HIDE DEF mine, row, item
<1>6. TypedProject(project)' /\ TypedProject(orphan)'
  BY <1>1, <1>4, EmptyTyped DEF Typed
<1>7. Store(db)'
  <2>1. Append(db.log, row) \in Seq(Row)
    BY <1>5, AppendProperties DEF Typed, Store
  <2> QED BY <1>1, <2>1 DEF Typed, Store
<1>8. Store(disk)'
  BY <1>1, <1>7 DEF Typed
<1>9. TypedErasures(erasures)'
  BY <1>1 DEF Typed, TypedErasures
<1> QED BY <1>1, <1>2, <1>6, <1>7, <1>8, <1>9 DEF Typed

(* Storing a quote keeps the types. *)
LEMMA TypedQuote ==
  ASSUME Typed, Quote
  PROVE  Typed'
<1> DEFINE item == Head(writer.todo)
           q == Put(db.quotes, item.of, item.quote)
<1>1. /\ Busy /\ item.what = "quote"
      /\ writer' = Going(Tail(writer.todo)) /\ orphan' \in {orphan, NewProject}
      /\ db' = [db EXCEPT !.quotes = q] /\ disk' = db'
      /\ UNCHANGED <<up, project, forget, erasures, minted, crashes, overlapped>>
  BY DEF Quote
<1>2. item.of \in AssertionId /\ item.quote \in Quoted /\ TypedWriter(writer)'
  BY <1>1, BusyHas
<1> HIDE DEF item
<1>3. DictOf(q, AssertionId, Quoted)
  BY <1>2 DEF Typed, Store, DictOf, Put
<1> HIDE DEF q
<1>4. Store(db)' /\ Store(disk)'
  BY <1>1, <1>3 DEF Typed, Store
<1> QED BY <1>1, <1>2, <1>4, EmptyTyped DEF Typed

(* Planning an erasure keeps the types. *)
LEMMA TypedForgets ==
  ASSUME Typed, NEW x \in EntityId, Forget(x)
  PROVE  Typed'
<1> DEFINE l      == db.log
           R      == Cascade(l, x)
           redact == RedactedEvents(l, R)
           e      == Replay(l).eng
           plan   == [step |-> "rewrite", gone |-> R, claims |-> ClaimsIn(l, R),
                      redact |-> redact, sources |-> {}, who |-> {x}, rows |-> l,
                      cited |-> CitedFor(e, x), heard |-> SourcesOf(AboutIn(e, x))]
<1>1. /\ forget' \in {Nobody, plan} /\ overlapped' = (overlapped \/ Busy)
      /\ UNCHANGED <<up, project, orphan, db, disk, writer, erasures, minted, crashes>>
  BY DEF Forget
<1>2. l \in Seq(Row) /\ DictOf(db.quotes, AssertionId, Quoted)
  BY DEF Typed, Store
<1>3. R \subseteq DOMAIN l /\ TypedEngine(e)
  BY <1>2, CascadeIs, Replayed
<1>4. \A i \in DOMAIN l : l[i].op \in Loggable
  <2>1. \A i \in DOMAIN l : l[i] \in Row
    BY <1>2, LenProperties, ElementOfSeq
  <2> QED BY <2>1 DEF Row
<1> HIDE DEF R, l, e
<1>5. ClaimsIn(l, R) \subseteq AssertionId
  <2>1. ASSUME NEW i \in R, l[i].op.kind \in {"assert", "supersede", "retract"}
        PROVE  l[i].op.id \in AssertionId
    BY <1>3, <1>4, <2>1, Kinds
  <2> QED BY <2>1 DEF ClaimsIn
<1>6. redact \subseteq EventId
  <2>1. ASSUME NEW i \in DOMAIN l, l[i].op.kind = "event" PROVE l[i].op.id \in EventId
    BY <1>4, <2>1, Kinds
  <2> QED BY <2>1 DEF RedactedEvents
<1>7. CitedFor(e, x) \subseteq EventId
  BY <1>3 DEF CitedFor, TypedEngine
<1>8. SourcesOf(AboutIn(e, x)) \subseteq EventId
  BY <1>2 DEF SourcesOf, DictOf, Quoted
<1> HIDE DEF redact
<1>9. TypedForget(plan)
  BY <1>2, <1>5, <1>6, <1>7, <1>8 DEF TypedForget
<1> HIDE DEF plan
<1>10. TypedForget(forget)' /\ overlapped' \in BOOLEAN
  BY <1>1, <1>9, EmptyTyped DEF Typed
<1> QED BY <1>1, <1>10 DEF Typed

(* Every step of an erasure keeps the types. *)
LEMMA TypedErases ==
  ASSUME Typed, RewriteLog \/ PurgeRows \/ CommitRewrite \/ Rebuild \/ Sign
  PROVE  Typed'
<1>0. TypedForget(forget) /\ Store(db) /\ Store(disk)
  BY DEF Typed
<1>1. CASE RewriteLog
  <2> DEFINE m == Rewritten(db.log, forget.gone, forget.redact)
             S == SourcesOf(forget.claims)
  <2>1. /\ forget' = [forget EXCEPT !.step = "purge", !.sources = S]
        /\ db' = [db EXCEPT !.log = m]
        /\ UNCHANGED <<up, project, orphan, disk, writer, erasures, minted, crashes, overlapped>>
    BY <1>1 DEF RewriteLog
  <2>2. m \in Seq(Row)
    BY <1>0, RewrittenIs DEF Store
  <2>3. S \subseteq EventId
    BY <1>0 DEF SourcesOf, Store, DictOf, Quoted
  <2> HIDE DEF m, S
  <2>4. Store(db)'
    BY <1>0, <2>1, <2>2 DEF Store
  <2>5. TypedForget(forget)'
    BY <1>0, <2>1, <2>3 DEF TypedForget
  <2> QED BY <2>1, <2>4, <2>5 DEF Typed
<1>2. CASE PurgeRows
  <2> DEFINE q == Purged(db.quotes, forget)
  <2>1. /\ forget' = [forget EXCEPT !.step = "commit"]
        /\ db' = [db EXCEPT !.quotes = q]
        /\ UNCHANGED <<up, project, orphan, disk, writer, erasures, minted, crashes, overlapped>>
    BY <1>2 DEF PurgeRows, Step, Purged
  <2>2. DictOf(q, AssertionId, Quoted)
    BY <1>0, PurgedIs DEF Store, Masks
  <2> HIDE DEF q
  <2>3. Store(db)' /\ TypedForget(forget)'
    BY <1>0, <2>1, <2>2 DEF Store, TypedForget
  <2> QED BY <2>1, <2>3 DEF Typed
<1>3. CASE CommitRewrite
  <2>1. /\ forget' = [forget EXCEPT !.step = "rebuild"] /\ disk' = db
        /\ UNCHANGED <<up, project, orphan, db, writer, erasures, minted, crashes, overlapped>>
    BY <1>3 DEF CommitRewrite, Step
  <2>2. TypedForget(forget)'
    BY <1>0, <2>1 DEF TypedForget
  <2> QED BY <2>1, <2>2 DEF Typed
<1>4. CASE Rebuild
  <2>1. /\ forget' \in {Nobody, [forget EXCEPT !.step = "sign"]}
        /\ project' \in {project, Rebuilt(db.log)} /\ orphan' \in {orphan, project}
        /\ writer' = writer \/ (Busy /\ writer' = [writer EXCEPT !.stale = TRUE])
        /\ UNCHANGED <<up, db, disk, erasures, minted, crashes, overlapped>>
    BY <1>4 DEF Rebuild, Step
  <2>2. TypedForget(forget)'
    BY <1>0, <2>1, EmptyTyped DEF TypedForget
  <2>3. TypedWriter(writer)'
    BY <2>1, BusyHas DEF Typed, TypedWriter
  <2>4. TypedProject(project)' /\ TypedProject(orphan)'
    BY <1>0, <2>1, RebuiltTyped DEF Typed, Store
  <2> QED BY <2>1, <2>2, <2>3, <2>4 DEF Typed
<1>5. CASE Sign
  <2>1. /\ forget' = Nobody /\ disk' = db
        /\ erasures' = [who |-> erasures.who \cup forget.who,
                        cited |-> erasures.cited \cup forget.cited,
                        heard |-> erasures.heard \cup forget.heard]
        /\ UNCHANGED <<up, project, orphan, db, writer, minted, crashes, overlapped>>
    BY <1>5 DEF Sign
  <2>2. TypedErasures(erasures)'
    BY <1>0, <2>1 DEF Typed, TypedErasures, TypedForget
  <2> QED BY <2>1, <2>2, EmptyTyped DEF Typed
<1> QED BY <1>1, <1>2, <1>3, <1>4, <1>5

(* Every step keeps the types. *)
LEMMA TypedStep ==
  ASSUME Typed, [Next]_vars
  PROVE  Typed'
<1>1. CASE (\E m \in Messages : Observe(m)) \/ (\E k \in RequestKinds : Write(k))
  <2>1. PICK ticks \in {0, 1} : \E todo, ids : Take(ticks, todo, ids) /\ Request(todo, ids)
    BY <1>1, RequestTakes
  <2> QED BY <2>1, TypedTake
<1>2. CASE Crash
  BY <1>2, EmptyTyped DEF Crash, Typed
<1>3. CASE Boot
  BY <1>3, RebuiltTyped DEF Boot, Typed, Store
<1>4. CASE UNCHANGED vars
  BY <1>4 DEF vars, Typed
<1> QED BY <1>1, <1>2, <1>3, <1>4, TypedRecord, TypedQuote, TypedForgets, TypedErases DEF Next

(* The types, whatever the route, the crash and the overlap: what is logged *)
(* can be replayed, and what is quoted is quoted from an event.             *)
THEOREM ErasureTyped == Spec => []TypeOK
<1>1. Typed => TypeOK
  <2> SUFFICES ASSUME Typed PROVE TypeOK
    OBVIOUS
  <2>1. /\ TypedProject(project) /\ TypedProject(orphan) /\ Store(db) /\ Store(disk)
        /\ TypedWriter(writer) /\ TypedForget(forget) /\ TypedErasures(erasures)
        /\ up \in BOOLEAN /\ overlapped \in BOOLEAN
    BY DEF Typed
  <2>2. ASSUME NEW l \in {db.log, disk.log, forget.rows}, NEW i \in DOMAIN l
        PROVE  l[i].op \in Op /\ l[i].label \in Label /\ l[i].clock \in Nat
    <3>1. l \in Seq(Row)
      BY <2>1 DEF Store, TypedForget
    <3>2. l[i] \in Row
      BY <3>1, LenProperties, ElementOfSeq
    <3> QED BY <3>2 DEF Row, Loggable
  <2>3. \A d \in {db, disk} :
          DictOf(d.quotes, AssertionId, [source : EventId, words : EntityId \cup {ERASURE_NOTE}])
    BY <2>1 DEF Store, Quoted
  <2>4. \A p \in {project, orphan} : DOMAIN p.eng.assertions \subseteq AssertionId
    BY <2>1 DEF TypedProject, TypedEngine
  <2>5. /\ {up, overlapped, writer.stale} \subseteq BOOLEAN
        /\ forget.step \in {"idle", "rewrite", "purge", "commit", "rebuild", "sign"}
        /\ {erasures.who, forget.who} \subseteq SUBSET EntityId
        /\ {forget.redact, forget.sources, erasures.cited, erasures.heard} \subseteq SUBSET EventId
    BY <2>1 DEF TypedWriter, TypedForget, TypedErasures
  <2> QED BY <2>2, <2>3, <2>4, <2>5 DEF TypeOK
<1> QED BY <1>1, TypedInit, TypedStep, PTL DEF Spec

------------------------------------------------------------------------------
(* As long as writes and erasures do not overlap. *)

(* One at a time. *)
Serial ==
  /\ forget.step # "idle" => writer = Free
  /\ forget.step = "idle" => forget = Nobody
  /\ ~ writer.stale
  /\ ~ up => writer = Free /\ forget = Nobody

(* What is on disk boots, and nothing is left there of finished erasures.   *)
Durable ==
  /\ Solid(disk, minted) /\ Clean(disk, erasures)
  /\ erasures.cited \cup erasures.heard \subseteq minted
  /\ forget.cited \cup forget.heard \subseteq minted

Absent(e, X) == /\ e.entities \cap X = {}
                /\ \A a \in DOMAIN e.assertions : e.assertions[a].subjects \subseteq e.entities

(* The project that serves is what the disk replays into; between the       *)
(* commit of an erasure and the swap it is behind.                          *)
Serving ==
  up => /\ forget.step # "rebuild" => Replay(disk.log) = Result(project.eng, "ACCEPTED")
        /\ Absent(project.eng, erasures.who)

(* How far an erasure has come. *)
Working ==
  /\ forget.step \in {"idle", "rewrite", "rebuild", "sign"} => db = disk
  /\ forget.step \in {"rewrite", "purge", "commit"} => Planned(forget, disk)
  /\ forget.step \in {"purge", "commit"} =>
        /\ db.log = Cut(disk.log, forget)
        /\ forget.sources = Heard(disk.quotes, forget.claims)
  /\ forget.step = "purge" => db.quotes = disk.quotes
  /\ forget.step = "commit" => db.quotes = Purged(disk.quotes, forget)
  /\ forget.step \in {"rebuild", "sign"} => Clean(disk, forget)

Waiting == Ready(writer.todo, minted, project.eng, OpsIn(db.log), erasures)

Sound == ~ overlapped => Serial /\ Durable /\ Serving /\ Working /\ Waiting

(* Nothing waits in a request that is over. *)
LEMMA FreeReady ==
  ASSUME NEW M, NEW e, NEW O, NEW E
  PROVE  Ready(Free.todo, M, e, O, E)
<1>1. Free.todo = <<>> /\ DOMAIN <<>> = {}
  BY DEF Free
<1> QED BY <1>1 DEF Ready

(* More ids given out. *)
LEMMA SolidMore ==
  ASSUME NEW d, NEW M, NEW N, M \subseteq N, Solid(d, M)
  PROVE  Solid(d, N)
<1>1. \A op \in OpsIn(d.log) : Mentions(op) \subseteq N \cup EntityId \cup AgentId
  BY DEF Solid
<1> QED BY <1>1 DEF Solid

(* One row more. *)
LEMMA RowMore ==
  ASSUME NEW l \in Seq(Row), NEW r \in Row
  PROVE  /\ Append(l, r) \in Seq(Row)
         /\ OpsIn(Append(l, r)) = OpsIn(l) \cup {r.op}
         /\ \A E : CleanLog(l, E) /\ CleanRow(r, E) => CleanLog(Append(l, r), E)
<1> DEFINE m == Append(l, r)
           n == Len(l)
<1>1. /\ m \in Seq(Row) /\ Len(m) = n + 1 /\ m[n + 1] = r
      /\ \A i \in 1..n : m[i] = l[i]
  BY AppendProperties
<1>2. n \in Nat /\ DOMAIN l = 1..n /\ DOMAIN m = 1..(n + 1)
  BY <1>1, LenProperties
<1> HIDE DEF m, n
<1>3. /\ \A i \in DOMAIN m : (i \in DOMAIN l /\ m[i] = l[i]) \/ m[i] = r
      /\ \A i \in DOMAIN l : i \in DOMAIN m /\ m[i] = l[i]
      /\ n + 1 \in DOMAIN m
  BY <1>1, <1>2
<1>4. OpsIn(m) = OpsIn(l) \cup {r.op}
  BY <1>1, <1>3 DEF OpsIn
<1>5. \A E : CleanLog(l, E) /\ CleanRow(r, E) => CleanLog(m, E)
  BY <1>3 DEF CleanLog
<1> QED BY <1>1, <1>4, <1>5 DEF m

(* What an engine that replays from a log knows of. *)
LEMMA ServesRows ==
  ASSUME NEW d, Store(d), NEW M, Solid(d, M), NEW e, Replay(d.log) = Result(e, "ACCEPTED")
  PROVE  /\ TypedEngine(e) /\ Fits(e, OpsIn(d.log))
         /\ \A y : Known(e, y) => y \in M \cup EntityId \cup AgentId
         /\ \A a \in DOMAIN e.assertions : e.assertions[a].subjects \subseteq e.entities
<1>1. Replay(d.log).eng = e /\ Replay(d.log).code = "ACCEPTED"
  BY DEF Result
<1>2. TypedEngine(e) /\ Fits(e, OpsIn(d.log))
  BY <1>1, Replayed DEF Store
<1>3. \A y : Known(e, y) => y \in M \cup EntityId \cup AgentId
  BY <1>2 DEF Fits, Solid
<1>4. \A a \in DOMAIN e.assertions : e.assertions[a].subjects \subseteq e.entities
  BY <1>2 DEF Fits
<1> QED BY <1>2, <1>3, <1>4

(* What a new request may rely on. *)
LEMMA GroundsHold ==
  ASSUME Typed, Durable, Serving, up, forget.step # "rebuild", db = disk
  PROVE  Grounds
<1>1. /\ Fits(project.eng, OpsIn(disk.log))
      /\ \A y : Known(project.eng, y) => y \in minted \cup EntityId \cup AgentId
  BY ServesRows DEF Typed, Durable, Serving
<1> QED BY <1>1 DEF Grounds, Durable

(* The invariant holds at the start. *)
LEMMA SoundInit ==
  ASSUME Init
  PROVE  Sound
<1> DEFINE row == Background[1]
           op  == row.op
<1>1. /\ Background \in Seq(Row) /\ OpsIn(Background) = {op}
      /\ op = [kind |-> "agent", id |-> Agt]
  BY BackgroundTyped
<1>2. op.kind = "agent" /\ op.id = Agt /\ Mentions(op) = {Agt}
  BY <1>1 DEF Mentions
<1>3. Replay(Background).code = "ACCEPTED"
  <2>1. Background = Append(<<>>, row) /\ <<>> \in Seq(Row) /\ row \in Row
    BY <1>1, ElementOfSeq DEF Background
  <2> HIDE DEF row
  <2>2. Replay(Background) = After(Replay(<<>>), row)
    BY <2>1, ReplayAppend
  <2>3. Replay(Background) = Apply(NewEngine, op)
    BY <2>2, ReplayNothing DEF After, Result
  <2>4. ~ Known(NewEngine, Agt)
    BY DEF Known, NewEngine, EmptyDict
  <2> QED BY <1>2, <2>3, <2>4 DEF Apply, PutAgent, Result
<1> HIDE DEF op
<1>4. /\ up /\ project = Rebuilt(Background) /\ db = [log |-> Background, quotes |-> EmptyDict]
      /\ disk = db /\ writer = Free /\ forget = Nobody
      /\ erasures = [who |-> {}, cited |-> {}, heard |-> {}] /\ minted = {}
  BY DEF Init
<1>5. db.log = Background /\ db.quotes = EmptyDict /\ DOMAIN EmptyDict = {}
  BY <1>4 DEF EmptyDict
<1>6. Serial
  BY <1>4 DEF Serial, Free, Nobody
<1>7. Solid(disk, minted)
  <2>1. \A o \in OpsIn(disk.log) : o = op
    BY <1>1, <1>4, <1>5
  <2>2. Agt \in AgentId
    BY ErasureAssumption
  <2> QED BY <1>2, <1>3, <1>4, <1>5, <2>1, <2>2 DEF Solid
<1>8. Clean(disk, erasures)
  BY <1>4, <1>5 DEF Clean, CleanLog, CleanRow, CleanQuotes
<1>9. Durable
  BY <1>4, <1>7, <1>8 DEF Durable, Nobody
<1>10. Replay(disk.log) = Result(project.eng, "ACCEPTED")
  BY <1>1, <1>3, <1>4, <1>5, Replayed, RebuiltTyped
<1>11. Serving
  <2>1. \A a \in DOMAIN project.eng.assertions :
           project.eng.assertions[a].subjects \subseteq project.eng.entities
    <3>1. Store(disk)
      BY <1>1, <1>4, <1>5 DEF Store, DictOf, EmptyDict
    <3> QED BY <1>7, <1>10, <3>1, ServesRows
  <2> QED BY <1>4, <1>10, <2>1 DEF Serving, Absent
<1>12. Working
  BY <1>4 DEF Working, Nobody
<1>13. Waiting
  BY <1>4, FreeReady DEF Waiting
<1> QED BY <1>6, <1>9, <1>11, <1>12, <1>13 DEF Sound

(* Taking a request keeps it: its parts are ready for the project as it is. *)
LEMMA SoundTake ==
  ASSUME Typed, Sound, NEW ticks \in {0, 1}, NEW todo, NEW ids, Take(ticks, todo, ids),
         Request(todo, ids)
  PROVE  Sound'
<1> SUFFICES ASSUME ~ overlapped' PROVE (Serial /\ Durable /\ Serving /\ Working /\ Waiting)'
  BY DEF Sound
<1>1. /\ up /\ project' = [project EXCEPT !.clock = project.clock + ticks]
      /\ writer' = [todo |-> todo, stale |-> FALSE]
      /\ minted' = minted \cup ids /\ forget = Nobody /\ ~ overlapped
      /\ up' = up /\ orphan' = orphan /\ db' = db /\ disk' = disk /\ forget' = forget
      /\ erasures' = erasures
  BY DEF Take
<1>2. Serial /\ Durable /\ Serving /\ Working
  BY <1>1 DEF Sound
<1>3. forget.step = "idle" /\ forget.cited = {} /\ forget.heard = {}
  BY <1>1 DEF Nobody
<1>4. project'.eng = project.eng
  BY <1>1 DEF Typed, TypedProject
<1>5. Serial'
  BY <1>1, <1>3 DEF Serial
<1>6. Durable'
  <2>1. minted \subseteq minted'
    BY <1>1
  <2>2. Solid(disk, minted')
    BY <1>2, <2>1, SolidMore DEF Durable
  <2> QED BY <1>1, <1>2, <2>1, <2>2 DEF Durable
<1>7. Serving'
  BY <1>1, <1>2, <1>4 DEF Serving
<1>8. Working'
  BY <1>1, <1>2, <1>3 DEF Working
<1>9. Waiting'
  <2>1. db = disk
    BY <1>2, <1>3 DEF Working
  <2>2. Grounds
    BY <1>1, <1>2, <1>3, <2>1, GroundsHold
  <2>3. Ready(todo, minted \cup ids, project.eng, OpsIn(db.log), erasures)
    BY <2>2 DEF Request
  <2>4. writer'.todo = todo
    BY <1>1
  <2> QED BY <1>1, <1>4, <2>3, <2>4 DEF Waiting
<1> QED BY <1>5, <1>6, <1>7, <1>8, <1>9

(* What a serial write finds. *)
LEMMA WriterFinds ==
  ASSUME Typed, Sound, ~ overlapped, up, Busy
  PROVE  /\ forget = Nobody /\ forget.step = "idle" /\ forget.cited = {} /\ forget.heard = {}
         /\ ~ writer.stale /\ Held = project /\ db = disk
         /\ Serial /\ Durable /\ Serving /\ Working /\ Waiting
         /\ Replay(db.log) = Result(project.eng, "ACCEPTED")
         /\ TypedEngine(project.eng) /\ Fits(project.eng, OpsIn(db.log))
         /\ \A a \in DOMAIN project.eng.assertions :
               project.eng.assertions[a].subjects \subseteq project.eng.entities
<1>1. Serial /\ Durable /\ Serving /\ Working /\ Waiting
  BY DEF Sound
<1>2. forget = Nobody /\ ~ writer.stale
  BY <1>1 DEF Serial, Busy
<1>3. forget.step = "idle" /\ forget.cited = {} /\ forget.heard = {}
  BY <1>2 DEF Nobody
<1>4. db = disk /\ Held = project
  BY <1>1, <1>2, <1>3 DEF Working, Held
<1>5. Replay(disk.log) = Result(project.eng, "ACCEPTED")
  BY <1>1, <1>3 DEF Serving
<1>6. /\ TypedEngine(project.eng) /\ Fits(project.eng, OpsIn(disk.log))
      /\ \A a \in DOMAIN project.eng.assertions :
            project.eng.assertions[a].subjects \subseteq project.eng.entities
  BY <1>1, <1>5, ServesRows DEF Typed, Durable
<1> QED BY <1>1, <1>2, <1>3, <1>4, <1>5, <1>6

(* An accepted operation is about no one who is gone, unless it brings them *)
(* back.                                                                    *)
LEMMA AcceptedClean ==
  ASSUME NEW e, TypedEngine(e), NEW f, NEW op \in Loggable, Records(e, f, op), NEW E, NEW G,
         Absent(e, E.who), E.who \subseteq EntityId,
         G.who = E.who \ (IF op.kind = "entity" THEN {op.id} ELSE {}), G.cited = E.cited,
         op.kind = "event" => op.id \notin E.cited, NEW r, r.op = op
  PROVE  CleanRow(r, G) /\ Absent(f, G.who)
<1>1. ASSUME NEW x \in G.who PROVE ~ Names(op, x) /\ (op.kind = "derive" => x \notin op.ants)
  <2>1. x \in EntityId /\ x \notin e.entities
    BY <1>1 DEF Absent
  <2>2. op.kind \in Claiming \cup {"corefer"} => x \notin Subjects(e, op)
    BY <2>1 DEF Records, Stating
  <2>3. ~ Names(op, x)
    BY <1>1, <2>2 DEF Names, Subjects, Claiming
  <2>4. op.kind = "derive" => x \notin op.ants
    BY <2>1, KnownEntity DEF Records
  <2> QED BY <2>3, <2>4
<1>2. CleanRow(r, G)
  BY <1>1 DEF CleanRow
<1>3. f.entities \cap G.who = {}
  BY DEF Absent, Records
<1>4. ASSUME NEW a \in DOMAIN f.assertions PROVE f.assertions[a].subjects \subseteq f.entities
  <2>1. CASE a \in DOMAIN e.assertions
    BY <2>1 DEF Absent, Records
  <2>2. CASE a \notin DOMAIN e.assertions
    <3>1. op.kind \in Stating /\ a = op.id
      BY <2>2 DEF Records
    <3> QED BY <3>1 DEF Records
  <2> QED BY <2>1, <2>2
<1> QED BY <1>2, <1>3, <1>4 DEF Absent

(* Recording an operation keeps it: log and project go on together, and what *)
(* is accepted names no one who is gone.                                     *)
LEMMA SoundRecord ==
  ASSUME Typed, Sound, Record
  PROVE  Sound'
<1> SUFFICES ASSUME ~ overlapped' PROVE (Serial /\ Durable /\ Serving /\ Working /\ Waiting)'
  BY DEF Sound
<1> DEFINE item == Head(writer.todo)
           op   == item.op
           done == Apply(project.eng, op)
           rest == Tail(writer.todo)
           row  == [op |-> op, label |-> item.label, clock |-> project.clock]
           dropped == IF op.kind = "entity" THEN {op.id} ELSE {}
<1>1. /\ up /\ Busy /\ item.what = "op" /\ ~ overlapped
      /\ UNCHANGED <<up, forget, minted, crashes, overlapped>>
  BY DEF Record
<1>2. /\ forget = Nobody /\ forget.step = "idle" /\ forget.cited = {} /\ forget.heard = {}
      /\ ~ writer.stale /\ Held = project /\ db = disk
      /\ Serial /\ Durable /\ Serving /\ Working /\ Waiting
      /\ Replay(db.log) = Result(project.eng, "ACCEPTED")
      /\ TypedEngine(project.eng) /\ Fits(project.eng, OpsIn(db.log))
  BY <1>1, WriterFinds
<1>3. /\ writer.todo # <<>> /\ item = writer.todo[1] /\ op \in Loggable /\ item.label \in Label
      /\ writer.todo \in Seq(Item)
  BY <1>1, BusyHas DEF Typed, TypedWriter
<1>4. /\ writer' = IF done.code = "ACCEPTED" THEN Going(rest) ELSE Free
      /\ project' = [project EXCEPT !.eng = done.eng] /\ orphan' = orphan
      /\ done.code # "ACCEPTED" => db' = db /\ disk' = disk /\ erasures' = erasures
      /\ done.code = "ACCEPTED" =>
           /\ db' = [db EXCEPT !.log = Append(db.log, row)] /\ disk' = db'
           /\ erasures' = IF op.kind = "entity"
                          THEN [erasures EXCEPT !.who = erasures.who \ {op.id}] ELSE erasures
  BY <1>2 DEF Record
<1>5. project'.eng = done.eng
  BY <1>4 DEF Typed, TypedProject
<1>6. /\ done = Result(done.eng, done.code) /\ TypedEngine(done.eng)
      /\ done.code = "ACCEPTED" => Records(project.eng, done.eng, op)
  BY <1>2, <1>3, Applied
<1>7. /\ Ready(writer.todo, minted, project.eng, OpsIn(db.log), erasures)
      /\ ReadyOp(op, minted, project.eng, OpsIn(db.log), erasures.cited)
  <2>1. 1 \in DOMAIN writer.todo
    BY <1>3, RestIs
  <2> QED BY <1>1, <1>2, <1>3, <2>1 DEF Waiting, Ready
<1>8. Store(db) /\ TypedErasures(erasures) /\ TypedProject(project) /\ Store(disk)
  BY DEF Typed
<1>9. row \in Row /\ row.op = op
  BY <1>3, <1>8 DEF Row, TypedProject
<1>10. /\ Free.todo = <<>> /\ Going(rest).todo = rest /\ ~ Free.stale /\ ~ Going(rest).stale
  BY <1>2 DEF Free, Going, Typed, TypedWriter
<1> HIDE DEF done, row, rest, item, dropped
<1>11. CASE done.code # "ACCEPTED"
  <2>1. done.eng = project.eng
    BY <1>2, <1>3, <1>7, <1>11, Refused DEF ReadyOp, done
  <2>2. Serial'
    BY <1>1, <1>2, <1>4, <1>10, <1>11 DEF Serial
  <2>3. Durable' /\ Serving' /\ Working'
    BY <1>1, <1>2, <1>4, <1>5, <1>11, <2>1 DEF Durable, Serving, Working
  <2>4. Waiting'
    BY <1>4, <1>11, FreeReady DEF Waiting
  <2> QED BY <2>2, <2>3, <2>4
<1>12. CASE done.code = "ACCEPTED"
  <2> DEFINE m == Append(db.log, row)
  <2>1. /\ m \in Seq(Row) /\ OpsIn(m) = OpsIn(db.log) \cup {op}
        /\ \A E : CleanLog(db.log, E) /\ CleanRow(row, E) => CleanLog(m, E)
    BY <1>8, <1>9, RowMore DEF Store
  <2>2. Replay(m) = done
    <3>1. Replay(m) = After(Replay(db.log), row)
      BY <1>8, <1>9, ReplayAppend DEF Store
    <3> QED BY <1>2, <1>9, <3>1 DEF After, Result, done
  <2>3. Records(project.eng, done.eng, op)
    BY <1>6, <1>12
  <2> HIDE DEF m
  <2>4. /\ db'.log = m /\ db'.quotes = db.quotes /\ disk' = db'
    BY <1>4, <1>8, <1>12 DEF Store, m
  <2>5. /\ erasures'.who = erasures.who \ dropped
        /\ erasures'.cited = erasures.cited /\ erasures'.heard = erasures.heard
    BY <1>4, <1>8, <1>12 DEF TypedErasures, dropped
  <2>6. CleanRow(row, erasures') /\ Absent(done.eng, erasures'.who)
    <3>1. Absent(project.eng, erasures.who) /\ erasures.who \subseteq EntityId
      BY <1>1, <1>2, <1>8 DEF Serving, TypedErasures
    <3>2. op.kind = "event" => op.id \notin erasures.cited
      BY <1>7 DEF ReadyOp
    <3>3. erasures'.who = erasures.who \ (IF op.kind = "entity" THEN {op.id} ELSE {})
      BY <2>5 DEF dropped
    <3>4. row.op = op /\ op \in Loggable /\ erasures'.cited = erasures.cited
      BY <1>3, <1>9, <2>5
    <3> DEFINE e == project.eng
               f == done.eng
               o == op
               G == erasures'
    <3>5. TypedEngine(e) /\ o \in Loggable /\ Records(e, f, o) /\ Absent(e, erasures.who)
          /\ G.who = erasures.who \ (IF o.kind = "entity" THEN {o.id} ELSE {})
          /\ G.cited = erasures.cited /\ (o.kind = "event" => o.id \notin erasures.cited)
          /\ row.op = o
      BY <1>2, <2>3, <3>1, <3>2, <3>3, <3>4
    <3> HIDE DEF e, f, o, G
    <3>6. CleanRow(row, G) /\ Absent(f, G.who)
      BY <3>1, <3>5, AcceptedClean
    <3> QED BY <3>6 DEF f, G
  <2>7. Serial'
    BY <1>1, <1>2, <1>4, <1>10, <1>12 DEF Serial
  <2>8. Solid(db', minted)
    <3>1. Solid(db, minted)
      BY <1>2 DEF Durable
    <3>2. Mentions(op) \subseteq minted \cup EntityId \cup AgentId
      BY <1>7 DEF ReadyOp
    <3>3. op.kind = "split" => \E c \in OpsIn(db.log) : c.kind = "corefer" /\ c.id = op.cor
      BY <1>7 DEF ReadyOp
    <3>4. Replay(db'.log).code = "ACCEPTED"
      BY <1>12, <2>2, <2>4
    <3> QED BY <2>1, <2>4, <3>1, <3>2, <3>3, <3>4 DEF Solid
  <2>9. Clean(db', erasures')
    <3>1. CleanLog(db.log, erasures) /\ CleanQuotes(db.quotes, erasures)
      BY <1>2 DEF Durable, Clean
    <3>2. CleanLog(db.log, erasures')
      BY <2>5, <3>1 DEF CleanLog, CleanRow
    <3>3. CleanQuotes(db.quotes, erasures')
      BY <2>5, <3>1 DEF CleanQuotes
    <3> QED BY <2>1, <2>4, <2>6, <3>2, <3>3 DEF Clean
  <2>10. Durable'
    BY <1>1, <1>2, <2>4, <2>5, <2>8, <2>9 DEF Durable
  <2>11. Serving'
    BY <1>5, <1>6, <1>12, <2>2, <2>4, <2>6 DEF Serving
  <2>12. Working'
    BY <1>1, <1>2, <2>4 DEF Working
  <2>13. Ready(rest, minted, done.eng, OpsIn(db.log) \cup {op}, erasures')
    BY <1>1, <1>3, <1>7, <2>3, <2>5, NextReady DEF rest, item
  <2>14. Waiting'
    BY <1>1, <1>4, <1>5, <1>10, <1>12, <2>1, <2>4, <2>13 DEF Waiting
  <2> QED BY <2>7, <2>10, <2>11, <2>12, <2>14
<1> QED BY <1>11, <1>12

(* Storing a quote keeps it: its claim is in the log. *)
LEMMA SoundQuote ==
  ASSUME Typed, Sound, Quote
  PROVE  Sound'
<1> SUFFICES ASSUME ~ overlapped' PROVE (Serial /\ Durable /\ Serving /\ Working /\ Waiting)'
  BY DEF Sound
<1> DEFINE item == Head(writer.todo)
           rest == Tail(writer.todo)
           q    == Put(db.quotes, item.of, item.quote)
<1>1. /\ up /\ Busy /\ item.what = "quote" /\ ~ overlapped
      /\ db' = [db EXCEPT !.quotes = q] /\ disk' = db' /\ writer' = Going(rest)
      /\ UNCHANGED <<up, project, forget, erasures, minted, crashes, overlapped>>
  BY DEF Quote
<1>2. /\ forget = Nobody /\ forget.step = "idle" /\ forget.cited = {} /\ forget.heard = {}
      /\ ~ writer.stale /\ db = disk
      /\ Serial /\ Durable /\ Serving /\ Working /\ Waiting
  BY <1>1, WriterFinds
<1>3. /\ writer.todo # <<>> /\ item = writer.todo[1] /\ writer.todo \in Seq(Item)
  BY <1>1, BusyHas DEF Typed, TypedWriter
<1>4. db'.log = db.log /\ db'.quotes = q
  BY <1>1 DEF Typed, Store
<1>5. Going(rest).todo = rest /\ ~ Going(rest).stale
  BY <1>2 DEF Free, Going, Typed, TypedWriter
<1>6. Ready(writer.todo, minted, project.eng, OpsIn(db.log), erasures)
  BY <1>2 DEF Waiting
<1>7. /\ item.quote.source \in minted \ erasures.heard
      /\ \E op \in OpsIn(db.log) : op.kind \in Claiming /\ op.id = item.of
  <2>1. 1 \in DOMAIN writer.todo /\ \A j \in 1..(1 - 1) : FALSE
    BY <1>3, RestIs
  <2> QED BY <1>1, <1>3, <1>6, <2>1 DEF Ready
<1>8. /\ DOMAIN q = DOMAIN db.quotes \cup {item.of}
      /\ \A a \in DOMAIN q : q[a] = item.quote \/ (a \in DOMAIN db.quotes /\ q[a] = db.quotes[a])
  BY DEF Put
<1> HIDE DEF q, item, rest
<1>9. Solid(db', minted)
  <2>1. Solid(db, minted)
    BY <1>2 DEF Durable
  <2>2. ASSUME NEW a \in DOMAIN q
        PROVE  /\ q[a].source \in minted
               /\ \E op \in OpsIn(db.log) : op.kind \in Claiming /\ op.id = a
    BY <1>7, <1>8, <2>1 DEF Solid
  <2> QED BY <1>4, <2>1, <2>2 DEF Solid
<1>10. Clean(db', erasures)
  <2>1. CleanLog(db.log, erasures) /\ CleanQuotes(db.quotes, erasures)
    BY <1>2 DEF Durable, Clean
  <2>2. CleanQuotes(q, erasures)
    BY <1>7, <1>8, <2>1 DEF CleanQuotes
  <2> QED BY <1>4, <2>1, <2>2 DEF Clean
<1>11. Serial'
  BY <1>1, <1>2, <1>5 DEF Serial
<1>12. Durable'
  BY <1>1, <1>2, <1>9, <1>10 DEF Durable
<1>13. Serving'
  BY <1>1, <1>2, <1>4 DEF Serving
<1>14. Working'
  BY <1>1, <1>2 DEF Working
<1>15. Waiting'
  <2>1. Ready(rest, minted, project.eng, OpsIn(db.log), erasures)
    BY <1>1, <1>3, <1>6, AfterQuoteReady DEF rest, item
  <2> QED BY <1>1, <1>4, <1>5, <2>1 DEF Waiting
<1> QED BY <1>11, <1>12, <1>13, <1>14, <1>15

(* Plans that agree but for the step and the sources. *)
SamePlan(f, g) == /\ f.who = g.who /\ f.gone = g.gone /\ f.claims = g.claims
                  /\ f.redact = g.redact /\ f.cited = g.cited /\ f.heard = g.heard

(* They plan the same. *)
LEMMA PlanKept ==
  ASSUME NEW f, NEW g, SamePlan(f, g)
  PROVE  /\ \A d : Planned(f, d) => Planned(g, d)
         /\ \A l : Cut(l, g) = Cut(l, f)
         /\ \A d : Clean(d, f) => Clean(d, g)
         /\ f.sources = g.sources => \A q : Purged(q, g) = Purged(q, f)
<1>1. \A l : Cut(l, g) = Cut(l, f)
  BY DEF Cut, SamePlan
<1>2. ASSUME NEW d, Planned(f, d) PROVE Planned(g, d)
  BY <1>1, <1>2 DEF Planned, SamePlan
<1>3. ASSUME NEW d, Clean(d, f) PROVE Clean(d, g)
  BY <1>3 DEF Clean, CleanLog, CleanRow, CleanQuotes, SamePlan
<1>4. ASSUME f.sources = g.sources, NEW q PROVE Purged(q, g) = Purged(q, f)
  BY <1>4 DEF Purged, SamePlan
<1> QED BY <1>1, <1>2, <1>3, <1>4

(* Planning an erasure keeps it: the verified replay is without the person. *)
LEMMA SoundForget ==
  ASSUME Typed, Sound, NEW x \in EntityId, Forget(x)
  PROVE  Sound'
<1> SUFFICES ASSUME ~ overlapped' PROVE (Serial /\ Durable /\ Serving /\ Working /\ Waiting)'
  BY DEF Sound
<1> DEFINE R    == Cascade(db.log, x)
           e    == Replay(db.log).eng
           plan == [step |-> "rewrite", gone |-> R, claims |-> ClaimsIn(db.log, R),
                    redact |-> RedactedEvents(db.log, R), sources |-> {}, who |-> {x},
                    rows |-> db.log, cited |-> CitedFor(e, x),
                    heard |-> SourcesOf(AboutIn(e, x))]
<1>1. /\ up /\ forget = Nobody /\ ~ overlapped /\ ~ Busy
      /\ \/ forget' = Nobody
         \/ forget' = plan /\ Replay(Rewritten(db.log, R, RedactedEvents(db.log, R))).code = "ACCEPTED"
      /\ UNCHANGED <<up, project, orphan, db, disk, writer, erasures, minted, crashes>>
  BY DEF Forget
<1>2. Serial /\ Durable /\ Serving /\ Working /\ Waiting
  BY <1>1 DEF Sound
<1>3. forget.step = "idle" /\ writer = Free
  BY <1>1 DEF Nobody, Busy
<1>4. db = disk
  BY <1>2, <1>3 DEF Working
<1>5. Waiting'
  BY <1>1, <1>3, FreeReady DEF Waiting
<1>6. CASE forget' = Nobody
  <2>1. forget' = forget
    BY <1>1, <1>6
  <2> QED BY <1>1, <1>2, <1>5, <2>1 DEF Serial, Durable, Serving, Working
<1>7. CASE forget' = plan /\ Replay(Rewritten(db.log, R, RedactedEvents(db.log, R))).code = "ACCEPTED"
  <2>1. /\ forget'.step = "rewrite" /\ forget'.who = {x} /\ forget'.gone = R
        /\ forget'.claims = ClaimsIn(db.log, R) /\ forget'.redact = RedactedEvents(db.log, R)
        /\ forget'.cited = CitedFor(e, x) /\ forget'.heard = SourcesOf(AboutIn(e, x))
    BY <1>7
  <2>2. SourcesOf(AboutIn(e, x)) = Heard(db.quotes, AboutIn(e, x))
    BY DEF SourcesOf, Heard
  <2> HIDE DEF e, R, plan
  <2>3. Replay(Cut(db.log, forget')).code = "ACCEPTED"
    BY <1>7, <2>1 DEF Cut
  <2>4. Planned(forget', db)
    BY <2>1, <2>2, <2>3 DEF Planned, e, R
  <2>5. Planned(forget', disk)
    BY <1>4, <2>4
  <2>6. forget'.cited \cup forget'.heard \subseteq minted
    <3> DEFINE f == forget'
    <3>1. Planned(f, disk) /\ Store(disk) /\ Solid(disk, minted)
      BY <1>2, <2>5 DEF Typed, Durable
    <3> HIDE DEF f
    <3>2. f.cited \cup f.heard \subseteq minted
      BY <3>1, PlannedWithin
    <3> QED BY <3>2 DEF f
  <2>7. Serial'
    BY <1>1, <1>2, <1>3, <2>1 DEF Serial
  <2>8. Durable'
    BY <1>1, <1>2, <2>6 DEF Durable
  <2>9. Serving'
    BY <1>1, <1>2, <1>3, <2>1 DEF Serving
  <2>10. Working'
    BY <1>1, <1>4, <2>1, <2>5 DEF Working
  <2> QED BY <1>5, <2>7, <2>8, <2>9, <2>10
<1> QED BY <1>1, <1>6, <1>7

(* What a serial erasure finds at a step of its own. *)
LEMMA EraserFinds ==
  ASSUME Typed, Sound, ~ overlapped, forget.step # "idle"
  PROVE  /\ writer = Free /\ ~ Busy /\ up
         /\ Serial /\ Durable /\ Serving /\ Working /\ Waiting
         /\ TypedForget(forget) /\ Store(db) /\ Store(disk) /\ TypedErasures(erasures)
<1>1. Serial /\ Durable /\ Serving /\ Working /\ Waiting
  BY DEF Sound
<1>2. writer = Free /\ ~ Busy
  BY <1>1 DEF Serial, Busy
<1>3. up
  BY <1>1 DEF Serial, Nobody
<1> QED BY <1>1, <1>2, <1>3 DEF Typed

(* Rewriting the log keeps it: the disk is as before. *)
LEMMA SoundRewrite ==
  ASSUME Typed, Sound, RewriteLog
  PROVE  Sound'
<1> SUFFICES ASSUME ~ overlapped' PROVE (Serial /\ Durable /\ Serving /\ Working /\ Waiting)'
  BY DEF Sound
<1> DEFINE m == Rewritten(db.log, forget.gone, forget.redact)
           S == SourcesOf(forget.claims)
<1>1. /\ forget.step = "rewrite" /\ ~ overlapped
      /\ forget' = [forget EXCEPT !.step = "purge", !.sources = S]
      /\ db' = [db EXCEPT !.log = m]
      /\ UNCHANGED <<up, project, orphan, disk, writer, erasures, minted, crashes, overlapped>>
  BY DEF RewriteLog
<1>2. /\ writer = Free /\ Serial /\ Durable /\ Serving /\ Working
      /\ TypedForget(forget) /\ Store(db) /\ up
  BY <1>1, EraserFinds
<1>3. db = disk /\ Planned(forget, disk)
  BY <1>1, <1>2 DEF Working
<1>4. S = Heard(disk.quotes, forget.claims) /\ m = Cut(disk.log, forget)
  BY <1>3 DEF SourcesOf, Heard, Cut
<1> HIDE DEF S, m
<1>5. /\ forget'.step = "purge" /\ forget'.sources = S /\ SamePlan(forget, forget')
      /\ db'.log = m /\ db'.quotes = db.quotes
  BY <1>1, <1>2 DEF TypedForget, Store, SamePlan
<1>6. Planned(forget', disk) /\ Cut(disk.log, forget') = Cut(disk.log, forget)
  BY <1>3, <1>5, PlanKept
<1>7. Serial'
  BY <1>1, <1>2, <1>5 DEF Serial
<1>8. Durable'
  BY <1>1, <1>2, <1>5 DEF Durable, SamePlan
<1>9. Serving'
  BY <1>1, <1>2, <1>5 DEF Serving
<1>10. Working'
  BY <1>1, <1>3, <1>4, <1>5, <1>6 DEF Working, SamePlan
<1>11. Waiting'
  BY <1>1, <1>2, FreeReady DEF Waiting
<1> QED BY <1>7, <1>8, <1>9, <1>10, <1>11

(* Purging the quotes keeps it: the disk is as before. *)
LEMMA SoundPurge ==
  ASSUME Typed, Sound, PurgeRows
  PROVE  Sound'
<1> SUFFICES ASSUME ~ overlapped' PROVE (Serial /\ Durable /\ Serving /\ Working /\ Waiting)'
  BY DEF Sound
<1> DEFINE q == Purged(db.quotes, forget)
<1>1. /\ forget.step = "purge" /\ ~ overlapped
      /\ forget' = [forget EXCEPT !.step = "commit"]
      /\ db' = [db EXCEPT !.quotes = q]
      /\ UNCHANGED <<up, project, orphan, disk, writer, erasures, minted, crashes, overlapped>>
  BY DEF PurgeRows, Step, Purged
<1>2. /\ writer = Free /\ Serial /\ Durable /\ Serving /\ Working
      /\ TypedForget(forget) /\ Store(db) /\ up
  BY <1>1, EraserFinds
<1>3. /\ Planned(forget, disk) /\ db.log = Cut(disk.log, forget) /\ db.quotes = disk.quotes
      /\ forget.sources = Heard(disk.quotes, forget.claims)
  BY <1>1, <1>2 DEF Working
<1> HIDE DEF q
<1>4. /\ forget'.step = "commit" /\ forget'.sources = forget.sources /\ SamePlan(forget, forget')
      /\ db'.log = db.log /\ db'.quotes = q
  BY <1>1, <1>2 DEF TypedForget, Store, SamePlan
<1>5. /\ Planned(forget', disk) /\ Cut(disk.log, forget') = Cut(disk.log, forget)
      /\ Purged(disk.quotes, forget') = Purged(disk.quotes, forget)
  BY <1>3, <1>4, PlanKept
<1>6. Serial'
  BY <1>1, <1>2, <1>4 DEF Serial
<1>7. Durable'
  BY <1>1, <1>2, <1>4 DEF Durable, SamePlan
<1>8. Serving'
  BY <1>1, <1>2, <1>4 DEF Serving
<1>9. Working'
  BY <1>1, <1>3, <1>4, <1>5 DEF Working, SamePlan, q
<1>10. Waiting'
  BY <1>1, <1>2, FreeReady DEF Waiting
<1> QED BY <1>6, <1>7, <1>8, <1>9, <1>10

(* The commit keeps it: the disk replays, and is clean of the person. *)
LEMMA SoundCommit ==
  ASSUME Typed, Sound, CommitRewrite
  PROVE  Sound'
<1> SUFFICES ASSUME ~ overlapped' PROVE (Serial /\ Durable /\ Serving /\ Working /\ Waiting)'
  BY DEF Sound
<1>1. /\ forget.step = "commit" /\ ~ overlapped
      /\ forget' = [forget EXCEPT !.step = "rebuild"] /\ disk' = db
      /\ UNCHANGED <<up, project, orphan, db, writer, erasures, minted, crashes, overlapped>>
  BY DEF CommitRewrite, Step
<1>2. /\ writer = Free /\ Serial /\ Durable /\ Serving /\ Working
      /\ TypedForget(forget) /\ Store(db) /\ Store(disk) /\ up
  BY <1>1, EraserFinds
<1>3. /\ Planned(forget, disk) /\ db.log = Cut(disk.log, forget)
      /\ db.quotes = Purged(disk.quotes, forget)
      /\ forget.sources = Heard(disk.quotes, forget.claims)
      /\ Solid(disk, minted) /\ Clean(disk, erasures)
  BY <1>1, <1>2 DEF Working, Durable
<1>4. forget'.step = "rebuild" /\ SamePlan(forget, forget')
  BY <1>1, <1>2 DEF TypedForget, SamePlan
<1>5. Solid(db, minted) /\ Clean(db, forget)
  <2> DEFINE t == [log |-> Cut(disk.log, forget), quotes |-> Purged(disk.quotes, forget)]
  <2>1. db = t
    BY <1>2, <1>3 DEF Store
  <2>2. Solid(t, minted) /\ Clean(t, forget)
    BY <1>2, <1>3, ErasureLeaves
  <2> HIDE DEF t
  <2> QED BY <2>1, <2>2
<1>6. Clean(db, forget')
  BY <1>4, <1>5, PlanKept
<1>7. Clean(db, erasures)
  <2>1. CleanLog(db.log, erasures)
    BY <1>2, <1>3, CutStaysClean DEF Clean, Store
  <2>2. Masks(db.quotes, disk.quotes, forget)
    BY <1>2, <1>3, PurgedIs DEF Store
  <2>3. CleanQuotes(db.quotes, erasures)
    <3>1. CleanQuotes(disk.quotes, erasures)
      BY <1>3 DEF Clean
    <3> QED BY <2>2, <3>1 DEF CleanQuotes, Masks
  <2> QED BY <2>1, <2>3 DEF Clean
<1>8. Serial'
  BY <1>1, <1>2, <1>4 DEF Serial
<1>9. Durable'
  BY <1>1, <1>2, <1>4, <1>5, <1>7 DEF Durable, SamePlan
<1>10. Serving'
  BY <1>1, <1>2, <1>4 DEF Serving
<1>11. Working'
  BY <1>1, <1>4, <1>6 DEF Working
<1>12. Waiting'
  BY <1>1, <1>2, FreeReady DEF Waiting
<1> QED BY <1>8, <1>9, <1>10, <1>11, <1>12

(* A fresh project serves what the disk holds. *)
LEMMA RebuiltServes ==
  ASSUME NEW d, Store(d), NEW M, Solid(d, M), NEW E, Clean(d, E)
  PROVE  LET p == Rebuilt(d.log)
         IN  Replay(d.log) = Result(p.eng, "ACCEPTED") /\ Absent(p.eng, E.who)
<1> DEFINE e == Rebuilt(d.log).eng
<1>1. e = Replay(d.log).eng /\ Replay(d.log) = Result(e, "ACCEPTED")
  BY Replayed, RebuiltTyped DEF Store, Solid
<1>2. e.entities \cap E.who = {}
  BY <1>1, CleanReplay DEF Store, Solid, Clean
<1> HIDE DEF e
<1>3. \A a \in DOMAIN e.assertions : e.assertions[a].subjects \subseteq e.entities
  BY <1>1, ServesRows
<1> QED BY <1>1, <1>2, <1>3 DEF Absent, e

(* The swap keeps it: the project is again what the disk replays into. *)
LEMMA SoundRebuild ==
  ASSUME Typed, Sound, Rebuild
  PROVE  Sound'
<1> SUFFICES ASSUME ~ overlapped' PROVE (Serial /\ Durable /\ Serving /\ Working /\ Waiting)'
  BY DEF Sound
<1>1. forget.step = "rebuild" /\ ~ overlapped
  BY DEF Rebuild, Step
<1>2. /\ writer = Free /\ ~ Busy /\ Serial /\ Durable /\ Serving /\ Working
      /\ TypedForget(forget) /\ Store(db) /\ Store(disk) /\ up
  BY <1>1, EraserFinds
<1>3. db = disk /\ Clean(disk, forget) /\ Solid(disk, minted) /\ Clean(disk, erasures)
  BY <1>1, <1>2 DEF Working, Durable
<1>4. Replay(db.log).code = "ACCEPTED"
  BY <1>3 DEF Solid
<1>5. /\ forget' = [forget EXCEPT !.step = "sign"] /\ project' = Rebuilt(db.log)
      /\ UNCHANGED <<orphan, writer, up, db, disk, erasures, minted, crashes, overlapped>>
  BY <1>2, <1>4 DEF Rebuild, Step
<1>6. forget'.step = "sign" /\ SamePlan(forget, forget')
  BY <1>2, <1>5 DEF TypedForget, SamePlan
<1>7. Clean(disk, forget')
  BY <1>3, <1>6, PlanKept
<1>8. Replay(disk.log) = Result(project'.eng, "ACCEPTED") /\ Absent(project'.eng, erasures.who)
  BY <1>2, <1>3, <1>5, RebuiltServes
<1>9. Serial'
  BY <1>2, <1>5, <1>6 DEF Serial
<1>10. Durable'
  BY <1>2, <1>5, <1>6 DEF Durable, SamePlan
<1>11. Serving'
  BY <1>5, <1>8 DEF Serving
<1>12. Working'
  BY <1>3, <1>5, <1>6, <1>7 DEF Working
<1>13. Waiting'
  BY <1>2, <1>5, FreeReady DEF Waiting
<1> QED BY <1>9, <1>10, <1>11, <1>12, <1>13

(* Signing the tombstone keeps it: the disk is clean of all erased so far. *)
LEMMA SoundSign ==
  ASSUME Typed, Sound, Sign
  PROVE  Sound'
<1> SUFFICES ASSUME ~ overlapped' PROVE (Serial /\ Durable /\ Serving /\ Working /\ Waiting)'
  BY DEF Sound
<1>1. /\ forget.step = "sign" /\ ~ overlapped /\ forget' = Nobody /\ disk' = db
      /\ erasures' = [who |-> erasures.who \cup forget.who,
                      cited |-> erasures.cited \cup forget.cited,
                      heard |-> erasures.heard \cup forget.heard]
      /\ UNCHANGED <<up, project, orphan, db, writer, minted, crashes, overlapped>>
  BY DEF Sign
<1>2. /\ writer = Free /\ Serial /\ Durable /\ Serving /\ Working
      /\ Store(db) /\ Store(disk) /\ up
  BY <1>1, EraserFinds
<1>3. db = disk /\ Clean(disk, forget) /\ Solid(disk, minted) /\ Clean(disk, erasures)
  BY <1>1, <1>2 DEF Working, Durable
<1>4. /\ erasures'.who = erasures.who \cup forget.who
      /\ erasures'.cited = erasures.cited \cup forget.cited
      /\ erasures'.heard = erasures.heard \cup forget.heard
  BY <1>1
<1>5. Clean(disk, erasures')
  BY <1>3, <1>4 DEF Clean, CleanLog, CleanRow, CleanQuotes
<1>6. Replay(disk.log) = Result(project.eng, "ACCEPTED")
  BY <1>1, <1>2 DEF Serving
<1>7. Absent(project.eng, erasures'.who)
  <2> DEFINE E == erasures'
  <2>1. Clean(disk, E)
    BY <1>5
  <2> HIDE DEF E
  <2>2. LET p == Rebuilt(disk.log)
        IN  Replay(disk.log) = Result(p.eng, "ACCEPTED") /\ Absent(p.eng, E.who)
    BY <1>2, <1>3, <2>1, RebuiltServes
  <2>3. project.eng = Rebuilt(disk.log).eng
    BY <1>6, <2>2 DEF Result
  <2> QED BY <2>2, <2>3 DEF E
<1>8. forget'.step = "idle" /\ forget'.cited = {} /\ forget'.heard = {}
  BY <1>1 DEF Nobody
<1>9. Serial'
  BY <1>1, <1>2, <1>8 DEF Serial
<1>10. Durable'
  BY <1>1, <1>2, <1>3, <1>4, <1>5, <1>8 DEF Durable
<1>11. Serving'
  BY <1>1, <1>3, <1>6, <1>7 DEF Serving
<1>12. Working'
  BY <1>1, <1>8 DEF Working
<1>13. Waiting'
  BY <1>1, <1>2, FreeReady DEF Waiting
<1> QED BY <1>9, <1>10, <1>11, <1>12, <1>13

(* A crash keeps it: what was not committed is lost whole. *)
LEMMA SoundCrash ==
  ASSUME Typed, Sound, Crash
  PROVE  Sound'
<1> SUFFICES ASSUME ~ overlapped' PROVE (Serial /\ Durable /\ Serving /\ Working /\ Waiting)'
  BY DEF Sound
<1>1. /\ ~ up' /\ writer' = Free /\ forget' = Nobody /\ db' = disk
      /\ disk' = disk /\ erasures' = erasures /\ minted' = minted /\ ~ overlapped
  BY DEF Crash
<1>2. Durable
  BY <1>1 DEF Sound
<1>3. forget'.step = "idle" /\ forget'.cited = {} /\ forget'.heard = {} /\ ~ Free.stale
  BY <1>1 DEF Nobody, Free
<1>4. Serial' /\ Durable' /\ Serving' /\ Working'
  BY <1>1, <1>2, <1>3 DEF Serial, Durable, Serving, Working
<1>5. Waiting'
  BY <1>1, FreeReady DEF Waiting
<1> QED BY <1>4, <1>5

(* A boot keeps it. *)
LEMMA SoundBoot ==
  ASSUME Typed, Sound, Boot
  PROVE  Sound'
<1> SUFFICES ASSUME ~ overlapped' PROVE (Serial /\ Durable /\ Serving /\ Working /\ Waiting)'
  BY DEF Sound
<1>1. /\ ~ up /\ project' = Rebuilt(db.log) /\ up' = TRUE /\ ~ overlapped
      /\ UNCHANGED <<orphan, db, disk, writer, forget, erasures, minted, crashes, overlapped>>
  BY DEF Boot
<1>2. Serial /\ Durable /\ Working
  BY <1>1 DEF Sound
<1>3. writer = Free /\ forget = Nobody /\ forget.step = "idle" /\ db = disk
  BY <1>1, <1>2 DEF Serial, Working, Nobody
<1>4. Replay(disk.log) = Result(project'.eng, "ACCEPTED") /\ Absent(project'.eng, erasures.who)
  BY <1>1, <1>2, <1>3, RebuiltServes DEF Durable, Typed
<1>5. Serial' /\ Durable' /\ Working'
  BY <1>1, <1>2, <1>3 DEF Serial, Durable, Working
<1>6. Serving'
  BY <1>1, <1>4 DEF Serving
<1>7. Waiting'
  BY <1>1, <1>3, FreeReady DEF Waiting
<1> QED BY <1>5, <1>6, <1>7

(* Every step keeps it. *)
LEMMA SoundStep ==
  ASSUME Typed, Sound, [Next]_vars
  PROVE  Sound'
<1>1. CASE (\E m \in Messages : Observe(m)) \/ (\E k \in RequestKinds : Write(k))
  <2>1. PICK ticks \in {0, 1} : \E todo, ids : Take(ticks, todo, ids) /\ Request(todo, ids)
    BY <1>1, RequestTakes
  <2> QED BY <2>1, SoundTake
<1>2. CASE UNCHANGED vars
  BY <1>2 DEF vars, Sound, Serial, Durable, Serving, Working, Waiting
<1> QED BY <1>1, <1>2, SoundRecord, SoundQuote, SoundForget, SoundRewrite, SoundPurge,
           SoundCommit, SoundRebuild, SoundSign, SoundCrash, SoundBoot DEF Next

(* The inductive invariant. *)
THEOREM ErasureSound == Spec => [](Typed /\ Sound)
<1>1. Init => Typed /\ Sound
  BY TypedInit, SoundInit
<1>2. Typed /\ Sound /\ [Next]_vars => (Typed /\ Sound)'
  BY TypedStep, SoundStep
<1> QED BY <1>1, <1>2, PTL DEF Spec

(* An erasure is whole or not begun, whenever the server dies: what is on   *)
(* disk always replays, and quotes only claims of its log (_forget_entity   *)
(* commits once, server/api.py).                                            *)
THEOREM ErasureWhole == Spec => []WholeOrNothing
<1>1. Typed /\ Sound => WholeOrNothing
  <2> SUFFICES ASSUME Typed, Sound, ~ overlapped
               PROVE  Replay(disk.log).code = "ACCEPTED" /\ DOMAIN disk.quotes \subseteq Logged(disk.log)
    BY DEF WholeOrNothing
  <2>1. Solid(disk, minted) /\ disk.log \in Seq(Row)
    BY DEF Sound, Durable, Typed, Store
  <2>2. ASSUME NEW a \in DOMAIN disk.quotes PROVE a \in Logged(disk.log)
    <3>1. PICK i \in DOMAIN disk.log :
            disk.log[i].op.kind \in Claiming /\ disk.log[i].op.id = a
      BY <2>1 DEF Solid, OpsIn
    <3>2. a \in Mentions(disk.log[i].op)
      BY <3>1 DEF Mentions, Claiming
    <3> QED BY <3>2 DEF Logged
  <2> QED BY <2>1, <2>2 DEF Solid
<1> QED BY <1>1, ErasureSound, PTL

(* Between requests the project that serves is what its log replays into,   *)
(* and all of it is on disk.                                                *)
THEOREM ErasureServes == Spec => []ServesItsLog
<1>1. Typed /\ Sound => ServesItsLog
  <2> SUFFICES ASSUME Typed, Sound, Quiet, ~ overlapped
               PROVE  Replay(db.log) = Result(project.eng, "ACCEPTED") /\ db = disk
    BY DEF ServesItsLog
  <2>1. up /\ forget.step = "idle"
    BY DEF Quiet, Nobody
  <2>2. db = disk /\ Replay(disk.log) = Result(project.eng, "ACCEPTED")
    BY <2>1 DEF Sound, Working, Serving
  <2> QED BY <2>2
<1> QED BY <1>1, ErasureSound, PTL

(* Whom an erasure has taken is gone from the engine and from the log, with *)
(* the words of the events and messages it was drawn from, and stays gone   *)
(* through later writes, erasures and restarts (api.py:391-402).            *)
THEOREM ForgottenStaysGone == Spec => []ForgottenIsGone
<1>1. Typed /\ Sound => ForgottenIsGone
  <2> SUFFICES ASSUME Typed, Sound, up, ~ overlapped PROVE ForgottenIsGone
    BY DEF ForgottenIsGone
  <2>1. Serial /\ Durable /\ Serving /\ Working
    BY DEF Sound
  <2>2. TypedForget(forget) /\ Store(disk)
    BY DEF Typed
  <2>3. CleanLog(disk.log, erasures) /\ CleanQuotes(disk.quotes, erasures)
    BY <2>1 DEF Durable, Clean
  <2>4. CleanLog(db.log, erasures)
    <3>1. CASE forget.step \in {"idle", "rewrite", "rebuild", "sign"}
      BY <2>1, <2>3, <3>1 DEF Working
    <3>2. CASE forget.step \in {"purge", "commit"}
      BY <2>1, <2>2, <2>3, <3>2, CutStaysClean DEF Working, Store
    <3> QED BY <2>2, <3>1, <3>2 DEF TypedForget
  <2>5. CleanQuotes(db.quotes, erasures)
    <3>1. CASE forget.step \in {"idle", "rewrite", "rebuild", "sign"}
      BY <2>1, <2>3, <3>1 DEF Working
    <3>2. CASE forget.step = "purge"
      BY <2>1, <2>3, <3>2 DEF Working
    <3>3. CASE forget.step = "commit"
      <4>1. Masks(db.quotes, disk.quotes, forget)
        BY <2>1, <2>2, <3>3, PurgedIs DEF Working, Store
      <4> QED BY <2>3, <4>1 DEF CleanQuotes, Masks
    <3> QED BY <2>2, <3>1, <3>2, <3>3 DEF TypedForget
  <2>6. Absent(project.eng, erasures.who)
    BY <2>1 DEF Serving
  <2>7. \A x \in erasures.who : x \notin project.eng.entities /\ AboutIn(project.eng, x) = {}
    BY <2>6 DEF Absent, AboutIn
  <2> QED BY <2>4, <2>5, <2>7 DEF ForgottenIsGone, CleanLog, CleanRow, CleanQuotes
<1> QED BY <1>1, ErasureSound, PTL

------------------------------------------------------------------------------
(* What an erasure takes: the rows of its cascade are those of what depends *)
(* on the person in the engine (Dependents, Erasure).                       *)

(* What is known of the engine of a log that replays. *)
Explained(e, l) ==
  /\ TypedEngine(e) /\ Fits(e, OpsIn(l))
  /\ \A i \in DOMAIN l : l[i].op \in Loggable /\ OnRecord(e, l[i].op)
  /\ \A i, j \in DOMAIN l : \A y \in Mentions(l[i].op) \cap Mentions(l[j].op) : i = j
  /\ \A i \in DOMAIN l : l[i].op.kind = "split" =>
        \E j \in DOMAIN l : j < i /\ l[j].op.kind \in Stating /\ l[j].op.id = l[i].op.cor

(* A log that replays accounts for its engine. *)
LEMMA ReplayedRows ==
  ASSUME NEW l \in Seq(Row), Replay(l).code = "ACCEPTED"
  PROVE  Explained(Replay(l).eng, l)
<1> DEFINE e == Replay(l).eng
<1>1. DOMAIN l = 1..Len(l) /\ Len(l) \in Nat /\ \A i \in DOMAIN l : l[i].op \in Loggable
  <2>1. DOMAIN l = 1..Len(l) /\ Len(l) \in Nat /\ \A i \in DOMAIN l : l[i] \in Row
    BY LenProperties, ElementOfSeq
  <2> QED BY <2>1 DEF Row
<1>2. TypedEngine(e) /\ Fits(e, OpsIn(l)) /\ Accounted(e, l, Len(l))
  BY Replayed
<1> HIDE DEF e
<1>3. ASSUME NEW i \in DOMAIN l, NEW j \in DOMAIN l, NEW y \in Mentions(l[i].op) \cap Mentions(l[j].op)
      PROVE  i = j
  <2>1. ~ (i < j) /\ ~ (j < i)
    BY <1>1, <1>2 DEF Accounted
  <2> QED BY <1>1, <2>1
<1> QED BY <1>1, <1>2, <1>3 DEF Explained, Accounted, e

(* The rows of an id, by its kind. *)
LEMMA RowOf ==
  ASSUME NEW e, NEW l, Explained(e, l)
  PROVE  /\ \A y \in e.entities : \E i \in DOMAIN l : l[i].op.kind = "entity" /\ l[i].op.id = y
         /\ \A y \in e.events : \E i \in DOMAIN l : l[i].op.kind = "event" /\ l[i].op.id = y
         /\ \A y \in DOMAIN e.assertions :
               \E i \in DOMAIN l : l[i].op.kind \in Stating /\ l[i].op.id = y
         /\ \A y \in DOMAIN e.derivations :
               \E i \in DOMAIN l : /\ l[i].op.kind \in Linking /\ l[i].op.did = y
                                   /\ e.derivations[y] = Link(l[i].op)
<1>1. ASSUME NEW y, Known(e, y) PROVE \E i \in DOMAIN l : y \in Mentions(l[i].op)
  BY <1>1 DEF Explained, Fits, OpsIn
<1>2. \A i \in DOMAIN l : l[i].op \in Loggable /\ OnRecord(e, l[i].op)
  BY DEF Explained
<1>3. TypedEngine(e)
  BY DEF Explained
<1>4. ASSUME NEW y \in e.events PROVE \E i \in DOMAIN l : l[i].op.kind = "event" /\ l[i].op.id = y
  <2>1. Known(e, y) /\ y \in EventId
    BY <1>3 DEF Known, TypedEngine
  <2>2. PICK i \in DOMAIN l : y \in Mentions(l[i].op)
    BY <1>1, <2>1
  <2>3. l[i].op.kind = "event" /\ l[i].op.id = y
    BY <1>2, <2>1, <2>2, Kinds, MentionsIs, IdAssumption DEF Revising
  <2> QED BY <2>3
<1>5. ASSUME NEW y \in DOMAIN e.derivations
      PROVE  \E i \in DOMAIN l : /\ l[i].op.kind \in Linking /\ l[i].op.did = y
                                 /\ e.derivations[y] = Link(l[i].op)
  <2>1. Known(e, y) /\ y \in DerivationId
    BY <1>3 DEF Known, TypedEngine
  <2>2. PICK i \in DOMAIN l : y \in Mentions(l[i].op)
    BY <1>1, <2>1
  <2>3. l[i].op.kind \in Linking /\ l[i].op.did = y
    BY <1>2, <2>1, <2>2, Kinds, MentionsIs, IdAssumption DEF Revising, Linking
  <2> QED BY <1>2, <2>3 DEF OnRecord, Linking
<1> QED BY <1>4, <1>5 DEF Explained, Fits, OpsIn

(* Every row of the cascade puts on record only what is in any set that     *)
(* holds what depends on x and on itself.                                   *)
LEMMA GoneDepends ==
  ASSUME NEW l \in Seq(Row), NEW e, Explained(e, l), NEW x, NEW S, DependsOn(e, x, S) \subseteq S
  PROVE  \A i \in Cascade(l, x) : Mentions(l[i].op) \subseteq S
<1> DEFINE C == {i \in DOMAIN l : l[i].op.kind # "agent" /\ Mentions(l[i].op) \subseteq S}
<1>1. /\ x \in S /\ AboutIn(e, x) \subseteq S /\ LinksOf(e, S) \subseteq S
      /\ \A d \in LinksOf(e, S) :
            e.derivations[d].kind = "supersession" => e.derivations[d].consequent \in S
      /\ \A v \in e.events : CitedBy(e, v) # {} /\ CitedBy(e, v) \subseteq S => v \in S
  BY DEF DependsOn
<1>2. \A i \in DOMAIN l : l[i].op \in Loggable /\ OnRecord(e, l[i].op)
  BY DEF Explained
<1>3. ASSUME NEW i \in DOMAIN l, l[i].op.kind \in Linking, Link(l[i].op).antecedents \cap S # {}
      PROVE  Mentions(l[i].op) \subseteq S
  <2> DEFINE op == l[i].op
  <2>1. op.did \in DOMAIN e.derivations /\ e.derivations[op.did] = Link(op)
    BY <1>2, <1>3 DEF OnRecord, Linking
  <2>2. op.did \in LinksOf(e, S)
    BY <1>3, <2>1 DEF LinksOf
  <2>3. op.kind \in Revising => op.id \in S
    BY <1>1, <1>2, <1>3, <2>1, <2>2, LinkIs
  <2> QED BY <1>1, <1>2, <1>3, <2>2, <2>3, MentionsIs DEF Linking
<1>4. ASSUME NEW i \in DOMAIN l, l[i].op.kind \in Linking, Link(l[i].op).consequent \in S
      PROVE  l[i].op.did \in S
  <2> DEFINE op == l[i].op
  <2>1. op.did \in DOMAIN e.derivations /\ e.derivations[op.did] = Link(op)
    BY <1>2, <1>4 DEF OnRecord, Linking
  <2> QED BY <1>1, <1>4, <2>1 DEF LinksOf
<1>5. ASSUME NEW i \in DOMAIN l, Names(l[i].op, x) PROVE i \in C
  <2> DEFINE op == l[i].op
  <2>0. op \in Loggable /\ op \in OpsIn(l)
    BY <1>2 DEF OpsIn
  <2>1. op.kind \in Claiming \cup {"corefer"} => op.id \in S
    <3>1. op.kind \in Claiming \cup {"corefer"} => x \in Subjects(e, op)
      BY <1>5 DEF Names, Subjects, Claiming
    <3>2. op.kind \in Stating =>
            op.id \in DOMAIN e.assertions /\ e.assertions[op.id].subjects = Subjects(e, op)
      BY <2>0 DEF Explained, Fits
    <3> QED BY <1>1, <3>1, <3>2 DEF AboutIn, Stating
  <2>2. CASE op.kind \in {"entity", "assert", "corefer"}
    BY <1>1, <1>5, <2>0, <2>1, <2>2, MentionsIs DEF Names, Claiming
  <2>3. CASE op.kind \in {"supersede", "retract"}
    <3>1. op.id \in S /\ op.kind \in Revising /\ op.kind \in Linking
      BY <2>1, <2>3 DEF Claiming, Revising, Linking
    <3>2. op.did \in S
      BY <1>4, <2>0, <3>1, LinkIs
    <3> QED BY <2>0, <2>3, <3>1, <3>2, MentionsIs
  <2> QED BY <1>5, <2>2, <2>3 DEF Names
<1>6. ASSUME NEW Q \in SUBSET C, NEW i \in DOMAIN l, Dragged(l, Q, i) PROVE i \in C
  <2> DEFINE op == l[i].op
  <2>0. op \in Loggable
    BY <1>2
  <2>1. ClaimsIn(l, Q) \subseteq S /\ CorefsIn(l, Q) \subseteq S /\ EventsIn(l, Q) \subseteq S
    <3>1. ASSUME NEW j \in Q, l[j].op.kind \in Claiming \cup {"corefer", "event"}
          PROVE  l[j].op.id \in S
      BY <1>2, <3>1, MentionsIs DEF Stating
    <3> QED BY <3>1 DEF ClaimsIn, CorefsIn, EventsIn, Claiming
  <2>2. CASE op.kind \in {"retract", "supersede", "split"}
    <3>1. Link(op).antecedents \cap S # {}
      BY <1>6, <2>0, <2>1, <2>2, LinkIs DEF Dragged, Linking, Revising
    <3> QED BY <1>3, <2>2, <3>1 DEF Linking, Revising
  <2>3. CASE op.kind = "derive"
    <3>1. /\ op.kind \in Linking /\ Mentions(op) = {op.did}
          /\ Link(op).consequent = op.of /\ Link(op).antecedents = op.ants
      BY <2>0, <2>3, LinkIs, MentionsIs DEF Linking
    <3>2. op.of \in S \/ op.ants \cap S # {}
      BY <1>6, <2>1, <2>3 DEF Dragged
    <3> QED BY <1>3, <1>4, <2>3, <3>1, <3>2
  <2>4. CASE op.kind = "event"
    <3>1. Citing(l, op.id) # {} /\ Citing(l, op.id) \subseteq Q
      BY <1>6, <2>4 DEF Dragged
    <3>2. op.id \in e.events /\ op.id \in EventId /\ Mentions(op) = {op.id}
      BY <1>2, <2>0, <2>4, Kinds, MentionsIs DEF OnRecord
    <3>3. \A k \in Citing(l, op.id) :
             l[k].op.did \in DOMAIN e.derivations /\ e.derivations[l[k].op.did].antecedents = l[k].op.ants
      <4> TAKE k \in Citing(l, op.id)
      <4>1. k \in DOMAIN l /\ l[k].op.kind = "derive" /\ l[k].op.kind \in Linking
        BY DEF Citing, Linking
      <4>2. /\ l[k].op.did \in DOMAIN e.derivations /\ e.derivations[l[k].op.did] = Link(l[k].op)
            /\ l[k].op \in Loggable
        BY <1>2, <4>1 DEF OnRecord, Linking
      <4> QED BY <4>1, <4>2, LinkIs
    <3>4. CitedBy(e, op.id) # {}
      BY <3>1, <3>3 DEF CitedBy, Citing
    <3>5. ASSUME NEW d \in CitedBy(e, op.id) PROVE d \in S
      <4>1. PICK k \in DOMAIN l : /\ l[k].op.kind \in Linking /\ l[k].op.did = d
                                  /\ e.derivations[d] = Link(l[k].op)
        BY RowOf DEF CitedBy
      <4>2. op.id \in Link(l[k].op).antecedents
        BY <4>1 DEF CitedBy
      <4>3. l[k].op.kind \notin Revising
        BY <1>2, <3>2, <4>2, IdAssumption DEF OnRecord, Explained, TypedEngine
      <4>4. k \in Citing(l, op.id)
        BY <1>2, <4>1, <4>2, <4>3, LinkIs DEF Citing, Linking
      <4> QED BY <1>2, <3>1, <4>1, <4>4, MentionsIs
    <3> QED BY <1>1, <2>4, <3>2, <3>4, <3>5
  <2> QED BY <1>6, <2>2, <2>3, <2>4 DEF Dragged
<1> HIDE DEF C
<1>7. Cascade(l, x) \subseteq C
  BY <1>5, <1>6, CascadeLeast
<1> QED BY <1>7 DEF C

(* What is left replays, so the rest does not hang on what goes: the ids    *)
(* the cascade takes off record hold all that depends on x and on them.     *)
LEMMA RestStands ==
  ASSUME NEW l \in Seq(Row), NEW e, Explained(e, l), NEW x \in EntityId, NEW events,
         Cascade(l, x) # {}, Replay(Rewritten(l, Cascade(l, x), events)).code = "ACCEPTED"
  PROVE  LET G == UNION {Mentions(l[i].op) : i \in Cascade(l, x)}
         IN  G \subseteq Items(e) /\ DependsOn(e, x, G) \subseteq G
<1> DEFINE R == Cascade(l, x)
           G == UNION {Mentions(l[i].op) : i \in R}
           m == Rewritten(l, R, events)
           e2 == Replay(m).eng
<1>1. /\ R \subseteq DOMAIN l
      /\ \A i \in DOMAIN l : Names(l[i].op, x) => i \in R
      /\ \A i \in DOMAIN l : Dragged(l, R, i) => i \in R
  BY CascadeIs
<1>2. m \in Seq(Row) /\ OpsIn(m) = {l[i].op : i \in {k \in DOMAIN l : k \notin R}}
  BY LeftRows
<1>3. Explained(e2, m)
  <2>1. m \in Seq(Row) /\ Replay(m).code = "ACCEPTED"
    BY <1>2
  <2> HIDE DEF m
  <2> QED BY <2>1, ReplayedRows
<1>4. \A S : DependsOn(e, x, S) \subseteq S => \A i \in R : Mentions(l[i].op) \subseteq S
  BY GoneDepends
<1>5. R # {}
  OBVIOUS
<1>6. ASSUME \A i \in DOMAIN l : ~ Names(l[i].op, x) PROVE FALSE
  <2>1. ASSUME NEW i \in DOMAIN l, Dragged(l, {}, i) PROVE FALSE
    <3>1. ClaimsIn(l, {}) = {} /\ CorefsIn(l, {}) = {} /\ EventsIn(l, {}) = {}
      BY DEF ClaimsIn, CorefsIn, EventsIn
    <3> QED BY <2>1, <3>1 DEF Dragged
  <2> DEFINE C == {}
  <2>2. \A i \in DOMAIN l : Names(l[i].op, x) => i \in C
    BY <1>6
  <2>3. \A Q \in SUBSET C : \A i \in DOMAIN l : Dragged(l, Q, i) => i \in C
    <3> TAKE Q \in SUBSET C
    <3>1. Q = {}
      OBVIOUS
    <3> QED BY <2>1, <3>1
  <2> HIDE DEF C
  <2>4. Cascade(l, x) \subseteq C
    BY <2>2, <2>3, CascadeLeast
  <2> QED BY <1>5, <2>4 DEF C
<1> HIDE DEF R, m, e2
<1>7. /\ TypedEngine(e) /\ Fits(e, OpsIn(l))
      /\ \A i \in DOMAIN l : l[i].op \in Loggable /\ OnRecord(e, l[i].op) /\ l[i].op \in OpsIn(l)
  BY DEF Explained, OpsIn
<1>8. \A i, j \in DOMAIN l : \A y \in Mentions(l[i].op) \cap Mentions(l[j].op) : i = j
  BY DEF Explained
<1>9. \A i \in DOMAIN l \ R : Mentions(l[i].op) \cap G = {}
  BY <1>1, <1>8
<1>10. ASSUME NEW y, Known(e2, y) PROVE y \notin G
  <2>1. PICK op \in OpsIn(m) : y \in Mentions(op)
    BY <1>3, <1>10 DEF Explained, Fits
  <2>2. PICK i \in DOMAIN l \ R : l[i].op = op
    BY <1>2
  <2> QED BY <1>9, <2>1, <2>2
<1>11. ASSUME NEW i \in DOMAIN l \ R PROVE l[i].op \in OpsIn(m) /\ OnRecord(e2, l[i].op)
  <2>1. l[i].op \in OpsIn(m)
    BY <1>2
  <2>2. PICK j \in DOMAIN m : m[j].op = l[i].op
    BY <2>1 DEF OpsIn
  <2> QED BY <1>3, <2>1, <2>2 DEF Explained
<1>12. \A i \in R : Mentions(l[i].op) \subseteq G
  OBVIOUS
<1>13. x \in e.entities
  <2>1. PICK i \in DOMAIN l : Names(l[i].op, x)
    BY <1>6
  <2> DEFINE op == l[i].op
  <2>2. CASE op.kind = "entity"
    BY <1>7, <2>1, <2>2 DEF Names, OnRecord
  <2>3. CASE op.kind # "entity"
    <3>1. op.kind \in Claiming \cup {"corefer"} /\ x \in Subjects(e, op)
      BY <2>1, <2>3 DEF Names, Subjects, Claiming
    <3>2. op.id \in DOMAIN e.assertions /\ e.assertions[op.id].subjects = Subjects(e, op)
      BY <1>7, <3>1 DEF Fits, Stating
    <3> QED BY <1>7, <3>1, <3>2 DEF Fits
  <2> QED BY <2>2, <2>3
<1>14. x \in G
  <2>1. PICK i \in DOMAIN l : l[i].op.kind = "entity" /\ l[i].op.id = x
    BY <1>13, RowOf
  <2>2. i \in R /\ x \in Mentions(l[i].op)
    BY <1>1, <1>7, <2>1, MentionsIs DEF Names
  <2> QED BY <2>2
<1>15. G \subseteq Items(e)
  <2>1. ASSUME NEW d \in DOMAIN e.derivations PROVE e.derivations[d].consequent \in DOMAIN e.assertions
    <3>1. PICK k \in DOMAIN l : /\ l[k].op.kind \in Linking /\ l[k].op.did = d
                                /\ e.derivations[d] = Link(l[k].op)
      BY RowOf
    <3>2. CASE l[k].op.kind = "derive"
      BY <1>7, <3>1, <3>2, LinkIs DEF Fits
    <3>3. CASE l[k].op.kind \in Revising
      <4>1. l[k].op.kind \in Stating
        BY <3>3 DEF Revising, Stating, Claiming
      <4> QED BY <1>7, <3>1, <3>3, <4>1, LinkIs DEF Fits
    <3> QED BY <3>1, <3>2, <3>3 DEF Linking
  <2>2. DependsOn(e, x, Items(e)) \subseteq Items(e)
    BY <1>13, <2>1 DEF DependsOn, Items, LinksOf, AboutIn
  <2> QED BY <1>4, <2>2
<1>16. ASSUME NEW i \in DOMAIN l, l[i].op.kind \in Stating,
              x \in e.assertions[l[i].op.id].subjects
       PROVE  i \in R
  <2> DEFINE T == {k \in Nat : \A j \in DOMAIN l :
                     (j <= k /\ l[j].op.kind \in Stating
                        /\ x \in e.assertions[l[j].op.id].subjects) => j \in R}
  <2>1. DOMAIN l = 1..Len(l) /\ Len(l) \in Nat
    BY LenProperties
  <2>2. 0 \in T
    BY <2>1
  <2>3. ASSUME NEW k \in Nat, k \in T PROVE k + 1 \in T
    <3> SUFFICES ASSUME NEW j \in DOMAIN l, j = k + 1, l[j].op.kind \in Stating,
                        x \in e.assertions[l[j].op.id].subjects
                 PROVE  j \in R
      <4>1. \A j \in DOMAIN l : j <= k + 1 => j <= k \/ j = k + 1
        BY <2>1
      <4> QED BY <2>3, <4>1
    <3> DEFINE op == l[j].op
    <3>1. x \in Subjects(e, op)
      BY <1>7 DEF Fits
    <3>2. CASE op.kind \in Claiming \cup {"corefer"}
      <4>1. Names(op, x)
        BY <3>1, <3>2 DEF Names, Subjects, Claiming
      <4> QED BY <1>1, <4>1
    <3>3. CASE op.kind = "split"
      <4>1. op.cor \in DOMAIN e.assertions /\ x \in e.assertions[op.cor].subjects
        BY <1>7, <3>1, <3>3 DEF Fits, Subjects, SubjectsOf, Claiming
      <4>2. PICK c \in DOMAIN l : c < j /\ l[c].op.kind \in Stating /\ l[c].op.id = op.cor
        BY <3>3 DEF Explained
      <4>3. c \in R
        BY <2>1, <2>3, <4>1, <4>2
      <4>4. op.cor \in G
        BY <1>7, <1>12, <4>2, <4>3, MentionsIs
      <4>5. ASSUME j \notin R PROVE FALSE
        <5>1. op \in OpsIn(m)
          BY <1>11, <4>5
        <5>2. op.cor \in DOMAIN e2.assertions
          BY <1>3, <3>3, <5>1 DEF Explained, Fits
        <5> QED BY <1>10, <4>4, <5>2 DEF Known
      <4> QED BY <4>5
    <3> QED BY <3>2, <3>3 DEF Stating
  <2> HIDE DEF T
  <2>4. i \in T
    BY <2>1, <2>2, <2>3, SetInduction
  <2> QED BY <1>16, <2>1, <2>4 DEF T
<1>17. AboutIn(e, x) \subseteq G
  <2> SUFFICES ASSUME NEW a \in AboutIn(e, x) PROVE a \in G
    OBVIOUS
  <2>1. a \in DOMAIN e.assertions /\ x \in e.assertions[a].subjects
    BY DEF AboutIn
  <2>2. PICK i \in DOMAIN l : l[i].op.kind \in Stating /\ l[i].op.id = a
    BY <2>1, RowOf
  <2>3. i \in R
    BY <1>16, <2>1, <2>2
  <2> QED BY <1>7, <1>12, <2>2, <2>3, MentionsIs
<1>18. ASSUME NEW k \in DOMAIN l, l[k].op.kind \in Linking,
              Link(l[k].op).consequent \in G \/ Link(l[k].op).antecedents \cap G # {}
       PROVE  k \in R
  <2> SUFFICES ASSUME k \notin R PROVE FALSE
    OBVIOUS
  <2> DEFINE op == l[k].op
  <2>1. op \in OpsIn(m) /\ OnRecord(e2, op) /\ op \in Loggable
    BY <1>7, <1>11
  <2>2. Fits(e2, OpsIn(m))
    BY <1>3 DEF Explained
  <2>3. CASE op.kind = "derive"
    <3>1. op.of \in DOMAIN e2.assertions /\ \A y \in op.ants : Known(e2, y)
      BY <2>1, <2>2, <2>3 DEF Fits
    <3>2. Known(e2, op.of)
      BY <3>1 DEF Known
    <3> QED BY <1>10, <1>18, <2>1, <2>3, <3>1, <3>2, LinkIs
  <2>4. CASE op.kind \in Revising
    <3>1. Link(op).antecedents \subseteq DOMAIN e2.assertions
      BY <2>1, <2>4 DEF OnRecord
    <3>2. Known(e2, op.id)
      BY <2>1, <2>4, MentionsIs DEF OnRecord
    <3>3. \A y \in Link(op).antecedents : Known(e2, y)
      BY <3>1 DEF Known
    <3> QED BY <1>10, <1>18, <2>1, <2>4, <3>2, <3>3, LinkIs
  <2> QED BY <1>18, <2>3, <2>4 DEF Linking
<1>19. ASSUME NEW d \in LinksOf(e, G)
       PROVE  /\ d \in G
              /\ e.derivations[d].kind = "supersession" => e.derivations[d].consequent \in G
  <2>1. PICK k \in DOMAIN l : /\ l[k].op.kind \in Linking /\ l[k].op.did = d
                              /\ e.derivations[d] = Link(l[k].op)
    BY RowOf DEF LinksOf
  <2>2. k \in R
    BY <1>18, <2>1 DEF LinksOf
  <2>3. d \in G
    BY <1>7, <1>12, <2>1, <2>2, MentionsIs
  <2>4. ASSUME e.derivations[d].kind = "supersession" PROVE e.derivations[d].consequent \in G
    <3>1. l[k].op.kind \in Revising /\ l[k].op \in Loggable
      BY <1>7, <2>1, <2>4, LinkIs DEF Linking
    <3> QED BY <1>12, <2>1, <2>2, <3>1, LinkIs, MentionsIs
  <2> QED BY <2>3, <2>4
<1>20. ASSUME NEW v \in e.events, CitedBy(e, v) # {}, CitedBy(e, v) \subseteq G PROVE v \in G
  <2>1. PICK i \in DOMAIN l : l[i].op.kind = "event" /\ l[i].op.id = v
    BY RowOf
  <2>2. Citing(l, v) \subseteq R
    <3> SUFFICES ASSUME NEW k \in Citing(l, v) PROVE k \in R
      OBVIOUS
    <3>1. k \in DOMAIN l /\ l[k].op.kind = "derive" /\ l[k].op.kind \in Linking /\ v \in l[k].op.ants
      BY DEF Citing, Linking
    <3>2. l[k].op.did \in CitedBy(e, v)
      BY <1>7, <3>1, LinkIs DEF OnRecord, CitedBy
    <3>3. l[k].op.did \in G /\ l[k].op.did \in Mentions(l[k].op)
      BY <1>7, <1>20, <3>1, <3>2, MentionsIs
    <3> QED BY <1>9, <3>1, <3>3
  <2>3. Citing(l, v) # {}
    <3>1. PICK d \in CitedBy(e, v) : TRUE
      BY <1>20
    <3>2. PICK k \in DOMAIN l : /\ l[k].op.kind \in Linking /\ l[k].op.did = d
                                /\ e.derivations[d] = Link(l[k].op)
      BY RowOf DEF CitedBy
    <3>3. v \in Link(l[k].op).antecedents /\ v \in EventId
      BY <1>7, <3>2 DEF CitedBy, TypedEngine
    <3>4. l[k].op.kind \notin Revising
      BY <1>7, <3>3, IdAssumption DEF OnRecord, TypedEngine
    <3> QED BY <1>7, <3>2, <3>3, <3>4, LinkIs DEF Citing, Linking
  <2>4. Dragged(l, R, i)
    BY <2>1, <2>2, <2>3 DEF Dragged
  <2> QED BY <1>1, <1>7, <1>12, <2>1, <2>4, MentionsIs
<1>21. DependsOn(e, x, G) \subseteq G
  <2> HIDE DEF G
  <2> QED BY <1>14, <1>17, <1>19, <1>20 DEF DependsOn
<1> QED BY <1>15, <1>21 DEF R

(* The cascade takes the rows of what depends on x, and no others.          *)
LEMMA TakesDependents ==
  ASSUME NEW l \in Seq(Row), Replay(l).code = "ACCEPTED", NEW x \in EntityId, NEW events,
         Cascade(l, x) # {}, Replay(Rewritten(l, Cascade(l, x), events)).code = "ACCEPTED"
  PROVE  \A i \in DOMAIN l :
           i \in Cascade(l, x) <=> Mentions(l[i].op) \cap Dependents(Replay(l).eng, x) # {}
<1> DEFINE e == Replay(l).eng
           R == Cascade(l, x)
           G == UNION {Mentions(l[i].op) : i \in R}
<1>1. Explained(e, l) /\ R \subseteq DOMAIN l
  BY ReplayedRows, CascadeIs
<1> HIDE DEF e
<1>2. G \subseteq Items(e) /\ DependsOn(e, x, G) \subseteq G
  BY <1>1, RestStands
<1>3. \A S : DependsOn(e, x, S) \subseteq S => \A i \in R : Mentions(l[i].op) \subseteq S
  BY <1>1, GoneDepends
<1> HIDE DEF R
<1>4. ASSUME NEW i \in R PROVE Mentions(l[i].op) \cap Dependents(e, x) # {}
  <2>1. PICK y \in Mentions(l[i].op) : TRUE
    BY <1>1, <1>4, MentionsIs DEF Explained
  <2>2. y \in Items(e)
    BY <1>2, <1>4
  <2>3. y \in Dependents(e, x)
    BY <1>3, <1>4, <2>2 DEF Dependents
  <2> QED BY <2>3
<1>5. ASSUME NEW i \in DOMAIN l, NEW y \in Mentions(l[i].op), y \in Dependents(e, x) PROVE i \in R
  <2>1. y \in G
    <3> HIDE DEF G
    <3> QED BY <1>2, <1>5 DEF Dependents
  <2>2. PICK j \in R : y \in Mentions(l[j].op)
    BY <2>1
  <2> QED BY <1>1, <2>2 DEF Explained
<1> QED BY <1>1, <1>4, <1>5 DEF R, e

(* The passes of the property's reading of a log: the operations it spares. *)
LEMMA SparingPasses ==
  ASSUME NEW l \in Seq(Row), NEW n, NEW S
  PROVE  \E V : /\ Sparing(l, n, S) = V[Len(l)]
                /\ V[0] = <<>>
                /\ \A k \in Nat : k + 1 <= Len(l) =>
                     V[k + 1] = IF k + 1 <= n /\ Mentions(l[k + 1].op) \cap S # {} THEN V[k]
                                ELSE Append(V[k], l[k + 1].op)
<1> DEFINE N == Len(l)
           Pass(s, k) == IF k <= n /\ Mentions(l[k].op) \cap S # {} THEN s ELSE Append(s, l[k].op)
           Q == Seq(OpsIn(l))
           F == [p \in (1..N) \X Q |-> Pass(p[2], p[1])]
           V == CHOOSE u : u = [k \in 0..N |-> IF k = 0 THEN <<>> ELSE Pass(u[k - 1], k)]
<1>1. Sparing(l, n, S) = V[N]
  BY DEF Sparing
<1>2. N \in Nat /\ \A i \in 1..N : l[i].op \in OpsIn(l)
  BY LenProperties DEF OpsIn
<1> HIDE DEF N
<1>3. \A i \in 1..N, s \in Q : F[<<i, s>>] = Pass(s, i) /\ Pass(s, i) \in Q
  <2> TAKE i \in 1..N, s \in Q
  <2>1. Append(s, l[i].op) \in Q
    BY <1>2, AppendProperties
  <2> HIDE DEF Q
  <2> QED BY <2>1
<1>4. <<>> \in Q
  BY EmptySeq
<1> HIDE DEF F, Q
<1>5. PICK g : Recurs(g, N, <<>>, F) /\ \A k \in 0..N : g[k] \in Q
  <2>1. \A i \in 1..N, s \in Q : F[<<i, s>>] \in Q
    BY <1>3
  <2> QED BY <1>2, <1>4, <2>1, Recursion
<1>6. \A k \in 0..N : g[k] = IF k = 0 THEN <<>> ELSE Pass(g[k - 1], k)
  <2> TAKE k \in 0..N
  <2>1. CASE k = 0
    BY <1>5, <2>1 DEF Recurs
  <2>2. CASE k # 0
    <3>1. k \in 1..N /\ k - 1 \in 0..N
      BY <1>2, <2>2
    <3>2. g[k] = F[<<k, g[k - 1]>>] /\ g[k - 1] \in Q
      BY <1>5, <3>1 DEF Recurs
    <3> HIDE DEF Pass
    <3> QED BY <1>3, <2>2, <3>1, <3>2
  <2> QED BY <2>1, <2>2
<1> HIDE DEF Pass
<1>7. g = [k \in 0..N |-> IF k = 0 THEN <<>> ELSE Pass(g[k - 1], k)]
  BY <1>5, <1>6 DEF Recurs
<1>8. V = [k \in 0..N |-> IF k = 0 THEN <<>> ELSE Pass(V[k - 1], k)]
  BY <1>7
<1> HIDE DEF V
<1>9. ASSUME NEW k \in Nat, k + 1 <= N PROVE V[k + 1] = Pass(V[k], k + 1)
  <2>1. k + 1 \in 0..N /\ k + 1 # 0 /\ (k + 1) - 1 = k
    BY <1>2, <1>9
  <2> QED BY <1>8, <2>1
<1>10. 0 \in 0..N /\ V[0] = <<>>
  BY <1>2, <1>8
<1> QED BY <1>1, <1>9, <1>10 DEF N, Pass

(* A rewritten log has the operations the property spares, in their order,  *)
(* if the rows dropped are the first n rows that put an id of S on record.  *)
(* The operations of a log, in their order. *)
OpsOf(s) == [i \in DOMAIN s |-> s[i].op]

(* A row appended to a log appends its operation. *)
LEMMA AppendOps ==
  ASSUME NEW w \in Seq(Row), NEW y \in Row, NEW S, NEW v \in Seq(S), NEW op \in S, y.op = op,
         OpsOf(w) = v
  PROVE  OpsOf(Append(w, y)) = Append(v, op)
<1> USE DEF OpsOf
<1> DEFINE s == Append(w, y)
           t == Append(v, op)
           n == Len(w)
<1>1. /\ n \in Nat /\ DOMAIN w = 1..n /\ DOMAIN v = 1..Len(v) /\ Len(v) \in Nat
  BY LenProperties
<1>2. Len(v) = n /\ \A i \in 1..n : v[i] = w[i].op
  <2>1. DOMAIN v = 1..n
    BY <1>1
  <2> QED BY <1>1, <2>1
<1>3. /\ s \in Seq(Row) /\ Len(s) = n + 1 /\ s[n + 1] = y /\ \A i \in 1..n : s[i] = w[i]
  BY AppendProperties
<1>4. /\ t \in Seq(S) /\ Len(t) = n + 1 /\ t[n + 1] = op /\ \A i \in 1..n : t[i] = v[i]
  BY <1>2, AppendProperties
<1>5. DOMAIN s = 1..(n + 1) /\ DOMAIN t = 1..(n + 1) /\ t = [i \in 1..(n + 1) |-> t[i]]
  BY <1>3, <1>4, LenProperties
<1> HIDE DEF s, t, n
<1>6. \A i \in 1..(n + 1) : s[i].op = t[i]
  <2> TAKE i \in 1..(n + 1)
  <2>1. i \in 1..n \/ i = n + 1
    BY <1>1
  <2> QED BY <1>2, <1>3, <1>4, <2>1
<1> QED BY <1>5, <1>6 DEF s, t

LEMMA RewriteSpares ==
  ASSUME NEW l \in Seq(Row), NEW n, NEW S, NEW dropped, NEW events,
         \A i \in DOMAIN l : i \in dropped <=> i <= n /\ Mentions(l[i].op) \cap S # {}
  PROVE  OpsOf(Rewritten(l, dropped, events)) = Sparing(l, n, S)
<1> DEFINE N == Len(l)
<1>1. PICK W : /\ Rewritten(l, dropped, events) = W[Len(l)]
               /\ W[0] = <<>>
               /\ \A k \in Nat : k + 1 <= Len(l) =>
                    /\ Redacted(l[k + 1], events) \in Row
                    /\ W[k + 1] = IF k + 1 \in dropped THEN W[k]
                                  ELSE Append(W[k], Redacted(l[k + 1], events))
  BY RewritePasses
<1>2. PICK V : /\ Sparing(l, n, S) = V[Len(l)]
               /\ V[0] = <<>>
               /\ \A k \in Nat : k + 1 <= Len(l) =>
                    V[k + 1] = IF k + 1 <= n /\ Mentions(l[k + 1].op) \cap S # {} THEN V[k]
                               ELSE Append(V[k], l[k + 1].op)
  BY SparingPasses
<1>3. N \in Nat /\ DOMAIN l = 1..N /\ \A i \in 1..N : l[i].op \in OpsIn(l)
  BY LenProperties DEF OpsIn
<1>4. \A i \in 1..N : Redacted(l[i], events).op = l[i].op
  <2> TAKE i \in 1..N
  <2>1. l[i] \in Row
    BY <1>3, ElementOfSeq
  <2>2. [l[i] EXCEPT !.label = ERASURE_NOTE].op = l[i].op
    BY <2>1 DEF Row
  <2> QED BY <2>2 DEF Redacted
<1> HIDE DEF N
<1> DEFINE P(k) == OpsOf(W[k]) = V[k] /\ W[k] \in Seq(Row) /\ V[k] \in Seq(OpsIn(l))
           T == {k \in Nat : k <= N => P(k)}
<1>5. 0 \in T
  <2>1. OpsOf(<<>>) = <<>> /\ <<>> \in Seq(Row) /\ <<>> \in Seq(OpsIn(l))
    BY EmptySeq DEF OpsOf
  <2> QED BY <1>1, <1>2, <2>1
<1>6. ASSUME NEW k \in Nat, k \in T PROVE k + 1 \in T
  <2> SUFFICES ASSUME k + 1 <= N PROVE P(k + 1)
    OBVIOUS
  <2>1. k \in 0..N /\ k <= N /\ k + 1 \in 1..N
    BY <1>3
  <2>2. P(k)
    BY <1>6, <2>1
  <2> DEFINE y == Redacted(l[k + 1], events)
  <2>3. y \in Row /\ W[k + 1] = IF k + 1 \in dropped THEN W[k] ELSE Append(W[k], y)
    BY <1>1 DEF N
  <2>4. /\ l[k + 1].op \in OpsIn(l) /\ y.op = l[k + 1].op
        /\ V[k + 1] = IF k + 1 \in dropped THEN V[k] ELSE Append(V[k], l[k + 1].op)
    BY <1>2, <1>3, <1>4, <2>1 DEF N
  <2> HIDE DEF y
  <2>5. CASE k + 1 \in dropped
    BY <2>2, <2>3, <2>4, <2>5
  <2>6. CASE k + 1 \notin dropped
    <3> DEFINE w == W[k]
               v == V[k]
               op == l[k + 1].op
    <3>1. w \in Seq(Row) /\ v \in Seq(OpsIn(l)) /\ OpsOf(w) = v
      BY <2>2
    <3>2. W[k + 1] = Append(w, y) /\ V[k + 1] = Append(v, op) /\ y.op = op /\ op \in OpsIn(l)
      BY <2>3, <2>4, <2>6
    <3> HIDE DEF w, v, op
    <3>3. y \in Row
      BY <2>3
    <3>4. Append(w, y) \in Seq(Row) /\ Append(v, op) \in Seq(OpsIn(l))
      BY <3>1, <3>2, <3>3, AppendProperties
    <3>5. OpsOf(Append(w, y)) = Append(v, op)
      BY <3>1, <3>2, <3>3, AppendOps
    <3> QED BY <3>2, <3>4, <3>5
  <2> QED BY <2>5, <2>6
<1> HIDE DEF P
<1>7. N \in T
  <2> HIDE DEF T
  <2> QED BY <1>3, <1>5, <1>6, SetInduction
<1>8. OpsOf(W[N]) = V[N]
  BY <1>3, <1>7 DEF P
<1> QED BY <1>1, <1>2, <1>8 DEF N

(* An erasure that is about to rewrite the log has planned it on rows that  *)
(* still open the log, and its plan has been seen to replay.                *)
PlanHeld ==
  forget.step = "rewrite" =>
    \E x \in EntityId :
      /\ forget.who = {x} /\ forget.gone = Cascade(forget.rows, x) /\ forget.gone # {}
      /\ Replay(Rewritten(forget.rows, forget.gone, forget.redact)).code = "ACCEPTED"
      /\ Len(forget.rows) <= Len(db.log)
      /\ \A i \in DOMAIN forget.rows : db.log[i] = forget.rows[i]

(* Every step keeps the plan: what is written meanwhile follows the rows it *)
(* was made on.                                                             *)
LEMMA PlanStep ==
  ASSUME Typed, PlanHeld, [Next]_vars
  PROVE  PlanHeld'
<1>1. CASE (\E m \in Messages : Observe(m)) \/ (\E k \in RequestKinds : Write(k))
  <2>1. PICK ticks, todo, ids : Take(ticks, todo, ids)
    BY <1>1, RequestTakes
  <2> QED BY <2>1 DEF Take, PlanHeld
<1>2. CASE Record
  <2> DEFINE row == [op |-> Head(writer.todo).op, label |-> Head(writer.todo).label,
                     clock |-> Held.clock]
  <2>1. forget' = forget /\ Busy /\ Head(writer.todo).what = "op"
    BY <1>2 DEF Record
  <2>2. db' = db \/ db' = [db EXCEPT !.log = Append(db.log, row)]
    BY <1>2 DEF Record
  <2> SUFFICES ASSUME forget.step = "rewrite", db' = [db EXCEPT !.log = Append(db.log, row)]
               PROVE  PlanHeld'
    BY <2>1, <2>2 DEF PlanHeld
  <2>3. db'.log = Append(db.log, row) /\ db.log \in Seq(Row) /\ forget.rows \in Seq(Row)
    BY DEF Typed, Store, TypedForget
  <2>4. row \in Row
    BY <2>1, BusyHas, HeldTyped DEF Typed, TypedWriter, TypedProject, Row
  <2> HIDE DEF row
  <2>5. /\ Len(db'.log) = Len(db.log) + 1 /\ \A i \in 1..Len(db.log) : db'.log[i] = db.log[i]
        /\ Len(db.log) \in Nat /\ Len(forget.rows) \in Nat
        /\ DOMAIN forget.rows = 1..Len(forget.rows)
    BY <2>3, <2>4, AppendProperties, LenProperties
  <2>6. PICK x \in EntityId :
          /\ forget.who = {x} /\ forget.gone = Cascade(forget.rows, x) /\ forget.gone # {}
          /\ Replay(Rewritten(forget.rows, forget.gone, forget.redact)).code = "ACCEPTED"
          /\ Len(forget.rows) <= Len(db.log)
          /\ \A i \in DOMAIN forget.rows : db.log[i] = forget.rows[i]
    BY DEF PlanHeld
  <2>7. /\ Len(forget.rows) <= Len(db'.log)
        /\ \A i \in DOMAIN forget.rows : db'.log[i] = forget.rows[i]
    BY <2>5, <2>6
  <2> QED BY <2>1, <2>6, <2>7 DEF PlanHeld
<1>3. CASE Quote
  <2>1. forget' = forget /\ db'.log = db.log
    BY <1>3 DEF Quote, Typed, Store
  <2> QED BY <2>1 DEF PlanHeld
<1>4. ASSUME NEW x \in EntityId, Forget(x) PROVE PlanHeld'
  <2> DEFINE l == db.log
             R == Cascade(l, x)
             redact == RedactedEvents(l, R)
  <2>1. db' = db
    BY <1>4 DEF Forget
  <2>2. CASE R = {} \/ Replay(Rewritten(l, R, redact)).code # "ACCEPTED"
    <3>1. forget' = Nobody
      BY <1>4, <2>2 DEF Forget
    <3> QED BY <3>1 DEF Nobody, PlanHeld
  <2>3. CASE R # {} /\ Replay(Rewritten(l, R, redact)).code = "ACCEPTED"
    <3>1. forget' = [step |-> "rewrite", gone |-> R, claims |-> ClaimsIn(l, R),
                     redact |-> redact, sources |-> {}, who |-> {x}, rows |-> l,
                     cited |-> CitedFor(Replay(l).eng, x),
                     heard |-> SourcesOf(AboutIn(Replay(l).eng, x))]
      BY <1>4, <2>3 DEF Forget
    <3>2. forget'.who = {x} /\ forget'.gone = R /\ forget'.redact = redact /\ forget'.rows = l
      BY <3>1
    <3>3. Len(l) \in Nat
      BY LenProperties DEF Typed, Store
    <3> HIDE DEF R, redact
    <3>4. Len(l) <= Len(l) /\ \A i \in DOMAIN l : l[i] = l[i]
      BY <3>3
    <3> QED BY <2>1, <2>3, <3>2, <3>4 DEF PlanHeld, R
  <2> QED BY <2>2, <2>3
<1>5. CASE RewriteLog \/ PurgeRows \/ CommitRewrite \/ Rebuild \/ Sign \/ Crash
  <2>1. ASSUME NEW to, forget' = [forget EXCEPT !.step = to] PROVE forget'.step = to
    BY <2>1 DEF Typed, TypedForget
  <2>2. CASE RewriteLog
    <3>1. forget'.step = "purge"
      BY <2>2 DEF RewriteLog, Typed, TypedForget
    <3> QED BY <3>1 DEF PlanHeld
  <2>3. CASE PurgeRows \/ CommitRewrite
    <3>1. forget'.step \in {"commit", "rebuild"}
      BY <2>1, <2>3 DEF PurgeRows, CommitRewrite, Step
    <3> QED BY <3>1 DEF PlanHeld
  <2>4. CASE Rebuild
    <3>1. forget'.step = "sign" \/ forget' = Nobody
      BY <2>1, <2>4 DEF Rebuild, Step
    <3> QED BY <3>1 DEF PlanHeld, Nobody
  <2>5. CASE Sign \/ Crash
    <3>1. forget' = Nobody
      BY <2>5 DEF Sign, Crash
    <3> QED BY <3>1 DEF PlanHeld, Nobody
  <2> QED BY <1>5, <2>2, <2>3, <2>4, <2>5
<1>6. CASE Boot \/ UNCHANGED vars
  BY <1>6 DEF Boot, vars, PlanHeld
<1> QED BY <1>1, <1>2, <1>3, <1>4, <1>5, <1>6 DEF Next

(* The rewriting takes what depends on whom the erasure is about.           *)
LEMMA RewriteTakes ==
  ASSUME Typed, PlanHeld, RewriteLog, Replay(forget.rows).code = "ACCEPTED"
  PROVE  LET x    == CHOOSE y \in forget.who : TRUE
             deps == Dependents(Replay(forget.rows).eng, x)
         IN  [i \in DOMAIN db'.log |-> db'.log[i].op] = Sparing(db.log, Len(forget.rows), deps)
<1> DEFINE l == db.log
           seen == forget.rows
           R == forget.gone
           n == Len(seen)
<1>1. /\ forget.step = "rewrite" /\ db'.log = Rewritten(l, R, forget.redact)
      /\ l \in Seq(Row) /\ seen \in Seq(Row)
  BY DEF RewriteLog, Typed, Store, TypedForget
<1>2. PICK x \in EntityId :
        /\ forget.who = {x} /\ R = Cascade(seen, x) /\ R # {}
        /\ Replay(Rewritten(seen, R, forget.redact)).code = "ACCEPTED"
        /\ n <= Len(l) /\ \A i \in DOMAIN seen : l[i] = seen[i]
  BY <1>1 DEF PlanHeld
<1>3. (CHOOSE y \in forget.who : TRUE) = x
  BY <1>2
<1> DEFINE deps == Dependents(Replay(seen).eng, x)
<1>4. \A i \in DOMAIN seen : i \in R <=> Mentions(seen[i].op) \cap deps # {}
  BY ZenonT(40), <1>1, <1>2, TakesDependents
<1>5. R \subseteq DOMAIN seen
  BY <1>1, <1>2, CascadeIs
<1>6. /\ n \in Nat /\ Len(l) \in Nat /\ DOMAIN seen = 1..n /\ DOMAIN l = 1..Len(l)
  BY <1>1, LenProperties
<1> HIDE DEF deps, n
<1>7. \A i \in DOMAIN l : i \in R <=> i <= n /\ Mentions(l[i].op) \cap deps # {}
  BY <1>2, <1>4, <1>5, <1>6
<1> HIDE DEF l, seen, R
<1>8. OpsOf(Rewritten(l, R, forget.redact)) = Sparing(l, n, deps)
  BY <1>1, <1>7, RewriteSpares
<1> QED BY <1>1, <1>3, <1>8 DEF deps, n, l, seen, OpsOf

(* An erasure takes exactly the rows of what depends on the person: nothing *)
(* that stands without them goes, nothing that rests on them stays, and     *)
(* what other requests log meanwhile is not touched (_forget_entity,        *)
(* server/api.py:391-402).                                                  *)
THEOREM OnlyDependentsTaken == Spec => OnlyDependentsGo
<1>1. Init => Typed /\ PlanHeld
  <2>1. Init => PlanHeld
    BY DEF Init, PlanHeld, Nobody
  <2> QED BY <2>1, TypedInit
<1>2. Typed /\ PlanHeld /\ [Next]_vars => (Typed /\ PlanHeld)'
  BY TypedStep, PlanStep
<1> DEFINE Taken ==
      (/\ forget.step = "rewrite" /\ forget'.step = "purge"
       /\ Replay(forget.rows).code = "ACCEPTED") =>
        LET x    == CHOOSE y \in forget.who : TRUE
            deps == Dependents(Replay(forget.rows).eng, x)
        IN  [i \in DOMAIN db'.log |-> db'.log[i].op] = Sparing(db.log, Len(forget.rows), deps)
<1>3. Typed /\ PlanHeld /\ [Next]_vars => [Taken]_vars
  <2> SUFFICES ASSUME Typed, PlanHeld, [Next]_vars, forget.step = "rewrite",
                      forget'.step = "purge", Replay(forget.rows).code = "ACCEPTED"
               PROVE  Taken
    OBVIOUS
  <2>1. RewriteLog
    <3>1. ASSUME NEW ticks, NEW todo, NEW ids, Take(ticks, todo, ids) PROVE FALSE
      BY <3>1 DEF Take
    <3>2. ~ (\E m \in Messages : Observe(m)) /\ ~ (\E k \in RequestKinds : Write(k))
      BY <3>1, RequestTakes
    <3>3. ~ (Record \/ Quote \/ Boot \/ UNCHANGED vars)
      BY DEF Record, Quote, Boot, vars
    <3>4. ~ (\E x \in EntityId : Forget(x))
      BY DEF Forget, Nobody
    <3>5. ~ (PurgeRows \/ CommitRewrite \/ Rebuild \/ Sign \/ Crash)
      BY DEF PurgeRows, CommitRewrite, Rebuild, Sign, Crash, Step, Nobody
    <3> QED BY <3>2, <3>3, <3>4, <3>5 DEF Next
  <2> QED BY <2>1, RewriteTakes
<1> QED BY <1>1, <1>2, <1>3, PTL DEF Spec, OnlyDependentsGo
------------------------------------------------------------------------------

(* The erasure of a project, and the audit log.  TenantsHold is not         *)
(* inductive: of an erasure in progress it must be known which tables hold  *)
(* nothing of its project any more (Cleaned), with what came late set       *)
(* apart; of a connector's credentials that the connector leads to them     *)
(* (CredsLed), for they are found through it; and of who is about to append *)
(* that nobody else is and that the row in hand is the next one.            *)

Stages == DOMAIN Tenants!Then
Midway == {"source_records", "connectors", "audit_events", "projects"}
Doings == Stages \cup {"idle", "record", "consent", "audit", "append", "commit", "pop"}
AuditRow == [id : Nat, seq : Nat, prev : Nat, of : Project \cup {"none"}]

Shaped(s) ==
  /\ s = [table |-> s.table, audit |-> s.audit]
  /\ s.table \in [Tenants!Table -> SUBSET Project]
  /\ s.audit = [c \in Tenants!Chain |-> s.audit[c]]

Tending(x) ==
  /\ x = [at |-> x.at, why |-> x.why, p |-> x.p, chain |-> x.chain, row |-> x.row]
  /\ x.at \in Doings /\ x.p \in Project \cup {"none"} /\ x.chain \in Tenants!Chain

TenTyped ==
  /\ Shaped(tables) /\ Shaped(durable)
  /\ tending = [t \in Hand \cup Grant |-> tending[t]]
  /\ \A t \in Hand \cup Grant : Tending(tending[t])
  /\ \A t \in Hand : tending[t].at # "idle" /\ tending[t].why # "none" => tending[t].p \in Project
  /\ \A t \in Hand : tending[t].at \notin {"idle", "append"} => tending[t].why # "none"
  /\ \A t \in Grant : tending[t].at \in {"idle", "append"} /\ tending[t].why = "none"
  /\ rows \in Nat
  /\ served \subseteq Project /\ gone \subseteq Project /\ late \subseteq Project
  /\ amid \subseteq Project /\ orphaned \subseteq Project /\ cut \subseteq Tenants!Chain

(* The row that comes next on a chain that verifies. *)
NextSeq(chain)  == Len(chain) + 1
NextPrev(chain) == IF chain = <<>> THEN 0 ELSE chain[Len(chain)].id

ChainsKept ==
  \A c \in Tenants!Chain \ cut :
    /\ tables.audit[c] = durable.audit[c]
    /\ tables.audit[c] \in Seq(AuditRow)
    /\ Tenants!Verifies(tables.audit[c])

Appending(t, c) == tending[t].at = "append" /\ tending[t].chain = c

OneAppends ==
  \A c \in Tenants!Chain \ cut : \A t, u \in Hand \cup Grant :
    Appending(t, c) /\ Appending(u, c) => t = u

RowsFollow ==
  \A t \in Hand \cup Grant : \A c \in Tenants!Chain \ cut :
    Appending(t, c) =>
      /\ tending[t].row \in AuditRow
      /\ tending[t].row.seq = NextSeq(tables.audit[c])
      /\ tending[t].row.prev = NextPrev(tables.audit[c])

(* What an erasure has deleted from when it is at a statement. *)
Done(at) ==
  {s \in Tenants!Table :
    \/ at \in {"commit", "pop"}
    \/ at \in {"audit_events", "projects"} /\ s # "projects"
    \/ at = "connectors" /\ s \notin {"connectors", "projects"}
    \/ at = "source_records" /\ s \in {"oauth_creds", "ops"}
    \/ at = "ops" /\ s = "oauth_creds"}

Emptied(table, p, deleted, l, o) ==
  \A s \in deleted : \/ p \notin table[s]
                     \/ s # "projects" /\ p \in l
                     \/ s = "oauth_creds" /\ p \in o

Cleaned ==
  \A t \in Hand :
    /\ Emptied(tables.table, tending[t].p, Done(tending[t].at), late, orphaned)
    /\ tending[t].at = "pop" =>
         Emptied(durable.table, tending[t].p, Tenants!Table, late, orphaned)

GoneIsClean ==
  \A p \in gone :
    /\ p \notin served
    /\ Emptied(tables.table, p, Tenants!Table, late, orphaned)
    /\ Emptied(durable.table, p, Tenants!Table, late, orphaned)

Led(table, l, o) == table["oauth_creds"] \subseteq table["connectors"] \cup o \cup l
CredsLed == Led(tables.table, late, orphaned) /\ Led(durable.table, late, orphaned)

Both(table, p) == p \in table["projects"] <=> p \in table["ops"]
Whole ==
  \A p \in Project \ (amid \cup late) :
    /\ (\A t \in Hand : tending[t].p = p => tending[t].at \notin Midway) => Both(tables.table, p)
    /\ Both(durable.table, p)

TenInv ==
  /\ TenTyped /\ ChainsKept /\ OneAppends /\ RowsFollow
  /\ Cleaned /\ GoneIsClean /\ CredsLed /\ Whole

(***************************************************************************)
(* The helpers of Tenants.                                                  *)
(***************************************************************************)
LEMMA StagesAre ==
  /\ Stages = {"oauth_creds", "ops", "source_records", "connectors", "audit_events", "projects"}
  /\ Tenants!Then["oauth_creds"] = "ops" /\ Tenants!Then["ops"] = "source_records"
  /\ Tenants!Then["source_records"] = "connectors" /\ Tenants!Then["connectors"] = "audit_events"
  /\ Tenants!Then["audit_events"] = "projects" /\ Tenants!Then["projects"] = "commit"
  BY DEF Stages, Tenants!Then

LEMMA DoneNext ==
  ASSUME NEW s \in Stages
  PROVE  Done(Tenants!Then[s]) \subseteq Done(s) \cup {s} /\ Tenants!Then[s] \in Doings
  <1>1. CASE s = "oauth_creds" BY <1>1, StagesAre DEF Done, Doings, Tenants!Table
  <1>2. CASE s = "ops" BY <1>2, StagesAre DEF Done, Doings, Tenants!Table
  <1>3. CASE s = "source_records" BY <1>3, StagesAre DEF Done, Doings, Tenants!Table
  <1>4. CASE s = "connectors" BY <1>4, StagesAre DEF Done, Doings, Tenants!Table
  <1>5. CASE s = "audit_events" BY <1>5, StagesAre DEF Done, Doings, Tenants!Table
  <1>6. CASE s = "projects" BY <1>6, StagesAre DEF Done, Doings, Tenants!Table
  <1> QED BY <1>1, <1>2, <1>3, <1>4, <1>5, <1>6, StagesAre

LEMMA DoneNothing ==
  \A at \in {"idle", "record", "consent", "audit", "append", "oauth_creds"} : Done(at) = {}
  BY DEF Done

LEMMA DoneAll == Done("commit") = Tenants!Table /\ Done("pop") = Tenants!Table
  BY DEF Done

LEMMA WithAdds ==
  ASSUME Shaped(tables), NEW s \in Tenants!Table, NEW p \in Project
  PROVE  /\ Shaped(Tenants!With(s, p))
         /\ Tenants!With(s, p).audit = tables.audit
         /\ \A t \in Tenants!Table : Tenants!With(s, p).table[t] =
              IF t = s THEN tables.table[t] \cup {p} ELSE tables.table[t]
  <1> DEFINE w == Tenants!With(s, p)
  <1>1. tables = [table |-> tables.table, audit |-> tables.audit]
    BY DEF Shaped
  <1>2. w = [table |-> [tables.table EXCEPT ![s] = tables.table[s] \cup {p}],
             audit |-> tables.audit]
    BY <1>1 DEF Tenants!With
  <1>3. w.table \in [Tenants!Table -> SUBSET Project]
    BY <1>2 DEF Shaped
  <1>4. w.audit = tables.audit BY <1>2
  <1>5. \A t \in Tenants!Table : w.table[t] = IF t = s THEN tables.table[t] \cup {p} ELSE tables.table[t]
    <2>1. w.table = [tables.table EXCEPT ![s] = tables.table[s] \cup {p}] BY <1>2
    <2>2. DOMAIN tables.table = Tenants!Table BY DEF Shaped
    <2> HIDE DEF w
    <2> QED BY <2>1, <2>2
  <1> QED BY <1>2, <1>3, <1>4, <1>5 DEF Shaped

LEMMA WithoutTakes ==
  ASSUME Shaped(tables), NEW s \in Tenants!Table, NEW p \in Project
  PROVE  /\ Shaped(Tenants!Without(s, p))
         /\ Tenants!Without(s, p).audit = tables.audit
         /\ \A t \in Tenants!Table : Tenants!Without(s, p).table[t] =
              IF t = s THEN tables.table[t] \ {p} ELSE tables.table[t]
  <1> DEFINE w == Tenants!Without(s, p)
  <1>1. tables = [table |-> tables.table, audit |-> tables.audit]
    BY DEF Shaped
  <1>2. w = [table |-> [tables.table EXCEPT ![s] = tables.table[s] \ {p}],
             audit |-> tables.audit]
    BY <1>1 DEF Tenants!Without
  <1>3. w.table \in [Tenants!Table -> SUBSET Project]
    BY <1>2 DEF Shaped
  <1>4. w.audit = tables.audit BY <1>2
  <1>5. \A t \in Tenants!Table : w.table[t] = IF t = s THEN tables.table[t] \ {p} ELSE tables.table[t]
    <2>1. w.table = [tables.table EXCEPT ![s] = tables.table[s] \ {p}] BY <1>2
    <2>2. DOMAIN tables.table = Tenants!Table BY DEF Shaped
    <2> HIDE DEF w
    <2> QED BY <2>1, <2>2
  <1> QED BY <1>2, <1>3, <1>4, <1>5 DEF Shaped

(* What a statement of an erasure deletes. *)
LEMMA DeletedTakes ==
  ASSUME Shaped(tables), NEW s \in Stages, NEW p \in Project
  PROVE  /\ Shaped(Tenants!Deleted(s, p))
         /\ \A t \in Tenants!Table :
              Tenants!Deleted(s, p).table[t] =
                IF t = s /\ (s = "oauth_creds" => p \in tables.table["connectors"])
                THEN tables.table[t] \ {p} ELSE tables.table[t]
         /\ \A c \in Tenants!Chain : s # "audit_events" \/ Tenants!RowsOf(c, p) = {} =>
              Tenants!Deleted(s, p).audit[c] = tables.audit[c]
  <1> DEFINE w == Tenants!Deleted(s, p)
  <1>1. CASE s = "oauth_creds"
    <2>1. s \in Tenants!Table BY <1>1 DEF Tenants!Table
    <2>2. w = IF p \in tables.table["connectors"] THEN Tenants!Without(s, p) ELSE tables
      BY <1>1 DEF Tenants!Deleted
    <2>3. CASE p \in tables.table["connectors"]
      <3>1. w = Tenants!Without(s, p) BY <2>2, <2>3
      <3>2. tables.table \in [Tenants!Table -> SUBSET Project] BY DEF Shaped
      <3>3. Shaped(w) /\ w.audit = tables.audit BY <2>1, <3>1, WithoutTakes
      <3>4. \A t \in Tenants!Table :
              w.table[t] = IF t = s THEN tables.table[t] \ {p} ELSE tables.table[t]
        BY <2>1, <3>1, WithoutTakes
      <3> QED BY <1>1, <2>3, <3>3, <3>4
    <2>4. CASE p \notin tables.table["connectors"]
      <3>1. w = tables BY <2>2, <2>4
      <3> QED BY <1>1, <2>4, <3>1
    <2> QED BY <2>3, <2>4
  <1>2. CASE s = "audit_events"
    <2> DEFINE a == [c \in Tenants!Chain |-> IF Tenants!RowsOf(c, p) = {} THEN tables.audit[c]
                                            ELSE Tenants!Others(tables.audit[c], p)]
    <2>1. w = [tables EXCEPT !.audit = a] BY <1>2 DEF Tenants!Deleted
    <2>2. w = [table |-> tables.table, audit |-> a] BY <2>1 DEF Shaped
    <2>3. \A c \in Tenants!Chain : Tenants!RowsOf(c, p) = {} => a[c] = tables.audit[c]
      OBVIOUS
    <2>4. a = [c \in Tenants!Chain |-> a[c]] OBVIOUS
    <2>5. s \notin Tenants!Table BY <1>2 DEF Tenants!Table
    <2>6. w.table = tables.table /\ w.audit = a BY <2>2
    <2>7. w = [table |-> w.table, audit |-> w.audit] BY <2>2, <2>6
    <2>8. w.audit = [c \in Tenants!Chain |-> w.audit[c]] BY <2>4, <2>6
    <2> HIDE DEF a
    <2>9. Shaped(w) BY <2>6, <2>7, <2>8 DEF Shaped
    <2> QED BY <1>2, <2>3, <2>5, <2>6, <2>9
  <1>3. CASE s \in {"ops", "source_records", "connectors", "projects"}
    <2>1. s \in Tenants!Table BY <1>3 DEF Tenants!Table
    <2>2. w = Tenants!Without(s, p) BY <1>3 DEF Tenants!Deleted
    <2>3. tables.table \in [Tenants!Table -> SUBSET Project] BY DEF Shaped
    <2> QED BY <1>3, <2>1, <2>2, <2>3, WithoutTakes
  <1> QED BY <1>1, <1>2, <1>3, StagesAre

LEMMA AppendedAdds ==
  ASSUME Shaped(tables), NEW t, Tending(tending[t])
  PROVE  /\ Shaped(Tenants!Appended(t))
         /\ Tenants!Appended(t).table = tables.table
         /\ \A c \in Tenants!Chain : Tenants!Appended(t).audit[c] =
              IF c = tending[t].chain
              THEN Append(tables.audit[c], [tending[t].row EXCEPT !.id = rows + 1])
              ELSE tables.audit[c]
  <1> DEFINE w == Tenants!Appended(t)
             c0 == tending[t].chain
             r == [tending[t].row EXCEPT !.id = rows + 1]
             a == [tables.audit EXCEPT ![c0] = Append(tables.audit[c0], r)]
  <1>1. w = [tables EXCEPT !.audit[c0] = Append(@, r)] BY DEF Tenants!Appended
  <1> HIDE DEF r
  <1>2. w = [table |-> tables.table, audit |-> a] BY <1>1 DEF Shaped
  <1>3. a = [c \in Tenants!Chain |-> a[c]] BY DEF Shaped
  <1>4. \A c \in Tenants!Chain :
          a[c] = IF c = c0 THEN Append(tables.audit[c], r) ELSE tables.audit[c]
    BY DEF Shaped
  <1> HIDE DEF a
  <1> QED BY <1>2, <1>3, <1>4 DEF r, Shaped

(* The newest row of a chain that verifies is its last. *)
LEMMA FollowingIs ==
  ASSUME NEW chain \in Seq(AuditRow), Tenants!Verifies(chain), NEW of \in Project \cup {"none"}
  PROVE  /\ Tenants!Following(chain, of) \in AuditRow
         /\ Tenants!Following(chain, of).seq = NextSeq(chain)
         /\ Tenants!Following(chain, of).prev = NextPrev(chain)
  <1> DEFINE k == CHOOSE n \in DOMAIN chain : \A m \in DOMAIN chain : chain[m].seq <= chain[n].seq
             last == IF chain = <<>> THEN Tenants!NoRow ELSE chain[k]
  <1>1. Tenants!Following(chain, of) = [id |-> 0, seq |-> last.seq + 1, prev |-> last.id, of |-> of]
    BY DEF Tenants!Following
  <1>2. \A n \in DOMAIN chain : chain[n].seq = n /\ n \in Nat /\ n <= Len(chain) /\ chain[n] \in AuditRow
    BY DEF Tenants!Verifies
  <1>3. CASE chain = <<>>
    <2>1. last = [id |-> 0, seq |-> 0, prev |-> 0, of |-> "none"]
      BY <1>3 DEF Tenants!NoRow
    <2> HIDE DEF last
    <2> QED BY <1>1, <1>3, <2>1 DEF NextSeq, NextPrev, AuditRow
  <1>4. CASE chain # <<>>
    <2>1. Len(chain) \in DOMAIN chain /\ Len(chain) \in Nat BY <1>4
    <2>2. \A m \in DOMAIN chain : chain[m].seq <= chain[Len(chain)].seq
      BY <1>2, <2>1
    <2>3. k \in DOMAIN chain /\ \A m \in DOMAIN chain : chain[m].seq <= chain[k].seq
      BY <2>1, <2>2
    <2> HIDE DEF k
    <2>4. k = Len(chain) BY <1>2, <2>1, <2>3
    <2>5. last = chain[Len(chain)] BY <1>4, <2>4
    <2>6. last \in AuditRow /\ last.seq = Len(chain) BY <1>2, <2>1, <2>5
    <2>7. last.id \in Nat BY <2>6 DEF AuditRow
    <2> HIDE DEF last
    <2> QED BY <1>1, <1>4, <2>1, <2>5, <2>6, <2>7 DEF NextSeq, NextPrev, AuditRow
  <1> QED BY <1>3, <1>4

(* A chain that verifies still does with the row that comes next. *)
LEMMA NextVerifies ==
  ASSUME NEW chain \in Seq(AuditRow), Tenants!Verifies(chain),
         NEW row \in AuditRow, row.seq = NextSeq(chain), row.prev = NextPrev(chain)
  PROVE  Append(chain, row) \in Seq(AuditRow) /\ Tenants!Verifies(Append(chain, row))
  <1> DEFINE long == Append(chain, row)
             k == Len(chain)
  <1>1. /\ long \in Seq(AuditRow) /\ Len(long) = k + 1 /\ k \in Nat
        /\ \A i \in 1..k : long[i] = chain[i]
        /\ long[k + 1] = row
    BY AppendProperties
  <1>2. \A n \in 1..k : chain[n].seq = n /\ chain[n].prev = IF n = 1 THEN 0 ELSE chain[n - 1].id
    BY DEF Tenants!Verifies
  <1>3. DOMAIN long = 1..(k + 1) BY <1>1
  <1>4. ASSUME NEW n \in DOMAIN long
        PROVE  long[n].seq = n /\ long[n].prev = IF n = 1 THEN 0 ELSE long[n - 1].id
    <2>1. n \in Int /\ n >= 1 /\ n <= k + 1 BY <1>3, <1>1
    <2>2. CASE n = k + 1
      <3>1. long[n] = row BY <1>1, <2>2
      <3>2. CASE k = 0 BY <2>2, <3>1, <3>2 DEF NextSeq, NextPrev
      <3>3. CASE k # 0
        <4>1. k \in 1..k /\ n - 1 = k BY <1>1, <2>2, <3>3
        <4>2. long[n - 1] = chain[k] BY <1>1, <4>1
        <4>3. chain # <<>> BY <3>3
        <4> QED BY <1>1, <2>2, <3>1, <3>3, <4>2, <4>3 DEF NextSeq, NextPrev
      <3> QED BY <3>2, <3>3
    <2>3. CASE n # k + 1
      <3>1. n \in 1..k BY <1>1, <2>1, <2>3
      <3>2. n = 1 \/ n - 1 \in 1..k BY <1>1, <3>1
      <3> QED BY <1>1, <1>2, <3>1, <3>2
    <2> QED BY <2>2, <2>3
  <1> HIDE DEF long
  <1> QED BY <1>1, <1>4 DEF Tenants!Verifies, long

(***************************************************************************)
(* What a step of one thread keeps.                                         *)
(***************************************************************************)
OthersStay(t) == \A u \in (Hand \cup Grant) \ {t} : tending'[u] = tending[u]
Moved == tending' = [t \in Hand \cup Grant |-> tending'[t]]

LEMMA Goes ==
  ASSUME TenTyped, NEW t \in Hand \cup Grant, NEW step \in Doings, Tenants!Goto(t, step)
  PROVE  /\ Moved /\ OthersStay(t) /\ Tending(tending'[t])
         /\ tending'[t].at = step /\ tending'[t].why = tending[t].why
         /\ tending'[t].p = tending[t].p
  <1>1. tending = [u \in Hand \cup Grant |-> tending[u]] /\ Tending(tending[t]) BY DEF TenTyped
  <1>2. tending' = [tending EXCEPT ![t].at = step] BY DEF Tenants!Goto
  <1>3. tending'[t] = [tending[t] EXCEPT !.at = step] BY <1>1, <1>2
  <1>4. tending'[t] = [at |-> step, why |-> tending[t].why, p |-> tending[t].p,
                       chain |-> tending[t].chain, row |-> tending[t].row]
    BY <1>1, <1>3 DEF Tending
  <1>5. Moved BY <1>1, <1>2 DEF Moved
  <1>6. OthersStay(t) BY <1>1, <1>2 DEF OthersStay
  <1>7. Tending(tending'[t]) BY <1>1, <1>4 DEF Tending
  <1> QED BY <1>4, <1>5, <1>6, <1>7

LEMMA Begins ==
  ASSUME TenTyped, NEW t \in Hand \cup Grant, NEW step \in Doings, NEW why, NEW p \in Project,
         Tenants!Begin(t, step, why, p)
  PROVE  /\ Moved /\ OthersStay(t) /\ Tending(tending'[t]) /\ tending[t].at = "idle"
         /\ tending'[t].at = step /\ tending'[t].why = why /\ tending'[t].p = p
  <1>1. tending = [u \in Hand \cup Grant |-> tending[u]] BY DEF TenTyped
  <1> DEFINE x == [Tenants!Idle EXCEPT !.at = step, !.why = why, !.p = p]
  <1>2. tending' = [tending EXCEPT ![t] = x] /\ tending[t].at = "idle"
    BY DEF Tenants!Begin, Tenants!At
  <1>3. x = [at |-> step, why |-> why, p |-> p, chain |-> "org", row |-> Tenants!NoRow]
    <2>1. Tenants!Idle = [at |-> "idle", why |-> "none", p |-> "none", chain |-> "org", row |-> Tenants!NoRow]
      BY DEF Tenants!Idle
    <2>2. [Tenants!Idle EXCEPT !.at = step] =
            [at |-> step, why |-> "none", p |-> "none", chain |-> "org", row |-> Tenants!NoRow]
      BY <2>1
    <2>3. [[at |-> step, why |-> "none", p |-> "none", chain |-> "org", row |-> Tenants!NoRow]
             EXCEPT !.why = why] =
            [at |-> step, why |-> why, p |-> "none", chain |-> "org", row |-> Tenants!NoRow]
      OBVIOUS
    <2>4. [[at |-> step, why |-> why, p |-> "none", chain |-> "org", row |-> Tenants!NoRow]
             EXCEPT !.p = p] =
            [at |-> step, why |-> why, p |-> p, chain |-> "org", row |-> Tenants!NoRow]
      OBVIOUS
    <2>5. x = [[[Tenants!Idle EXCEPT !.at = step] EXCEPT !.why = why] EXCEPT !.p = p]
      OBVIOUS
    <2> QED BY <2>2, <2>3, <2>4, <2>5
  <1> HIDE DEF x
  <1>4. tending'[t] = x BY <1>1, <1>2
  <1>5. Moved BY <1>1, <1>2 DEF Moved
  <1>6. OthersStay(t) BY <1>1, <1>2 DEF OthersStay
  <1>7. Tending(tending'[t]) BY <1>3, <1>4 DEF Tending, Tenants!Chain
  <1> QED BY <1>2, <1>3, <1>4, <1>5, <1>6, <1>7

LEMMA IdleIs ==
  /\ Tending(Tenants!Idle) /\ Tenants!Idle.at = "idle" /\ Tenants!Idle.why = "none"
  BY DEF Tending, Tenants!Idle, Doings, Tenants!Chain

(* What a thread of the server has after a step of its own. *)
OfHand(x) == /\ x.at # "idle" /\ x.why # "none" => x.p \in Project
             /\ x.at \notin {"idle", "append"} => x.why # "none"
OfGrant(x) == x.at \in {"idle", "append"} /\ x.why = "none"

LEMMA TendingTyped ==
  ASSUME TenTyped, NEW t \in Hand \cup Grant, Moved, OthersStay(t), Tending(tending'[t]),
         t \in Hand => OfHand(tending'[t]), t \in Grant => OfGrant(tending'[t]),
         Shaped(tables'), Shaped(durable'), rows' \in Nat,
         served' \subseteq Project, gone' \subseteq Project, late' \subseteq Project,
         amid' \subseteq Project, orphaned' \subseteq Project, cut' \subseteq Tenants!Chain
  PROVE  TenTyped'
  <1>1. \A u \in Hand \cup Grant : Tending(tending'[u]) BY DEF OthersStay, TenTyped
  <1>2. \A u \in Hand : OfHand(tending'[u]) BY DEF OthersStay, TenTyped, OfHand
  <1>3. \A u \in Grant : OfGrant(tending'[u]) BY DEF OthersStay, TenTyped, OfGrant
  <1>4. Shaped(tables)' /\ Shaped(durable)' BY DEF Shaped
  <1>5. (\A u \in Hand \cup Grant : Tending(tending[u]))' BY <1>1 DEF Tending
  <1> QED BY <1>2, <1>3, <1>4, <1>5 DEF TenTyped, Moved, OfHand, OfGrant

(* Nothing is added to a table of a project that is erased, or is being     *)
(* erased, but late.                                                        *)
AddsLate ==
  \A s \in Tenants!Table : \A p \in Project :
    p \in tables'.table[s] =>
      \/ p \in tables.table[s]
      \/ s # "projects" /\ (p \in late' \/ (~ Tenants!Erasing(p) /\ Tenants!Known(p)))
Saved == durable'.table = durable.table \/ durable'.table = tables'.table
Grows == late \subseteq late' /\ orphaned \subseteq orphaned' /\ amid \subseteq amid'

LEMMA CleanKept ==
  ASSUME NEW old, NEW new, NEW p, NEW X, NEW Y, NEW l, NEW m, NEW o, NEW q,
         Emptied(old, p, X, l, o), Y \subseteq X, l \subseteq m, o \subseteq q,
         \A s \in Y : p \in new[s] => p \in old[s] \/ (s # "projects" /\ p \in m)
  PROVE  Emptied(new, p, Y, m, q)
  BY DEF Emptied

LEMMA CleanNothing ==
  ASSUME NEW table, NEW p, NEW l, NEW o
  PROVE  Emptied(table, p, {}, l, o)
  BY DEF Emptied

LEMMA ErasingThem ==
  ASSUME TenTyped, NEW t \in Hand, tending[t].at \in Stages \cup {"commit", "pop"}
  PROVE  tending[t].p \in Project /\ Tenants!Erasing(tending[t].p)
  <1>1. tending[t].p \in Project BY StagesAre DEF TenTyped
  <1> QED BY <1>1 DEF Tenants!Erasing, Stages

LEMMA DoneWhen ==
  ASSUME NEW at, Done(at) # {}
  PROVE  at \in Stages \cup {"commit", "pop"}
  BY StagesAre DEF Done

LEMMA CleanedThread ==
  ASSUME TenTyped, Cleaned, AddsLate, Grows, Saved, NEW t \in Hand,
         \/ Done(tending'[t].at) = {} /\ tending'[t].at # "pop"
         \/ tending'[t].at = tending[t].at /\ tending'[t].p = tending[t].p
  PROVE  /\ Emptied(tables'.table, tending'[t].p, Done(tending'[t].at), late', orphaned')
         /\ tending'[t].at = "pop" =>
              Emptied(durable'.table, tending'[t].p, Tenants!Table, late', orphaned')
  <1>1. CASE Done(tending'[t].at) = {} /\ tending'[t].at # "pop" BY <1>1, CleanNothing
  <1>2. CASE /\ tending'[t].at = tending[t].at /\ tending'[t].p = tending[t].p
             /\ Done(tending[t].at) # {}
    <2> DEFINE p == tending[t].p
               d == Done(tending[t].at)
    <2>1. p \in Project /\ Tenants!Erasing(p) BY <1>2, DoneWhen, ErasingThem
    <2>2. d \subseteq Tenants!Table BY DEF Done
    <2>3. Emptied(tables.table, p, d, late, orphaned) BY DEF Cleaned
    <2>4. \A s \in d : p \in tables'.table[s] => p \in tables.table[s] \/ (s # "projects" /\ p \in late')
      BY <2>1, <2>2 DEF AddsLate
    <2>5. Emptied(tables'.table, p, d, late', orphaned')
      BY <2>3, <2>4, CleanKept DEF Grows
    <2>6. CASE tending[t].at = "pop"
      <3>1. d = Tenants!Table BY <2>6, DoneAll
      <3>2. Emptied(durable.table, p, Tenants!Table, late, orphaned) BY <2>6 DEF Cleaned
      <3>3. Emptied(durable.table, p, Tenants!Table, late', orphaned')
        BY <3>2, CleanKept DEF Grows
      <3>4. Emptied(durable'.table, p, Tenants!Table, late', orphaned')
        BY <2>5, <3>1, <3>3 DEF Saved
      <3> QED BY <1>2, <2>5, <3>4
    <2> QED BY <1>2, <2>5, <2>6
  <1>3. CASE /\ tending'[t].at = tending[t].at /\ Done(tending[t].at) = {}
    <2>1. tending[t].at # "pop" BY <1>3, DoneAll DEF Tenants!Table
    <2> QED BY <1>3, <2>1, CleanNothing
  <1> QED BY <1>1, <1>2, <1>3

LEMMA CleanedAll ==
  ASSUME \A t \in Hand :
           /\ Emptied(tables'.table, tending'[t].p, Done(tending'[t].at), late', orphaned')
           /\ tending'[t].at = "pop" =>
                Emptied(durable'.table, tending'[t].p, Tenants!Table, late', orphaned')
  PROVE  Cleaned'
  BY DEF Cleaned, Emptied, Done

LEMMA CleanedStep ==
  ASSUME TenTyped, Cleaned, AddsLate, Grows, Saved,
         \A t \in Hand : \/ Done(tending'[t].at) = {} /\ tending'[t].at # "pop"
                         \/ tending'[t].at = tending[t].at /\ tending'[t].p = tending[t].p
  PROVE  Cleaned'
  BY CleanedThread, CleanedAll

LEMMA GoneStep ==
  ASSUME TenTyped, GoneIsClean, AddsLate, Grows, Saved, gone' = gone, served' \subseteq served
  PROVE  GoneIsClean'
  <1> SUFFICES ASSUME NEW p \in gone
               PROVE  /\ p \notin served'
                      /\ Emptied(tables'.table, p, Tenants!Table, late', orphaned')
                      /\ Emptied(durable'.table, p, Tenants!Table, late', orphaned')
    BY DEF GoneIsClean, Emptied
  <1>1. p \in Project BY DEF TenTyped
  <1>2. /\ p \notin served
        /\ Emptied(tables.table, p, Tenants!Table, late, orphaned)
        /\ Emptied(durable.table, p, Tenants!Table, late, orphaned)
    BY DEF GoneIsClean
  <1>3. ~ Tenants!Known(p) BY <1>2 DEF Emptied, Tenants!Known, Tenants!Table
  <1>4. \A s \in Tenants!Table :
          p \in tables'.table[s] => p \in tables.table[s] \/ (s # "projects" /\ p \in late')
    BY <1>1, <1>3 DEF AddsLate
  <1>5. Emptied(tables'.table, p, Tenants!Table, late', orphaned')
    BY <1>2, <1>4, CleanKept DEF Grows
  <1>6. Emptied(durable.table, p, Tenants!Table, late', orphaned')
    BY <1>2, CleanKept DEF Grows
  <1> QED BY <1>2, <1>5, <1>6 DEF Saved

LEMMA CredsStep ==
  ASSUME CredsLed, Grows, Saved, Led(tables'.table, late', orphaned')
  PROVE  CredsLed'
  BY DEF CredsLed, Led, Grows, Saved

LEMMA WholeStep ==
  ASSUME TenTyped, Whole, Grows,
         tables'.table["projects"] = tables.table["projects"],
         \A p \in Project \ late' :
           \/ p \in tables'.table["ops"] <=> p \in tables.table["ops"]
           \/ p \in tables'.table["ops"] /\ p \in tables.table["projects"],
         \A t \in Hand : tending[t].at \in Midway => tending'[t] = tending[t],
         \/ durable'.table = durable.table
         \/ /\ durable'.table = tables'.table
            /\ \E t \in Hand : tending[t].at \notin Midway /\ Tenants!Amid(t) \subseteq amid'
  PROVE  Whole'
  <1> SUFFICES ASSUME NEW p \in Project \ (amid' \cup late')
               PROVE  /\ (\A t \in Hand : tending'[t].p = p => tending'[t].at \notin Midway) =>
                           Both(tables'.table, p)
                      /\ Both(durable'.table, p)
    BY DEF Whole, Both, Midway
  <1>1. p \in Project \ (amid \cup late) BY DEF Grows
  <1> DEFINE quiet == \A t \in Hand : tending[t].p = p => tending[t].at \notin Midway
  <1>2. ASSUME quiet PROVE Both(tables'.table, p)
    <2>1. Both(tables.table, p) BY <1>1, <1>2 DEF Whole
    <2> QED BY <2>1 DEF Both
  <1>3. (\A t \in Hand : tending'[t].p = p => tending'[t].at \notin Midway) => quiet
    OBVIOUS
  <1>4. Both(durable'.table, p)
    <2>1. CASE durable'.table = durable.table BY <1>1, <2>1 DEF Whole
    <2>2. ASSUME durable'.table = tables'.table, NEW t \in Hand,
                 tending[t].at \notin Midway, Tenants!Amid(t) \subseteq amid'
          PROVE  Both(durable'.table, p)
      <3>1. ASSUME NEW u \in Hand, tending[u].p = p, tending[u].at \in Midway PROVE FALSE
        <4>1. u \in Hand \ {t} BY <2>2, <3>1
        <4>2. tending[u].at \in (DOMAIN Tenants!Then \ {"oauth_creds"}) \cup {"commit"}
          BY <3>1, StagesAre DEF Stages, Midway
        <4>3. p \in Tenants!Amid(t) BY <3>1, <4>1, <4>2 DEF Tenants!Amid
        <4> QED BY <2>2, <4>3
      <3>2. quiet BY <3>1
      <3> QED BY <1>2, <2>2, <3>2
    <2> QED BY <2>1, <2>2
  <1> QED BY <1>2, <1>3, <1>4

ChainsHold == ChainsKept /\ OneAppends /\ RowsFollow

LEMMA ChainsStep ==
  ASSUME ChainsHold, cut \subseteq cut',
         \A c \in Tenants!Chain \ cut' :
           /\ tables'.audit[c] = tables.audit[c]
           /\ durable'.audit[c] = durable.audit[c] \/ durable'.audit[c] = tables'.audit[c],
         \A t \in Hand \cup Grant : tending'[t].at = "append" => tending'[t] = tending[t]
  PROVE  ChainsHold'
  <1>1. \A c \in Tenants!Chain \ cut' : c \in Tenants!Chain \ cut OBVIOUS
  <1>2. ChainsKept'
    <2> SUFFICES ASSUME NEW c \in Tenants!Chain \ cut'
                 PROVE  /\ tables'.audit[c] = durable'.audit[c]
                        /\ tables'.audit[c] \in Seq(AuditRow)
                        /\ Tenants!Verifies(tables'.audit[c])
      BY DEF ChainsKept, Tenants!Verifies
    <2> QED BY <1>1 DEF ChainsHold, ChainsKept
  <1>3. OneAppends' BY <1>1 DEF ChainsHold, OneAppends, Appending
  <1>4. RowsFollow'
    <2> SUFFICES ASSUME NEW t \in Hand \cup Grant, NEW c \in Tenants!Chain \ cut',
                        tending'[t].at = "append", tending'[t].chain = c
                 PROVE  /\ tending'[t].row \in AuditRow
                        /\ tending'[t].row.seq = NextSeq(tables'.audit[c])
                        /\ tending'[t].row.prev = NextPrev(tables'.audit[c])
      BY DEF RowsFollow, Appending, NextSeq, NextPrev
    <2>1. tending'[t] = tending[t] /\ tables'.audit[c] = tables.audit[c] OBVIOUS
    <2>2. c \in Tenants!Chain \ cut /\ Appending(t, c) BY <1>1, <2>1 DEF Appending
    <2> QED BY <2>1, <2>2 DEF ChainsHold, RowsFollow
  <1> QED BY <1>2, <1>3, <1>4 DEF ChainsHold

LEMMA TablesStep ==
  ASSUME TenTyped, Cleaned, GoneIsClean, CredsLed, Whole,
         NEW t \in Hand \cup Grant, OthersStay(t), tending[t].at \notin Midway,
         Done(tending'[t].at) = {}, tending'[t].at # "pop",
         Grows, Saved, AddsLate, gone' = gone, served' \subseteq served,
         Led(tables'.table, late', orphaned'),
         tables'.table["projects"] = tables.table["projects"],
         \A p \in Project \ late' :
           \/ p \in tables'.table["ops"] <=> p \in tables.table["ops"]
           \/ p \in tables'.table["ops"] /\ p \in tables.table["projects"],
         \/ durable'.table = durable.table
         \/ durable'.table = tables'.table /\ t \in Hand /\ Tenants!Amid(t) \subseteq amid'
  PROVE  Cleaned' /\ GoneIsClean' /\ CredsLed' /\ Whole'
  <1>1. \A u \in Hand : \/ Done(tending'[u].at) = {} /\ tending'[u].at # "pop"
                        \/ tending'[u].at = tending[u].at /\ tending'[u].p = tending[u].p
    BY DEF OthersStay
  <1>2. \A u \in Hand : tending[u].at \in Midway => tending'[u] = tending[u]
    BY DEF OthersStay
  <1>3. Cleaned' BY <1>1, CleanedStep
  <1>4. GoneIsClean' BY GoneStep
  <1>5. CredsLed' BY CredsStep
  <1>6. \/ durable'.table = durable.table
        \/ /\ durable'.table = tables'.table
           /\ \E u \in Hand : tending[u].at \notin Midway /\ Tenants!Amid(u) \subseteq amid'
    OBVIOUS
  <1>7. Whole' BY <1>2, <1>6, WholeStep
  <1> QED BY <1>3, <1>4, <1>5, <1>7

LEMMA AmidTyped ==
  ASSUME TenTyped, NEW t
  PROVE  Tenants!Amid(t) \subseteq Project
  <1>1. \A u \in Hand : tending[u].at \in Stages \cup {"commit", "pop"} => tending[u].p \in Project
    BY ErasingThem
  <1> QED BY <1>1 DEF Tenants!Amid, Stages

LEMMA TouchIs ==
  ASSUME TenTyped, NEW p \in Project, Tenants!Touch(p)
  PROVE  /\ late \subseteq late' /\ late' \subseteq Project
         /\ p \in late' \/ (~ Tenants!Erasing(p) /\ Tenants!Known(p))
  BY DEF Tenants!Touch, TenTyped

(* A step that leaves the tables as they are. *)
LEMMA TablesStay ==
  ASSUME TenTyped, Cleaned, GoneIsClean, CredsLed, Whole,
         NEW t \in Hand \cup Grant, OthersStay(t), tending[t].at \notin Midway,
         Done(tending'[t].at) = {}, tending'[t].at # "pop",
         Grows, gone' = gone, served' \subseteq served, tables'.table = tables.table,
         \/ durable'.table = durable.table
         \/ durable'.table = tables'.table /\ t \in Hand /\ Tenants!Amid(t) \subseteq amid'
  PROVE  Cleaned' /\ GoneIsClean' /\ CredsLed' /\ Whole'
  <1>1. Saved BY DEF Saved
  <1>2. AddsLate BY DEF AddsLate
  <1>3. Led(tables'.table, late', orphaned') BY DEF CredsLed, Led, Grows
  <1> QED BY <1>1, <1>2, <1>3, TablesStep

LEMMA EndReadIs ==
  ASSUME TenTyped, NEW t \in Hand \cup Grant, NEW store, tending' = Tenants!EndRead(t, store)
  PROVE  /\ Moved /\ OthersStay(t)
         /\ tending'[t] = [at |-> "append", why |-> tending[t].why, p |-> tending[t].p,
              chain |-> Tenants!ChainOf(t),
              row |-> Tenants!Following(store.audit[Tenants!ChainOf(t)], Tenants!About(t))]
  <1> DEFINE c == Tenants!ChainOf(t)
             r == Tenants!Following(store.audit[c], Tenants!About(t))
             r1 == [tending EXCEPT ![t].at = "append"]
             r2 == [r1 EXCEPT ![t].chain = c]
             r3 == [r2 EXCEPT ![t].row = r]
  <1>1. tending = [u \in Hand \cup Grant |-> tending[u]] /\ Tending(tending[t]) BY DEF TenTyped
  <1>2. tending' = r3 BY DEF Tenants!EndRead
  <1> HIDE DEF c, r
  <1>3. r1[t] = [at |-> "append", why |-> tending[t].why, p |-> tending[t].p,
                 chain |-> tending[t].chain, row |-> tending[t].row]
    BY <1>1 DEF Tending
  <1>4. r1 = [u \in Hand \cup Grant |-> r1[u]] /\ \A u \in (Hand \cup Grant) \ {t} : r1[u] = tending[u]
    BY <1>1
  <1> HIDE DEF r1
  <1>5. r2[t] = [at |-> "append", why |-> tending[t].why, p |-> tending[t].p,
                 chain |-> c, row |-> tending[t].row]
    BY <1>3, <1>4
  <1>6. r2 = [u \in Hand \cup Grant |-> r2[u]] /\ \A u \in (Hand \cup Grant) \ {t} : r2[u] = tending[u]
    BY <1>4
  <1> HIDE DEF r2
  <1>7. r3[t] = [at |-> "append", why |-> tending[t].why, p |-> tending[t].p, chain |-> c, row |-> r]
    BY <1>5, <1>6
  <1>8. r3 = [u \in Hand \cup Grant |-> r3[u]] /\ \A u \in (Hand \cup Grant) \ {t} : r3[u] = tending[u]
    BY <1>6
  <1> HIDE DEF r3
  <1> QED BY <1>2, <1>7, <1>8 DEF Moved, OthersStay, c, r

(* The end of a chain is read. *)
LEMMA ReadStep ==
  ASSUME TenInv, NEW t \in Hand \cup Grant, NEW store, NEW others,
         tending[t].at \in {"idle", "audit"}, t \in Hand => tending[t].at = "audit",
         \A c \in Tenants!Chain \ cut : store.audit[c] = tables.audit[c],
         \A u \in (Hand \cup Grant) \ {t} : tending[u].at = "append" => u \in others,
         tending' = Tenants!EndRead(t, store), Tenants!Beside(t, others),
         UNCHANGED <<tables, durable, served, rows, gone, late, amid, orphaned>>
  PROVE  TenInv'
  <1> USE DEF TenInv
  <1> DEFINE c0 == Tenants!ChainOf(t)
             r == Tenants!Following(store.audit[c0], Tenants!About(t))
  <1>1. /\ Moved /\ OthersStay(t)
        /\ tending'[t] = [at |-> "append", why |-> tending[t].why, p |-> tending[t].p,
                          chain |-> c0, row |-> r]
    BY EndReadIs
  <1>2. /\ c0 \in Tenants!Chain /\ Tending(tending[t])
        /\ Tenants!About(t) \in Project \cup {"none"}
    <2>1. Tending(tending[t]) BY DEF TenTyped
    <2>2. c0 \in Tenants!Chain BY DEF Tenants!ChainOf, Tenants!Chain
    <2> QED BY <2>1, <2>2 DEF Tenants!About, Tending
  <1>3. cut \subseteq cut' /\ cut' \subseteq Tenants!Chain
    BY <1>2 DEF Tenants!Beside, TenTyped
  <1>4. c0 \notin cut' => \A u \in (Hand \cup Grant) \ {t} : ~ Appending(u, c0)
    BY DEF Tenants!Beside, Tenants!At, Appending
  <1> HIDE DEF c0, r
  <1>5. Tending(tending'[t]) /\ tending'[t].at = "append" /\ tending'[t].chain = c0
        /\ tending'[t].row = r /\ tending'[t].why = tending[t].why /\ tending'[t].p = tending[t].p
    BY <1>1, <1>2 DEF Tending, Doings
  <1>6. TenTyped'
    <2>1. t \in Hand => OfHand(tending'[t]) BY <1>5 DEF OfHand, TenTyped
    <2>2. t \in Grant => OfGrant(tending'[t]) BY <1>5 DEF OfGrant, TenTyped
    <2>3. /\ Shaped(tables') /\ Shaped(durable') /\ rows' \in Nat
          /\ served' \subseteq Project /\ gone' \subseteq Project /\ late' \subseteq Project
          /\ amid' \subseteq Project /\ orphaned' \subseteq Project
      BY DEF TenTyped
    <2> QED BY <1>1, <1>3, <1>5, <2>1, <2>2, <2>3, TendingTyped
  <1>7. Cleaned' /\ GoneIsClean' /\ CredsLed' /\ Whole'
    <2>1. tending[t].at \notin Midway BY DEF Midway
    <2>2. Done(tending'[t].at) = {} /\ tending'[t].at # "pop" BY <1>5, DoneNothing
    <2>3. Grows /\ gone' = gone /\ served' \subseteq served BY DEF Grows
    <2>4. tables'.table = tables.table /\ durable'.table = durable.table OBVIOUS
    <2> QED BY <1>1, <2>1, <2>2, <2>3, <2>4, TablesStay
  <1>8. ChainsKept'
    <2>1. \A c \in Tenants!Chain \ cut' : c \in Tenants!Chain \ cut BY <1>3
    <2> QED BY <2>1 DEF ChainsKept, Tenants!Verifies
  <1>9. OneAppends'
    <2> SUFFICES ASSUME NEW c \in Tenants!Chain \ cut', NEW u \in Hand \cup Grant, NEW v \in Hand \cup Grant,
                        tending'[u].at = "append", tending'[u].chain = c,
                        tending'[v].at = "append", tending'[v].chain = c
                 PROVE  u = v
      BY DEF OneAppends, Appending
    <2>1. c \in Tenants!Chain \ cut BY <1>3
    <2>2. \A w \in (Hand \cup Grant) \ {t} : tending'[w] = tending[w] BY <1>1 DEF OthersStay
    <2>3. CASE u # t /\ v # t BY <2>1, <2>2, <2>3 DEF OneAppends, Appending
    <2>4. CASE u = t /\ v # t BY <1>4, <1>5, <2>2, <2>4 DEF Appending
    <2>5. CASE u # t /\ v = t BY <1>4, <1>5, <2>2, <2>5 DEF Appending
    <2> QED BY <2>3, <2>4, <2>5
  <1>10. RowsFollow'
    <2> SUFFICES ASSUME NEW u \in Hand \cup Grant, NEW c \in Tenants!Chain \ cut',
                        tending'[u].at = "append", tending'[u].chain = c
                 PROVE  /\ tending'[u].row \in AuditRow
                        /\ tending'[u].row.seq = NextSeq(tables.audit[c])
                        /\ tending'[u].row.prev = NextPrev(tables.audit[c])
      BY DEF RowsFollow, Appending, NextSeq, NextPrev
    <2>1. c \in Tenants!Chain \ cut BY <1>3
    <2>2. CASE u # t
      <3>1. tending'[u] = tending[u] BY <1>1, <2>2 DEF OthersStay
      <3> QED BY <2>1, <3>1 DEF RowsFollow, Appending
    <2>3. CASE u = t
      <3>1. c = c0 /\ store.audit[c] = tables.audit[c] BY <1>5, <2>1, <2>3
      <3>2. tables.audit[c] \in Seq(AuditRow) /\ Tenants!Verifies(tables.audit[c])
        BY <2>1 DEF ChainsKept
      <3>3. r = Tenants!Following(tables.audit[c], Tenants!About(t)) BY <3>1 DEF r
      <3>4. /\ r \in AuditRow /\ r.seq = NextSeq(tables.audit[c])
            /\ r.prev = NextPrev(tables.audit[c])
        BY <1>2, <3>2, <3>3, FollowingIs
      <3> QED BY <1>5, <2>3, <3>4
    <2> QED BY <2>2, <2>3
  <1> QED BY <1>6, <1>7, <1>8, <1>9, <1>10

LEMMA AppendStep ==
  ASSUME TenTyped, ChainsHold, NEW t \in Hand \cup Grant, tending[t].at = "append",
         tables' = Tenants!Appended(t), durable' = tables', cut' = cut,
         OthersStay(t), tending'[t].at # "append"
  PROVE  ChainsHold' /\ Shaped(tables') /\ Shaped(durable') /\ tables'.table = tables.table
  <1> DEFINE c0 == tending[t].chain
             row == [tending[t].row EXCEPT !.id = rows + 1]
  <1>1. /\ Shaped(tables') /\ tables'.table = tables.table
        /\ \A c \in Tenants!Chain : tables'.audit[c] =
             IF c = c0 THEN Append(tables.audit[c], row) ELSE tables.audit[c]
    BY AppendedAdds DEF TenTyped
  <1>2. ASSUME c0 \in Tenants!Chain \ cut
        PROVE  /\ row \in AuditRow /\ row.seq = NextSeq(tables.audit[c0])
               /\ row.prev = NextPrev(tables.audit[c0])
    <2>1. /\ tending[t].row \in AuditRow /\ tending[t].row.seq = NextSeq(tables.audit[c0])
          /\ tending[t].row.prev = NextPrev(tables.audit[c0])
      BY <1>2 DEF ChainsHold, RowsFollow, Appending
    <2>2. rows + 1 \in Nat BY DEF TenTyped
    <2> QED BY <2>1, <2>2 DEF AuditRow
  <1> HIDE DEF row
  <1>3. ASSUME NEW c \in Tenants!Chain \ cut
        PROVE  /\ tables'.audit[c] = durable'.audit[c]
               /\ tables'.audit[c] \in Seq(AuditRow)
               /\ Tenants!Verifies(tables'.audit[c])
    <2>1. tables.audit[c] \in Seq(AuditRow) /\ Tenants!Verifies(tables.audit[c])
      BY <1>3 DEF ChainsHold, ChainsKept
    <2>2. CASE c = c0
      <3>1. tables'.audit[c] = Append(tables.audit[c], row) BY <1>1, <2>2
      <3> QED BY <1>2, <2>1, <2>2, <3>1, NextVerifies
    <2>3. CASE c # c0 BY <1>1, <2>1, <2>3
    <2> QED BY <2>2, <2>3
  <1>4. ChainsKept' BY <1>3 DEF ChainsKept, Tenants!Verifies
  <1>5. OneAppends' BY DEF ChainsHold, OneAppends, Appending, OthersStay
  <1>6. RowsFollow'
    <2> SUFFICES ASSUME NEW u \in Hand \cup Grant, NEW c \in Tenants!Chain \ cut,
                        tending'[u].at = "append", tending'[u].chain = c
                 PROVE  /\ tending'[u].row \in AuditRow
                        /\ tending'[u].row.seq = NextSeq(tables'.audit[c])
                        /\ tending'[u].row.prev = NextPrev(tables'.audit[c])
      BY DEF RowsFollow, Appending, NextSeq, NextPrev
    <2>1. u # t /\ tending'[u] = tending[u] BY DEF OthersStay
    <2>2. Appending(u, c) BY <2>1 DEF Appending
    <2>3. c # c0 BY <2>1, <2>2 DEF ChainsHold, OneAppends, Appending
    <2>4. tables'.audit[c] = tables.audit[c] BY <1>1, <2>3
    <2> QED BY <2>1, <2>2, <2>4 DEF ChainsHold, RowsFollow
  <1> QED BY <1>1, <1>4, <1>5, <1>6 DEF ChainsHold

LEMMA AppendRowKeeps ==
  ASSUME TenInv, NEW t \in Hand, Tenants!AppendRow(t)
  PROVE  TenInv'
  <1> USE DEF TenInv
  <1>1. /\ tending[t].at = "append" /\ tables' = Tenants!Appended(t) /\ durable' = tables'
        /\ amid' = amid \cup Tenants!Amid(t) /\ rows' = rows + 1
        /\ tending' = [tending EXCEPT ![t] = IF tending[t].why = "erase"
                         THEN [tending[t] EXCEPT !.at = "oauth_creds"] ELSE Tenants!Idle]
        /\ UNCHANGED <<served, gone, orphaned, cut>>
    BY DEF Tenants!AppendRow, Tenants!Commit, Tenants!At
  <1>2. tending = [u \in Hand \cup Grant |-> tending[u]] /\ Tending(tending[t]) BY DEF TenTyped
  <1>3. late \subseteq late' /\ late' \subseteq Project
    <2>1. Tenants!About(t) # "none" => Tenants!About(t) \in Project
      BY <1>2 DEF Tenants!About, Tending
    <2> QED BY <2>1, TouchIs DEF Tenants!AppendRow, TenTyped
  <1>4. Moved /\ OthersStay(t) BY <1>1, <1>2 DEF Moved, OthersStay
  <1>5. tending'[t] = IF tending[t].why = "erase"
          THEN [at |-> "oauth_creds", why |-> "erase", p |-> tending[t].p,
                chain |-> tending[t].chain, row |-> tending[t].row] ELSE Tenants!Idle
    BY <1>1, <1>2 DEF Tending
  <1>6. Tending(tending'[t]) /\ OfHand(tending'[t]) /\ tending'[t].at \in {"oauth_creds", "idle"}
    <2>1. CASE tending[t].why = "erase"
      <3>1. tending[t].p \in Project BY <1>1, <2>1 DEF TenTyped
      <3> QED BY <1>2, <1>5, <2>1, <3>1, StagesAre DEF Tending, OfHand, Doings
    <2>2. CASE tending[t].why # "erase" BY <1>5, <2>2, IdleIs DEF OfHand
    <2> QED BY <2>1, <2>2
  <1>7. ChainsHold' /\ Shaped(tables') /\ Shaped(durable') /\ tables'.table = tables.table
    <2>1. ChainsHold BY DEF ChainsHold
    <2>2. tending'[t].at # "append" BY <1>6
    <2> QED BY <1>1, <1>4, <2>1, <2>2, AppendStep
  <1>8. TenTyped'
    <2>1. t \notin Grant BY TenantsAssumption
    <2>2. Tenants!Amid(t) \subseteq Project BY AmidTyped
    <2>3. rows' \in Nat /\ amid' \subseteq Project BY <1>1, <2>2 DEF TenTyped
    <2>4. served' \subseteq Project /\ gone' \subseteq Project /\ orphaned' \subseteq Project
          /\ cut' \subseteq Tenants!Chain
      BY <1>1 DEF TenTyped
    <2> QED BY <1>3, <1>4, <1>6, <1>7, <2>1, <2>3, <2>4, TendingTyped
  <1>9. Cleaned' /\ GoneIsClean' /\ CredsLed' /\ Whole'
    <2>1. tending[t].at \notin Midway BY <1>1 DEF Midway
    <2>2. Done(tending'[t].at) = {} /\ tending'[t].at # "pop" BY <1>6, DoneNothing
    <2>3. Grows /\ gone' = gone /\ served' \subseteq served BY <1>1, <1>3 DEF Grows
    <2>4. durable'.table = tables'.table /\ t \in Hand /\ Tenants!Amid(t) \subseteq amid' BY <1>1
    <2> QED BY <1>4, <1>7, <2>1, <2>2, <2>3, <2>4, TablesStay
  <1> QED BY <1>7, <1>8, <1>9 DEF ChainsHold

LEMMA GrantAppendsKeeps ==
  ASSUME TenInv, NEW t \in Grant, Tenants!GrantAppends(t)
  PROVE  TenInv'
  <1> USE DEF TenInv
  <1>1. /\ tending[t].at = "append" /\ tables = durable
        /\ tables' = Tenants!Appended(t) /\ durable' = tables' /\ rows' = rows + 1
        /\ tending' = [tending EXCEPT ![t] = Tenants!Idle]
        /\ UNCHANGED <<served, gone, late, amid, orphaned, cut>>
    BY DEF Tenants!GrantAppends, Tenants!At, Tenants!history
  <1>2. tending = [u \in Hand \cup Grant |-> tending[u]] BY DEF TenTyped
  <1>4. Moved /\ OthersStay(t) /\ tending'[t] = Tenants!Idle BY <1>1, <1>2 DEF Moved, OthersStay
  <1>6. Tending(tending'[t]) /\ OfGrant(tending'[t]) /\ tending'[t].at = "idle"
    BY <1>4, IdleIs DEF OfGrant
  <1>7. ChainsHold' /\ Shaped(tables') /\ Shaped(durable') /\ tables'.table = tables.table
    <2>1. ChainsHold BY DEF ChainsHold
    <2>2. tending'[t].at # "append" BY <1>6
    <2> QED BY <1>1, <1>4, <2>1, <2>2, AppendStep
  <1>8. TenTyped'
    <2>1. t \notin Hand BY TenantsAssumption
    <2>2. rows' \in Nat BY <1>1 DEF TenTyped
    <2>3. served' \subseteq Project /\ gone' \subseteq Project /\ orphaned' \subseteq Project
          /\ late' \subseteq Project /\ amid' \subseteq Project /\ cut' \subseteq Tenants!Chain
      BY <1>1 DEF TenTyped
    <2> QED BY <1>4, <1>6, <1>7, <2>1, <2>2, <2>3, TendingTyped
  <1>9. Cleaned' /\ GoneIsClean' /\ CredsLed' /\ Whole'
    <2>1. tending[t].at \notin Midway BY <1>1 DEF Midway
    <2>2. Done(tending'[t].at) = {} /\ tending'[t].at # "pop" BY <1>6, DoneNothing
    <2>3. Grows /\ gone' = gone /\ served' \subseteq served BY <1>1 DEF Grows
    <2>4. durable'.table = durable.table BY <1>1, <1>7
    <2> QED BY <1>4, <1>7, <2>1, <2>2, <2>3, <2>4, TablesStay
  <1> QED BY <1>7, <1>8, <1>9 DEF ChainsHold

LEMMA ReadLastKeeps ==
  ASSUME TenInv, NEW t \in Hand, Tenants!ReadLast(t)
  PROVE  TenInv'
  <1>1. /\ tending[t].at = "audit" /\ \A u \in Hand : tending[u].at # "append"
        /\ tending' = Tenants!EndRead(t, tables) /\ Tenants!Beside(t, Grant)
        /\ UNCHANGED <<tables, durable, served, rows, gone, late, amid, orphaned>>
    BY DEF Tenants!ReadLast, Tenants!At
  <1>2. \A u \in (Hand \cup Grant) \ {t} : tending[u].at = "append" => u \in Grant BY <1>1
  <1>3. \A c \in Tenants!Chain \ cut : tables.audit[c] = tables.audit[c] OBVIOUS
  <1> QED BY <1>1, <1>2, <1>3, ReadStep

LEMMA GrantReadsKeeps ==
  ASSUME TenInv, NEW t \in Grant, Tenants!GrantReads(t)
  PROVE  TenInv'
  <1> DEFINE others == (Hand \cup Grant) \ {t}
  <1>1. /\ tending[t].at = "idle"
        /\ tending' = Tenants!EndRead(t, durable) /\ Tenants!Beside(t, others)
        /\ UNCHANGED <<tables, durable, served, rows, gone, late, amid, orphaned>>
    BY DEF Tenants!GrantReads, Tenants!At
  <1>2. t \notin Hand BY TenantsAssumption
  <1>3. \A c \in Tenants!Chain \ cut : durable.audit[c] = tables.audit[c]
    BY DEF TenInv, ChainsKept
  <1>4. \A u \in (Hand \cup Grant) \ {t} : tending[u].at = "append" => u \in others OBVIOUS
  <1> HIDE DEF others
  <1> QED BY <1>1, <1>2, <1>3, <1>4, ReadStep

(* A statement of a request about a project. *)
LEMMA RequestStep ==
  ASSUME TenInv, NEW t \in Hand, Moved, OthersStay(t), Tending(tending'[t]), OfHand(tending'[t]),
         tending[t].at \in {"idle", "record", "consent"},
         tending'[t].at \in {"record", "consent", "audit"},
         Shaped(tables'), tables'.audit = tables.audit,
         durable' = durable \/ (durable' = tables' /\ Tenants!Amid(t) \subseteq amid'),
         Grows, late' \subseteq Project, orphaned' \subseteq Project, amid' \subseteq Project,
         AddsLate, Led(tables'.table, late', orphaned'),
         tables'.table["projects"] = tables.table["projects"],
         \A p \in Project \ late' :
           \/ p \in tables'.table["ops"] <=> p \in tables.table["ops"]
           \/ p \in tables'.table["ops"] /\ p \in tables.table["projects"],
         UNCHANGED <<served, rows, gone, cut>>
  PROVE  TenInv'
  <1> USE DEF TenInv
  <1>1. TenTyped'
    <2>1. t \notin Grant BY TenantsAssumption
    <2>2. Shaped(durable') BY DEF TenTyped
    <2>3. served' \subseteq Project /\ gone' \subseteq Project /\ rows' \in Nat
          /\ cut' \subseteq Tenants!Chain
      BY DEF TenTyped
    <2> QED BY <2>1, <2>2, <2>3, TendingTyped
  <1>2. ChainsHold'
    <2>1. ChainsHold /\ cut \subseteq cut' BY DEF ChainsHold
    <2>2. \A c \in Tenants!Chain \ cut' :
            /\ tables'.audit[c] = tables.audit[c]
            /\ durable'.audit[c] = durable.audit[c] \/ durable'.audit[c] = tables'.audit[c]
      OBVIOUS
    <2>3. \A u \in Hand \cup Grant : tending'[u].at = "append" => tending'[u] = tending[u]
      BY DEF OthersStay
    <2> QED BY <2>1, <2>2, <2>3, ChainsStep
  <1>3. Cleaned' /\ GoneIsClean' /\ CredsLed' /\ Whole'
    <2>1. tending[t].at \notin Midway BY DEF Midway
    <2>2. Done(tending'[t].at) = {} /\ tending'[t].at # "pop" BY DoneNothing
    <2>3. gone' = gone /\ served' \subseteq served OBVIOUS
    <2>4. Saved BY DEF Saved
    <2>5. \/ durable'.table = durable.table
          \/ durable'.table = tables'.table /\ t \in Hand /\ Tenants!Amid(t) \subseteq amid'
      OBVIOUS
    <2> QED BY <2>1, <2>2, <2>3, <2>4, <2>5, TablesStep
  <1> QED BY <1>1, <1>2, <1>3 DEF ChainsHold

(* One that writes nothing. *)
LEMMA RequestBegins ==
  ASSUME TenInv, NEW t \in Hand, NEW step \in {"record", "audit"}, NEW why, NEW p \in Project,
         why # "none", Tenants!Begin(t, step, why, p),
         UNCHANGED <<tables, durable, served, rows, gone, late, amid, orphaned, cut>>
  PROVE  TenInv'
  <1>1. TenTyped /\ Led(tables.table, late, orphaned) BY DEF TenInv, CredsLed
  <1>2. step \in Doings BY DEF Doings
  <1>3. /\ Moved /\ OthersStay(t) /\ Tending(tending'[t]) /\ tending[t].at = "idle"
        /\ tending'[t].at = step /\ tending'[t].why = why /\ tending'[t].p = p
    BY <1>1, <1>2, Begins
  <1>4. OfHand(tending'[t]) BY <1>3 DEF OfHand
  <1>5. Grows /\ AddsLate BY DEF Grows, AddsLate
  <1>6. Shaped(tables') /\ late' \subseteq Project /\ orphaned' \subseteq Project /\ amid' \subseteq Project
    BY <1>1 DEF TenTyped
  <1>7. Led(tables'.table, late', orphaned') BY <1>1
  <1>8. tables'.audit = tables.audit /\ durable' = durable /\ tables'.table = tables.table OBVIOUS
  <1> QED BY <1>3, <1>4, <1>5, <1>6, <1>7, <1>8, RequestStep

LEMMA WriteKeeps ==
  ASSUME TenInv, NEW t \in Hand, NEW p \in Project, Tenants!Write(t, p) \/ Tenants!Erase(t, p)
  PROVE  TenInv'
  BY RequestBegins DEF Tenants!Write, Tenants!Erase, Tenants!history

LEMMA CommitIs ==
  ASSUME TenTyped, NEW t \in Hand, NEW new, Tenants!Commit(t, new)
  PROVE  /\ tables' = new /\ durable' = new /\ amid \subseteq amid' /\ amid' \subseteq Project
         /\ Tenants!Amid(t) \subseteq amid'
  <1>1. Tenants!Amid(t) \subseteq Project BY AmidTyped
  <1> QED BY <1>1 DEF Tenants!Commit, TenTyped

LEMMA RecordKeeps ==
  ASSUME TenInv, NEW t \in Hand, Tenants!Record(t)
  PROVE  TenInv'
  <1> DEFINE p == tending[t].p
  <1>1. TenTyped /\ Led(tables.table, late, orphaned) BY DEF TenInv, CredsLed
  <1>2. /\ tending[t].at = "record" /\ Tenants!Commit(t, Tenants!With("ops", p)) /\ Tenants!Touch(p)
        /\ Tenants!Goto(t, "audit")
        /\ UNCHANGED <<served, rows, gone, orphaned, cut>>
    BY DEF Tenants!Record, Tenants!At
  <1>3. tending[t].why # "none" /\ p \in Project BY <1>1, <1>2 DEF TenTyped
  <1>4. /\ Moved /\ OthersStay(t) /\ Tending(tending'[t]) /\ OfHand(tending'[t])
        /\ tending'[t].at = "audit"
    <2>1. "audit" \in Doings BY DEF Doings
    <2> QED BY <1>1, <1>2, <1>3, <2>1, Goes DEF OfHand
  <1> HIDE DEF p
  <1>5. /\ tables' = Tenants!With("ops", p) /\ durable' = tables'
        /\ amid \subseteq amid' /\ amid' \subseteq Project /\ Tenants!Amid(t) \subseteq amid'
    BY <1>1, <1>2, CommitIs
  <1>6. /\ late \subseteq late' /\ late' \subseteq Project
        /\ p \in late' \/ (~ Tenants!Erasing(p) /\ Tenants!Known(p))
    BY <1>1, <1>2, <1>3, TouchIs
  <1>7. "ops" \in Tenants!Table BY DEF Tenants!Table
  <1>8. /\ Shaped(tables') /\ tables'.audit = tables.audit
        /\ \A s \in Tenants!Table :
             tables'.table[s] = IF s = "ops" THEN tables.table[s] \cup {p} ELSE tables.table[s]
    BY <1>1, <1>3, <1>5, <1>7, WithAdds DEF TenTyped
  <1>9. AddsLate BY <1>6, <1>8 DEF AddsLate
  <1>10. Grows BY <1>2, <1>5, <1>6 DEF Grows
  <1>11. Led(tables'.table, late', orphaned')
    BY <1>1, <1>2, <1>6, <1>8 DEF Led, Tenants!Table
  <1>12. /\ tables'.table["projects"] = tables.table["projects"]
         /\ \A q \in Project \ late' :
              \/ q \in tables'.table["ops"] <=> q \in tables.table["ops"]
              \/ q \in tables'.table["ops"] /\ q \in tables.table["projects"]
    BY <1>6, <1>8 DEF Tenants!Table, Tenants!Known
  <1>13. orphaned' \subseteq Project BY <1>1, <1>2 DEF TenTyped
  <1> QED BY <1>2, <1>4, <1>5, <1>6, <1>8, <1>9, <1>10, <1>11, <1>12, <1>13, RequestStep

LEMMA AddConnectorKeeps ==
  ASSUME TenInv, NEW t \in Hand, NEW p \in Project, Tenants!AddConnector(t, p)
  PROVE  TenInv'
  <1>1. TenTyped /\ Led(tables.table, late, orphaned) BY DEF TenInv, CredsLed
  <1>2. /\ Tenants!Begin(t, "consent", "connect", p)
        /\ Tenants!Commit(t, Tenants!With("connectors", p)) /\ Tenants!Touch(p)
        /\ UNCHANGED <<served, rows, gone, orphaned, cut>>
    BY DEF Tenants!AddConnector
  <1>4. /\ Moved /\ OthersStay(t) /\ Tending(tending'[t]) /\ OfHand(tending'[t])
        /\ tending[t].at = "idle" /\ tending'[t].at = "consent"
    <2>1. "consent" \in Doings BY DEF Doings
    <2> QED BY <1>1, <1>2, <2>1, Begins DEF OfHand
  <1>5. /\ tables' = Tenants!With("connectors", p) /\ durable' = tables'
        /\ amid \subseteq amid' /\ amid' \subseteq Project /\ Tenants!Amid(t) \subseteq amid'
    BY <1>1, <1>2, CommitIs
  <1>6. /\ late \subseteq late' /\ late' \subseteq Project
        /\ p \in late' \/ (~ Tenants!Erasing(p) /\ Tenants!Known(p))
    BY <1>1, <1>2, TouchIs
  <1>7. "connectors" \in Tenants!Table BY DEF Tenants!Table
  <1>8. /\ Shaped(tables') /\ tables'.audit = tables.audit
        /\ \A s \in Tenants!Table : tables'.table[s] =
             IF s = "connectors" THEN tables.table[s] \cup {p} ELSE tables.table[s]
    BY SMTT(30), <1>1, <1>5, <1>7, WithAdds DEF TenTyped
  <1>9. AddsLate BY <1>6, <1>8 DEF AddsLate
  <1>10. Grows BY <1>2, <1>5, <1>6 DEF Grows
  <1>11. Led(tables'.table, late', orphaned')
    BY <1>1, <1>2, <1>6, <1>8 DEF Led, Tenants!Table
  <1>12. /\ tables'.table["projects"] = tables.table["projects"]
         /\ tables'.table["ops"] = tables.table["ops"]
    BY <1>8 DEF Tenants!Table
  <1>13. orphaned' \subseteq Project BY <1>1, <1>2 DEF TenTyped
  <1> QED BY <1>2, <1>4, <1>5, <1>6, <1>8, <1>9, <1>10, <1>11, <1>12, <1>13, RequestStep

LEMMA SaveCredsKeeps ==
  ASSUME TenInv, NEW t \in Hand, Tenants!SaveCreds(t)
  PROVE  TenInv'
  <1> DEFINE p == tending[t].p
  <1>1. TenTyped /\ Led(tables.table, late, orphaned) BY DEF TenInv, CredsLed
  <1>2. /\ tending[t].at = "consent"
        /\ Tenants!Commit(t, Tenants!With("oauth_creds", p)) /\ Tenants!Touch(p)
        /\ Tenants!Goto(t, "audit")
        /\ orphaned' = IF p \in tables.table["connectors"] THEN orphaned ELSE orphaned \cup {p}
        /\ UNCHANGED <<served, rows, gone, cut>>
    BY DEF Tenants!SaveCreds, Tenants!At
  <1>3. tending[t].why # "none" /\ p \in Project BY <1>1, <1>2 DEF TenTyped
  <1>4. /\ Moved /\ OthersStay(t) /\ Tending(tending'[t]) /\ OfHand(tending'[t])
        /\ tending'[t].at = "audit"
    <2>1. "audit" \in Doings BY DEF Doings
    <2> QED BY <1>1, <1>2, <1>3, <2>1, Goes DEF OfHand
  <1> HIDE DEF p
  <1>5. /\ tables' = Tenants!With("oauth_creds", p) /\ durable' = tables'
        /\ amid \subseteq amid' /\ amid' \subseteq Project /\ Tenants!Amid(t) \subseteq amid'
    BY <1>1, <1>2, CommitIs
  <1>6. /\ late \subseteq late' /\ late' \subseteq Project
        /\ p \in late' \/ (~ Tenants!Erasing(p) /\ Tenants!Known(p))
    BY <1>1, <1>2, <1>3, TouchIs
  <1>7. "oauth_creds" \in Tenants!Table BY DEF Tenants!Table
  <1>8. /\ Shaped(tables') /\ tables'.audit = tables.audit
        /\ \A s \in Tenants!Table : tables'.table[s] =
             IF s = "oauth_creds" THEN tables.table[s] \cup {p} ELSE tables.table[s]
    <2>1. Shaped(tables) BY <1>1 DEF TenTyped
    <2>2. /\ Shaped(Tenants!With("oauth_creds", p))
          /\ Tenants!With("oauth_creds", p).audit = tables.audit
          /\ \A s \in Tenants!Table : Tenants!With("oauth_creds", p).table[s] =
               IF s = "oauth_creds" THEN tables.table[s] \cup {p} ELSE tables.table[s]
      BY <1>3, <1>7, <2>1, WithAdds
    <2> QED BY <1>5, <2>2
  <1>9. AddsLate BY <1>6, <1>8 DEF AddsLate
  <1>10. Grows BY <1>2, <1>5, <1>6 DEF Grows
  <1>11. Led(tables'.table, late', orphaned')
    BY <1>1, <1>2, <1>6, <1>8 DEF Led, Tenants!Table
  <1>12. /\ tables'.table["projects"] = tables.table["projects"]
         /\ tables'.table["ops"] = tables.table["ops"]
    BY <1>8 DEF Tenants!Table
  <1>13. orphaned' \subseteq Project BY <1>1, <1>2, <1>3 DEF TenTyped
  <1> QED BY <1>2, <1>4, <1>5, <1>6, <1>8, <1>9, <1>10, <1>11, <1>12, <1>13, RequestStep

LEMMA RemoveConnectorKeeps ==
  ASSUME TenInv, NEW t \in Hand, NEW p \in Project, Tenants!RemoveConnector(t, p)
  PROVE  TenInv'
  <1> DEFINE w == Tenants!Without("connectors", p)
             x == [w EXCEPT !.table["source_records"] = @ \ {p}]
  <1>1. TenTyped /\ Led(tables.table, late, orphaned) BY DEF TenInv, CredsLed
  <1>2. /\ Tenants!Begin(t, "audit", "remove", p) /\ Tenants!Commit(t, x)
        /\ orphaned' = IF p \in tables.table["oauth_creds"] THEN orphaned \cup {p} ELSE orphaned
        /\ UNCHANGED <<served, rows, gone, late, cut>>
    BY DEF Tenants!RemoveConnector
  <1>3. /\ Shaped(w) /\ w.audit = tables.audit
        /\ \A s \in Tenants!Table : w.table[s] =
             IF s = "connectors" THEN tables.table[s] \ {p} ELSE tables.table[s]
    <2>1. Shaped(tables) /\ "connectors" \in Tenants!Table BY <1>1 DEF TenTyped, Tenants!Table
    <2> QED BY <2>1, WithoutTakes
  <1> HIDE DEF w
  <1>4. /\ Moved /\ OthersStay(t) /\ Tending(tending'[t]) /\ OfHand(tending'[t])
        /\ tending[t].at = "idle" /\ tending'[t].at = "audit"
    <2>1. "audit" \in Doings BY DEF Doings
    <2> QED BY <1>1, <1>2, <2>1, Begins DEF OfHand
  <1>5. /\ x = [table |-> x.table, audit |-> x.audit] /\ x.audit = w.audit
        /\ x.table = [w.table EXCEPT !["source_records"] = w.table["source_records"] \ {p}]
    BY <1>3 DEF Shaped
  <1> HIDE DEF x
  <1>6. w.table \in [Tenants!Table -> SUBSET Project] /\ "source_records" \in Tenants!Table
    BY <1>3 DEF Shaped, Tenants!Table
  <1>7. Shaped(x)
    <2>1. x.table \in [Tenants!Table -> SUBSET Project] BY <1>5, <1>6
    <2> QED BY <1>3, <1>5, <2>1 DEF Shaped
  <1>8. \A s \in Tenants!Table : x.table[s] =
          IF s \in {"connectors", "source_records"} THEN tables.table[s] \ {p} ELSE tables.table[s]
    BY <1>3, <1>5, <1>6
  <1>9. /\ tables' = x /\ durable' = tables'
        /\ amid \subseteq amid' /\ amid' \subseteq Project /\ Tenants!Amid(t) \subseteq amid'
    BY <1>1, <1>2, CommitIs
  <1>10. Shaped(tables') /\ tables'.audit = tables.audit BY <1>3, <1>5, <1>7, <1>9
  <1>11. AddsLate BY <1>8, <1>9 DEF AddsLate
  <1>12. Grows BY <1>2, <1>9 DEF Grows
  <1>13. Led(tables'.table, late', orphaned')
    BY <1>1, <1>2, <1>8, <1>9 DEF Led, Tenants!Table
  <1>14. /\ tables'.table["projects"] = tables.table["projects"]
         /\ tables'.table["ops"] = tables.table["ops"]
    BY <1>8, <1>9 DEF Tenants!Table
  <1>15. orphaned' \subseteq Project /\ late' \subseteq Project BY <1>1, <1>2 DEF TenTyped
  <1> QED BY <1>2, <1>4, <1>9, <1>10, <1>11, <1>12, <1>13, <1>14, <1>15, RequestStep

LEMMA SoftDeleteKeeps ==
  ASSUME TenInv, NEW t \in Hand, NEW p \in Project, Tenants!SoftDelete(t, p)
  PROVE  TenInv'
  <1>1. TenTyped /\ Led(tables.table, late, orphaned) BY DEF TenInv, CredsLed
  <1>2. /\ Tenants!Begin(t, "audit", "soft", p)
        /\ tables' = Tenants!Without("source_records", p)
        /\ UNCHANGED <<durable, served, rows, gone, late, amid, orphaned, cut>>
    BY DEF Tenants!SoftDelete, Tenants!history
  <1>3. /\ Shaped(tables') /\ tables'.audit = tables.audit
        /\ \A s \in Tenants!Table : tables'.table[s] =
             IF s = "source_records" THEN tables.table[s] \ {p} ELSE tables.table[s]
    <2>1. Shaped(tables) /\ "source_records" \in Tenants!Table BY <1>1 DEF TenTyped, Tenants!Table
    <2> QED BY <1>2, <2>1, WithoutTakes
  <1>4. /\ Moved /\ OthersStay(t) /\ Tending(tending'[t]) /\ OfHand(tending'[t])
        /\ tending[t].at = "idle" /\ tending'[t].at = "audit"
    <2>1. "audit" \in Doings BY DEF Doings
    <2> QED BY <1>1, <1>2, <2>1, Begins DEF OfHand
  <1>5. AddsLate BY <1>3 DEF AddsLate
  <1>6. Grows BY <1>2 DEF Grows
  <1>7. Led(tables'.table, late', orphaned')
    BY <1>1, <1>2, <1>3 DEF Led, Tenants!Table
  <1>8. /\ tables'.table["projects"] = tables.table["projects"]
        /\ tables'.table["ops"] = tables.table["ops"]
    BY <1>3 DEF Tenants!Table
  <1>9. orphaned' \subseteq Project /\ late' \subseteq Project /\ amid' \subseteq Project
    BY <1>1, <1>2 DEF TenTyped
  <1> QED BY <1>2, <1>3, <1>4, <1>5, <1>6, <1>7, <1>8, <1>9, RequestStep

LEMMA CommitErasureKeeps ==
  ASSUME TenInv, NEW t \in Hand, Tenants!CommitErasure(t)
  PROVE  TenInv'
  <1> USE DEF TenInv
  <1>1. /\ tending[t].at = "commit" /\ Tenants!Commit(t, tables) /\ Tenants!Goto(t, "pop")
        /\ UNCHANGED <<served, rows, gone, late, orphaned, cut>>
    BY DEF Tenants!CommitErasure, Tenants!At
  <1>2. /\ tables' = tables /\ durable' = tables
        /\ amid \subseteq amid' /\ amid' \subseteq Project /\ Tenants!Amid(t) \subseteq amid'
    BY <1>1, CommitIs
  <1>3. tending[t].why # "none" /\ tending[t].p \in Project BY <1>1 DEF TenTyped
  <1>4. /\ Moved /\ OthersStay(t) /\ Tending(tending'[t]) /\ OfHand(tending'[t])
        /\ tending'[t].at = "pop" /\ tending'[t].p = tending[t].p
    <2>1. "pop" \in Doings BY DEF Doings
    <2> QED BY <1>1, <1>3, <2>1, Goes DEF OfHand
  <1>5. TenTyped'
    <2>1. t \notin Grant BY TenantsAssumption
    <2>2. /\ served' \subseteq Project /\ gone' \subseteq Project /\ rows' \in Nat
          /\ late' \subseteq Project /\ orphaned' \subseteq Project /\ cut' \subseteq Tenants!Chain
          /\ Shaped(tables') /\ Shaped(durable')
      BY <1>1, <1>2 DEF TenTyped
    <2> QED BY <1>2, <1>4, <2>1, <2>2, TendingTyped
  <1>6. AddsLate /\ Grows /\ Saved BY <1>1, <1>2 DEF AddsLate, Grows, Saved
  <1>7. Cleaned'
    <2>1. ASSUME NEW u \in Hand
          PROVE  /\ Emptied(tables'.table, tending'[u].p, Done(tending'[u].at), late', orphaned')
                 /\ tending'[u].at = "pop" =>
                      Emptied(durable'.table, tending'[u].p, Tenants!Table, late', orphaned')
      <3>1. CASE u = t
        <4>1. Emptied(tables.table, tending[t].p, Tenants!Table, late, orphaned)
          BY <1>1, DoneAll DEF Cleaned
        <4> QED BY <1>1, <1>2, <1>4, <3>1, <4>1, DoneAll
      <3>2. CASE u # t
        <4>1. tending'[u] = tending[u] BY <1>4, <3>2 DEF OthersStay
        <4> QED BY <1>6, <4>1, CleanedThread
      <3> QED BY <3>1, <3>2
    <2> QED BY <2>1, CleanedAll
  <1>8. GoneIsClean' /\ CredsLed'
    <2>1. gone' = gone /\ served' \subseteq served BY <1>1
    <2>2. Led(tables'.table, late', orphaned') BY <1>1, <1>2 DEF CredsLed
    <2> QED BY <1>6, <2>1, <2>2, GoneStep, CredsStep
  <1>9. Whole'
    <2>1. \A u \in Hand : tending[u].at \in Midway => tending'[u] = tending[u]
      BY <1>1, <1>4 DEF OthersStay, Midway
    <2>2. tending[t].at \notin Midway BY <1>1 DEF Midway
    <2> QED BY <1>2, <1>6, <2>1, <2>2, WholeStep
  <1>10. ChainsHold'
    <2>1. ChainsHold /\ cut \subseteq cut' BY <1>1 DEF ChainsHold
    <2>2. \A u \in Hand \cup Grant : tending'[u].at = "append" => tending'[u] = tending[u]
      BY <1>4 DEF OthersStay
    <2> QED BY <1>2, <2>1, <2>2, ChainsStep
  <1> QED BY <1>5, <1>7, <1>8, <1>9, <1>10 DEF ChainsHold

LEMMA PopKeeps ==
  ASSUME TenInv, NEW t \in Hand, Tenants!Pop(t)
  PROVE  TenInv'
  <1> USE DEF TenInv
  <1> DEFINE p == tending[t].p
  <1>1. /\ tending[t].at = "pop" /\ served' = served \ {p} /\ gone' = gone \cup {p}
        /\ tending' = [tending EXCEPT ![t] = Tenants!Idle]
        /\ UNCHANGED <<tables, durable, rows, late, amid, orphaned, cut>>
    BY DEF Tenants!Pop, Tenants!At
  <1>2. p \in Project BY <1>1, ErasingThem
  <1>3. Moved /\ OthersStay(t) /\ tending'[t] = Tenants!Idle BY <1>1 DEF Moved, OthersStay, TenTyped
  <1>4. /\ Tending(tending'[t]) /\ OfHand(tending'[t]) /\ Done(tending'[t].at) = {}
        /\ tending'[t].at = "idle"
    BY <1>3, IdleIs, DoneNothing DEF OfHand
  <1>5. TenTyped'
    <2>1. t \notin Grant BY TenantsAssumption
    <2>2. /\ served' \subseteq Project /\ gone' \subseteq Project /\ rows' \in Nat
          /\ late' \subseteq Project /\ amid' \subseteq Project /\ orphaned' \subseteq Project
          /\ cut' \subseteq Tenants!Chain /\ Shaped(tables') /\ Shaped(durable')
      BY <1>1, <1>2 DEF TenTyped
    <2> QED BY <1>3, <1>4, <2>1, <2>2, TendingTyped
  <1>6. AddsLate /\ Grows /\ Saved BY <1>1 DEF AddsLate, Grows, Saved
  <1>7. Cleaned'
    <2>1. \A u \in Hand : \/ Done(tending'[u].at) = {} /\ tending'[u].at # "pop"
                          \/ tending'[u].at = tending[u].at /\ tending'[u].p = tending[u].p
      BY <1>3, <1>4 DEF OthersStay
    <2> QED BY <1>6, <2>1, CleanedStep
  <1>8. Emptied(tables.table, p, Tenants!Table, late, orphaned)
        /\ Emptied(durable.table, p, Tenants!Table, late, orphaned)
    BY <1>1, DoneAll DEF Cleaned
  <1> HIDE DEF p
  <1>9. GoneIsClean' BY <1>1, <1>8 DEF GoneIsClean, Emptied
  <1>10. CredsLed' BY <1>1 DEF CredsLed, Led
  <1>11. Whole'
    <2>1. \A u \in Hand : tending[u].at \in Midway => tending'[u] = tending[u]
      BY <1>1, <1>3 DEF OthersStay, Midway
    <2> QED BY <1>1, <1>6, <2>1, WholeStep
  <1>12. ChainsHold'
    <2>1. ChainsHold /\ cut \subseteq cut' BY <1>1 DEF ChainsHold
    <2>2. \A u \in Hand \cup Grant : tending'[u].at = "append" => tending'[u] = tending[u]
      BY <1>3, <1>4 DEF OthersStay
    <2> QED BY <1>1, <2>1, <2>2, ChainsStep
  <1> QED BY <1>5, <1>7, <1>9, <1>10, <1>11, <1>12 DEF ChainsHold

LEMMA DeleteRowsKeeps ==
  ASSUME TenInv, NEW t \in Hand, Tenants!DeleteRows(t)
  PROVE  TenInv'
  <1> USE DEF TenInv
  <1> DEFINE s == tending[t].at
             p == tending[t].p
             next == Tenants!Then[s]
  <1>1. /\ s \in Stages /\ tables' = Tenants!Deleted(s, p)
        /\ cut' = cut \cup {c \in Tenants!Chain : s = "audit_events" /\ Tenants!RowsOf(c, p) # {}}
        /\ Tenants!Goto(t, next)
        /\ UNCHANGED <<durable, served, rows, gone, late, amid, orphaned>>
    BY DEF Tenants!DeleteRows, Stages
  <1>2. p \in Project BY <1>1, ErasingThem
  <1>3. next \in Doings /\ Done(next) \subseteq Done(s) \cup {s} /\ next # "pop"
        /\ next \notin {"idle", "append"}
    BY <1>1, DoneNext, StagesAre
  <1>4. /\ Moved /\ OthersStay(t) /\ Tending(tending'[t])
        /\ tending'[t].at = next /\ tending'[t].p = p /\ tending'[t].why = tending[t].why
    BY <1>1, <1>3, Goes
  <1>5. tending[t].why # "none" BY <1>1, StagesAre DEF TenTyped
  <1>6. OfHand(tending'[t]) BY <1>2, <1>4, <1>5 DEF OfHand
  <1>7. /\ Shaped(tables')
        /\ \A r \in Tenants!Table : tables'.table[r] =
             IF r = s /\ (s = "oauth_creds" => p \in tables.table["connectors"])
             THEN tables.table[r] \ {p} ELSE tables.table[r]
        /\ \A c \in Tenants!Chain : s # "audit_events" \/ Tenants!RowsOf(c, p) = {} =>
             tables'.audit[c] = tables.audit[c]
    <2>1. Shaped(tables) BY DEF TenTyped
    <2> QED BY <1>1, <1>2, <2>1, DeletedTakes
  <1>8. cut \subseteq cut' /\ cut' \subseteq Tenants!Chain
        /\ \A c \in Tenants!Chain \ cut' : tables'.audit[c] = tables.audit[c]
    BY <1>1, <1>7 DEF TenTyped
  <1> HIDE DEF s, p, next
  <1>9. TenTyped'
    <2>1. t \notin Grant BY TenantsAssumption
    <2>2. /\ served' \subseteq Project /\ gone' \subseteq Project /\ rows' \in Nat
          /\ late' \subseteq Project /\ amid' \subseteq Project /\ orphaned' \subseteq Project
          /\ Shaped(durable')
      BY <1>1 DEF TenTyped
    <2> QED BY <1>4, <1>6, <1>7, <1>8, <2>1, <2>2, TendingTyped
  <1>10. ChainsHold'
    <2>1. ChainsHold BY DEF ChainsHold
    <2>2. \A c \in Tenants!Chain \ cut' :
            /\ tables'.audit[c] = tables.audit[c]
            /\ durable'.audit[c] = durable.audit[c] \/ durable'.audit[c] = tables'.audit[c]
      BY <1>1, <1>8
    <2>3. \A u \in Hand \cup Grant : tending'[u].at = "append" => tending'[u] = tending[u]
      BY <1>3, <1>4 DEF OthersStay
    <2> QED BY <1>8, <2>1, <2>2, <2>3, ChainsStep
  <1>11. AddsLate /\ Grows /\ Saved BY <1>1, <1>7 DEF AddsLate, Grows, Saved
  <1>12. Emptied(tables.table, p, Done(s), late, orphaned) BY DEF Cleaned, p, s
  <1>13. Led(tables.table, late, orphaned) BY DEF CredsLed
  <1>14. Emptied(tables'.table, p, Done(next), late', orphaned')
    <2> SUFFICES ASSUME NEW r \in Done(next)
                 PROVE  \/ p \notin tables'.table[r]
                        \/ r # "projects" /\ p \in late
                        \/ r = "oauth_creds" /\ p \in orphaned
      BY <1>1 DEF Emptied
    <2>1. r \in Tenants!Table BY DEF Done
    <2>2. CASE r \in Done(s) BY <1>7, <1>12, <2>1, <2>2 DEF Emptied
    <2>3. CASE r = s
      <3>1. CASE s = "oauth_creds" /\ p \notin tables.table["connectors"]
        <4>1. p \in tables.table["oauth_creds"] => p \in orphaned \cup late
          BY <1>13, <3>1 DEF Led
        <4>2. tables'.table[r] = tables.table["oauth_creds"] BY <1>7, <2>1, <2>3, <3>1
        <4> QED BY <2>3, <3>1, <4>1, <4>2
      <3>2. CASE s = "oauth_creds" => p \in tables.table["connectors"]
        BY <1>7, <2>1, <2>3, <3>2
      <3> QED BY <3>1, <3>2
    <2> QED BY <1>3, <2>2, <2>3
  <1>15. Cleaned'
    <2>1. ASSUME NEW u \in Hand
          PROVE  /\ Emptied(tables'.table, tending'[u].p, Done(tending'[u].at), late', orphaned')
                 /\ tending'[u].at = "pop" =>
                      Emptied(durable'.table, tending'[u].p, Tenants!Table, late', orphaned')
      <3>1. CASE u = t BY <1>3, <1>4, <1>14, <3>1
      <3>2. CASE u # t
        <4>1. tending'[u] = tending[u] BY <1>4, <3>2 DEF OthersStay
        <4> QED BY <1>11, <4>1, CleanedThread
      <3> QED BY <3>1, <3>2
    <2> QED BY <2>1, CleanedAll
  <1>16. GoneIsClean' BY <1>1, <1>11, GoneStep
  <1>17. CredsLed'
    <2>1. s = "connectors" => p \notin tables.table["oauth_creds"] \/ p \in late \cup orphaned
      BY <1>12 DEF Emptied, Done, Tenants!Table
    <2>2. Led(tables'.table, late', orphaned')
      BY <1>1, <1>7, <1>13, <2>1 DEF Led, Tenants!Table
    <2> QED BY <1>11, <2>2, CredsStep
  <1>18. Whole'
    <2> SUFFICES ASSUME NEW q \in Project \ (amid \cup late)
                 PROVE  /\ (\A u \in Hand : tending'[u].p = q => tending'[u].at \notin Midway) =>
                             Both(tables'.table, q)
                        /\ Both(durable.table, q)
      BY <1>1 DEF Whole, Both, Midway
    <2>1. Both(durable.table, q) BY DEF Whole
    <2>2. ASSUME \A u \in Hand : tending'[u].p = q => tending'[u].at \notin Midway
          PROVE  Both(tables'.table, q)
      <3>1. \A u \in Hand \ {t} : tending[u].p = q => tending[u].at \notin Midway
        BY <1>4, <2>2 DEF OthersStay
      <3>2. CASE q # p
        <4>1. \A u \in Hand : tending[u].p = q => tending[u].at \notin Midway
          BY <3>1, <3>2 DEF p
        <4>2. Both(tables.table, q) BY <4>1 DEF Whole
        <4> QED BY <1>7, <3>2, <4>2 DEF Both, Tenants!Table
      <3>3. CASE q = p
        <4>1. next \notin Midway BY <1>4, <2>2, <3>3
        <4>2. CASE s = "oauth_creds"
          <5>1. \A u \in Hand : tending[u].p = q => tending[u].at \notin Midway
            BY <3>1, <4>2 DEF s, Midway
          <5>2. Both(tables.table, q) BY <5>1 DEF Whole
          <5> QED BY <1>7, <4>2, <5>2 DEF Both, Tenants!Table
        <4>3. CASE s = "projects"
          <5>1. p \notin tables.table["ops"]
            BY <1>12, <3>3, <4>3 DEF Emptied, Done, Tenants!Table
          <5> QED BY <1>7, <3>3, <4>3, <5>1 DEF Both, Tenants!Table
        <4>4. s \in {"oauth_creds", "projects"}
          BY <1>1, <4>1, StagesAre DEF Midway, next
        <4> QED BY <4>2, <4>3, <4>4
      <3> QED BY <3>2, <3>3
    <2> QED BY <2>1, <2>2
  <1> QED BY <1>9, <1>10, <1>15, <1>16, <1>17, <1>18 DEF ChainsHold

LEMMA RestartKeeps ==
  ASSUME TenInv, Tenants!Restart
  PROVE  TenInv'
  <1> USE DEF TenInv
  <1>1. /\ tables' = durable /\ served' = durable.table["projects"]
        /\ tending' = [t \in DOMAIN tending |-> IF t \in Hand THEN Tenants!Idle ELSE tending[t]]
        /\ UNCHANGED <<durable, rows, gone, late, amid, orphaned, cut>>
    BY DEF Tenants!Restart, Tenants!history
  <1>2. DOMAIN tending = Hand \cup Grant BY DEF TenTyped
  <1>3. /\ Moved /\ \A t \in Hand : tending'[t] = Tenants!Idle
        /\ \A t \in Grant : tending'[t] = tending[t]
    BY <1>1, <1>2, TenantsAssumption DEF Moved
  <1>4. /\ \A t \in Hand : /\ Tending(tending'[t]) /\ OfHand(tending'[t])
                           /\ Done(tending'[t].at) = {} /\ tending'[t].at = "idle"
        /\ \A t \in Grant : Tending(tending'[t]) /\ OfGrant(tending'[t])
    <2>1. \A t \in Grant : Tending(tending[t]) /\ OfGrant(tending[t]) BY DEF TenTyped, OfGrant
    <2>2. Done("idle") = {} BY DoneNothing
    <2>3. OfHand(Tenants!Idle) BY IdleIs DEF OfHand
    <2> QED BY <1>3, <2>1, <2>2, <2>3, IdleIs
  <1>5. TenTyped'
    <2>1. (\A t \in Hand \cup Grant : Tending(tending[t]))' BY <1>4 DEF Tending
    <2>2. Shaped(tables)' /\ Shaped(durable)' BY <1>1 DEF TenTyped, Shaped
    <2>3. served' \subseteq Project BY <1>1 DEF TenTyped, Shaped, Tenants!Table
    <2> QED BY <1>1, <1>3, <1>4, <2>1, <2>2, <2>3 DEF TenTyped, Moved, OfHand, OfGrant
  <1>6. ChainsHold'
    <2>1. ChainsHold /\ cut \subseteq cut' BY <1>1 DEF ChainsHold
    <2>2. \A c \in Tenants!Chain \ cut' : tables.audit[c] = durable.audit[c]
      BY <1>1 DEF ChainsKept
    <2>3. \A u \in Hand \cup Grant : tending'[u].at = "append" => tending'[u] = tending[u]
      BY <1>3, <1>4
    <2> QED BY <1>1, <2>1, <2>2, <2>3, ChainsStep
  <1>7. Cleaned'
    <2>1. ASSUME NEW u \in Hand
          PROVE  /\ Emptied(tables'.table, tending'[u].p, Done(tending'[u].at), late', orphaned')
                 /\ tending'[u].at = "pop" =>
                      Emptied(durable'.table, tending'[u].p, Tenants!Table, late', orphaned')
      BY <1>4, CleanNothing
    <2> QED BY <2>1, CleanedAll
  <1>8. GoneIsClean'
    <2> SUFFICES ASSUME NEW p \in gone
                 PROVE  /\ p \notin durable.table["projects"]
                        /\ Emptied(durable.table, p, Tenants!Table, late, orphaned)
      BY <1>1 DEF GoneIsClean, Emptied
    <2>1. Emptied(durable.table, p, Tenants!Table, late, orphaned) BY DEF GoneIsClean
    <2> QED BY <2>1 DEF Emptied, Tenants!Table
  <1>9. CredsLed' BY <1>1 DEF CredsLed, Led
  <1>10. Whole' BY <1>1 DEF Whole, Both
  <1> QED BY <1>5, <1>6, <1>7, <1>8, <1>9, <1>10 DEF ChainsHold

LEMMA TenInit ==
  ASSUME Tenants!Init
  PROVE  TenInv
  <1> DEFINE tab == [t \in Tenants!Table |->
                       IF t \in {"connectors", "oauth_creds"} THEN {} ELSE Project]
             aud == [c \in Tenants!Chain |-> <<>>]
  <1>1. /\ tables = [table |-> tab, audit |-> aud] /\ durable = tables /\ served = Project
        /\ tending = [t \in Hand \cup Grant |-> Tenants!Idle] /\ rows = 0
        /\ gone = {} /\ late = {} /\ amid = {} /\ orphaned = {} /\ cut = {}
    BY DEF Tenants!Init
  <1>2. tab \in [Tenants!Table -> SUBSET Project] /\ aud = [c \in Tenants!Chain |-> aud[c]]
        /\ tab["oauth_creds"] = {} /\ tab["projects"] = Project /\ tab["ops"] = Project
        /\ \A c \in Tenants!Chain : aud[c] = <<>>
    BY DEF Tenants!Table
  <1> HIDE DEF tab, aud
  <1>3. tables.table = tab /\ tables.audit = aud /\ durable.table = tab /\ durable.audit = aud
    BY <1>1
  <1>4. Shaped(tables) /\ Shaped(durable) BY <1>1, <1>2, <1>3 DEF Shaped
  <1>5. \A t \in Hand \cup Grant : tending[t] = Tenants!Idle BY <1>1
  <1>6. TenTyped
    <2>1. tending = [t \in Hand \cup Grant |-> tending[t]] BY <1>1
    <2> QED BY <1>1, <1>4, <1>5, <2>1, IdleIs DEF TenTyped
  <1>7. ChainsKept
    <2>1. \A c \in Tenants!Chain : tables.audit[c] = <<>> /\ durable.audit[c] = <<>> BY <1>2, <1>3
    <2>2. <<>> \in Seq(AuditRow) /\ DOMAIN <<>> = {} OBVIOUS
    <2> QED BY <2>1, <2>2 DEF ChainsKept, Tenants!Verifies
  <1>8. OneAppends /\ RowsFollow BY <1>5, IdleIs DEF OneAppends, RowsFollow, Appending
  <1>9. Cleaned
    <2>1. \A t \in Hand : Done(tending[t].at) = {} /\ tending[t].at # "pop"
      BY <1>5, IdleIs, DoneNothing
    <2> QED BY <2>1, CleanNothing DEF Cleaned
  <1>10. GoneIsClean BY <1>1 DEF GoneIsClean
  <1>11. CredsLed BY <1>2, <1>3 DEF CredsLed, Led
  <1>12. Whole BY <1>2, <1>3 DEF Whole, Both
  <1> QED BY <1>6, <1>7, <1>8, <1>9, <1>10, <1>11, <1>12 DEF TenInv

LEMMA TenantsStep ==
  ASSUME TenInv, [Tenants!Next]_(Tenants!vars)
  PROVE  TenInv'
  <1>1. ASSUME NEW t \in Hand, Tenants!ReadLast(t) PROVE TenInv' BY <1>1, ReadLastKeeps
  <1>2. ASSUME NEW t \in Hand, Tenants!AppendRow(t) PROVE TenInv' BY <1>2, AppendRowKeeps
  <1>3. ASSUME NEW t \in Hand, Tenants!Record(t) PROVE TenInv' BY <1>3, RecordKeeps
  <1>4. ASSUME NEW t \in Hand, Tenants!SaveCreds(t) PROVE TenInv' BY <1>4, SaveCredsKeeps
  <1>5. ASSUME NEW t \in Hand, Tenants!DeleteRows(t) PROVE TenInv' BY <1>5, DeleteRowsKeeps
  <1>6. ASSUME NEW t \in Hand, Tenants!CommitErasure(t) PROVE TenInv' BY <1>6, CommitErasureKeeps
  <1>7. ASSUME NEW t \in Hand, Tenants!Pop(t) PROVE TenInv' BY <1>7, PopKeeps
  <1>8. ASSUME NEW t \in Hand, NEW p \in Project, Tenants!Write(t, p) \/ Tenants!Erase(t, p)
        PROVE  TenInv'
    BY <1>8, WriteKeeps
  <1>9. ASSUME NEW t \in Hand, NEW p \in Project, Tenants!AddConnector(t, p) PROVE TenInv'
    BY <1>9, AddConnectorKeeps
  <1>10. ASSUME NEW t \in Hand, NEW p \in Project, Tenants!RemoveConnector(t, p) PROVE TenInv'
    BY <1>10, RemoveConnectorKeeps
  <1>11. ASSUME NEW t \in Hand, NEW p \in Project, Tenants!SoftDelete(t, p) PROVE TenInv'
    BY <1>11, SoftDeleteKeeps
  <1>12. ASSUME NEW o \in Grant, Tenants!GrantReads(o) \/ Tenants!GrantAppends(o) PROVE TenInv'
    BY <1>12, GrantReadsKeeps, GrantAppendsKeeps
  <1>13. CASE Tenants!Restart BY <1>13, RestartKeeps
  <1>14. CASE UNCHANGED Tenants!vars
    <2>1. UNCHANGED <<tables, durable, served, tending, rows, gone, late, amid, orphaned, cut>>
      BY <1>14 DEF Tenants!vars
    <2>2. TenTyped' BY <2>1 DEF TenInv, TenTyped, Shaped, Tending
    <2>3. ChainsKept' BY <2>1 DEF TenInv, ChainsKept, Tenants!Verifies
    <2>4. OneAppends' /\ RowsFollow'
      BY <2>1 DEF TenInv, OneAppends, RowsFollow, Appending, NextSeq, NextPrev
    <2>5. Cleaned' /\ GoneIsClean' BY <2>1 DEF TenInv, Cleaned, GoneIsClean, Emptied, Done
    <2>6. CredsLed' /\ Whole' BY <2>1 DEF TenInv, CredsLed, Whole, Led, Both
    <2> QED BY <2>2, <2>3, <2>4, <2>5, <2>6 DEF TenInv
  <1> QED BY <1>1, <1>2, <1>3, <1>4, <1>5, <1>6, <1>7, <1>8, <1>9, <1>10, <1>11, <1>12, <1>13,
             <1>14 DEF Tenants!Next

(* What the invariant says, in the words of the runs. *)
LEMMA TenImplies ==
  ASSUME TenInv
  PROVE  Tenants!TenantsHold
  <1> USE DEF TenInv
  <1>1. Tenants!TypeOK
    <2>1. /\ tables.table \in [Tenants!Table -> SUBSET Project] /\ DOMAIN tables.audit = Tenants!Chain
          /\ durable.table \in [Tenants!Table -> SUBSET Project] /\ DOMAIN durable.audit = Tenants!Chain
      BY DEF TenTyped, Shaped
    <2>2. \A s \in {tables, durable} :
            s.table \in [Tenants!Table -> SUBSET Project] /\ DOMAIN s.audit = Tenants!Chain
      BY <2>1
    <2>3. \A t \in Hand : tending[t].at \in DOMAIN Tenants!Then \cup
            {"idle", "record", "consent", "audit", "append", "commit", "pop"}
      BY DEF TenTyped, Tending, Doings, Stages
    <2>4. UNION {gone, late, amid, orphaned} \subseteq Project BY DEF TenTyped
    <2> QED BY <2>2, <2>3, <2>4 DEF TenTyped, Tenants!TypeOK
  <1>2. Tenants!ChainHolds BY DEF ChainsKept, Tenants!ChainHolds
  <1>3. Tenants!ErasedIsGone
    <2> SUFFICES ASSUME NEW p \in gone
                 PROVE  /\ p \notin served \cup durable.table["projects"]
                        /\ p \notin late =>
                             \A t \in Tenants!Table \ {"oauth_creds"} : p \notin durable.table[t]
                        /\ p \notin late \cup orphaned => p \notin durable.table["oauth_creds"]
      BY DEF Tenants!ErasedIsGone
    <2> QED BY DEF GoneIsClean, Emptied, Tenants!Table
  <1>4. Tenants!WholeOrGone BY DEF Whole, Both, CredsLed, Led, Tenants!WholeOrGone
  <1> QED BY <1>1, <1>2, <1>3, <1>4 DEF Tenants!TenantsHold

(***************************************************************************)
(* An organization keeps an audit chain that verifies, and a project whose  *)
(* erasure was reported is neither served nor on disk, whatever the threads *)
(* of the server, grant.py and a restart do at once (Tenants).              *)
(***************************************************************************)
THEOREM TenantsAlwaysHold == ErasuresSpec => []TenantsHold
  <1>1. ErasuresInit => TenInv
    BY TenInit DEF ErasuresInit
  <1>2. TenInv /\ [PersonMoves \/ ProjectMoves]_<<scenario, vars, letting>> => TenInv'
    <2> SUFFICES ASSUME TenInv, [PersonMoves \/ ProjectMoves]_<<scenario, vars, letting>>
                 PROVE  TenInv'
      OBVIOUS
    <2>1. CASE ProjectMoves BY <2>1, TenantsStep DEF ProjectMoves
    <2>2. CASE PersonMoves \/ UNCHANGED <<scenario, vars, letting>>
      <3>1. UNCHANGED Tenants!vars BY <2>2 DEF PersonMoves, letting, Tenants!vars
      <3> QED BY <3>1, TenantsStep
    <2> QED BY <2>1, <2>2
  <1>3. TenInv => TenantsHold
    BY TenImplies DEF TenantsHold
  <1> QED BY <1>1, <1>2, <1>3, PTL DEF ErasuresSpec
================================================================================
