--------------------------- MODULE OmemEngineProofs ---------------------------
(***************************************************************************)
(* Theorems of OmemEngine, for every value of its constants.               *)
(*                                                                         *)
(* The inductive invariant Sound is the conjunction of the checked ones.   *)
(* It is stated on an engine value, so each lemma below says of one        *)
(* operation that it takes a sound engine to a sound engine; the modules   *)
(* that embed an engine cite the same lemmas.                              *)
(***************************************************************************)
EXTENDS OmemEngine, TLAPS

Dict(K, V) == UNION {[D -> V] : D \in SUBSET K}

Engine ==
  [entities : SUBSET EntityId, events : SUBSET EventId, agents : Dict(AgentId, Time),
   assertions : Dict(AssertionId, Assertion), derivations : Dict(DerivationId, Derivation),
   close : Dict(AssertionId, Time), corefs : Dict(AssertionId, SUBSET EntityId),
   contra : SUBSET SUBSET Prop]

Sound(e) == e \in Engine /\ Wired(e) /\ OneKindPerId(e) /\ Acyclic(e) /\ Backed(e)

------------------------------------------------------------------------------
(* Dictionaries. *)

LEMMA DictChar ==
  ASSUME NEW K, NEW V, NEW d
  PROVE  d \in Dict(K, V) <=> DictOf(d, K, V)
BY DEF Dict, DictOf

(* Put adds or replaces one key and leaves the others alone. *)
LEMMA PutDict ==
  ASSUME NEW K, NEW V, NEW d \in Dict(K, V), NEW k \in K, NEW v \in V
  PROVE  Put(d, k, v) \in Dict(K, V)
<1>1. DictOf(d, K, V)
  BY DictChar
<1>2. DictOf(Put(d, k, v), K, V)
  BY <1>1 DEF DictOf, Put
<1> QED BY <1>2, DictChar

LEMMA PutAllDict ==
  ASSUME NEW K, NEW V, NEW d \in Dict(K, V), NEW ks \in SUBSET K, NEW v \in V
  PROVE  PutAll(d, ks, v) \in Dict(K, V)
<1>1. DictOf(d, K, V)
  BY DictChar
<1>2. DictOf(PutAll(d, ks, v), K, V)
  BY <1>1 DEF DictOf, PutAll
<1> QED BY <1>2, DictChar

LEMMA DictGet ==
  ASSUME NEW K, NEW V, NEW d \in Dict(K, V)
  PROVE  DOMAIN d \subseteq K /\ \A x \in DOMAIN d : d[x] \in V
BY DictChar DEF DictOf

(* The type invariant TLC evaluates is membership in the set of engines. *)
LEMMA EngineChar ==
  ASSUME NEW e
  PROVE  e \in Engine <=> IsEngine(e)
<1>1. ASSUME IsEngine(e) PROVE e \in Engine
  <2>1. /\ e.agents \in Dict(AgentId, Time) /\ e.assertions \in Dict(AssertionId, Assertion)
        /\ e.derivations \in Dict(DerivationId, Derivation)
        /\ e.close \in Dict(AssertionId, Time) /\ e.corefs \in Dict(AssertionId, SUBSET EntityId)
    BY <1>1, DictChar DEF IsEngine
  <2>2. e \in [entities : {e.entities}, events : {e.events}, agents : {e.agents},
               assertions : {e.assertions}, derivations : {e.derivations},
               close : {e.close}, corefs : {e.corefs}, contra : {e.contra}]
    BY <1>1 DEF IsEngine
  <2> QED BY <1>1, <2>1, <2>2 DEF Engine, IsEngine
<1>2. ASSUME e \in Engine PROVE IsEngine(e)
  <2>1. /\ DictOf(e.agents, AgentId, Time) /\ DictOf(e.assertions, AssertionId, Assertion)
        /\ DictOf(e.derivations, DerivationId, Derivation)
        /\ DictOf(e.close, AssertionId, Time) /\ DictOf(e.corefs, AssertionId, SUBSET EntityId)
    BY <1>2, DictChar DEF Engine
  <2> QED BY <1>2, <2>1 DEF Engine, IsEngine
<1> QED BY <1>1, <1>2

LEMMA InitSound == Sound(NewEngine)
<1>1. EmptyDict \in [{} -> {}]
  BY DEF EmptyDict
<1>2. \A K, V : EmptyDict \in Dict(K, V)
  BY <1>1 DEF Dict
<1>3. DOMAIN EmptyDict = {}
  BY DEF EmptyDict
<1>4. NewEngine \in Engine
  BY <1>2 DEF NewEngine, Engine
<1>5. Wired(NewEngine) /\ OneKindPerId(NewEngine) /\ Backed(NewEngine)
  BY <1>3 DEF NewEngine, Wired, AssertionsWired, DerivationsWired, ViewsWired, OneKindPerId,
              Backed
<1>6. \A c : Antecedents(NewEngine, c) = {}
  BY <1>3 DEF NewEngine, Antecedents
<1>7. Acyclic(NewEngine)
  BY <1>6 DEF Acyclic
<1> QED BY <1>4, <1>5, <1>7 DEF Sound

------------------------------------------------------------------------------
(* What an addition leaves true.  f extends e when every primitive of e is *)
(* in f, unchanged.                                                        *)

Extends(e, f) ==
  /\ e.entities \subseteq f.entities /\ e.events \subseteq f.events
  /\ DOMAIN e.agents \subseteq DOMAIN f.agents
  /\ \A g \in DOMAIN e.agents : f.agents[g] = e.agents[g]
  /\ DOMAIN e.assertions \subseteq DOMAIN f.assertions
  /\ \A a \in DOMAIN e.assertions : f.assertions[a] = e.assertions[a]
  /\ DOMAIN e.derivations \subseteq DOMAIN f.derivations
  /\ \A d \in DOMAIN e.derivations : f.derivations[d] = e.derivations[d]

LEMMA ExtendsItself ==
  ASSUME NEW e
  PROVE  Extends(e, e)
BY DEF Extends

LEMMA ExtendsTransitive ==
  ASSUME NEW e, NEW f, NEW g, Extends(e, f), Extends(f, g)
  PROVE  Extends(e, g)
BY DEF Extends

LEMMA KnownMonotone ==
  ASSUME NEW e, NEW f, Extends(e, f), NEW x, Known(e, x)
  PROVE  Known(f, x)
BY DEF Extends, Known

(* Nothing new among the assertions: the old ones stay well wired. *)
LEMMA AssertionsFrame ==
  ASSUME NEW e, NEW f, Extends(e, f), DOMAIN f.assertions = DOMAIN e.assertions,
         AssertionsWired(e)
  PROVE  AssertionsWired(f)
BY DEF Extends, AssertionsWired

LEMMA DerivationsFrame ==
  ASSUME NEW e, NEW f, Extends(e, f), DOMAIN f.derivations = DOMAIN e.derivations,
         DerivationsWired(e)
  PROVE  DerivationsWired(f)
BY KnownMonotone DEF Extends, DerivationsWired

LEMMA ViewsFrame ==
  ASSUME NEW e, NEW f, Extends(e, f), f.close = e.close, f.corefs = e.corefs, ViewsWired(e)
  PROVE  ViewsWired(f)
BY DEF Extends, ViewsWired

(* No new id, no id of two kinds. *)
LEMMA OneKindFrame ==
  ASSUME NEW e, NEW f, f.entities = e.entities, f.events = e.events,
         DOMAIN f.agents = DOMAIN e.agents, DOMAIN f.assertions = DOMAIN e.assertions,
         DOMAIN f.derivations = DOMAIN e.derivations, OneKindPerId(e)
  PROVE  OneKindPerId(f)
BY DEF OneKindPerId

LEMMA AcyclicFrame ==
  ASSUME NEW e, NEW f, f.derivations = e.derivations, Acyclic(e)
  PROVE  Acyclic(f)
<1>1. \A c : Antecedents(f, c) = Antecedents(e, c)
  BY DEF Antecedents
<1> QED BY <1>1 DEF Acyclic

LEMMA BackedFrame ==
  ASSUME NEW e, NEW f, Extends(e, f), f.close = e.close,
         ViewsWired(e), DerivationsWired(e), Backed(e)
  PROVE  Backed(f)
<1> SUFFICES ASSUME NEW a \in DOMAIN f.close
             PROVE  /\ f.assertions[a].time < f.close[a]
                    /\ \E d \in DOMAIN f.derivations :
                         /\ f.derivations[d].kind = "supersession"
                         /\ a \in f.derivations[d].antecedents
                         /\ f.assertions[f.derivations[d].consequent].time = f.close[a]
  BY DEF Backed
<1>1. a \in DOMAIN e.close /\ a \in DOMAIN e.assertions /\ f.assertions[a] = e.assertions[a]
  BY DEF Extends, ViewsWired
<1>2. PICK d \in DOMAIN e.derivations :
              /\ e.derivations[d].kind = "supersession"
              /\ a \in e.derivations[d].antecedents
              /\ e.assertions[e.derivations[d].consequent].time = e.close[a]
  BY <1>1 DEF Backed
<1>3. /\ d \in DOMAIN f.derivations /\ f.derivations[d] = e.derivations[d]
      /\ f.assertions[e.derivations[d].consequent] = e.assertions[e.derivations[d].consequent]
  BY DEF Extends, DerivationsWired
<1> QED BY <1>1, <1>2, <1>3 DEF Backed

------------------------------------------------------------------------------
(* The additions one by one: each takes a sound engine to a sound engine.  *)

LEMMA AddEntitySound ==
  ASSUME NEW e, Sound(e), NEW id \in EntityId, ~ Known(e, id)
  PROVE  /\ Sound([e EXCEPT !.entities = @ \cup {id}])
         /\ Extends(e, [e EXCEPT !.entities = @ \cup {id}])
<1> DEFINE f == [e EXCEPT !.entities = @ \cup {id}]
<1>1. /\ f \in Engine /\ f.entities = e.entities \cup {id} /\ f.events = e.events
      /\ f.agents = e.agents /\ f.assertions = e.assertions
      /\ f.derivations = e.derivations /\ f.close = e.close /\ f.corefs = e.corefs
  BY DEF Sound, Engine
<1> HIDE DEF f
<1>2. Extends(e, f)
  BY <1>1 DEF Extends
<1>3. OneKindPerId(f)
  BY <1>1 DEF Sound, OneKindPerId, Known
<1> QED
  BY <1>1, <1>2, <1>3, AssertionsFrame, DerivationsFrame, ViewsFrame, AcyclicFrame, BackedFrame
     DEF Sound, Wired, f

LEMMA AddEventSound ==
  ASSUME NEW e, Sound(e), NEW id \in EventId, ~ Known(e, id)
  PROVE  /\ Sound([e EXCEPT !.events = @ \cup {id}])
         /\ Extends(e, [e EXCEPT !.events = @ \cup {id}])
<1> DEFINE f == [e EXCEPT !.events = @ \cup {id}]
<1>1. /\ f \in Engine /\ f.entities = e.entities /\ f.events = e.events \cup {id}
      /\ f.agents = e.agents /\ f.assertions = e.assertions
      /\ f.derivations = e.derivations /\ f.close = e.close /\ f.corefs = e.corefs
  BY DEF Sound, Engine
<1> HIDE DEF f
<1>2. Extends(e, f)
  BY <1>1 DEF Extends
<1>3. OneKindPerId(f)
  BY <1>1 DEF Sound, OneKindPerId, Known
<1> QED
  BY <1>1, <1>2, <1>3, AssertionsFrame, DerivationsFrame, ViewsFrame, AcyclicFrame, BackedFrame
     DEF Sound, Wired, f

LEMMA AddAgentSound ==
  ASSUME NEW e, Sound(e), NEW id \in AgentId, NEW t \in Time, ~ Known(e, id)
  PROVE  /\ Sound([e EXCEPT !.agents = Put(@, id, t)])
         /\ Extends(e, [e EXCEPT !.agents = Put(@, id, t)])
<1> DEFINE f == [e EXCEPT !.agents = Put(@, id, t)]
<1>1. e.agents \in Dict(AgentId, Time)
  BY DEF Sound, Engine
<1>2. Put(e.agents, id, t) \in Dict(AgentId, Time)
  BY <1>1, PutDict
<1>3. /\ f \in Engine /\ f.entities = e.entities /\ f.events = e.events
      /\ f.agents = Put(e.agents, id, t) /\ f.assertions = e.assertions
      /\ f.derivations = e.derivations /\ f.close = e.close /\ f.corefs = e.corefs
  BY <1>2 DEF Sound, Engine
<1> HIDE DEF f
<1>4. Extends(e, f)
  BY <1>3 DEF Extends, Put, Known
<1>5. OneKindPerId(f)
  BY <1>3 DEF Sound, OneKindPerId, Known, Put
<1> QED
  BY <1>3, <1>4, <1>5, AssertionsFrame, DerivationsFrame, ViewsFrame, AcyclicFrame, BackedFrame
     DEF Sound, Wired, f

LEMMA AddContraSound ==
  ASSUME NEW e, Sound(e), NEW p \in Prop, NEW q \in Prop
  PROVE  /\ Sound([e EXCEPT !.contra = @ \cup {{p, q}}])
         /\ Extends(e, [e EXCEPT !.contra = @ \cup {{p, q}}])
<1> DEFINE f == [e EXCEPT !.contra = @ \cup {{p, q}}]
<1>1. /\ f \in Engine /\ f.entities = e.entities /\ f.events = e.events
      /\ f.agents = e.agents /\ f.assertions = e.assertions
      /\ f.derivations = e.derivations /\ f.close = e.close /\ f.corefs = e.corefs
  BY DEF Sound, Engine
<1> HIDE DEF f
<1>2. Extends(e, f)
  BY <1>1 DEF Extends
<1> QED
  BY <1>1, <1>2, AssertionsFrame, DerivationsFrame, ViewsFrame, OneKindFrame, AcyclicFrame,
     BackedFrame DEF Sound, Wired, f

(* put_assertion: everything the new claim mentions was checked first. *)
LEMMA AddAssertionSound ==
  ASSUME NEW e, Sound(e), NEW id \in AssertionId, NEW a \in Assertion,
         AssertionFault(e, id, a) = "ACCEPTED"
  PROVE  /\ Sound(WithAssertion(e, id, a))
         /\ Extends(e, WithAssertion(e, id, a))
         /\ WithAssertion(e, id, a).assertions = Put(e.assertions, id, a)
         /\ WithAssertion(e, id, a).derivations = e.derivations
         /\ WithAssertion(e, id, a).close = e.close
         /\ WithAssertion(e, id, a).corefs = e.corefs
         /\ WithAssertion(e, id, a).entities = e.entities
         /\ id \notin DOMAIN e.assertions
<1> DEFINE f == WithAssertion(e, id, a)
<1>1. /\ ~ Known(e, id) /\ a.agent \in DOMAIN e.agents /\ a.subjects # {}
      /\ a.subjects \subseteq e.entities /\ ~ (a.time < e.agents[a.agent])
  BY DEF AssertionFault
<1>2. id \notin DOMAIN e.assertions
  BY <1>1 DEF Known
<1>3. e.assertions \in Dict(AssertionId, Assertion)
  BY DEF Sound, Engine
<1>a. Put(e.assertions, id, a) \in Dict(AssertionId, Assertion)
  BY <1>3, PutDict
<1>4. /\ DOMAIN Put(e.assertions, id, a) = DOMAIN e.assertions \cup {id}
      /\ Put(e.assertions, id, a)[id] = a
      /\ \A x \in DOMAIN e.assertions : x # id => Put(e.assertions, id, a)[x] = e.assertions[x]
  BY DEF Put
<1>5. /\ f \in Engine /\ f.entities = e.entities /\ f.events = e.events
      /\ f.agents = e.agents /\ f.assertions = Put(e.assertions, id, a)
      /\ f.derivations = e.derivations /\ f.close = e.close /\ f.corefs = e.corefs
  BY <1>a DEF Sound, Engine, WithAssertion
<1> HIDE DEF f
<1>6. Extends(e, f)
  BY <1>2, <1>4, <1>5 DEF Extends
<1>7. a.time \in Int /\ e.agents[a.agent] \in Int
  <2>1. e.agents \in Dict(AgentId, Time)
    BY DEF Sound, Engine
  <2>2. \A g \in DOMAIN e.agents : e.agents[g] \in Time
    BY <2>1, DictGet
  <2> QED BY <1>1, <2>2, TimeAssumption DEF Assertion
<1>8. AssertionsWired(f)
  BY <1>1, <1>2, <1>4, <1>5, <1>7 DEF Sound, Wired, AssertionsWired
<1>b. OneKindPerId(f)
  BY <1>1, <1>4, <1>5 DEF Sound, OneKindPerId, Known
<1>9. Sound(f)
  BY <1>5, <1>6, <1>8, <1>b, DerivationsFrame, ViewsFrame, AcyclicFrame, BackedFrame
     DEF Sound, Wired
<1> QED BY <1>2, <1>5, <1>6, <1>9 DEF f

(* corefer registers the pair right after recording the claim that states it. *)
LEMMA RegisterSound ==
  ASSUME NEW e, Sound(e), NEW id \in AssertionId, NEW pair \in SUBSET EntityId,
         id \in DOMAIN e.assertions, e.assertions[id].subjects = pair,
         e.assertions[id].prop = COREF
  PROVE  /\ Sound([e EXCEPT !.corefs = Put(@, id, pair)])
         /\ Extends(e, [e EXCEPT !.corefs = Put(@, id, pair)])
<1> DEFINE f == [e EXCEPT !.corefs = Put(@, id, pair)]
<1>1. e.corefs \in Dict(AssertionId, SUBSET EntityId)
  BY DEF Sound, Engine
<1>2. Put(e.corefs, id, pair) \in Dict(AssertionId, SUBSET EntityId)
  BY <1>1, PutDict
<1>3. /\ f \in Engine /\ f.entities = e.entities /\ f.events = e.events
      /\ f.agents = e.agents /\ f.assertions = e.assertions
      /\ f.derivations = e.derivations /\ f.close = e.close
      /\ f.corefs = Put(e.corefs, id, pair)
  BY <1>2 DEF Sound, Engine
<1> HIDE DEF f
<1>4. Extends(e, f)
  BY <1>3 DEF Extends
<1>5. ViewsWired(f)
  BY <1>3 DEF Sound, Wired, ViewsWired, Put
<1> QED
  BY <1>3, <1>4, <1>5, AssertionsFrame, DerivationsFrame, OneKindFrame, AcyclicFrame, BackedFrame
     DEF Sound, Wired, f

(* The heart of INV-5: when the new consequent is not reached from the new *)
(* antecedents, some closed set holds those and not it.  A set that meets  *)
(* the closed one has a member there with no antecedent inside, by the old *)
(* acyclicity; a set that misses it is not touched by the new edges.       *)
LEMMA InsertAcyclic ==
  ASSUME NEW e, NEW f, NEW c \in AssertionId, NEW ants, Acyclic(e),
         c \notin ReachedAssertions(e, ants),
         \A x : Antecedents(f, x) = IF x = c THEN Antecedents(e, x) \cup ants
                                             ELSE Antecedents(e, x)
  PROVE  Acyclic(f)
<1>1. PICK K \in SUBSET AssertionId :
              ants \cap AssertionId \subseteq K /\ Closed(e, K) /\ c \notin K
  BY DEF ReachedAssertions
<1> SUFFICES ASSUME NEW S \in SUBSET AssertionId, S # {}
             PROVE  \E x \in S : Antecedents(f, x) \cap S = {}
  BY DEF Acyclic
<1>2. CASE S \cap K # {}
  <2>1. PICK x \in S \cap K : Antecedents(e, x) \cap (S \cap K) = {}
    BY <1>2 DEF Acyclic
  <2>2. Antecedents(e, x) \cap AssertionId \subseteq K
    BY <1>1, <2>1 DEF Closed
  <2>3. Antecedents(f, x) = Antecedents(e, x)
    BY <1>1, <2>1
  <2> QED BY <2>1, <2>2, <2>3
<1>3. CASE S \cap K = {}
  <2>1. PICK x \in S : Antecedents(e, x) \cap S = {}
    BY DEF Acyclic
  <2>2. ants \cap S = {}
    BY <1>1, <1>3
  <2> QED BY <2>1, <2>2
<1> QED BY <1>2, <1>3

LEMMA AddDerivationSound ==
  ASSUME NEW e, Sound(e), NEW id \in DerivationId, NEW d \in Derivation,
         DerivationFault(e, id, d) = "ACCEPTED"
  PROVE  /\ Sound(WithDerivation(e, id, d))
         /\ Extends(e, WithDerivation(e, id, d))
         /\ WithDerivation(e, id, d).derivations = Put(e.derivations, id, d)
         /\ WithDerivation(e, id, d).assertions = e.assertions
         /\ WithDerivation(e, id, d).close = e.close
<1> DEFINE f == WithDerivation(e, id, d)
<1>1. /\ ~ Known(e, id) /\ d.consequent \in DOMAIN e.assertions /\ d.antecedents # {}
      /\ \A x \in d.antecedents : Known(e, x)
      /\ d.consequent \notin ReachedAssertions(e, d.antecedents)
  BY DEF DerivationFault, WouldCycle
<1>2. id \notin DOMAIN e.derivations
  BY <1>1 DEF Known
<1>3. e.derivations \in Dict(DerivationId, Derivation)
  BY DEF Sound, Engine
<1>4. Put(e.derivations, id, d) \in Dict(DerivationId, Derivation)
  BY <1>3, PutDict
<1>5. /\ DOMAIN Put(e.derivations, id, d) = DOMAIN e.derivations \cup {id}
      /\ Put(e.derivations, id, d)[id] = d
      /\ \A x \in DOMAIN e.derivations : x # id => Put(e.derivations, id, d)[x] = e.derivations[x]
  BY DEF Put
<1>6. /\ f \in Engine /\ f.entities = e.entities /\ f.events = e.events
      /\ f.agents = e.agents /\ f.assertions = e.assertions
      /\ f.derivations = Put(e.derivations, id, d) /\ f.close = e.close /\ f.corefs = e.corefs
  BY <1>4 DEF Sound, Engine, WithDerivation
<1> HIDE DEF f
<1>7. Extends(e, f)
  BY <1>2, <1>5, <1>6 DEF Extends
<1>8. DerivationsWired(f)
  <2>1. DerivationsWired(e)
    BY DEF Sound, Wired
  <2>2. ASSUME NEW x \in DOMAIN f.derivations
        PROVE  /\ f.derivations[x].consequent \in DOMAIN f.assertions
               /\ f.derivations[x].antecedents # {}
               /\ \A y \in f.derivations[x].antecedents : Known(e, y)
    BY <1>1, <1>2, <1>5, <1>6, <2>1 DEF DerivationsWired
  <2> QED BY <1>7, <2>2, KnownMonotone DEF DerivationsWired
<1>9. \A x : Antecedents(f, x) = IF x = d.consequent THEN Antecedents(e, x) \cup d.antecedents
                                                      ELSE Antecedents(e, x)
  BY <1>2, <1>5, <1>6 DEF Antecedents
<1>10. d.consequent \in AssertionId
  BY DEF Derivation
<1>11. Acyclic(f)
  BY <1>1, <1>9, <1>10, InsertAcyclic DEF Sound
<1>a. OneKindPerId(f)
  BY <1>1, <1>5, <1>6 DEF Sound, OneKindPerId, Known
<1>12. Sound(f)
  BY <1>6, <1>7, <1>8, <1>11, <1>a, AssertionsFrame, ViewsFrame, BackedFrame DEF Sound, Wired
<1> QED BY <1>6, <1>7, <1>12 DEF f

(* Closing targets that a recorded supersession replaces at that time. *)
LEMMA CloseSound ==
  ASSUME NEW e, Sound(e), NEW done \in SUBSET AssertionId, NEW t \in Time,
         done \subseteq DOMAIN e.assertions,
         \A o \in done : e.assertions[o].time < t,
         NEW d \in DOMAIN e.derivations,
         e.derivations[d].kind = "supersession",
         done \subseteq e.derivations[d].antecedents,
         e.assertions[e.derivations[d].consequent].time = t
  PROVE  /\ Sound(WithCloses(e, done, t))
         /\ Extends(e, WithCloses(e, done, t))
         /\ WithCloses(e, done, t).close = PutAll(e.close, done, t)
         /\ WithCloses(e, done, t).assertions = e.assertions
<1> DEFINE f == WithCloses(e, done, t)
<1>1. e.close \in Dict(AssertionId, Time)
  BY DEF Sound, Engine
<1>2. PutAll(e.close, done, t) \in Dict(AssertionId, Time)
  BY <1>1, PutAllDict
<1>3. /\ f \in Engine /\ f.entities = e.entities /\ f.events = e.events
      /\ f.agents = e.agents /\ f.assertions = e.assertions
      /\ f.derivations = e.derivations /\ f.close = PutAll(e.close, done, t)
      /\ f.corefs = e.corefs
  BY <1>2 DEF Sound, Engine, WithCloses
<1> HIDE DEF f
<1>4. Extends(e, f)
  BY <1>3 DEF Extends
<1>5. ViewsWired(f)
  BY <1>3 DEF Sound, Wired, ViewsWired, PutAll
<1>6. Backed(f)
  <2> SUFFICES ASSUME NEW a \in DOMAIN f.close
               PROVE  /\ f.assertions[a].time < f.close[a]
                      /\ \E x \in DOMAIN f.derivations :
                           /\ f.derivations[x].kind = "supersession"
                           /\ a \in f.derivations[x].antecedents
                           /\ f.assertions[f.derivations[x].consequent].time = f.close[a]
    BY DEF Backed
  <2>1. CASE a \in done
    <3>1. f.close[a] = t
      BY <1>3, <2>1 DEF PutAll
    <3> QED BY <1>3, <2>1, <3>1
  <2>2. CASE a \notin done
    <3>1. a \in DOMAIN e.close /\ f.close[a] = e.close[a]
      BY <1>3, <2>2 DEF PutAll
    <3> QED BY <1>3, <3>1 DEF Sound, Backed
  <2> QED BY <2>1, <2>2
<1> QED
  BY <1>3, <1>4, <1>5, <1>6, AssertionsFrame, DerivationsFrame, OneKindFrame, AcyclicFrame
     DEF Sound, Wired, f

------------------------------------------------------------------------------
(* What an operation may do to the ledger of beliefs: nothing, or record   *)
(* one claim and end open intervals where it begins.                       *)

LedgerMove(e, f) ==
  \/ f.assertions = e.assertions /\ f.close = e.close
  \/ \E c \in AssertionId, x \in Assertion : \E S \in SUBSET AssertionId :
        /\ c \notin DOMAIN e.assertions
        /\ S \subseteq DOMAIN e.assertions \ DOMAIN e.close
        /\ \A o \in S : e.assertions[o].time < x.time
        /\ f.assertions = Put(e.assertions, c, x)
        /\ f.close = PutAll(e.close, S, x.time)

Preserves(e, f) == Sound(f) /\ Extends(e, f) /\ LedgerMove(e, f)

LEMMA EntityPreserves ==
  ASSUME NEW e, Sound(e), NEW id \in EntityId
  PROVE  Preserves(e, PutEntity(e, id).eng)
<1>1. e \in Engine
  BY DEF Sound
<1>2. /\ [e EXCEPT !.entities = @ \cup {id}].assertions = e.assertions
      /\ [e EXCEPT !.entities = @ \cup {id}].close = e.close
  BY <1>1 DEF Engine
<1>3. CASE Known(e, id)
  BY <1>3, ExtendsItself DEF PutEntity, Result, Preserves, LedgerMove
<1>4. CASE ~ Known(e, id)
  BY <1>2, <1>4, AddEntitySound DEF PutEntity, Result, Preserves, LedgerMove
<1> QED BY <1>3, <1>4

LEMMA EventPreserves ==
  ASSUME NEW e, Sound(e), NEW id \in EventId
  PROVE  Preserves(e, PutEvent(e, id).eng)
<1>1. e \in Engine
  BY DEF Sound
<1>2. /\ [e EXCEPT !.events = @ \cup {id}].assertions = e.assertions
      /\ [e EXCEPT !.events = @ \cup {id}].close = e.close
  BY <1>1 DEF Engine
<1>3. CASE Known(e, id)
  BY <1>3, ExtendsItself DEF PutEvent, Result, Preserves, LedgerMove
<1>4. CASE ~ Known(e, id)
  BY <1>2, <1>4, AddEventSound DEF PutEvent, Result, Preserves, LedgerMove
<1> QED BY <1>3, <1>4

LEMMA AgentPreserves ==
  ASSUME NEW e, Sound(e), NEW id \in AgentId, NEW t \in Time
  PROVE  Preserves(e, PutAgent(e, id, t).eng)
<1>1. e \in Engine
  BY DEF Sound
<1>2. /\ [e EXCEPT !.agents = Put(@, id, t)].assertions = e.assertions
      /\ [e EXCEPT !.agents = Put(@, id, t)].close = e.close
  BY <1>1 DEF Engine
<1>3. CASE Known(e, id)
  BY <1>3, ExtendsItself DEF PutAgent, Result, Preserves, LedgerMove
<1>4. CASE ~ Known(e, id)
  BY <1>2, <1>4, AddAgentSound DEF PutAgent, Result, Preserves, LedgerMove
<1> QED BY <1>3, <1>4

LEMMA DeclarePreserves ==
  ASSUME NEW e, Sound(e), NEW p \in Prop, NEW q \in Prop
  PROVE  Preserves(e, Declare(e, p, q).eng)
<1>1. e \in Engine
  BY DEF Sound
<1>2. /\ [e EXCEPT !.contra = @ \cup {{p, q}}].assertions = e.assertions
      /\ [e EXCEPT !.contra = @ \cup {{p, q}}].close = e.close
  BY <1>1 DEF Engine
<1> QED BY <1>2, AddContraSound, ExtendsItself DEF Declare, Result, Preserves, LedgerMove

(* Recording one claim ends no interval. *)
LEMMA RecordMove ==
  ASSUME NEW e, NEW f, NEW id \in AssertionId, NEW a \in Assertion,
         id \notin DOMAIN e.assertions, e \in Engine,
         f.assertions = Put(e.assertions, id, a), f.close = e.close
  PROVE  LedgerMove(e, f)
<1>1. e.close \in Dict(AssertionId, Time)
  BY DEF Engine
<1>2. e.close \in [DOMAIN e.close -> Time]
  BY <1>1, DictChar DEF DictOf
<1>3. e.close = PutAll(e.close, {}, a.time)
  BY <1>2 DEF PutAll
<1> QED BY <1>3 DEF LedgerMove

LEMMA PutAssertionPreserves ==
  ASSUME NEW e, Sound(e), NEW id \in AssertionId, NEW a \in Assertion
  PROVE  Preserves(e, PutAssertion(e, id, a).eng)
<1>1. CASE AssertionFault(e, id, a) = "ACCEPTED"
  <2>1. PutAssertion(e, id, a).eng = WithAssertion(e, id, a)
    BY <1>1 DEF PutAssertion, Result
  <2> QED BY <1>1, <2>1, AddAssertionSound, RecordMove DEF Preserves, Sound
<1>2. CASE AssertionFault(e, id, a) # "ACCEPTED"
  BY <1>2, ExtendsItself DEF PutAssertion, Result, Preserves, LedgerMove
<1> QED BY <1>1, <1>2

LEMMA DerivePreserves ==
  ASSUME NEW e, Sound(e), NEW id \in DerivationId, NEW d \in Derivation
  PROVE  Preserves(e, AddDerivation(e, id, d).eng)
<1>1. CASE DerivationFault(e, id, d) = "ACCEPTED"
  BY <1>1, AddDerivationSound DEF AddDerivation, Result, Preserves, LedgerMove
<1>2. CASE DerivationFault(e, id, d) # "ACCEPTED"
  BY <1>2, ExtendsItself DEF AddDerivation, Result, Preserves, LedgerMove
<1> QED BY <1>1, <1>2

(* The operations of several steps.  A supersede that fails after its      *)
(* first step leaves a sound engine too: the claim is on record and ends   *)
(* nothing, or ends the targets met before the one named twice.            *)
LEMMA SupersedePreserves ==
  ASSUME NEW e, Sound(e), NEW id \in AssertionId, NEW a \in Assertion,
         NEW olds \in Seq(AssertionId), NEW did \in DerivationId
  PROVE  Preserves(e, Supersede(e, id, a, olds, did).eng)
<1> DEFINE f     == WithAssertion(e, id, a)
           s     == SupersessionOf(id, olds)
           g     == WithDerivation(f, did, s)
           done  == ClosedByLoop(olds)
           h     == WithCloses(g, done, a.time)
<1>1. CASE SupersedeFault(e, a, olds) # "ACCEPTED"
  BY <1>1, ExtendsItself DEF Supersede, Result, Preserves, LedgerMove
<1>2. CASE SupersedeFault(e, a, olds) = "ACCEPTED" /\ AssertionFault(e, id, a) # "ACCEPTED"
  BY <1>2, ExtendsItself DEF Supersede, PutAssertion, Result, Preserves, LedgerMove
<1>3. CASE SupersedeFault(e, a, olds) = "ACCEPTED" /\ AssertionFault(e, id, a) = "ACCEPTED"
  <2>1. /\ RangeOf(olds) \subseteq DOMAIN e.assertions
        /\ RangeOf(olds) \cap DOMAIN e.close = {}
        /\ \A o \in RangeOf(olds) : ~ (a.time <= e.assertions[o].time)
    BY <1>3 DEF SupersedeFault
  <2>2. /\ Sound(f) /\ Extends(e, f)
        /\ f.assertions = Put(e.assertions, id, a) /\ f.close = e.close
        /\ id \notin DOMAIN e.assertions
    BY <1>3, AddAssertionSound
  <2>3. PutAssertion(e, id, a) = Result(f, "ACCEPTED")
    BY <1>3 DEF PutAssertion
  <2>4. s \in Derivation
    BY DEF SupersessionOf, Derivation, Kind, RangeOf, Primitive
  <2>5. CASE DerivationFault(f, did, s) # "ACCEPTED"
    <3>1. Supersede(e, id, a, olds, did).eng = f
      BY <1>3, <2>3, <2>5 DEF Supersede, AddDerivation, Result
    <3> QED BY <2>2, <3>1, RecordMove DEF Preserves, Sound
  <2>6. CASE DerivationFault(f, did, s) = "ACCEPTED"
    <3>1. /\ Sound(g) /\ Extends(f, g) /\ g.derivations = Put(f.derivations, did, s)
          /\ g.assertions = f.assertions /\ g.close = f.close
      BY <2>2, <2>4, <2>6, AddDerivationSound
    <3>2. Supersede(e, id, a, olds, did).eng = h
      BY <1>3, <2>3, <2>6 DEF Supersede, AddDerivation, CloseAll, Result
    <3>3. done \subseteq RangeOf(olds) /\ RangeOf(olds) \subseteq AssertionId
      BY DEF ClosedByLoop, RangeOf
    <3>4. /\ did \in DOMAIN g.derivations /\ g.derivations[did] = s
          /\ s.kind = "supersession" /\ s.consequent = id /\ s.antecedents = RangeOf(olds)
      BY <3>1 DEF Put, SupersessionOf
    <3>5. /\ DOMAIN g.assertions = DOMAIN e.assertions \cup {id}
          /\ g.assertions[id] = a
          /\ \A o \in DOMAIN e.assertions : g.assertions[o] = e.assertions[o]
      BY <2>2, <3>1 DEF Put
    <3>6. \A o \in RangeOf(olds) : e.assertions[o].time < a.time
      <4>1. e.assertions \in Dict(AssertionId, Assertion)
        BY DEF Sound, Engine
      <4>2. \A o \in DOMAIN e.assertions : e.assertions[o] \in Assertion
        BY <4>1, DictGet
      <4>3. a.time \in Int /\ \A o \in DOMAIN e.assertions : e.assertions[o].time \in Int
        BY <4>2, TimeAssumption DEF Assertion
      <4> QED BY <2>1, <4>3
    <3>7. a.time \in Time
      BY DEF Assertion
    <3> HIDE DEF g, s, done
    <3>8. /\ Sound(h) /\ Extends(g, h) /\ h.close = PutAll(g.close, done, a.time) /\ h.assertions = g.assertions
      <4>1. done \in SUBSET AssertionId /\ done \subseteq DOMAIN g.assertions
        BY <2>1, <3>3, <3>5
      <4>2. \A o \in done : g.assertions[o].time < a.time
        BY <2>1, <3>3, <3>5, <3>6
      <4>3. /\ g.derivations[did].kind = "supersession"
            /\ done \subseteq g.derivations[did].antecedents
            /\ g.assertions[g.derivations[did].consequent].time = a.time
        BY <3>3, <3>4, <3>5
      <4>4. Sound(g) /\ did \in DOMAIN g.derivations
        BY <3>1, <3>4
      <4> QED BY <3>7, <4>1, <4>2, <4>3, <4>4, CloseSound
    <3>9. LedgerMove(e, h)
      <4>1. h.assertions = Put(e.assertions, id, a) /\ h.close = PutAll(e.close, done, a.time)
        BY <2>2, <3>1, <3>8
      <4>2. done \subseteq DOMAIN e.assertions \ DOMAIN e.close /\ done \in SUBSET AssertionId
        BY <2>1, <3>3
      <4>3. \A o \in done : e.assertions[o].time < a.time
        BY <3>3, <3>6
      <4> HIDE DEF h
      <4> QED BY <2>2, <4>1, <4>2, <4>3 DEF LedgerMove
    <3>10. Extends(e, h)
      BY <2>2, <3>1, <3>8, ExtendsTransitive
    <3> QED BY <3>2, <3>8, <3>9, <3>10 DEF Preserves
  <2> QED BY <2>5, <2>6
<1> QED BY <1>1, <1>2, <1>3

LEMMA RetractPreserves ==
  ASSUME NEW e, Sound(e), NEW id \in AssertionId, NEW g \in AgentId,
         NEW S \in SUBSET EntityId, NEW t \in Time, NEW old \in AssertionId,
         NEW did \in DerivationId
  PROVE  Preserves(e, Retract(e, id, g, S, t, old, did).eng)
<1> DEFINE a == [agent |-> g, subjects |-> S, prop |-> RETRACTED, time |-> t]
<1>1. a \in Assertion
  BY DEF Assertion, Token
<1>2. <<old>> \in Seq(AssertionId)
  OBVIOUS
<1> QED BY <1>1, <1>2, SupersedePreserves DEF Retract

LEMMA SplitPreserves ==
  ASSUME NEW e, Sound(e), NEW id \in AssertionId, NEW g \in AgentId, NEW t \in Time,
         NEW cor \in AssertionId, NEW did \in DerivationId
  PROVE  Preserves(e, Split(e, cor, g, t, id, did).eng)
<1>1. e.assertions \in Dict(AssertionId, Assertion)
  BY DEF Sound, Engine
<1>2. \A a \in DOMAIN e.assertions : e.assertions[a] \in Assertion
  BY <1>1, DictGet
<1>3. SubjectsOf(e, cor) \in SUBSET EntityId
  BY <1>2 DEF SubjectsOf, Assertion
<1> QED BY <1>3, RetractPreserves DEF Split

LEMMA CoreferPreserves ==
  ASSUME NEW e, Sound(e), NEW id \in AssertionId, NEW x \in EntityId, NEW y \in EntityId,
         NEW g \in AgentId, NEW t \in Time
  PROVE  Preserves(e, Corefer(e, id, x, y, g, t).eng)
<1> DEFINE a == [agent |-> g, subjects |-> {x, y}, prop |-> COREF, time |-> t]
           f == WithAssertion(e, id, a)
           h == [f EXCEPT !.corefs = Put(@, id, {x, y})]
<1>1. a \in Assertion
  BY DEF Assertion, Token
<1>2. CASE AssertionFault(e, id, a) # "ACCEPTED"
  BY <1>2, ExtendsItself DEF Corefer, PutAssertion, Result, Preserves, LedgerMove
<1>3. CASE AssertionFault(e, id, a) = "ACCEPTED"
  <2>1. Corefer(e, id, x, y, g, t).eng = h
    BY <1>3 DEF Corefer, PutAssertion, Result
  <2>2. /\ Sound(f) /\ Extends(e, f)
        /\ f.assertions = Put(e.assertions, id, a) /\ f.close = e.close
        /\ id \notin DOMAIN e.assertions
    BY <1>1, <1>3, AddAssertionSound
  <2>3. id \in DOMAIN f.assertions /\ f.assertions[id] = a
    BY <2>2 DEF Put
  <2>4. a.subjects = {x, y} /\ a.prop = COREF /\ {x, y} \in SUBSET EntityId
    OBVIOUS
  <2> HIDE DEF f
  <2>5. Sound(h) /\ Extends(f, h)
    BY <2>2, <2>3, <2>4, RegisterSound
  <2>6. h.assertions = f.assertions /\ h.close = f.close
    BY <2>2 DEF Sound, Engine
  <2> HIDE DEF h
  <2>7. LedgerMove(e, h)
    BY <1>1, <2>2, <2>6, RecordMove DEF Sound
  <2>8. Extends(e, h)
    BY <2>2, <2>5, ExtendsTransitive
  <2> QED BY <2>1, <2>5, <2>7, <2>8 DEF Preserves
<1> QED BY <1>2, <1>3

(* Declaring the `not:' pair of an accepted token changes no claim. *)
LEMMA NegationPreserves ==
  ASSUME NEW e, NEW r, NEW p \in Prop, Preserves(e, r.eng)
  PROVE  Preserves(e, WithNegation(r, p).eng)
<1> DEFINE f == [r.eng EXCEPT !.contra = @ \cup {{p, Neg[p]}}]
<1>1. Neg[p] \in Prop
  BY NegAssumption
<1>2. Sound(f) /\ Extends(r.eng, f)
  BY <1>1, AddContraSound DEF Preserves
<1>3. f.assertions = r.eng.assertions /\ f.close = r.eng.close
  BY DEF Preserves, Sound, Engine
<1> HIDE DEF f
<1>4. LedgerMove(e, f)
  BY <1>3 DEF Preserves, LedgerMove
<1>5. Extends(e, f)
  BY <1>2, ExtendsTransitive DEF Preserves
<1> QED BY <1>2, <1>4, <1>5 DEF WithNegation, Result, Preserves, f

------------------------------------------------------------------------------
(* What the queries compute.  Reachability is stated with closed sets, so  *)
(* each lemma below argues about every set a query quantifies over.        *)

(* A larger graph reaches more. *)
LEMMA AntecedentsGrow ==
  ASSUME NEW e, NEW f, Extends(e, f), NEW n
  PROVE  Antecedents(e, n) \subseteq Antecedents(f, n)
BY DEF Extends, Antecedents

LEMMA ReachedGrow ==
  ASSUME NEW e, NEW f, Extends(e, f), NEW A, NEW B, A \subseteq B
  PROVE  ReachedAssertions(e, A) \subseteq ReachedAssertions(f, B)
<1> SUFFICES ASSUME NEW b \in ReachedAssertions(e, A), NEW S \in SUBSET AssertionId,
                    B \cap AssertionId \subseteq S, Closed(f, S)
             PROVE  b \in S /\ b \in AssertionId
  BY DEF ReachedAssertions
<1>1. Closed(e, S)
  BY AntecedentsGrow DEF Closed
<1>2. A \cap AssertionId \subseteq S
  OBVIOUS
<1> QED BY <1>1, <1>2 DEF ReachedAssertions

LEMMA ProvenanceGrows ==
  ASSUME NEW e, NEW f, Extends(e, f), NEW a
  PROVE  Provenance(e, a) \subseteq Provenance(f, a)
<1>1. Antecedents(e, a) \subseteq Antecedents(f, a)
  BY AntecedentsGrow
<1>2. ReachedAssertions(e, Antecedents(e, a)) \subseteq ReachedAssertions(f, Antecedents(f, a))
  BY <1>1, ReachedGrow
<1>3. \A b : Antecedents(e, b) \subseteq Antecedents(f, b)
  BY AntecedentsGrow
<1> QED BY <1>1, <1>2, <1>3 DEF Provenance

(* The complement of a set that respects the coreferences respects them    *)
(* too: every registered pair is a pair of recorded entities.              *)
LEMMA ComplementRespects ==
  ASSUME NEW e, Wired(e), NEW T, NEW S \in SUBSET e.entities, RespectsCorefs(e, S, T)
  PROVE  RespectsCorefs(e, e.entities \ S, T)
<1>1. \A c \in DOMAIN e.corefs : e.corefs[c] \subseteq e.entities
  BY DEF Wired, ViewsWired, AssertionsWired
<1> QED BY <1>1 DEF RespectsCorefs

(* Referent is the class of an equivalence: its members share it. *)
LEMMA OneReferent ==
  ASSUME NEW e, Wired(e), NEW T, NEW x \in e.entities, NEW y \in Referent(e, x, T)
  PROVE  Referent(e, y, T) = Referent(e, x, T)
<1>1. y \in e.entities
  BY DEF Referent
<1>2. \A S \in SUBSET e.entities : RespectsCorefs(e, S, T) /\ x \in S => y \in S
  BY DEF Referent
<1>3. \A S \in SUBSET e.entities : RespectsCorefs(e, S, T) /\ y \in S => x \in S
  <2> SUFFICES ASSUME NEW S \in SUBSET e.entities, RespectsCorefs(e, S, T), y \in S, x \notin S
               PROVE  FALSE
    OBVIOUS
  <2>1. RespectsCorefs(e, e.entities \ S, T) /\ x \in e.entities \ S
    BY ComplementRespects
  <2>2. y \in e.entities \ S
    BY <1>2, <2>1
  <2> QED BY <2>2
<1> QED BY <1>1, <1>2, <1>3 DEF Referent

(* The declared pairs are unordered. *)
LEMMA ContradictsSymmetric ==
  ASSUME NEW e, NEW p, NEW q, Contradicts(e, p, q)
  PROVE  Contradicts(e, q, p)
<1>1. {p, q} = {q, p}
  OBVIOUS
<1> QED BY <1>1 DEF Contradicts

(* An open claim stands against another in Conflicts, on either side of    *)
(* the pair, when the two speak of one subject set with opposed tokens.    *)
LEMMA ConflictChar ==
  ASSUME NEW e, NEW T, NEW a \in DOMAIN e.assertions, OpenAt(e, a, T),
         e.assertions[a].prop # RETRACTED
  PROVE  /\ a \in Speaking(e, e.assertions[a].subjects, T)
         /\ a \in UNION Conflicts(e, T) <=>
              \E b \in Speaking(e, e.assertions[a].subjects, T) :
                 Contradicts(e, e.assertions[b].prop, e.assertions[a].prop)
<1>1. a \in Speaking(e, e.assertions[a].subjects, T)
  BY DEF Speaking
<1>2. ASSUME NEW b \in Speaking(e, e.assertions[a].subjects, T),
             Contradicts(e, e.assertions[b].prop, e.assertions[a].prop)
      PROVE  a \in UNION Conflicts(e, T)
  <2>1. b \in Opposing(e, a, T)
    BY <1>1, <1>2, ContradictsSymmetric DEF Opposing
  <2>2. {a, b} \in Conflicts(e, T)
    BY <2>1 DEF Conflicts
  <2> QED BY <2>2
<1>3. ASSUME a \in UNION Conflicts(e, T)
      PROVE  \E b \in Speaking(e, e.assertions[a].subjects, T) :
                Contradicts(e, e.assertions[b].prop, e.assertions[a].prop)
  <2>1. PICK c \in DOMAIN e.assertions : \E x \in Opposing(e, c, T) : a \in {c, x}
    BY <1>3 DEF Conflicts
  <2> PICK b \in Opposing(e, c, T) : a \in {c, b}
    BY <2>1
  <2>2. CASE a = c
    BY <2>2, ContradictsSymmetric DEF Opposing
  <2>3. CASE a = b
    <3>1. c \in Speaking(e, e.assertions[c].subjects, T)
      BY DEF Opposing
    <3>2. Reduce(e, e.assertions[a].subjects, T) = Reduce(e, e.assertions[c].subjects, T)
      BY <2>3 DEF Opposing, Speaking
    <3>3. c \in Speaking(e, e.assertions[a].subjects, T)
      BY <3>1, <3>2 DEF Speaking
    <3> QED BY <2>3, <3>3 DEF Opposing
  <2> QED BY <2>2, <2>3
<1> QED BY <1>1, <1>2, <1>3

(* A set of assertions no supersession link leaves or enters. *)
Links(e) == {d \in DOMAIN e.derivations : e.derivations[d].kind = "supersession"}
Ends(e, d) ==
  ({e.derivations[d].consequent} \cup e.derivations[d].antecedents) \cap DOMAIN e.assertions
WholeSet(e, S) == \A d \in Links(e) : Ends(e, d) \subseteq S \/ Ends(e, d) \cap S = {}

LEMMA ChainChar ==
  ASSUME NEW e, NEW a
  PROVE  RevisionChain(e, a) =
           {b \in DOMAIN e.assertions :
              \A S \in SUBSET DOMAIN e.assertions : WholeSet(e, S) /\ a \in S => b \in S}
BY DEF RevisionChain, WholeSet, Links, Ends

LEMMA ChainSymmetric ==
  ASSUME NEW e, NEW a \in DOMAIN e.assertions, NEW b \in RevisionChain(e, a)
  PROVE  a \in RevisionChain(e, b)
<1> SUFFICES ASSUME NEW S \in SUBSET DOMAIN e.assertions, WholeSet(e, S), b \in S, a \notin S
             PROVE  FALSE
  BY ChainChar
<1>1. WholeSet(e, DOMAIN e.assertions \ S)
  BY DEF WholeSet, Ends
<1>2. b \in DOMAIN e.assertions \ S
  BY <1>1, ChainChar
<1> QED BY <1>2

(* What a recorded supersession replaces and what replaces it: one chain. *)
LEMMA ChainFollows ==
  ASSUME NEW e, NEW a \in DOMAIN e.assertions, NEW d \in DOMAIN e.derivations,
         e.derivations[d].kind = "supersession", a \in e.derivations[d].antecedents,
         e.derivations[d].consequent \in DOMAIN e.assertions
  PROVE  e.derivations[d].consequent \in RevisionChain(e, a)
<1> DEFINE c == e.derivations[d].consequent
<1>1. d \in Links(e) /\ {a, c} \subseteq Ends(e, d)
  BY DEF Links, Ends
<1>2. ASSUME NEW S \in SUBSET DOMAIN e.assertions, WholeSet(e, S), a \in S
      PROVE  c \in S
  BY <1>1, <1>2 DEF WholeSet
<1> QED BY <1>2, ChainChar

------------------------------------------------------------------------------
(* Every call of the engine preserves Sound and moves the ledger properly. *)
LEMMA NextPreserves ==
  ASSUME Sound(eng), Next
  PROVE  Preserves(eng, eng')
<1>1. CASE RecordEntity
  BY <1>1, EntityPreserves DEF RecordEntity
<1>2. CASE RecordEvent
  BY <1>2, EventPreserves DEF RecordEvent
<1>3. CASE RecordAgent
  BY <1>3, AgentPreserves DEF RecordAgent
<1>4. CASE AssertClaim
  <2>1. PICK id \in AssertionId, g \in AgentId, S \in SubjectSets, p \in ClaimProps, t \in Time :
          eng' = ApplyAssert(eng, id, [agent |-> g, subjects |-> S, prop |-> p, time |-> t]).eng
    BY <1>4 DEF AssertClaim
  <2> DEFINE a == [agent |-> g, subjects |-> S, prop |-> p, time |-> t]
             r == PutAssertion(eng, id, a)
  <2>2. a \in Assertion /\ a.prop = p /\ p \in Prop
    BY InputAssumption DEF Assertion, Token
  <2>3. Preserves(eng, r.eng)
    BY <2>2, PutAssertionPreserves
  <2>4. eng' = WithNegation(r, p).eng
    BY <2>1, <2>2 DEF ApplyAssert
  <2> HIDE DEF r
  <2> QED BY <2>2, <2>3, <2>4, NegationPreserves
<1>5. CASE DeriveClaim
  <2>1. PICK id \in DerivationId, c \in AssertionId, A \in AntecedentSets, k \in Kind :
          eng' = Derive(eng, id, c, A, k).eng
    BY <1>5 DEF DeriveClaim
  <2>2. [consequent |-> c, antecedents |-> A, kind |-> k] \in Derivation
    BY InputAssumption DEF Derivation
  <2> QED BY <2>1, <2>2, DerivePreserves DEF Derive
<1>6. CASE SupersedeClaim
  <2>1. PICK id \in AssertionId, g \in AgentId, S \in SubjectSets, p \in ClaimProps, t \in Time,
             olds \in OldLists, did \in DerivationId :
          eng' = ApplySupersede(eng, id, [agent |-> g, subjects |-> S, prop |-> p, time |-> t],
                                olds, did).eng
    BY <1>6 DEF SupersedeClaim
  <2> DEFINE a == [agent |-> g, subjects |-> S, prop |-> p, time |-> t]
             r == Supersede(eng, id, a, olds, did)
  <2>2. a \in Assertion /\ a.prop = p /\ p \in Prop /\ olds \in Seq(AssertionId)
    BY InputAssumption DEF Assertion, Token
  <2>3. Preserves(eng, r.eng)
    BY <2>2, SupersedePreserves
  <2>4. eng' = WithNegation(r, p).eng
    BY <2>1, <2>2 DEF ApplySupersede
  <2> HIDE DEF r
  <2> QED BY <2>2, <2>3, <2>4, NegationPreserves
<1>7. CASE RetractClaim
  <2>1. \A S \in SubjectSets : S \in SUBSET EntityId
    BY InputAssumption
  <2> QED BY <1>7, <2>1, RetractPreserves DEF RetractClaim
<1>8. CASE CoreferEntities
  BY <1>8, CoreferPreserves DEF CoreferEntities
<1>9. CASE SplitEntities
  BY <1>9, SplitPreserves DEF SplitEntities
<1>10. CASE DeclareContradiction
  BY <1>10, DeclarePreserves DEF DeclareContradiction
<1> QED
  BY <1>1, <1>2, <1>3, <1>4, <1>5, <1>6, <1>7, <1>8, <1>9, <1>10 DEF Next

(* The inductive invariant holds of every engine the calls can build.      *)
THEOREM EngineSound == Spec => []Sound(eng)
<1>1. Init => Sound(eng)
  BY InitSound DEF Init
<1>2. Sound(eng) /\ [Next]_eng => Sound(eng)'
  BY NextPreserves DEF Preserves
<1> QED BY <1>1, <1>2, PTL DEF Spec

(* The engine's dictionaries hold primitives of their type.                *)
THEOREM TypeCorrect == Spec => []TypeOK
<1>1. Sound(eng) => TypeOK
  BY EngineChar DEF Sound, TypeOK
<1> QED BY <1>1, EngineSound, PTL

(* INV-1, INV-2, INV-3, INV-6, INV-7: whatever a primitive mentions is     *)
(* recorded and is of one kind, after every accepted, rejected or          *)
(* half-applied call.                                                      *)
THEOREM AlwaysWired == Spec => []NothingDangles
<1>1. Sound(eng) => NothingDangles
  BY DEF Sound, NothingDangles
<1> QED BY <1>1, EngineSound, PTL

(* INV-5: the cycle test before each insertion keeps the graph acyclic,    *)
(* for any number of assertions and derivations of any kind.               *)
THEOREM AlwaysAcyclic == Spec => []DerivationsAcyclic
<1>1. Sound(eng) => DerivationsAcyclic
  BY DEF Sound, DerivationsAcyclic
<1> QED BY <1>1, EngineSound, PTL

(* INV-9, N5: every close bound is the start of a recorded replacement and *)
(* lies after the start of what it closes.                                 *)
THEOREM AlwaysBacked == Spec => []ClosesBacked
<1>1. Sound(eng) => ClosesBacked
  BY DEF Sound, ClosesBacked
<1> QED BY <1>1, EngineSound, PTL

(* The engine implements the ledger of beliefs.                            *)
THEOREM EngineImplementsLedger == Spec => ImplementsLedger
<1>1. Init => Ledger!LedgerInit
  BY DEF Init, NewEngine, EmptyDict, Ledger!LedgerInit
<1>2. Sound(eng) /\ [Next]_eng => [Ledger!LedgerNext]_(Ledger!ledger)
  <2> SUFFICES ASSUME Sound(eng), [Next]_eng
               PROVE  [Ledger!LedgerNext]_(Ledger!ledger)
    OBVIOUS
  <2>1. CASE UNCHANGED eng
    BY <2>1 DEF Ledger!ledger
  <2>2. CASE Next
    <3>1. LedgerMove(eng, eng')
      BY <2>2, NextPreserves DEF Preserves
    <3>2. CASE eng'.assertions = eng.assertions /\ eng'.close = eng.close
      BY <3>2 DEF Ledger!ledger
    <3>3. CASE \E c \in AssertionId, x \in Assertion : \E S \in SUBSET AssertionId :
                 /\ c \notin DOMAIN eng.assertions
                 /\ S \subseteq DOMAIN eng.assertions \ DOMAIN eng.close
                 /\ \A o \in S : eng.assertions[o].time < x.time
                 /\ eng'.assertions = Put(eng.assertions, c, x)
                 /\ eng'.close = PutAll(eng.close, S, x.time)
      <4>1. PICK c \in AssertionId, x \in Assertion :
              \E S \in SUBSET AssertionId :
                 /\ c \notin DOMAIN eng.assertions
                 /\ S \subseteq DOMAIN eng.assertions \ DOMAIN eng.close
                 /\ \A o \in S : eng.assertions[o].time < x.time
                 /\ eng'.assertions = Put(eng.assertions, c, x)
                 /\ eng'.close = PutAll(eng.close, S, x.time)
        BY <3>3
      <4>2. eng'.assertions[c] = x
        BY <4>1 DEF Put
      <4>3. Ledger!Record(c)
        BY <4>1, <4>2 DEF Ledger!Record, Put
      <4>4. \E S \in SUBSET AssertionId : Ledger!EndAll(S, eng'.assertions[c].time)
        BY <4>1, <4>2 DEF Ledger!EndAll, PutAll
      <4> QED BY <4>3, <4>4 DEF Ledger!LedgerNext
    <3> QED BY <3>1, <3>2, <3>3 DEF LedgerMove
  <2> QED BY <2>1, <2>2
<1> QED BY <1>1, <1>2, EngineSound, PTL DEF Spec, ImplementsLedger, Ledger!LedgerSpec
------------------------------------------------------------------------------
(* The queries of a sound engine agree with each other, now and over time. *)

(* 15.3: every call only adds to the store and to the graph, so what the   *)
(* evidence of a claim reaches is never lost.                              *)
THEOREM EvidenceStays == Spec => GroundedForEver
<1>1. ASSUME Extends(eng, eng'), NEW a \in DOMAIN eng.assertions, Grounded(eng, a)
      PROVE  Grounded(eng', a)
  <2>1. Provenance(eng, a) \subseteq Provenance(eng', a)
    BY <1>1, ProvenanceGrows
  <2>2. eng.events \subseteq eng'.events
    BY <1>1 DEF Extends
  <2> QED BY <1>1, <2>1, <2>2 DEF Grounded
<1>2. Sound(eng) /\ [Next]_eng =>
        [\A a \in DOMAIN eng.assertions : Grounded(eng, a) => Grounded(eng', a)]_eng
  BY <1>1, NextPreserves DEF Preserves
<1> QED BY <1>2, EngineSound, PTL DEF Spec, GroundedForEver

(* 12.3, J-1: the answer does not depend on the name the question uses.    *)
THEOREM NamesInterchange == Spec => []NamesAreInterchangeable
<1>1. Sound(eng) => NamesAreInterchangeable
  <2> SUFFICES ASSUME Sound(eng), NEW T \in Time, NEW x \in eng.entities, NEW y \in eng.entities,
                      y \in Referent(eng, x, T)
               PROVE  /\ BeliefsAbout(eng, x, T) = BeliefsAbout(eng, y, T)
                      /\ \A r \in Prop :
                           PropositionState(eng, {x}, r, T) = PropositionState(eng, {y}, r, T)
    BY DEF NamesAreInterchangeable
  <2>1. Referent(eng, y, T) = Referent(eng, x, T)
    BY OneReferent DEF Sound
  <2>2. BeliefsAbout(eng, x, T) = BeliefsAbout(eng, y, T)
    BY <2>1 DEF BeliefsAbout
  <2>3. Reduce(eng, {x}, T) = Reduce(eng, {y}, T)
    BY <2>1 DEF Reduce
  <2>4. Speaking(eng, {x}, T) = Speaking(eng, {y}, T)
    BY <2>3 DEF Speaking
  <2> QED BY <2>2, <2>4 DEF PropositionState
<1> QED BY <1>1, EngineSound, PTL

(* 8.8, App. B: conflicts() and proposition_state() are computed apart and *)
(* tell of the same contradictions.                                        *)
THEOREM ConflictViews == Spec => []ConflictViewsAgree
<1>1. ConflictViewsAgree
  <2> SUFFICES ASSUME NEW T \in Time, NEW a \in DOMAIN eng.assertions, OpenAt(eng, a, T),
                      eng.assertions[a].prop \in Prop
               PROVE  (a \in UNION Conflicts(eng, T)) <=>
                      (PropositionState(eng, eng.assertions[a].subjects,
                                        eng.assertions[a].prop, T) = "CONTRADICTED")
    BY DEF ConflictViewsAgree
  <2>1. eng.assertions[a].prop # RETRACTED
    BY ReservedAssumption
  <2>2. /\ a \in Speaking(eng, eng.assertions[a].subjects, T)
        /\ a \in UNION Conflicts(eng, T) <=>
             \E b \in Speaking(eng, eng.assertions[a].subjects, T) :
                Contradicts(eng, eng.assertions[b].prop, eng.assertions[a].prop)
    BY <2>1, ConflictChar
  <2> QED BY <2>2 DEF PropositionState
<1> QED BY <1>1, PTL

(* 13.5: chains partition the assertions, and a closed assertion is        *)
(* followed in its chain by the one that took its place.                   *)
THEOREM WholeChains == Spec => []ChainsAreWhole
<1>1. Sound(eng) => ChainsAreWhole
  <2> SUFFICES ASSUME Sound(eng), NEW a \in DOMAIN eng.assertions, NEW b \in DOMAIN eng.assertions
               PROVE  /\ b \in RevisionChain(eng, a) <=> a \in RevisionChain(eng, b)
                      /\ a \in DOMAIN eng.close =>
                           \E c \in RevisionChain(eng, a) : eng.assertions[c].time = eng.close[a]
    BY DEF ChainsAreWhole
  <2>1. b \in RevisionChain(eng, a) <=> a \in RevisionChain(eng, b)
    BY ChainSymmetric
  <2>2. ASSUME a \in DOMAIN eng.close
        PROVE  \E c \in RevisionChain(eng, a) : eng.assertions[c].time = eng.close[a]
    <3>1. PICK d \in DOMAIN eng.derivations :
                 /\ eng.derivations[d].kind = "supersession"
                 /\ a \in eng.derivations[d].antecedents
                 /\ eng.assertions[eng.derivations[d].consequent].time = eng.close[a]
      BY <2>2 DEF Sound, Backed
    <3>2. eng.derivations[d].consequent \in DOMAIN eng.assertions
      BY DEF Sound, Wired, DerivationsWired
    <3>3. eng.derivations[d].consequent \in RevisionChain(eng, a)
      BY <3>1, <3>2, ChainFollows
    <3> QED BY <3>1, <3>3
  <2> QED BY <2>1, <2>2
<1> QED BY <1>1, EngineSound, PTL
==============================================================================
