------------------------------ MODULE EngineOps ------------------------------
(***************************************************************************)
(* The operations and queries of the OMEM engine (server/omem_engine) as   *)
(* operators on an engine value.  An engine is a record                    *)
(*                                                                         *)
(*   entities, events     sets of recorded ids                             *)
(*   agents               agent id      -> recorded existence time         *)
(*   assertions           assertion id  -> [agent, subjects, prop, time]   *)
(*   derivations          derivation id -> [consequent, antecedents, kind] *)
(*   close                assertion id  -> close time   (IntervalLedger)   *)
(*   corefs               assertion id  -> entity pair  (CoreferenceReg.)  *)
(*   contra               declared contradiction pairs                     *)
(*                                                                         *)
(* An operation returns the engine it leaves behind and the code the       *)
(* caller sees.  A rejected operation may leave a CHANGED engine behind:   *)
(* supersede records the new assertion before the derivation is checked.   *)
(* No operator here is RECURSIVE: reachability is stated with closed sets. *)
(***************************************************************************)
EXTENDS Integers, Sequences

CONSTANTS
  EntityId, EventId, AgentId,   \* the ids the five primitives draw from: one
  AssertionId, DerivationId,    \*   name space, so the sets may overlap
  Prop,                         \* proposition tokens in canonical form
  Neg,                          \* the `not:' counterpart of a token
  RETRACTED, COREF,             \* reserved: retraction, coreference claim
  Time                          \* logical times

ASSUME TimeAssumption == Time \subseteq Int
ASSUME NegAssumption  == Neg \in [Prop -> Prop] /\ \A p \in Prop : Neg[p] # p
ASSUME ReservedAssumption ==
  RETRACTED \notin Prop /\ COREF \notin Prop /\ RETRACTED # COREF

Token == Prop \cup {RETRACTED, COREF}
Kind  == {"inference", "supersession"}   \* every other kind acts as inference

Assertion  == [agent : AgentId, subjects : SUBSET EntityId, prop : Token, time : Time]
Primitive  == EntityId \cup EventId \cup AgentId \cup AssertionId \cup DerivationId
Derivation == [consequent : AssertionId, antecedents : SUBSET Primitive, kind : Kind]

(* A Python dict: a function whose domain grows. *)
EmptyDict == [x \in {} |-> x]
Put(d, k, v) == [x \in DOMAIN d \cup {k} |-> IF x = k THEN v ELSE d[x]]
PutAll(d, ks, v) == [x \in DOMAIN d \cup ks |-> IF x \in ks THEN v ELSE d[x]]
DictOf(d, K, V) == DOMAIN d \subseteq K /\ d \in [DOMAIN d -> V]

NewEngine ==
  [entities |-> {}, events |-> {}, agents |-> EmptyDict,
   assertions |-> EmptyDict, derivations |-> EmptyDict,
   close |-> EmptyDict, corefs |-> EmptyDict, contra |-> {}]

Result(e, c) == [eng |-> e, code |-> c]

------------------------------------------------------------------------------
(* The store: append-only, every id unique across the five primitives. *)

(* Mutant of Known: derivation ids left out of the uniqueness test. *)
KnownButDerivations(e, id) ==
  \/ id \in e.entities \cup e.events
  \/ id \in DOMAIN e.agents \cup DOMAIN e.assertions

Known(e, id) ==
  \/ id \in e.entities \cup e.events
  \/ id \in DOMAIN e.agents \cup DOMAIN e.assertions \cup DOMAIN e.derivations

PutEntity(e, id) ==
  IF Known(e, id) THEN Result(e, "R_MUTATION")
  ELSE Result([e EXCEPT !.entities = @ \cup {id}], "ACCEPTED")

(* Mutant of PutEvent: stored under the wrong kind. *)
PutEventAsEntity(e, id) ==
  IF Known(e, id) THEN Result(e, "R_MUTATION")
  ELSE Result([e EXCEPT !.entities = @ \cup {id}], "ACCEPTED")

PutEvent(e, id) ==
  IF Known(e, id) THEN Result(e, "R_MUTATION")
  ELSE Result([e EXCEPT !.events = @ \cup {id}], "ACCEPTED")

PutAgent(e, id, existence) ==
  IF Known(e, id) THEN Result(e, "R_MUTATION")
  ELSE Result([e EXCEPT !.agents = Put(@, id, existence)], "ACCEPTED")

(* The checks of put_assertion, in the order the code makes them. *)
AssertionFault(e, id, a) ==
  IF Known(e, id) THEN "R_MUTATION"
  ELSE IF a.agent \notin DOMAIN e.agents THEN "R_NO_AGENT"
  ELSE IF a.subjects = {} THEN "R_NO_SUBJECT"
  ELSE IF ~ (a.subjects \subseteq e.entities) THEN "R_DANGLING"
  ELSE IF a.time < e.agents[a.agent] THEN "R_TEMPORAL"
  ELSE "ACCEPTED"

WithAssertion(e, id, a) == [e EXCEPT !.assertions = Put(@, id, a)]

PutAssertion(e, id, a) ==
  LET fault == AssertionFault(e, id, a)
  IN  Result(IF fault = "ACCEPTED" THEN WithAssertion(e, id, a) ELSE e, fault)

------------------------------------------------------------------------------
(* The derivation graph. *)

(* One hop toward the antecedents. *)
Antecedents(e, n) ==
  UNION {e.derivations[d].antecedents : d \in {x \in DOMAIN e.derivations :
                                                 e.derivations[x].consequent = n}}

(* Only assertions are consequents, so a walk passes through assertions. *)
Closed(e, S) == \A c \in S : Antecedents(e, c) \cap AssertionId \subseteq S

(* Assertions reachable from the set A, A included. *)
ReachedAssertions(e, A) ==
  {b \in AssertionId :
     \A S \in SUBSET AssertionId :
        (A \cap AssertionId \subseteq S /\ Closed(e, S)) => b \in S}

(* Mutant of WouldCycle: only a claim that supports itself is refused. *)
SupportsItself(e, d) == d.consequent \in d.antecedents

WouldCycle(e, d) == d.consequent \in ReachedAssertions(e, d.antecedents)

(* Mutant of DerivationFault: an id may be recorded again. *)
RewritableDerivation(e, id, d) ==
  IF d.consequent \notin DOMAIN e.assertions THEN "R_DANGLING"
  ELSE IF d.antecedents = {} THEN "R_DANGLING"
  ELSE IF \E x \in d.antecedents : ~ Known(e, x) THEN "R_DANGLING"
  ELSE IF WouldCycle(e, d) THEN "R_CYCLE"
  ELSE "ACCEPTED"

DerivationFault(e, id, d) ==
  IF Known(e, id) THEN "R_MUTATION"
  ELSE IF d.consequent \notin DOMAIN e.assertions THEN "R_DANGLING"
  ELSE IF d.antecedents = {} THEN "R_DANGLING"
  ELSE IF \E x \in d.antecedents : ~ Known(e, x) THEN "R_DANGLING"
  ELSE IF WouldCycle(e, d) THEN "R_CYCLE"
  ELSE "ACCEPTED"

WithDerivation(e, id, d) == [e EXCEPT !.derivations = Put(@, id, d)]

AddDerivation(e, id, d) ==
  LET fault == DerivationFault(e, id, d)
  IN  Result(IF fault = "ACCEPTED" THEN WithDerivation(e, id, d) ELSE e, fault)

Provenance(e, a) ==
  LET direct == Antecedents(e, a)
  IN  direct \cup UNION {Antecedents(e, b) : b \in ReachedAssertions(e, direct)}

Grounded(e, a) == Provenance(e, a) \cap e.events # {}

------------------------------------------------------------------------------
(* Revision.  `olds' is the caller's list: it may be empty or name a target *)
(* twice, and then the second close raises after the first took effect.     *)

RangeOf(s) == {s[i] : i \in DOMAIN s}

(* Mutant of SupersedeFault: a closed target may be closed again. *)
ReopenAllowed(e, a, olds) ==
  IF olds = <<>> THEN "R_DANGLING"
  ELSE IF ~ (RangeOf(olds) \subseteq DOMAIN e.assertions) THEN "R_DANGLING"
  ELSE IF \E o \in RangeOf(olds) : a.time <= e.assertions[o].time THEN "R_TEMPORAL"
  ELSE "ACCEPTED"

SupersedeFault(e, a, olds) ==
  IF olds = <<>> THEN "R_DANGLING"
  ELSE IF ~ (RangeOf(olds) \subseteq DOMAIN e.assertions) THEN "R_DANGLING"
  ELSE IF RangeOf(olds) \cap DOMAIN e.close # {} THEN "R_REOPEN"
  ELSE IF \E o \in RangeOf(olds) : a.time <= e.assertions[o].time THEN "R_TEMPORAL"
  ELSE "ACCEPTED"

(* The targets closed before the loop meets one it has closed already. *)
ClosedByLoop(olds) ==
  {olds[i] : i \in {n \in DOMAIN olds :
                      \A j, k \in 1..n : j # k => olds[j] # olds[k]}}

WithCloses(e, done, t) == [e EXCEPT !.close = PutAll(@, done, t)]

CloseAll(e, olds, t) ==
  Result(WithCloses(e, ClosedByLoop(olds), t),
         IF \A j, k \in DOMAIN olds : j # k => olds[j] # olds[k]
         THEN "ACCEPTED" ELSE "ValueError")

SupersessionOf(id, olds) ==
  [consequent |-> id, antecedents |-> RangeOf(olds), kind |-> "supersession"]

(* Mutant of Supersede: the intervals are closed before the derivation that *)
(* accounts for them is accepted.                                           *)
CloseThenDerive(e, id, a, olds, did) ==
  LET fault  == SupersedeFault(e, a, olds)
      put    == PutAssertion(e, id, a)
      closed == CloseAll(put.eng, olds, a.time)
  IN  IF fault # "ACCEPTED" THEN Result(e, fault)
      ELSE IF put.code # "ACCEPTED" THEN put
      ELSE AddDerivation(closed.eng, did, SupersessionOf(id, olds))

Supersede(e, id, a, olds, did) ==
  LET fault == SupersedeFault(e, a, olds)
      put   == PutAssertion(e, id, a)
      added == AddDerivation(put.eng, did, SupersessionOf(id, olds))
  IN  IF fault # "ACCEPTED" THEN Result(e, fault)
      ELSE IF put.code # "ACCEPTED" THEN put
      ELSE IF added.code # "ACCEPTED" THEN added
      ELSE CloseAll(added.eng, olds, a.time)

Retract(e, id, agent, subjects, t, old, did) ==
  Supersede(e, id, [agent |-> agent, subjects |-> subjects, prop |-> RETRACTED, time |-> t],
            <<old>>, did)

Corefer(e, id, x, y, agent, t) ==
  LET put == PutAssertion(e, id, [agent |-> agent, subjects |-> {x, y},
                                  prop |-> COREF, time |-> t])
  IN  IF put.code # "ACCEPTED" THEN put
      ELSE Result([put.eng EXCEPT !.corefs = Put(@, id, {x, y})], "ACCEPTED")

SubjectsOf(e, a) == IF a \in DOMAIN e.assertions THEN e.assertions[a].subjects ELSE {}

Split(e, cor, agent, t, id, did) ==
  Retract(e, id, agent, SubjectsOf(e, cor), t, cor, did)

Derive(e, id, c, ants, kind) ==
  AddDerivation(e, id, [consequent |-> c, antecedents |-> ants, kind |-> kind])

Declare(e, p, q) ==
  Result(IF p = q THEN e ELSE [e EXCEPT !.contra = @ \cup {{p, q}}], "ACCEPTED")

------------------------------------------------------------------------------
(* The API's dispatch: assert and supersede also declare the `not:' pair of *)
(* the token they accepted.                                                 *)

WithNegation(r, p) ==
  IF r.code = "ACCEPTED" /\ p \in Prop
  THEN Result([r.eng EXCEPT !.contra = @ \cup {{p, Neg[p]}}], r.code)
  ELSE r

ApplyAssert(e, id, a) == WithNegation(PutAssertion(e, id, a), a.prop)

ApplySupersede(e, id, a, olds, did) ==
  WithNegation(Supersede(e, id, a, olds, did), a.prop)

------------------------------------------------------------------------------
(* Queries at a logical time T. *)

OpenAt(e, a, T) ==
  /\ a \in DOMAIN e.assertions
  /\ e.assertions[a].time <= T
  /\ a \in DOMAIN e.close => T < e.close[a]

(* Entities joined by an open coreference claim stay together. *)
RespectsCorefs(e, S, T) ==
  \A c \in DOMAIN e.corefs :
     OpenAt(e, c, T) => (e.corefs[c] \subseteq S \/ e.corefs[c] \cap S = {})

Referent(e, x, T) ==
  IF x \notin e.entities THEN {x}
  ELSE {y \in e.entities :
          \A S \in SUBSET e.entities : RespectsCorefs(e, S, T) /\ x \in S => y \in S}

ReferentPartition(e, T) == {Referent(e, x, T) : x \in e.entities}

Reduce(e, subjects, T) == {Referent(e, s, T) : s \in subjects}

Contradicts(e, p, q) == p # q /\ {p, q} \in e.contra

(* Open claims about a subject set that count for or against something. *)
Speaking(e, subjects, T) ==
  {a \in DOMAIN e.assertions :
     /\ OpenAt(e, a, T)
     /\ e.assertions[a].prop # RETRACTED
     /\ Reduce(e, e.assertions[a].subjects, T) = Reduce(e, subjects, T)}

PropositionState(e, subjects, p, T) ==
  LET for     == \E a \in Speaking(e, subjects, T) : e.assertions[a].prop = p
      against == \E a \in Speaking(e, subjects, T) : Contradicts(e, e.assertions[a].prop, p)
  IN  IF for /\ against THEN "CONTRADICTED"
      ELSE IF for THEN "BELIEVED_TRUE"
      ELSE IF against THEN "BELIEVED_FALSE"
      ELSE "UNKNOWN"

(* Mutant of BeliefsAbout: raw subjects, no coreference. *)
BeliefsByName(e, x, T) ==
  {a \in DOMAIN e.assertions : OpenAt(e, a, T) /\ x \in e.assertions[a].subjects}

BeliefsAbout(e, x, T) ==
  {a \in DOMAIN e.assertions :
     OpenAt(e, a, T) /\ e.assertions[a].subjects \cap Referent(e, x, T) # {}}

(* Mutant of Opposing: claims are grouped by raw subjects. *)
OpposingByName(e, a, T) ==
  {b \in Speaking(e, e.assertions[a].subjects, T) :
     /\ a \in Speaking(e, e.assertions[a].subjects, T)
     /\ e.assertions[a].subjects = e.assertions[b].subjects
     /\ Contradicts(e, e.assertions[a].prop, e.assertions[b].prop)}

(* The claims an open claim stands against: same referents, opposed tokens. *)
Opposing(e, a, T) ==
  {b \in Speaking(e, e.assertions[a].subjects, T) :
     /\ a \in Speaking(e, e.assertions[a].subjects, T)
     /\ Contradicts(e, e.assertions[a].prop, e.assertions[b].prop)}

Conflicts(e, T) ==
  UNION {{{a, b} : b \in Opposing(e, a, T)} : a \in DOMAIN e.assertions}

(* Mutant of RevisionChain: only what a replaced, not what replaced it. *)
ChainOfReplaced(e, a) ==
  LET links == {d \in DOMAIN e.derivations : e.derivations[d].kind = "supersession"}
  IN  {b \in DOMAIN e.assertions :
         \A S \in SUBSET DOMAIN e.assertions :
            /\ a \in S
            /\ \A d \in links : e.derivations[d].consequent \in S =>
                   e.derivations[d].antecedents \cap DOMAIN e.assertions \subseteq S
            => b \in S}

(* The assertions joined to a by supersession links, in either direction. *)
RevisionChain(e, a) ==
  LET links == {d \in DOMAIN e.derivations : e.derivations[d].kind = "supersession"}
      Whole(S) == \A d \in links :
                    LET ends == ({e.derivations[d].consequent} \cup e.derivations[d].antecedents)
                                  \cap DOMAIN e.assertions
                    IN  ends \subseteq S \/ ends \cap S = {}
  IN  {b \in DOMAIN e.assertions :
         \A S \in SUBSET DOMAIN e.assertions : Whole(S) /\ a \in S => b \in S}
==============================================================================
