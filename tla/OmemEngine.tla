------------------------------ MODULE OmemEngine ------------------------------
(***************************************************************************)
(* One engine under any sequence of calls (server/omem_engine/engine.py,   *)
(* reached through apply_op in server/api.py).  The engine has no lock and *)
(* no thread of its own, so one call is one step here; what happens when   *)
(* calls overlap is the subject of OpLog.                                 *)
(***************************************************************************)
EXTENDS EngineOps

CONSTANTS
  ClaimProps,       \* the tokens callers claim
  SubjectSets,      \* the subject lists callers pass, as sets
  OldLists,         \* the lists of superseded ids callers pass
  AntecedentSets    \* the antecedent lists callers pass, as sets

ASSUME InputAssumption ==
  /\ ClaimProps \subseteq Prop
  /\ SubjectSets \subseteq SUBSET EntityId
  /\ OldLists \subseteq Seq(AssertionId)
  /\ AntecedentSets \subseteq SUBSET Primitive

VARIABLE eng

Init == eng = NewEngine

RecordEntity == \E id \in EntityId : eng' = PutEntity(eng, id).eng

RecordEvent == \E id \in EventId : eng' = PutEvent(eng, id).eng

RecordAgent == \E id \in AgentId, t \in Time : eng' = PutAgent(eng, id, t).eng

AssertClaim ==
  \E id \in AssertionId, g \in AgentId, S \in SubjectSets, p \in ClaimProps, t \in Time :
     eng' = ApplyAssert(eng, id, [agent |-> g, subjects |-> S, prop |-> p, time |-> t]).eng

DeriveClaim ==
  \E id \in DerivationId, c \in AssertionId, A \in AntecedentSets, k \in Kind :
     eng' = Derive(eng, id, c, A, k).eng

SupersedeClaim ==
  \E id \in AssertionId, g \in AgentId, S \in SubjectSets, p \in ClaimProps, t \in Time,
     olds \in OldLists, did \in DerivationId :
     eng' = ApplySupersede(eng, id, [agent |-> g, subjects |-> S, prop |-> p, time |-> t],
                           olds, did).eng

RetractClaim ==
  \E id, old \in AssertionId, g \in AgentId, S \in SubjectSets, t \in Time,
     did \in DerivationId :
     eng' = Retract(eng, id, g, S, t, old, did).eng

CoreferEntities ==
  \E id \in AssertionId, x, y \in EntityId, g \in AgentId, t \in Time :
     eng' = Corefer(eng, id, x, y, g, t).eng

SplitEntities ==
  \E id, cor \in AssertionId, g \in AgentId, t \in Time, did \in DerivationId :
     eng' = Split(eng, cor, g, t, id, did).eng

DeclareContradiction == \E p, q \in Prop : eng' = Declare(eng, p, q).eng

Next ==
  \/ RecordEntity \/ RecordEvent \/ RecordAgent
  \/ AssertClaim \/ DeriveClaim
  \/ SupersedeClaim \/ RetractClaim
  \/ CoreferEntities \/ SplitEntities
  \/ DeclareContradiction

Spec == Init /\ [][Next]_eng

------------------------------------------------------------------------------
(* Type invariant: the engine's dictionaries hold the primitives of        *)
(* primitives.py, close bounds and entity pairs.                           *)
IsEngine(e) ==
  /\ e = [entities |-> e.entities, events |-> e.events, agents |-> e.agents,
          assertions |-> e.assertions, derivations |-> e.derivations,
          close |-> e.close, corefs |-> e.corefs, contra |-> e.contra]
  /\ e.entities \subseteq EntityId
  /\ e.events \subseteq EventId
  /\ DictOf(e.agents, AgentId, Time)
  /\ DictOf(e.assertions, AssertionId, Assertion)
  /\ DictOf(e.derivations, DerivationId, Derivation)
  /\ DictOf(e.close, AssertionId, Time)
  /\ DictOf(e.corefs, AssertionId, SUBSET EntityId)
  /\ e.contra \subseteq SUBSET Prop

TypeOK == IsEngine(eng)

(* Every id a primitive mentions is recorded (INV-1, INV-2, INV-6) and no  *)
(* claim precedes its agent (INV-7): agents and entities of an assertion,  *)
(* both ends of a derivation, the assertions that are closed and those the *)
(* coreference registry joins entities by.                                 *)
AssertionsWired(e) ==
  \A a \in DOMAIN e.assertions :
     /\ e.assertions[a].agent \in DOMAIN e.agents
     /\ e.assertions[a].subjects # {}
     /\ e.assertions[a].subjects \subseteq e.entities
     /\ e.agents[e.assertions[a].agent] <= e.assertions[a].time

DerivationsWired(e) ==
  \A d \in DOMAIN e.derivations :
     /\ e.derivations[d].consequent \in DOMAIN e.assertions
     /\ e.derivations[d].antecedents # {}
     /\ \A x \in e.derivations[d].antecedents : Known(e, x)

ViewsWired(e) ==
  /\ DOMAIN e.close \subseteq DOMAIN e.assertions
  /\ \A c \in DOMAIN e.corefs :
        /\ c \in DOMAIN e.assertions
        /\ e.assertions[c].subjects = e.corefs[c]
        /\ e.assertions[c].prop = COREF

Wired(e) == AssertionsWired(e) /\ DerivationsWired(e) /\ ViewsWired(e)

(* ids are unique across the five kinds of primitive, which share one name *)
(* space (INV-3): a derivation id can never name an assertion as well.     *)
OneKindPerId(e) ==
  \A id \in Primitive :
     /\ id \in e.entities => id \notin e.events \cup DOMAIN e.agents
                                \cup DOMAIN e.assertions \cup DOMAIN e.derivations
     /\ id \in e.events => id \notin DOMAIN e.agents \cup DOMAIN e.assertions
                                \cup DOMAIN e.derivations
     /\ id \in DOMAIN e.agents => id \notin DOMAIN e.assertions \cup DOMAIN e.derivations
     /\ id \in DOMAIN e.assertions => id \notin DOMAIN e.derivations

(* An id that is mentioned is recorded, and names one thing. *)
NothingDangles == Wired(eng) /\ OneKindPerId(eng)

(* INV-5: the one derivation graph over every kind of derivation has no    *)
(* cycle: in any set of assertions one of them derives from none of them.  *)
(* The cycle test runs against the graph BEFORE the insertion.             *)
Acyclic(e) ==
  \A S \in SUBSET AssertionId :
     S # {} => \E c \in S : Antecedents(e, c) \cap S = {}

DerivationsAcyclic == Acyclic(eng)

(* INV-9 and N5: a close bound is never a fact of its own.  Each closed    *)
(* assertion has a recorded supersession of it, whose consequent starts    *)
(* exactly when it ends and strictly after it began, also after a          *)
(* supersede that failed half way.                                         *)
Backed(e) ==
  \A a \in DOMAIN e.close :
     /\ e.assertions[a].time < e.close[a]
     /\ \E d \in DOMAIN e.derivations :
           /\ e.derivations[d].kind = "supersession"
           /\ a \in e.derivations[d].antecedents
           /\ e.assertions[e.derivations[d].consequent].time = e.close[a]

ClosesBacked == Backed(eng)

------------------------------------------------------------------------------
(* The engine implements the ledger of beliefs: claims are never rewritten *)
(* or dropped, no interval is ended twice, reopened or empty, and an       *)
(* interval ends only in the step that records the claim it gives way to   *)
(* (INV-3, INV-4, N5), whatever step of a supersede fails.                 *)
Ledger == INSTANCE BeliefLedger WITH
            Claim <- AssertionId, Content <- Assertion,
            content <- eng.assertions, end <- eng.close

ImplementsLedger == Ledger!LedgerSpec

(* Evidence does not evaporate: an assertion that reaches a recorded event *)
(* reaches one for ever after (15.3; provenance is computed, not stored).  *)
GroundedForEver ==
  [][\A a \in DOMAIN eng.assertions : Grounded(eng, a) => Grounded(eng', a)]_eng

(* The two views of a contradiction agree at every time: a subject set is  *)
(* CONTRADICTED on a token that is claimed of it exactly when conflicts()  *)
(* lists a claim of that token about it, under coreference (8.8, App. B).  *)
ConflictViewsAgree ==
  \A T \in Time : \A a \in DOMAIN eng.assertions :
     OpenAt(eng, a, T) /\ eng.assertions[a].prop \in Prop =>
       ((a \in UNION Conflicts(eng, T)) <=>
        (PropositionState(eng, eng.assertions[a].subjects, eng.assertions[a].prop, T)
           = "CONTRADICTED"))

(* A question asked through one name of a person gets the answer of every  *)
(* other name: coreferent entities have the same beliefs about them and    *)
(* the same state of every token (12.3, J-1).                              *)
NamesAreInterchangeable ==
  \A T \in Time : \A x, y \in eng.entities :
     y \in Referent(eng, x, T) =>
       /\ BeliefsAbout(eng, x, T) = BeliefsAbout(eng, y, T)
       /\ \A r \in Prop : PropositionState(eng, {x}, r, T) = PropositionState(eng, {y}, r, T)

(* A revision chain is one story told once: the chains of two assertions   *)
(* are equal or disjoint, and every assertion a chain shows as replaced is *)
(* followed in it by the one that replaced it (13.5).                      *)
ChainsAreWhole ==
  \A a, b \in DOMAIN eng.assertions :
     /\ b \in RevisionChain(eng, a) <=> a \in RevisionChain(eng, b)
     /\ a \in DOMAIN eng.close =>
          \E c \in RevisionChain(eng, a) : eng.assertions[c].time = eng.close[a]
==============================================================================
