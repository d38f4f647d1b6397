------------------------------ MODULE Operations ------------------------------
(***************************************************************************)
(* The operations the log stores, apply_op, which every write goes         *)
(* through, and the replay of a log (server/api.py).                       *)
(***************************************************************************)
EXTENDS EngineOps

Op ==
  [kind : {"entity", "event", "agent"}, id : Primitive]
  \cup [kind : {"assert"}, id : AssertionId, claim : Assertion]
  \cup [kind : {"derive"}, did : DerivationId, of : AssertionId, ants : SUBSET Primitive]
  \cup [kind : {"supersede", "retract"}, id : AssertionId, claim : Assertion,
         olds : Seq(AssertionId), did : DerivationId]
  \cup [kind : {"corefer"}, id : AssertionId, x : EntityId, y : EntityId,
         agent : AgentId, time : Time]
  \cup [kind : {"split"}, id : AssertionId, cor : AssertionId, did : DerivationId,
         agent : AgentId, time : Time]
  \cup [kind : {"declare"}, p : Prop, q : Prop]

(* The ids an operation puts on record. *)
Mentions(op) ==
  CASE op.kind = "derive"                            -> {op.did}
    [] op.kind \in {"supersede", "retract", "split"} -> {op.id, op.did}
    [] op.kind = "declare"                           -> {}
    [] OTHER                                         -> {op.id}

Apply(e, op) ==
  CASE op.kind = "entity"    -> PutEntity(e, op.id)
    [] op.kind = "event"     -> PutEvent(e, op.id)
    [] op.kind = "agent"     -> PutAgent(e, op.id, 0)
    [] op.kind = "assert"    -> ApplyAssert(e, op.id, op.claim)
    [] op.kind = "derive"    -> Derive(e, op.did, op.of, op.ants, "inference")
    [] op.kind = "supersede" -> ApplySupersede(e, op.id, op.claim, op.olds, op.did)
    [] op.kind = "retract"   -> Retract(e, op.id, op.claim.agent, op.claim.subjects,
                                        op.claim.time, op.olds[1], op.did)
    [] op.kind = "corefer"   -> Corefer(e, op.id, op.x, op.y, op.agent, op.time)
    [] op.kind = "split"     -> Split(e, op.cor, op.agent, op.time, op.id, op.did)
    [] op.kind = "declare"   -> Declare(e, op.p, op.q)

(* boot() applies the rows in order and lets the first rejection propagate. *)
Replay(l) ==
  LET Upto[n \in 0..Len(l)] ==
        IF n = 0 THEN Result(NewEngine, "ACCEPTED")
        ELSE LET before == Upto[n - 1]
             IN  IF before.code = "ACCEPTED" THEN Apply(before.eng, l[n].op) ELSE before
  IN  Upto[Len(l)]

LatestClock(l) == CHOOSE c \in {0} \cup {l[i].clock : i \in DOMAIN l} :
                    \A i \in DOMAIN l : l[i].clock <= c
==============================================================================
