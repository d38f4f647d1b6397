-------------------------------- MODULE OpLog --------------------------------
(***************************************************************************)
(* One project served over HTTP: the live engine, the logical clock, the   *)
(* append-only log of operations, handler threads, crashes and boots       *)
(* (Project, record and boot in server/api.py, record_op in               *)
(* server/store.py).                                                       *)
(*                                                                         *)
(* http.server gives every request a thread and no lock covers a project,  *)
(* so a request is cut where it reads or writes shared state: the tick,    *)
(* each check of the engine, each write, the log row, the reply.  With one *)
(* handler this is the server under sequential use.                        *)
(***************************************************************************)
EXTENDS Operations

CONSTANTS
  Handler,               \* threads that may hold a request at once
  Ent, Agt, Evt,         \* an entity, an agent and an event on record already
  ClaimProps,            \* tokens clients claim
  RequestKinds,          \* which POST routes this instance exercises
  BecauseSets,           \* evidence lists of POST /v1/assertions
  AntecedentSets,        \* antecedent lists of POST /v1/derivations
  RequireGrounded,       \* OMEM_REQUIRE_GROUNDED
  MaxClock, MaxLog, MaxCrashes,  \* bounds of the instance
  MaxShared              \* bound: the log's length where requests overlap

ASSUME ServerAssumption ==
  /\ Ent \in EntityId /\ Agt \in AgentId /\ Evt \in EventId
  /\ Ent # Agt /\ Agt # Evt /\ Evt # Ent
  /\ ClaimProps \subseteq Prop
  /\ BecauseSets \subseteq SUBSET Primitive /\ AntecedentSets \subseteq SUBSET Primitive
  /\ RequestKinds \subseteq {"assert", "derive", "supersede", "retract"}
  /\ RequireGrounded \in BOOLEAN
  /\ {MaxClock, MaxLog, MaxCrashes, MaxShared} \subseteq Nat
  /\ 0..MaxClock \subseteq Time

VARIABLES
  up,        \* is the process serving?
  eng,       \* the engine in memory
  clock,     \* Project.clock
  log,       \* the ops table: [op, clock] in seq order
  req,       \* handler -> the request it holds
  acked,     \* operations a client was told succeeded
  crashes,
  overlapped \* history: have two requests ever been in progress at once?

vars == <<up, eng, clock, log, req, acked, crashes, overlapped>>

Timed(op) == op.kind \in {"assert", "supersede", "retract"}

ClaimOf(p, t) == [agent |-> Agt, subjects |-> {Ent}, prop |-> p, time |-> t]

------------------------------------------------------------------------------
(* Requests. *)

Idle == [ops |-> <<>>, todo |-> <<>>, loaded |-> 0, done |-> {}]

IsIdle(h) == req[h].ops = <<>>

(* Mutant of Phases: the row is written before the engine has accepted. *)
LogAhead(kind) ==
  CASE kind = "assert" -> <<"log", "admit", "store">>
    [] kind = "derive" -> <<"log", "link", "bind">>
    [] kind \in {"supersede", "retract"} ->
         <<"log", "targets", "admit", "store", "link", "bind", "close">>

(* The steps in which apply_op and record treat one operation. *)
Phases(kind) ==
  CASE kind = "assert" -> <<"admit", "store", "log">>
    [] kind = "derive" -> <<"link", "bind", "log">>
    [] kind \in {"supersede", "retract"} ->
         <<"targets", "admit", "store", "link", "bind", "close", "log">>

(* An id minted with uuid4: in nobody's hands yet. *)
Fresh(id) ==
  /\ ~ Known(eng, id)
  /\ \A i \in DOMAIN log : id \notin Mentions(log[i].op)
  /\ \A h \in Handler : \A i \in DOMAIN req[h].ops : id \notin Mentions(req[h].ops[i])

WouldBeGrounded(because) ==
  \E x \in because : x \in eng.events \/ (x \in DOMAIN eng.assertions /\ Grounded(eng, x))

(* The operations a request asks for.  Ids of claims may come from the      *)
(* client; retractions and the derivations of other routes have minted ids. *)
AssertRequests ==
  {<<[kind |-> "assert", id |-> a, claim |-> ClaimOf(p, 0)]>> :
     a \in AssertionId, p \in IF RequireGrounded THEN {} ELSE ClaimProps}
  \cup
  {<<[kind |-> "assert", id |-> a, claim |-> ClaimOf(p, 0)],
     [kind |-> "derive", did |-> d, of |-> a, ants |-> B]>> :
     a \in AssertionId, p \in ClaimProps, d \in {x \in DerivationId : Fresh(x)},
     B \in {X \in BecauseSets : RequireGrounded => WouldBeGrounded(X)}}

DeriveRequests ==
  {<<[kind |-> "derive", did |-> d, of |-> a, ants |-> A]>> :
     d \in DerivationId, a \in AssertionId, A \in AntecedentSets}

RevisionRequests(kind) ==
  UNION {{<<[kind |-> kind, id |-> a, olds |-> <<o>>, did |-> d,
             claim |-> ClaimOf(IF kind = "retract" THEN RETRACTED ELSE p, 0)]>> :
            p \in ClaimProps, o \in AssertionId,
            d \in {x \in DerivationId : Fresh(x) /\ x # a}}
         : a \in {x \in AssertionId : kind = "retract" => Fresh(x)}}

Wanted(kind) ==
  CASE kind = "assert" -> AssertRequests
    [] kind = "derive" -> DeriveRequests
    [] OTHER           -> RevisionRequests(kind)

(* A request arrives.  `clock += 1' starts by loading the clock; a derive   *)
(* carries no time.                                                         *)
Begin(h) ==
  /\ up /\ IsIdle(h) /\ clock < MaxClock /\ Len(log) < MaxLog
  /\ \E k \in RequestKinds : \E ops \in Wanted(k) :
        req' = [req EXCEPT ![h] =
          [ops |-> ops, loaded |-> clock, done |-> {},
           todo |-> (IF k = "derive" THEN <<>> ELSE <<"tick">>)
                      \o (IF k = "retract" THEN <<"exists">> ELSE <<>>) \o Phases(k)]]
  /\ overlapped' = (overlapped \/ \E g \in Handler : ~ IsIdle(g))
  /\ overlapped' => Len(log) < MaxShared
  /\ UNCHANGED <<up, eng, clock, log, acked, crashes>>

Doing(h, phase) == up /\ ~ IsIdle(h) /\ req[h].todo # <<>> /\ Head(req[h].todo) = phase
Now(h) == Head(req[h].ops)
Advance(h) == req' = [req EXCEPT ![h].todo = Tail(@)]
Refuse(h) == req' = [req EXCEPT ![h] = Idle]

(* The rest of `clock += 1', and the time the request is given. *)
Tick(h) ==
  /\ Doing(h, "tick")
  /\ clock' = req[h].loaded + 1
  /\ req' = [req EXCEPT ![h].todo = Tail(@),
                        ![h].ops = [i \in DOMAIN @ |->
                                      IF Timed(@[i]) THEN [@[i] EXCEPT !.claim.time = clock']
                                      ELSE @[i]]]
  /\ UNCHANGED <<up, eng, log, acked, crashes, overlapped>>

(* The checks: the next step, or a refusal that changes nothing more. *)
Check(h, phase, fault) ==
  /\ Doing(h, phase)
  /\ IF fault = "ACCEPTED" THEN Advance(h) ELSE Refuse(h)
  /\ UNCHANGED <<up, eng, clock, log, acked, crashes, overlapped>>

CheckExists(h) ==
  Check(h, "exists", IF Now(h).olds[1] \in DOMAIN eng.assertions THEN "ACCEPTED" ELSE "404")

CheckTargets(h) == Check(h, "targets", SupersedeFault(eng, Now(h).claim, Now(h).olds))

CheckClaim(h) == Check(h, "admit", AssertionFault(eng, Now(h).id, Now(h).claim))

LinkOf(op) ==
  IF op.kind = "derive"
  THEN [consequent |-> op.of, antecedents |-> op.ants, kind |-> "inference"]
  ELSE SupersessionOf(op.id, op.olds)

(* Mutant of CheckLink: only the consequent is looked up. *)
CheckConsequent(h) ==
  Check(h, "link", IF LinkOf(Now(h)).consequent \in DOMAIN eng.assertions
                   THEN "ACCEPTED" ELSE "R_DANGLING")

CheckLink(h) == Check(h, "link", DerivationFault(eng, Now(h).did, LinkOf(Now(h))))

(* The writes. *)
Write(h, phase, e) ==
  /\ Doing(h, phase)
  /\ eng' = e
  /\ Advance(h)
  /\ UNCHANGED <<up, clock, log, acked, crashes, overlapped>>

StoreClaim(h) ==
  Write(h, "store",
        WithNegation(Result(WithAssertion(eng, Now(h).id, Now(h).claim), "ACCEPTED"),
                     Now(h).claim.prop).eng)

StoreLink(h) == Write(h, "bind", WithDerivation(eng, Now(h).did, LinkOf(Now(h))))

(* The ledger refuses to close twice, with an error nobody undoes. *)
CloseTargets(h) ==
  /\ Doing(h, "close")
  /\ IF RangeOf(Now(h).olds) \cap DOMAIN eng.close = {}
     THEN Advance(h) /\ eng' = CloseAll(eng, Now(h).olds, Now(h).claim.time).eng
     ELSE Refuse(h) /\ UNCHANGED eng
  /\ UNCHANGED <<up, clock, log, acked, crashes, overlapped>>

(* Mutant of LogOp: a row whose commit failed counts as written. *)
LogUncommitted(h) ==
  /\ Doing(h, "log")
  /\ \/ log' = Append(log, [op |-> Now(h), clock |-> clock])
     \/ UNCHANGED log
  /\ LET rest == Tail(req[h].ops)
     IN  req' = [req EXCEPT ![h].done = @ \cup {Now(h)},
                            ![h].ops = IF rest = <<>> THEN @ ELSE rest,
                            ![h].todo = IF rest = <<>> THEN Tail(@) ELSE Phases(rest[1].kind)]
  /\ UNCHANGED <<up, eng, clock, acked, crashes, overlapped>>

(* record_op commits the row before record returns. *)
LogOp(h) ==
  /\ Doing(h, "log")
  /\ log' = Append(log, [op |-> Now(h), clock |-> clock])
  /\ LET rest == Tail(req[h].ops)
     IN  req' = [req EXCEPT ![h].done = @ \cup {Now(h)},
                            ![h].ops = IF rest = <<>> THEN @ ELSE rest,
                            ![h].todo = IF rest = <<>> THEN Tail(@) ELSE Phases(rest[1].kind)]
  /\ UNCHANGED <<up, eng, clock, acked, crashes, overlapped>>

Reply(h) ==
  /\ up /\ ~ IsIdle(h) /\ req[h].todo = <<>>
  /\ acked' = acked \cup req[h].done
  /\ Refuse(h)
  /\ UNCHANGED <<up, eng, clock, log, crashes, overlapped>>

(* A crash takes the memory and every request; the log stays. *)
Crash ==
  /\ up /\ crashes < MaxCrashes
  /\ up' = FALSE
  /\ eng' = NewEngine
  /\ clock' = 0
  /\ req' = [h \in Handler |-> Idle]
  /\ crashes' = crashes + 1
  /\ UNCHANGED <<log, acked, overlapped>>

(* Mutant of Boot: the clock starts over. *)
BootAtZero ==
  /\ ~ up
  /\ Replay(log).code = "ACCEPTED"
  /\ up' = TRUE
  /\ eng' = Replay(log).eng
  /\ clock' = 0
  /\ UNCHANGED <<log, req, acked, crashes, overlapped>>

Boot ==
  /\ ~ up
  /\ Replay(log).code = "ACCEPTED"
  /\ up' = TRUE
  /\ eng' = Replay(log).eng
  /\ clock' = LatestClock(log)
  /\ UNCHANGED <<log, req, acked, crashes, overlapped>>

------------------------------------------------------------------------------
Background ==
  <<[op |-> [kind |-> "entity", id |-> Ent], clock |-> 0],
    [op |-> [kind |-> "agent", id |-> Agt], clock |-> 0],
    [op |-> [kind |-> "event", id |-> Evt], clock |-> 0]>>

Init ==
  /\ up = TRUE
  /\ log = Background
  /\ eng = Replay(Background).eng
  /\ clock = 0
  /\ req = [h \in Handler |-> Idle]
  /\ acked = {}
  /\ crashes = 0
  /\ overlapped = FALSE

Next ==
  \/ \E h \in Handler :
       \/ Begin(h) \/ Tick(h)
       \/ CheckExists(h) \/ CheckTargets(h) \/ CheckClaim(h) \/ CheckLink(h)
       \/ StoreClaim(h) \/ StoreLink(h) \/ CloseTargets(h)
       \/ LogOp(h) \/ Reply(h)
  \/ Crash \/ Boot

Spec == Init /\ [][Next]_vars

------------------------------------------------------------------------------
(* Nothing in the engine mentions an id that is not recorded. *)
Wired ==
  /\ \A a \in DOMAIN eng.assertions :
        /\ eng.assertions[a].agent \in DOMAIN eng.agents
        /\ eng.assertions[a].subjects \subseteq eng.entities
  /\ \A d \in DOMAIN eng.derivations :
        /\ eng.derivations[d].consequent \in DOMAIN eng.assertions
        /\ \A x \in eng.derivations[d].antecedents : Known(eng, x)
  /\ DOMAIN eng.close \subseteq DOMAIN eng.assertions

(* Every variable has its type, and the live engine is whole whatever the  *)
(* interleaving: checks are never undone, for nothing is ever removed.     *)
TypeOK ==
  /\ up \in BOOLEAN /\ Wired
  /\ eng.close \in [DOMAIN eng.close -> Nat] /\ DOMAIN eng.assertions \subseteq AssertionId
  /\ clock \in 0..MaxClock
  /\ \A i \in DOMAIN log : log[i].op \in Op /\ log[i].clock \in Nat
  /\ acked \subseteq Op
  /\ \A h \in Handler : \A i \in DOMAIN req[h].ops : req[h].ops[i] \in Op

Quiet == up /\ \A h \in Handler : IsIdle(h)

(* While requests do not overlap, a restart changes nothing: the log        *)
(* replays without a rejection into exactly the engine in memory, after     *)
(* refused and half-served requests and after crashes at any step           *)
(* (api.py:255, ENGINE.md "Persistence and replay").                        *)
RestartChangesNothing ==
  Quiet /\ ~ overlapped => Replay(log) = Result(eng, "ACCEPTED")

(* What a client was told succeeded is in the engine, with its effect on    *)
(* intervals, before and after every crash, whatever the other handlers do. *)
InForce(op) ==
  CASE op.kind = "assert" -> op.id \in DOMAIN eng.assertions
    [] op.kind = "derive" -> op.did \in DOMAIN eng.derivations
    [] OTHER -> /\ op.id \in DOMAIN eng.assertions
                /\ op.did \in DOMAIN eng.derivations
                /\ RangeOf(op.olds) \subseteq DOMAIN eng.close

AckedIsDurable == up => \A op \in acked : InForce(op)

(* A client that asks about `now' sees what it was told succeeded: the      *)
(* clock never falls behind an acknowledged claim, also after a boot that   *)
(* restores it from the log.  (A slower thread may set it back: ~overlapped.) *)
NowSeesAcked ==
  up /\ ~ overlapped => \A op \in acked : Timed(op) => op.claim.time <= clock

(* api.py:255: the dispatch is shared by live requests and replay, `so      *)
(* persisted history and live behavior can never diverge'.                  *)
NeverDiverges == Quiet => Replay(log) = Result(eng, "ACCEPTED")

==============================================================================
