------------------------------- MODULE Tensions -------------------------------
(***************************************************************************)
(* Declared relation constraints and the questions they raise              *)
(* (server/constraints.py).  check() runs in the scheduler's pass and in   *)
(* requests; people resolve and dismiss.  A statement on the shared        *)
(* connection is one step: a SELECT is fetched whole, and between it and   *)
(* the UPDATE that rests on it anything may be written.  A claim is        *)
(* recorded or closed in one step: OpLog has the steps of those.           *)
(***************************************************************************)
EXTENDS Integers, Sequences, FiniteSets

CONSTANTS
  Relation,     \* relational claims that may be recorded
  EdgeOf,       \* claim -> [src, rel, dst], what its subjects and token spell
  Constraint,   \* declared shapes: [rel, kind]
  Thread,       \* the scheduler's pass and the requests
  Scheduler,    \* the thread that checks again and again
  MaxSwitches   \* bound: constraints switched on or off

VARIABLES
  relations, \* claim -> "none" before it is recorded, "open", "closed"
  shapes,    \* constraints whose row is active
  status,    \* question -> what its row says, "none" where there is none
  check,     \* thread -> the check or the judgment it is in
  switches,
  overlapped   \* history: a judgment and another pass were in progress together

checking == <<relations, shapes, status, check, switches, overlapped>>

Status == {"none", "open", "lapsed", "resolved", "dismissed"}
Decided == {"resolved", "dismissed"}

(* What a constraint groups edges by, and what it wants one of. *)
Side(c, e)  == IF c.kind = "one_dst_per_src" THEN e.src ELSE e.dst
Other(c, e) == IF c.kind = "one_dst_per_src" THEN e.dst ELSE e.src
Under(c)    == {e \in {EdgeOf[i] : i \in Relation} : e.rel = c.rel}

(* A question is known by its counterparties, never by the claims. *)
Question ==
  UNION {{[on |-> c, entity |-> x, between |-> B] :
            x \in {Side(c, e) : e \in Under(c)},
            B \in {S \in SUBSET {Other(c, e) : e \in Under(c)} : Cardinality(S) >= 2}}
         : c \in Constraint}

Related == {i \in Relation : relations[i] # "none"}
Standing    == {i \in Relation : relations[i] = "open"}

(* Claims of the question's relation between its entity and any of X. *)
Toward(q, X) ==
  {i \in Related : LET e == EdgeOf[i]
                   IN  /\ e.rel = q.on.rel /\ Side(q.on, e) = q.entity
                       /\ Other(q.on, e) \in X}

(* What the active constraints find broken among the claims open now. *)
Parties(c, x) ==
  {Other(c, EdgeOf[i]) :
     i \in {j \in Standing : EdgeOf[j].rel = c.rel /\ Side(c, EdgeOf[j]) = x}}
Violated(q) == q.on \in shapes /\ Parties(q.on, q.entity) = q.between

Idle == [at |-> "idle", current |-> {}, todo |-> {}, was |-> {}, of |-> {}, keep |-> {},
         had |-> {}]

Judging(t) == check[t].at \in {"judge", "retract", "dismiss"}
Busy       == {t \in Thread : check[t].at # "idle"}

------------------------------------------------------------------------------
(* The world: claims come and go, shapes are declared and withdrawn. *)

Relate(i) ==
  /\ relations[i] = "none" /\ relations' = [relations EXCEPT ![i] = "open"]
  /\ UNCHANGED <<shapes, status, check, switches, overlapped>>

Unrelate(i) ==
  /\ relations[i] = "open" /\ relations' = [relations EXCEPT ![i] = "closed"]
  /\ UNCHANGED <<shapes, status, check, switches, overlapped>>

Declare(c) ==
  /\ c \notin shapes /\ switches < MaxSwitches
  /\ shapes' = shapes \cup {c} /\ switches' = switches + 1
  /\ UNCHANGED <<relations, status, check, overlapped>>

Lift(c) ==
  /\ c \in shapes /\ switches < MaxSwitches
  /\ shapes' = shapes \ {c} /\ switches' = switches + 1
  /\ UNCHANGED <<relations, status, check, overlapped>>

------------------------------------------------------------------------------
(* One detection pass. *)

Turns(t, x) == check' = [check EXCEPT ![t] = x]
Enters(t, x) ==
  /\ check[t].at = "idle" /\ Turns(t, x)
  /\ overlapped' = (overlapped \/ \E u \in Busy : Judging(u) \/ x.at \in {"judge", "dismiss"})

(* T is read, and what the live claims violate at T. *)
Check(t) ==
  /\ Enters(t, [Idle EXCEPT !.at = "check", !.current = {q \in Question : Violated(q)}])
  /\ UNCHANGED <<relations, shapes, status, switches>>

(* The open questions, of which those the evidence has left will lapse. *)
SelectOpen(t) ==
  /\ check[t].at = "check"
  /\ Turns(t, [check[t] EXCEPT !.at = "lapse",
                             !.todo = {q \in Question : status[q] = "open"} \ check[t].current])
  /\ UNCHANGED <<relations, shapes, status, switches, overlapped>>

(* UPDATE by id, whatever the row says by now. *)
Lapse(t, q) ==
  /\ check[t].at = "lapse" /\ q \in check[t].todo
  /\ status' = [status EXCEPT ![q] = "lapsed"]
  /\ Turns(t, [check[t] EXCEPT !.todo = @ \ {q}])
  /\ UNCHANGED <<relations, shapes, switches, overlapped>>

(* Mutant of Unasked: a decided question counts as one to be asked. *)
Unjudged(current) == {q \in current : status[q] # "open"}

(* Neither open nor decided: to be asked, for the first time or again. *)
Unasked(current) == {q \in current : status[q] \in {"none", "lapsed"}}

SelectSeen(t) ==
  /\ check[t].at = "lapse" /\ check[t].todo = {}
  /\ LET ask == Unasked(check[t].current)
     IN  Turns(t, IF ask = {} THEN Idle
                  ELSE [check[t] EXCEPT !.at = "raise", !.todo = ask, !.current = {},
                                      !.was = {q \in ask : status[q] # "none"}])
  /\ UNCHANGED <<relations, shapes, status, switches, overlapped>>

(* Mutant of Raise: a lapsed row is inserted again, which its id forbids. *)
RaiseByInsert(t, q) ==
  /\ check[t].at = "raise" /\ q \in check[t].todo
  /\ status' = [status EXCEPT ![q] = IF @ = "none" THEN "open" ELSE @]
  /\ Turns(t, IF check[t].todo = {q} THEN Idle ELSE [check[t] EXCEPT !.todo = @ \ {q}])
  /\ UNCHANGED <<relations, shapes, switches, overlapped>>

(* A lapsed row is reopened by an UPDATE, a new one by INSERT OR IGNORE. *)
Raise(t, q) ==
  /\ check[t].at = "raise" /\ q \in check[t].todo
  /\ status' = [status EXCEPT ![q] = IF q \in check[t].was \/ @ = "none" THEN "open" ELSE @]
  /\ Turns(t, IF check[t].todo = {q} THEN Idle ELSE [check[t] EXCEPT !.todo = @ \ {q}])
  /\ UNCHANGED <<relations, shapes, switches, overlapped>>

------------------------------------------------------------------------------
(* A person's judgment: who is kept, or that all are fine. *)

Resolve(t, q, keep) ==
  /\ status[q] = "open" /\ keep \in q.between
  /\ Enters(t, [Idle EXCEPT !.at = "judge", !.of = {q}, !.keep = {keep}])
  /\ UNCHANGED <<relations, shapes, status, switches>>

(* Mutant of Losers: one claim of each counterparty is taken for all. *)
FirstLosers(q, keep) ==
  {i \in Toward(q, q.between \ keep) :
     i = CHOOSE j \in Toward(q, q.between \ keep) : EdgeOf[j] = EdgeOf[i]}

(* The live claims are read again at judgment time; a counterparty the *)
(* question never named is not touched.                                *)
Losers(q, keep) == Toward(q, q.between \ keep)

SelectEdges(t) ==
  /\ check[t].at = "judge"
  /\ \E q \in check[t].of :
       Turns(t, [check[t] EXCEPT !.at = "retract", !.todo = Losers(q, check[t].keep),
                               !.had = Related])
  /\ UNCHANGED <<relations, shapes, status, switches, overlapped>>

(* What has closed meanwhile is passed over. *)
RetractLoser(t, i) ==
  /\ check[t].at = "retract" /\ i \in check[t].todo
  /\ relations' = [relations EXCEPT ![i] = "closed"]
  /\ Turns(t, [check[t] EXCEPT !.todo = @ \ {i}])
  /\ UNCHANGED <<shapes, status, switches, overlapped>>

Settles(t, s) ==
  /\ status' = [q \in Question |-> IF q \in check[t].of THEN s ELSE status[q]]
  /\ Turns(t, Idle)
  /\ UNCHANGED <<relations, shapes, switches, overlapped>>

Settle(t) == check[t].at = "retract" /\ check[t].todo = {} /\ Settles(t, "resolved")

Dismiss(t, q) ==
  /\ status[q] = "open"
  /\ Enters(t, [Idle EXCEPT !.at = "dismiss", !.of = {q}])
  /\ UNCHANGED <<relations, shapes, status, switches>>

SettleDismissal(t) == check[t].at = "dismiss" /\ Settles(t, "dismissed")

------------------------------------------------------------------------------
TensionsInit ==
  /\ relations = [i \in Relation |-> "none"] /\ shapes = {}
  /\ status = [q \in Question |-> "none"]
  /\ check = [t \in Thread |-> Idle]
  /\ switches = 0 /\ overlapped = FALSE

Pursue(t) ==
  \/ SelectOpen(t) \/ SelectSeen(t) \/ SelectEdges(t) \/ Settle(t) \/ SettleDismissal(t)
  \/ \E q \in Question : Lapse(t, q) \/ Raise(t, q)
  \/ \E i \in Relation : RetractLoser(t, i)

Requests(t) ==
  \E q \in Question : Dismiss(t, q) \/ \E keep \in q.between : Resolve(t, q, keep)

World ==
  \/ \E i \in Relation : Relate(i) \/ Unrelate(i)
  \/ \E c \in Constraint : Declare(c) \/ Lift(c)

TensionsNext ==
  \/ World
  \/ \E t \in Thread : Check(t) \/ Pursue(t) \/ (t # Scheduler /\ Requests(t))

TensionsSpec == TensionsInit /\ [][TensionsNext]_checking

(* The scheduler checks again and again, and what has begun goes on; people *)
(* owe neither claims nor judgments.                                        *)
TensionsFairSpec ==
  /\ TensionsSpec
  /\ WF_checking(Check(Scheduler))
  /\ \A t \in Thread : WF_checking(Pursue(t))

------------------------------------------------------------------------------
(* Properties. *)

(* Every variable has its type; a thread in a judgment has its question. *)
TensionsTypeOK ==
  /\ relations \in [Relation -> {"none", "open", "closed"}]
  /\ shapes \subseteq Constraint /\ status \in [Question -> Status]
  /\ switches \in 0..MaxSwitches /\ overlapped \in BOOLEAN
  /\ \A t \in Thread :
       /\ check[t].current \subseteq Question /\ check[t].was \subseteq Question
       /\ check[t].todo \subseteq (IF check[t].at = "retract" THEN Related ELSE Question)
       /\ check[t].had \subseteq Related
       /\ Cardinality(check[t].of) = IF Judging(t) THEN 1 ELSE 0

(* constraints.py:34, "never the same nag twice": a decision stays what it  *)
(* was, through everything claims and constraints do, unless the judgment   *)
(* and another pass overlapped.                                             *)
DecisionStands ==
  [][\A q \in Question :
       status[q] \in Decided /\ ~ overlapped' => status'[q] = status[q]]_checking

(* resolve(): "Live edges are re-read at judgment time".  When its row says  *)
(* so, no claim recorded before the resolver looked is open toward another  *)
(* counterparty: no corroboration survives the judgment.                    *)
ResolvedIsSettled ==
  [][\A t \in Thread, q \in Question :
       check[t].at = "retract" /\ q \in check[t].of /\ check'[t] = Idle =>
         \A i \in Toward(q, q.between \ check[t].keep) \cap check[t].had :
            relations[i] # "open"]_checking

(* The queue follows the evidence: a violation that stands is asked in the  *)
(* end or was judged, and a question whose violation is gone is open no     *)
(* more, through overlapping passes and shapes switched off and on.         *)
Unheard(q) == Violated(q) /\ status[q] \in {"none", "lapsed"}
Moot(q)    == ~ Violated(q) /\ status[q] = "open"

QuestionsFollow ==
  \A q \in Question : []<>(~ Unheard(q) /\ ~ Moot(q))
===============================================================================
