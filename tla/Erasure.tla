------------------------------- MODULE Erasure -------------------------------
(***************************************************************************)
(* The right to be forgotten (_forget_entity and its route, server/api.py) *)
(* beside one thread that serves writes: observations, which quote the     *)
(* words of whoever spoke, and the operations whose rows an erasure has to *)
(* follow.  Both share one database connection, so a commit by either      *)
(* commits what both have written, and both find the project in PROJECTS   *)
(* when their request begins.  A crash takes the memory and whatever is    *)
(* not committed.                                                          *)
(***************************************************************************)
EXTENDS Operations, FiniteSets

CONSTANTS
  Agt,             \* the agent that observes, on record already
  Messages,        \* what may be said: [from, facts]
  Weaker,          \* token -> the tokens it replaces (extraction.SUPERSEDES)
  ClaimProps,      \* tokens clients claim directly
  Citable,         \* what clients cite in a derivation
  RequestKinds,    \* which other write routes this instance exercises
  ERASURE_NOTE,    \* what a redacted label or quote says
  MaxLog, MaxCrashes,            \* bounds of the instance
  MaxShared        \* bound: the log's length where a write and an erasure overlap

(* A fact is about a subject and, if it is a relation, about others. *)
Fact == [subject : EntityId, others : SUBSET EntityId, prop : Prop]
Parties(f) == {f.subject} \cup f.others

(* Each kind of id has a prefix of its own, and there are finitely many.    *)
ASSUME IdAssumption ==
  /\ EntityId \cap (EventId \cup AgentId \cup AssertionId \cup DerivationId) = {}
  /\ EventId \cap (AgentId \cup AssertionId \cup DerivationId) = {}
  /\ AgentId \cap (AssertionId \cup DerivationId) = {}
  /\ AssertionId \cap DerivationId = {}
  /\ \A S \in {EntityId, EventId, AssertionId, DerivationId} : IsFiniteSet(S)

(* Clients send what the routes accept: known tokens, entities and kinds.  *)
ASSUME ErasureAssumption ==
  /\ Agt \in AgentId /\ ClaimProps \subseteq Prop
  /\ Citable \subseteq Primitive
  /\ Weaker \in [Prop -> SUBSET Prop]
  /\ Messages \subseteq [from : EntityId, facts : Seq(Fact)]
  /\ RequestKinds \subseteq {"retract", "supersede", "derive", "corefer", "split"}
  /\ {MaxLog, MaxCrashes, MaxShared} \subseteq Nat

VARIABLES
  up,
  project,    \* the object in PROJECTS: [eng, clock]
  orphan,     \* the object a writer still holds when another has replaced it
  db,         \* what the connection reads: [log, quotes]
  disk,       \* what is committed
  writer,     \* the write request in progress: [todo, stale]
  forget,     \* the erasure in progress
  erasures,   \* finished erasures: whom, and what they had said
  minted,     \* history: ids that uuid4 has given out
  crashes,
  overlapped  \* history: have a write and an erasure been in progress at once?

vars == <<up, project, orphan, db, disk, writer, forget, erasures, minted, crashes, overlapped>>

Seqs == INSTANCE SequencesExt

NewProject == [eng |-> NewEngine, clock |-> 0]
Free       == [todo |-> <<>>, stale |-> FALSE]
Nobody     == [step |-> "idle", gone |-> {}, claims |-> {}, redact |-> {}, sources |-> {},
               who |-> {}, rows |-> <<>>, cited |-> {}, heard |-> {}]

Busy == writer # Free

------------------------------------------------------------------------------
(* What a write request records, in order: operations with the label of     *)
(* their row, and rows of assertion_evidence.                               *)

OpItem(op) == [what |-> "op", op |-> op, label |-> "none"]
EventItem(v, from) == [what |-> "op", op |-> [kind |-> "event", id |-> v], label |-> from]

(* Mutant of QuoteItem: the quote is filed under its claim. *)
QuoteOfClaim(a, v, from) == [what |-> "quote", of |-> a, quote |-> [source |-> a, words |-> from]]

QuoteItem(a, v, from) == [what |-> "quote", of |-> a, quote |-> [source |-> v, words |-> from]]

EntityItems(e, xs) ==
  LET new == Seqs!SetToSeq(xs \ e.entities)
  IN  [i \in DOMAIN new |-> OpItem([kind |-> "entity", id |-> new[i]])]

Open(e, a, T) == OpenAt(e, a, T) /\ e.assertions[a].prop \in Prop

(* Open claims about the subject of a fact whose token is one of ps. *)
OpenAbout(e, f, ps, T) ==
  {a \in DOMAIN e.assertions :
     /\ Open(e, a, T) /\ e.assertions[a].prop \in ps
     /\ f.subject \in e.assertions[a].subjects}

(* What one fact of an observed message records.  A claim that replaces     *)
(* others is linked to them and not to the event; a claim that is held      *)
(* already is only reinforced.                                              *)
FactItems(e, T, from, f, v, a, d) ==
  LET olds  == OpenAbout(e, f, Weaker[f.prop], T)
      claim == [agent |-> Agt, subjects |-> Parties(f),
                prop |-> f.prop, time |-> T]
      self  == EntityItems(e, {f.subject})
      known == self \o EntityItems(e, f.others \ {f.subject})
  IN  IF olds = {} /\ OpenAbout(e, f, {f.prop}, T) # {} THEN self
      ELSE IF olds # {}
      THEN known \o <<OpItem([kind |-> "supersede", id |-> a, claim |-> claim,
                              olds |-> Seqs!SetToSeq(olds), did |-> d]),
                      QuoteItem(a, v, from)>>
      ELSE known \o <<OpItem([kind |-> "assert", id |-> a, claim |-> claim]),
                      OpItem([kind |-> "derive", did |-> d, of |-> a, ants |-> {v}]),
                      QuoteItem(a, v, from)>>

(* The request begins: it fetches the project, ticks its clock and mints.   *)
Take(ticks, todo, ids) ==
  /\ up /\ ~ Busy /\ Len(db.log) < MaxLog
  /\ project.clock + ticks \in Time
  /\ ids \cap minted = {}
  /\ project' = [project EXCEPT !.clock = @ + ticks]
  /\ writer' = [todo |-> todo, stale |-> FALSE]
  /\ minted' = minted \cup ids
  /\ overlapped' = (overlapped \/ forget # Nobody)
  /\ overlapped' => Len(db.log) < MaxShared
  /\ UNCHANGED <<up, orphan, db, disk, forget, erasures, crashes>>

Unminted(S) == Seqs!SetToSeq(S \ minted)

(* The engine once items are recorded. *)
Recorded(e, items) ==
  LET Upto[n \in 0..Len(items)] ==
        IF n = 0 THEN e
        ELSE IF items[n].what = "op" THEN Apply(Upto[n - 1], items[n].op).eng
        ELSE Upto[n - 1]
  IN  Upto[Len(items)]

(* The event of a message and, fact by fact, what it says: a fact meets the *)
(* beliefs that the facts before it have left.  If one is refused, the rest *)
(* is not reached (Record).                                                 *)
MessageItems(e, T, m, v, as, ds) ==
  LET Upto[n \in 0..Len(m.facts)] ==
        IF n = 0 THEN <<EventItem(v, m.from)>>
        ELSE LET so_far == Upto[n - 1]
             IN  so_far \o FactItems(Recorded(e, so_far), T, m.from, m.facts[n], v, as[n], ds[n])
  IN  Upto[Len(m.facts)]

(* POST /v1/observe. *)
Observe(m) ==
  LET n  == Len(m.facts)
      as == Unminted(AssertionId)
      ds == Unminted(DerivationId)
  IN  /\ EventId \ minted # {} /\ Len(as) >= n /\ Len(ds) >= n
      /\ LET v == Unminted(EventId)[1]
         IN  Take(1, MessageItems(project.eng, project.clock + 1, m, v, as, ds),
                  {v} \cup {as[i] : i \in 1..n} \cup {ds[i] : i \in 1..n})

(* The other write routes.  Ids are the first that are free. *)
Write(kind) ==
  LET e == project.eng
      T == project.clock + 1
  IN  /\ kind \in RequestKinds
      /\ AssertionId \ minted # {} /\ DerivationId \ minted # {}
      /\ LET a == Unminted(AssertionId)[1]
             d == Unminted(DerivationId)[1]
             Claim(xs, p) == [agent |-> Agt, subjects |-> xs, prop |-> p, time |-> T]
         IN  \/ /\ kind = "retract"
                /\ \E o \in DOMAIN e.assertions :
                      Take(1, <<OpItem([kind |-> kind, id |-> a, olds |-> <<o>>, did |-> d,
                                              claim |-> Claim(e.assertions[o].subjects,
                                                              RETRACTED)])>>, {a, d})
             \/ /\ kind = "supersede"
                /\ \E o \in DOMAIN e.assertions, x \in e.entities, p \in ClaimProps :
                      Take(1, <<OpItem([kind |-> kind, id |-> a, olds |-> <<o>>, did |-> d,
                                              claim |-> Claim({x}, p)])>>, {a, d})
             \/ /\ kind = "derive"
                /\ \E c \in DOMAIN e.assertions,
                      b \in {y \in Citable : Known(e, y)} :
                      Take(0, <<OpItem([kind |-> kind, did |-> d, of |-> c,
                                              ants |-> {b}])>>, {d})
             \/ /\ kind = "corefer"
                /\ \E x, y \in e.entities :
                      x # y /\ Take(1, <<OpItem([kind |-> kind, id |-> a, x |-> x, y |-> y,
                                                       agent |-> Agt, time |-> T])>>, {a})
             \/ /\ kind = "split"
                /\ \E c \in DOMAIN e.corefs :
                      Take(1, <<OpItem([kind |-> kind, id |-> a, cor |-> c, did |-> d,
                                              agent |-> Agt, time |-> T])>>, {a, d})

------------------------------------------------------------------------------
(* The steps of a write request. *)

Held == IF writer.stale THEN orphan ELSE project

Going(todo) == IF todo = <<>> THEN Free ELSE [writer EXCEPT !.todo = todo]

(* record: apply to the project in hand, then write the row and commit.     *)
(* A rejected operation ends the request with what it has left behind.      *)
Record ==
  /\ up /\ Busy /\ Head(writer.todo).what = "op"
  /\ LET item == Head(writer.todo)
         done == Apply(Held.eng, item.op)
         ok   == done.code = "ACCEPTED"
         rest == Going(Tail(writer.todo))
         mine == [Held EXCEPT !.eng = done.eng]
     IN  /\ writer' = IF ok THEN rest ELSE Free
         /\ IF writer.stale
            THEN orphan' = (IF writer' = Free THEN NewProject ELSE mine) /\ UNCHANGED project
            ELSE project' = mine /\ UNCHANGED orphan
         /\ db' = IF ok THEN [db EXCEPT !.log = Append(@, [op |-> item.op, label |-> item.label,
                                                          clock |-> Held.clock])]
                  ELSE db
         /\ disk' = IF ok THEN db' ELSE disk
         /\ erasures' = IF ok /\ item.op.kind = "entity"
                        THEN [erasures EXCEPT !.who = @ \ {item.op.id}] ELSE erasures
  /\ UNCHANGED <<up, forget, minted, crashes, overlapped>>

(* The row of assertion_evidence, with its commit. *)
Quote ==
  /\ up /\ Busy /\ Head(writer.todo).what = "quote"
  /\ LET item == Head(writer.todo)
     IN  db' = [db EXCEPT !.quotes = Put(@, item.of, item.quote)]
  /\ disk' = db'
  /\ writer' = Going(Tail(writer.todo))
  /\ orphan' = IF writer' = Free THEN NewProject ELSE orphan
  /\ UNCHANGED <<up, project, forget, erasures, minted, crashes, overlapped>>

------------------------------------------------------------------------------
(* The cascade, on the rows of a log: R holds the indices of what goes. *)

ClaimsIn(l, R) ==
  {l[i].op.id : i \in {j \in R : l[j].op.kind \in {"assert", "supersede", "retract"}}}
CorefsIn(l, R) == {l[i].op.id : i \in {j \in R : l[j].op.kind = "corefer"}}
EventsIn(l, R) == {l[i].op.id : i \in {j \in R : l[j].op.kind = "event"}}

Names(op, x) ==
  \/ op.kind \in {"assert", "supersede", "retract"} /\ x \in op.claim.subjects
  \/ op.kind = "entity" /\ op.id = x
  \/ op.kind = "corefer" /\ x \in {op.x, op.y}

(* The derivations that cite an event. *)
Citing(l, v) == {i \in DOMAIN l : l[i].op.kind = "derive" /\ v \in l[i].op.ants}

(* Mutant of Dragged: an event goes when any derivation from it goes. *)
DraggedByAny(l, R, i) ==
  LET op == l[i].op
  IN  \/ op.kind = "retract" /\ op.olds[1] \in ClaimsIn(l, R)
      \/ op.kind = "supersede" /\ RangeOf(op.olds) \cap ClaimsIn(l, R) # {}
      \/ op.kind = "derive" /\ \/ op.of \in ClaimsIn(l, R)
                               \/ op.ants \cap (ClaimsIn(l, R) \cup EventsIn(l, R)) # {}
      \/ op.kind = "split" /\ op.cor \in CorefsIn(l, R)
      \/ op.kind = "event" /\ Citing(l, op.id) \cap R # {}

Dragged(l, R, i) ==
  LET op == l[i].op
  IN  \/ op.kind = "retract" /\ op.olds[1] \in ClaimsIn(l, R)
      \/ op.kind = "supersede" /\ RangeOf(op.olds) \cap ClaimsIn(l, R) # {}
      \/ op.kind = "derive" /\ \/ op.of \in ClaimsIn(l, R)
                               \/ op.ants \cap (ClaimsIn(l, R) \cup EventsIn(l, R)) # {}
      \/ op.kind = "split" /\ op.cor \in CorefsIn(l, R)
      \/ op.kind = "event" /\ Citing(l, op.id) # {} /\ Citing(l, op.id) \subseteq R

(* `while changed': as many waves as there are rows reach the fixpoint. *)
Cascade(l, x) ==
  LET Wave[n \in 0..Len(l)] ==
        IF n = 0 THEN {i \in DOMAIN l : Names(l[i].op, x)}
        ELSE LET R == Wave[n - 1] IN R \cup {i \in DOMAIN l : Dragged(l, R, i)}
  IN  Wave[Len(l)]

(* Events that keep a derivation and lose another. *)
RedactedEvents(l, R) ==
  {l[i].op.id : i \in {j \in DOMAIN l : /\ l[j].op.kind = "event"
                                        /\ Citing(l, l[j].op.id) \cap R # {}
                                        /\ ~ (Citing(l, l[j].op.id) \subseteq R)}}

(* A log without the rows at gone, and with the labels of events redacted. *)
Redacted(r, events) ==
  IF r.op.kind = "event" /\ r.op.id \in events THEN [r EXCEPT !.label = ERASURE_NOTE] ELSE r

Rewritten(l, gone, events) ==
  LET Upto[n \in 0..Len(l)] ==
        IF n = 0 THEN <<>>
        ELSE IF n \in gone THEN Upto[n - 1]
        ELSE Append(Upto[n - 1], Redacted(l[n], events))
  IN  Upto[Len(l)]

------------------------------------------------------------------------------
(* The steps of an erasure. *)

(* History: what a log, once replayed, says about x. *)
AboutIn(e, x)  == {a \in DOMAIN e.assertions : x \in e.assertions[a].subjects}
CitedFor(e, x) == UNION {Antecedents(e, a) \cap e.events : a \in AboutIn(e, x)}

SourcesOf(as) == {db.quotes[a].source : a \in as \cap DOMAIN db.quotes}

(* Read the log, follow the cascade, and replay what would be left; refuse  *)
(* with 409 and change nothing if that does not replay.                     *)
Forget(x) ==
  /\ up /\ forget = Nobody
  /\ x \in project.eng.entities
  /\ LET l      == db.log
         R      == Cascade(l, x)
         redact == RedactedEvents(l, R)
         e      == Replay(l).eng
     IN  forget' = IF R = {} \/ Replay(Rewritten(l, R, redact)).code # "ACCEPTED"
                   THEN Nobody
                   ELSE [step |-> "rewrite", gone |-> R, claims |-> ClaimsIn(l, R),
                         redact |-> redact, sources |-> {}, who |-> {x}, rows |-> l,
                         cited |-> CitedFor(e, x), heard |-> SourcesOf(AboutIn(e, x))]
  /\ overlapped' = (overlapped \/ Busy)
  /\ overlapped' => Len(db.log) < MaxShared
  /\ UNCHANGED <<up, project, orphan, db, disk, writer, erasures, minted, crashes>>

Step(from, to) ==
  /\ up /\ forget.step = from
  /\ forget' = [forget EXCEPT !.step = to]

(* Mutant of RewriteLog: the deletions are committed at once. *)
RewriteAndCommit ==
  /\ up /\ forget.step = "rewrite"
  /\ forget' = [forget EXCEPT !.step = "purge", !.sources = SourcesOf(forget.claims)]
  /\ db' = [db EXCEPT !.log = Rewritten(@, forget.gone, forget.redact)]
  /\ disk' = db'
  /\ UNCHANGED <<up, project, orphan, writer, erasures, minted, crashes, overlapped>>

(* The messages the claims quote are looked up, rows deleted, labels set.   *)
RewriteLog ==
  /\ up /\ forget.step = "rewrite"
  /\ forget' = [forget EXCEPT !.step = "purge", !.sources = SourcesOf(forget.claims)]
  /\ db' = [db EXCEPT !.log = Rewritten(@, forget.gone, forget.redact)]
  /\ UNCHANGED <<up, project, orphan, disk, writer, erasures, minted, crashes, overlapped>>

(* Mutant of PurgeRows: quotes on surviving claims stay as they are. *)
PurgeOwnRows ==
  /\ Step("purge", "commit")
  /\ db' = [db EXCEPT !.quotes = [a \in DOMAIN @ \ forget.claims |-> @[a]]]
  /\ UNCHANGED <<up, project, orphan, disk, writer, erasures, minted, crashes, overlapped>>

PurgeRows ==
  /\ Step("purge", "commit")
  /\ db' = [db EXCEPT !.quotes =
              [a \in DOMAIN @ \ forget.claims |->
                 IF @[a].source \in forget.sources THEN [@[a] EXCEPT !.words = ERASURE_NOTE]
                 ELSE @[a]]]
  /\ UNCHANGED <<up, project, orphan, disk, writer, erasures, minted, crashes, overlapped>>

CommitRewrite ==
  /\ Step("commit", "rebuild")
  /\ disk' = db
  /\ UNCHANGED <<up, project, orphan, db, writer, erasures, minted, crashes, overlapped>>

Rebuilt(l) == [eng |-> Replay(l).eng, clock |-> LatestClock(l)]

(* Mutant of Rebuild: the project is rebuilt from the rows read at first. *)
RebuildFromRows ==
  /\ Step("rebuild", "sign")
  /\ project' = Rebuilt(forget.rows)
  /\ UNCHANGED <<up, orphan, db, disk, writer, erasures, minted, crashes, overlapped>>

(* A fresh project replays the log and takes the place of the one in        *)
(* PROJECTS, which a request in progress goes on using.  A log that has     *)
(* come not to replay ends the erasure here, with an error.                 *)
Rebuild ==
  /\ IF Replay(db.log).code = "ACCEPTED"
     THEN /\ Step("rebuild", "sign")
          /\ project' = Rebuilt(db.log)
          /\ IF Busy /\ ~ writer.stale
             THEN orphan' = project /\ writer' = [writer EXCEPT !.stale = TRUE]
             ELSE UNCHANGED <<orphan, writer>>
     ELSE /\ up /\ forget.step = "rebuild"
          /\ forget' = Nobody
          /\ UNCHANGED <<project, orphan, writer>>
  /\ UNCHANGED <<up, db, disk, erasures, minted, crashes, overlapped>>

(* The erasures row, with its commit. *)
Sign ==
  /\ up /\ forget.step = "sign"
  /\ forget' = Nobody
  /\ erasures' = [who |-> erasures.who \cup forget.who, cited |-> erasures.cited \cup forget.cited,
                  heard |-> erasures.heard \cup forget.heard]
  /\ disk' = db
  /\ UNCHANGED <<up, project, orphan, db, writer, minted, crashes, overlapped>>

------------------------------------------------------------------------------
Crash ==
  /\ up /\ crashes < MaxCrashes
  /\ up' = FALSE
  /\ project' = NewProject /\ orphan' = NewProject
  /\ writer' = Free /\ forget' = Nobody
  /\ db' = disk
  /\ crashes' = crashes + 1
  /\ UNCHANGED <<disk, erasures, minted, overlapped>>

Boot ==
  /\ ~ up
  /\ Replay(db.log).code = "ACCEPTED"
  /\ up' = TRUE
  /\ project' = Rebuilt(db.log)
  /\ UNCHANGED <<orphan, db, disk, writer, forget, erasures, minted, crashes, overlapped>>

Background == <<[op |-> [kind |-> "agent", id |-> Agt], label |-> "none", clock |-> 0]>>

Init ==
  /\ up = TRUE
  /\ project = Rebuilt(Background) /\ orphan = NewProject
  /\ db = [log |-> Background, quotes |-> EmptyDict]
  /\ disk = db
  /\ writer = Free /\ forget = Nobody
  /\ erasures = [who |-> {}, cited |-> {}, heard |-> {}]
  /\ minted = {}
  /\ crashes = 0
  /\ overlapped = FALSE

Next ==
  \/ \E m \in Messages : Observe(m)
  \/ \E k \in RequestKinds : Write(k)
  \/ Record \/ Quote
  \/ \E x \in EntityId : Forget(x)
  \/ RewriteLog \/ PurgeRows \/ CommitRewrite \/ Rebuild \/ Sign
  \/ Crash \/ Boot

Spec == Init /\ [][Next]_vars

------------------------------------------------------------------------------
Label == EntityId \cup {ERASURE_NOTE, "none"}

TypeOK ==
  /\ {up, overlapped, writer.stale} \subseteq BOOLEAN
  /\ \A l \in {db.log, disk.log, forget.rows} : \A i \in DOMAIN l :
        l[i].op \in Op /\ l[i].label \in Label /\ l[i].clock \in Nat
  /\ \A d \in {db, disk} :
        DictOf(d.quotes, AssertionId, [source : EventId, words : EntityId \cup {ERASURE_NOTE}])
  /\ forget.step \in {"idle", "rewrite", "purge", "commit", "rebuild", "sign"}
  /\ {erasures.who, forget.who} \subseteq SUBSET EntityId
  /\ {forget.redact, forget.sources, erasures.cited, erasures.heard} \subseteq SUBSET EventId
  /\ \A p \in {project, orphan} : DOMAIN p.eng.assertions \subseteq AssertionId

Quiet == up /\ ~ Busy /\ forget = Nobody

(* The ids a log has on record, and the row of an id. *)
Logged(l) == UNION {Mentions(l[i].op) : i \in DOMAIN l}

(* Once an erasure has its row in `erasures', nothing is left of whom it    *)
(* names, in memory or in the log, whatever had cited it: no id, no claim,  *)
(* no coreference; the labels of events its claims were drawn from and the  *)
(* quotes from messages it was quoted from say nothing (api.py:391-402).    *)
(* As long as writes and erasures do not overlap.                           *)
ForgottenIsGone ==
  up /\ ~ overlapped =>
    /\ \A x \in erasures.who :
         /\ x \notin project.eng.entities /\ AboutIn(project.eng, x) = {}
         /\ \A i \in DOMAIN db.log :
               /\ ~ Names(db.log[i].op, x)
               /\ db.log[i].op.kind = "derive" => x \notin db.log[i].op.ants
    /\ \A i \in DOMAIN db.log :
         (db.log[i].op.kind = "event" /\ db.log[i].op.id \in erasures.cited)
            => db.log[i].label = ERASURE_NOTE
    /\ \A a \in DOMAIN db.quotes :
         db.quotes[a].source \in erasures.heard => db.quotes[a].words = ERASURE_NOTE

(* A crash at any step leaves an erasure whole or not begun: what is on     *)
(* disk replays, and quotes no claim that is not in its log.                *)
WholeOrNothing ==
  ~ overlapped => /\ Replay(disk.log).code = "ACCEPTED"
                  /\ DOMAIN disk.quotes \subseteq Logged(disk.log)

(* The project that serves after an erasure, a refused one or a boot is     *)
(* what its log replays into, and all of it is on disk.                     *)
ServesItsLog ==
  Quiet /\ ~ overlapped => /\ Replay(db.log) = Result(project.eng, "ACCEPTED")
                           /\ db = disk

(* What depends on x in an engine, without a look at the log: the least set *)
(* that holds x, claims about it, claims that replaced one of those, their  *)
(* derivations, and events that support nothing else.                       *)
Items(e) == e.entities \cup e.events \cup DOMAIN e.assertions \cup DOMAIN e.derivations
CitedBy(e, v) == {d \in DOMAIN e.derivations : v \in e.derivations[d].antecedents}
LinksOf(e, S) == {d \in DOMAIN e.derivations :
                    \/ e.derivations[d].consequent \in S
                    \/ e.derivations[d].antecedents \cap S # {}}

DependsOn(e, x, S) ==
  {x} \cup AboutIn(e, x) \cup LinksOf(e, S)
  \cup {e.derivations[d].consequent :
          d \in {c \in LinksOf(e, S) : e.derivations[c].kind = "supersession"}}
  \cup {v \in e.events : CitedBy(e, v) # {} /\ CitedBy(e, v) \subseteq S}

Dependents(e, x) ==
  {y \in Items(e) : \A S \in SUBSET Items(e) : DependsOn(e, x, S) \subseteq S => y \in S}

(* The operations of a log, but for those of its first n rows that put an   *)
(* id of S on record.                                                       *)
Sparing(l, n, S) ==
  LET Upto[k \in 0..Len(l)] ==
        IF k = 0 THEN <<>>
        ELSE IF k <= n /\ Mentions(l[k].op) \cap S # {} THEN Upto[k - 1]
        ELSE Append(Upto[k - 1], l[k].op)
  IN  Upto[Len(l)]

(* Whatever is written meanwhile, an erasure takes exactly what depended on *)
(* x in the log it read, provided that log replays: the other rows, and the *)
(* rows logged since, stay in their order.                                  *)
OnlyDependentsGo ==
  [][(/\ forget.step = "rewrite" /\ forget'.step = "purge"
      /\ Replay(forget.rows).code = "ACCEPTED") =>
       LET x    == CHOOSE y \in forget.who : TRUE
           deps == Dependents(Replay(forget.rows).eng, x)
       IN  [i \in DOMAIN db'.log |-> db'.log[i].op] = Sparing(db.log, Len(forget.rows), deps)]_vars

(* api.py:399: the events `that carried only its words (labels are quoted   *)
(* sentences)' go, and README.md:460: a sentence of theirs under a          *)
(* surviving belief is redacted.                                            *)
WordsAreGone ==
  Quiet /\ ~ overlapped =>
    \A x \in erasures.who :
      /\ \A i \in DOMAIN db.log : db.log[i].label # x
      /\ \A a \in DOMAIN db.quotes : db.quotes[a].words # x
==============================================================================
