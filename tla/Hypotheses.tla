------------------------------ MODULE Hypotheses ------------------------------
(***************************************************************************)
(* Hunches (server/hypotheses.py): a leap projects what a look-alike holds, *)
(* or what a prior predicts, onto a person who is silent about it; an       *)
(* interrogation settles each hunch against what is held about the person   *)
(* and scores whoever generated it; an answer is recorded as a claim and    *)
(* then interrogated like everything else.                                  *)
(*                                                                         *)
(* One person is the target.  Strengths and the arithmetic of similarity   *)
(* are left out: a leap of the constants is one that a pass would make.    *)
(* Everybody writes on one connection, so any commit commits all.          *)
(***************************************************************************)
EXTENDS Integers, FiniteSets

CONSTANTS
  Claim,         \* what may be held of the target
  Negation,      \* claim -> the claim declared its opposite
  Bare,          \* claim -> the claim without its leading not:
  Leap,          \* fingerprints: one way to one claim
  ClaimOf, SourceOf, GeneratorOf,   \* of a leap
  FromPrior,     \* leaps whose generator is a prior; the others project a look-alike
  Source,        \* the assertions leaps are born from
  Thread, Scheduler,
  MAX_NEW_PER_RUN, ASK_AFTER_PASSES,
  MaxCrashes, MaxVerdicts     \* bounds: crashes; a record counts no further

VARIABLES
  held,      \* claims open about the target
  alive,     \* sources that are open
  db,        \* the shared connection: rows of hypotheses, wins and losses
  disk,      \* what of it is committed
  run,       \* thread -> the leap, interrogation or answer it is in
  crashes,
  overlapped \* history: two passes were in progress together

vars == <<held, alive, db, disk, run, crashes, overlapped>>

Status == {"none", "open", "asking", "supported", "refuted", "lapsed"}
Pending == {"open", "asking"}
Generator == {GeneratorOf[l] : l \in Leap}
NoRow == [status |-> "none", passes |-> 0]

Idle == [at |-> "idle", seen |-> {}, live |-> {}, todo |-> {}, claimed |-> {}, made |-> 0,
         cases |-> [l \in {} |-> NoRow], score |-> {}, tally |-> 0]

Rows(S) == {l \in Leap : db.row[l].status \in S}

------------------------------------------------------------------------------
(* Reading: what was held at T, and what it says of a claim. *)

Unknown(c, seen) == {c, Negation[c]} \cap seen = {}

Verdict(l, seen, live) ==
  CASE ClaimOf[l] \in seen /\ Negation[ClaimOf[l]] \notin seen -> "supported"
    [] Negation[ClaimOf[l]] \in seen                           -> "refuted"
    [] Unknown(ClaimOf[l], seen) /\ SourceOf[l] \notin live    -> "lapsed"
    [] OTHER                                                   -> "none"

(* A look-alike's leap is known by its claim, a prior's by the bare one. *)
Name(l) == IF l \in FromPrior THEN Bare[ClaimOf[l]] ELSE ClaimOf[l]

(* The claims that have their case file: the rows' own spelling of them. *)
Taken == {ClaimOf[l] : l \in Rows(Status \ {"none", "lapsed"})}

------------------------------------------------------------------------------
(* The world. *)

Hold(c) ==
  /\ c \notin held /\ held' = held \cup {c}
  /\ UNCHANGED <<alive, db, disk, run, crashes, overlapped>>

Withdraw(c) ==
  /\ c \in held /\ held' = held \ {c}
  /\ UNCHANGED <<alive, db, disk, run, crashes, overlapped>>

SourceDies(s) ==
  /\ s \in alive /\ alive' = alive \ {s}
  /\ UNCHANGED <<held, db, disk, run, crashes, overlapped>>

OtherCommit ==
  /\ disk # db /\ disk' = db
  /\ UNCHANGED <<held, alive, db, run, crashes, overlapped>>

------------------------------------------------------------------------------
Moves(t, x) == run' = [run EXCEPT ![t] = x]
Enters(t, x) ==
  /\ run[t].at = "idle" /\ Moves(t, x)
  /\ overlapped' = (overlapped \/ \E u \in Thread : run[u].at # "idle")

(* A leap: the profiles at T, then the rows there are. *)

BeginLeap(t) ==
  /\ Enters(t, [Idle EXCEPT !.at = "leap", !.seen = held, !.live = alive])
  /\ UNCHANGED <<held, alive, db, disk, crashes>>

SelectSpent(t) ==
  /\ run[t].at = "leap"
  /\ Moves(t, [run[t] EXCEPT !.at = "insert", !.claimed = Taken,
       !.todo = {l \in Leap : /\ db.row[l].status = "none" /\ SourceOf[l] \in run[t].live
                              /\ Unknown(ClaimOf[l], run[t].seen)}])
  /\ UNCHANGED <<held, alive, db, disk, crashes, overlapped>>

Eligible(t) == {l \in run[t].todo : Name(l) \notin run[t].claimed}

(* Look-alikes first; of the priors, the strongest in an order of theirs. *)
InsertHunch(t, l) ==
  /\ run[t].at \in {"insert", "priors"} /\ run[t].made < MAX_NEW_PER_RUN
  /\ l \in Eligible(t) /\ (l \in FromPrior => Eligible(t) \subseteq FromPrior)
  /\ db' = [db EXCEPT !.row[l] = IF @ = NoRow THEN [status |-> "open", passes |-> 0] ELSE @]
  /\ Moves(t, [run[t] EXCEPT !.at = IF l \in FromPrior THEN "priors" ELSE "insert",
       !.made = @ + 1, !.todo = @ \ {l}, !.claimed = @ \cup {Name(l)}])
  /\ UNCHANGED <<held, alive, disk, crashes, overlapped>>

(* In the scheduler's pass doubt follows the leap. *)
AfterLeap(t) == Moves(t, IF t = Scheduler THEN [Idle EXCEPT !.at = "ready"] ELSE Idle)

(* At its bound a pass returns at once from inside the look-alikes' loop,   *)
(* and leaves the commit to whoever commits next; the loop over the priors  *)
(* only ends.                                                               *)
ReturnFull(t) ==
  /\ run[t].at = "insert" /\ run[t].made = MAX_NEW_PER_RUN /\ AfterLeap(t)
  /\ UNCHANGED <<held, alive, db, disk, crashes, overlapped>>

CommitLeap(t) ==
  /\ run[t].at \in {"insert", "priors"}
  /\ Eligible(t) = {} \/ run[t].made = MAX_NEW_PER_RUN
  /\ AfterLeap(t) /\ disk' = db
  /\ UNCHANGED <<held, alive, db, crashes, overlapped>>

(* An interrogation: the world at T, then the pending rows. *)

BeginInterrogation(t) ==
  /\ Enters(t, [Idle EXCEPT !.at = "ready"])
  /\ UNCHANGED <<held, alive, db, disk, crashes>>

Interrogate(t) ==
  /\ run[t].at = "ready"
  /\ Moves(t, [run[t] EXCEPT !.at = "doubt", !.seen = held, !.live = alive])
  /\ UNCHANGED <<held, alive, db, disk, crashes, overlapped>>

(* Mutant of SelectCases: what is decided is interrogated again. *)
SelectEveryCase(t) ==
  /\ run[t].at = "doubt"
  /\ LET S == Rows(Status \ {"none", "lapsed"})
     IN  Moves(t, [run[t] EXCEPT !.at = "judge", !.todo = S,
                                 !.cases = [l \in S |-> db.row[l]]])
  /\ UNCHANGED <<held, alive, db, disk, crashes, overlapped>>

SelectCases(t) ==
  /\ run[t].at = "doubt"
  /\ Moves(t, [run[t] EXCEPT !.at = "judge", !.todo = Rows(Pending),
                             !.cases = [l \in Rows(Pending) |-> db.row[l]]])
  /\ UNCHANGED <<held, alive, db, disk, crashes, overlapped>>

(* No verdict: one more pass, and after enough of them the case asks. *)
Defer(t, l) ==
  LET case == run[t].cases[l]
      n    == case.passes + 1
  IN  /\ run[t].at = "judge" /\ l \in run[t].todo
      /\ Verdict(l, run[t].seen, run[t].live) = "none"
      /\ db' = [db EXCEPT !.row[l] =
           [status |-> IF n >= ASK_AFTER_PASSES THEN "asking" ELSE case.status,
            passes |-> IF n > ASK_AFTER_PASSES THEN ASK_AFTER_PASSES ELSE n]]
      /\ Moves(t, [run[t] EXCEPT !.todo = @ \ {l}])
      /\ UNCHANGED <<held, alive, disk, crashes, overlapped>>

(* UPDATE by id, whatever the row says by now. *)
Decide(t, l) ==
  LET verdict == Verdict(l, run[t].seen, run[t].live)
  IN  /\ run[t].at = "judge" /\ l \in run[t].todo /\ verdict # "none"
      /\ db' = [db EXCEPT !.row[l].status = verdict]
      /\ Moves(t, [run[t] EXCEPT !.todo = @ \ {l},
                                 !.at = IF verdict = "lapsed" THEN "judge" ELSE "read",
                                 !.score = IF verdict = "lapsed" THEN {} ELSE {l}])
      /\ UNCHANGED <<held, alive, disk, crashes, overlapped>>

(* The record of the generator is read, and written with one more verdict. *)
ReadRecord(t) ==
  /\ run[t].at = "read"
  /\ \E l \in run[t].score :
       Moves(t, [run[t] EXCEPT !.at = "score", !.tally = db.verdicts[GeneratorOf[l]]])
  /\ UNCHANGED <<held, alive, db, disk, crashes, overlapped>>

ScoreGenerator(t) ==
  /\ run[t].at = "score"
  /\ \E l \in run[t].score :
       db' = [db EXCEPT !.verdicts[GeneratorOf[l]] =
                IF run[t].tally = MaxVerdicts THEN MaxVerdicts ELSE run[t].tally + 1]
  /\ disk' = db'
  /\ Moves(t, [run[t] EXCEPT !.at = "judge", !.score = {}, !.tally = 0])
  /\ UNCHANGED <<held, alive, crashes, overlapped>>

CommitVerdicts(t) ==
  /\ run[t].at = "judge" /\ run[t].todo = {}
  /\ Moves(t, Idle) /\ disk' = db
  /\ UNCHANGED <<held, alive, db, crashes, overlapped>>

(* An answer becomes a claim about the target, then reality decides. *)

Answer(t, l) ==
  /\ db.row[l].status \in Pending
  /\ Enters(t, [Idle EXCEPT !.at = "answer", !.score = {l}])
  /\ UNCHANGED <<held, alive, db, disk, crashes>>

RecordAnswer(t) ==
  /\ run[t].at = "answer"
  /\ \E l \in run[t].score :
       \E c \in {ClaimOf[l], Negation[ClaimOf[l]]} : held' = held \cup {c}
  /\ disk' = db
  /\ Moves(t, [run[t] EXCEPT !.at = "ready", !.score = {}])
  /\ UNCHANGED <<alive, db, crashes, overlapped>>

Crash ==
  /\ crashes < MaxCrashes /\ crashes' = crashes + 1
  /\ db' = disk /\ run' = [t \in Thread |-> Idle]
  /\ UNCHANGED <<held, alive, disk, overlapped>>

------------------------------------------------------------------------------
Init ==
  /\ held = {} /\ alive = Source
  /\ db = [row |-> [l \in Leap |-> NoRow], verdicts |-> [g \in Generator |-> 0]]
  /\ disk = db
  /\ run = [t \in Thread |-> Idle] /\ crashes = 0 /\ overlapped = FALSE

Proceed(t) ==
  \/ SelectSpent(t) \/ ReturnFull(t) \/ CommitLeap(t)
  \/ SelectCases(t) \/ ReadRecord(t) \/ ScoreGenerator(t) \/ CommitVerdicts(t)
  \/ RecordAnswer(t) \/ Interrogate(t)
  \/ \E l \in Leap : InsertHunch(t, l) \/ Defer(t, l) \/ Decide(t, l)

World ==
  \/ \E c \in Claim : Hold(c) \/ Withdraw(c)
  \/ \E s \in Source : SourceDies(s)
  \/ OtherCommit

Next ==
  \/ World \/ Crash
  \/ \E t \in Thread :
       \/ BeginLeap(t) \/ Proceed(t)
       \/ t # Scheduler /\ (BeginInterrogation(t) \/ \E l \in Leap : Answer(t, l))

Spec == Init /\ [][Next]_vars

------------------------------------------------------------------------------
(* Properties. *)

(* Every variable has its type; who scores, scores one case. *)
TypeOK ==
  /\ held \subseteq Claim /\ alive \subseteq Source
  /\ \A d \in {db, disk} :
       /\ d.row \in [Leap -> [status : Status, passes : 0..ASK_AFTER_PASSES]]
       /\ \A g \in Generator : d.verdicts[g] \in 0..MaxVerdicts
  /\ \A t \in Thread :
       /\ run[t].todo \subseteq Leap /\ run[t].claimed \subseteq Claim
       /\ run[t].made \in 0..MAX_NEW_PER_RUN
       /\ Cardinality(run[t].score) = IF run[t].at \in {"read", "score", "answer"} THEN 1 ELSE 0

(* Verdicts are counted twice, in the rows and in the generators' records,  *)
(* and birth strengths rest on both: a generator has one verdict for each   *)
(* of its decided hunches, on disk as in memory, unless two interrogations  *)
(* overlapped or a crash came between another's commit and the score.       *)
Settled(d, g) == {l \in Leap : GeneratorOf[l] = g /\ d.row[l].status \in {"supported", "refuted"}}
InScore(g) == {l \in UNION {run[t].score : t \in Thread} : GeneratorOf[l] = g
                 /\ \E t \in Thread : l \in run[t].score /\ run[t].at \in {"read", "score"}}

ScoredOnce ==
  ~ overlapped => \A g \in Generator :
    /\ db.verdicts[g] <= Cardinality(Settled(db, g))
    /\ crashes = 0 => db.verdicts[g] + Cardinality(InScore(g)) = Cardinality(Settled(db, g))

(* "ONE hypothesis per claim": one case file that has not lapsed, whatever  *)
(* is decided, withdrawn and leapt again, unless two passes overlapped.  A  *)
(* prior that predicts a negation is left out: it is looked up under the    *)
(* bare claim and booked under its own spelling, which the next pass does   *)
(* not find (hypotheses.py:1354 and 1207).                                  *)
LookedUpAsBooked(l) == Name(l) = ClaimOf[l]

OneCaseFile ==
  ~ overlapped => \A l, m \in Rows(Status \ {"none", "lapsed"}) :
    LookedUpAsBooked(l) /\ LookedUpAsBooked(m) /\ ClaimOf[l] = ClaimOf[m] => l = m
================================================================================
