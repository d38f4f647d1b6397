----------------------------- MODULE Consolidation -----------------------------
(***************************************************************************)
(* Consolidation (server/consolidation.py): what several people show at    *)
(* several times is asserted as a pattern, derived from the facts that     *)
(* support it, and retracted when they no longer do.  The scheduler's pass *)
(* and POST /v1/memory/consolidate run it beside everything else; an       *)
(* operation of the log, and a statement on the shared connection, is one  *)
(* step.                                                                   *)
(***************************************************************************)
EXTENDS Integers, Sequences, FiniteSets

CONSTANTS
  Fact,          \* claims people may make
  SubjectOf, PropOf, TimeOf,    \* of a fact; TimeOf is when it was so
  Opposed,       \* pairs of tokens declared contradictory
  Thread, Scheduler,
  MIN_SUBJECTS, MIN_DISTINCT_TIMES, MAX_NEW_PER_RUN,
  MaxPatterns, MaxCrashes      \* bounds: patterns ever asserted; crashes

VARIABLES
  facts,      \* fact -> "none", "open" (and visible to all), "gone" (closed or private)
  patterns,   \* generalizations in recorded order: [prop, rests, open]
  booked,     \* consolidation_state: token -> [pattern, support], pattern 0 without a row
  noted,      \* memory_reinforcements: <<pattern, fact>>
  run,        \* thread -> the pass it is in
  crashes,
  disturbed   \* history: two passes overlapped, or one was cut off

vars == <<facts, patterns, booked, noted, run, crashes, disturbed>>

Prop == {PropOf[f] : f \in Fact}
NoRow == [pattern |-> 0, support |-> {}]
Idle == [at |-> "idle", seen |-> {}, live |-> {}, todo |-> {}, of |-> {}, had |-> {},
         made |-> 0, new |-> 0]

Open == {f \in Fact : facts[f] = "open"}
Live == {i \in DOMAIN patterns : patterns[i].open}

------------------------------------------------------------------------------
(* The policy, over the facts F open at T. *)

About(F, p)    == {f \in F : PropOf[f] = p}
Subjects(F, p) == {SubjectOf[f] : f \in About(F, p)}

(* One supporter for each subject: its earliest open fact. *)
Supporters(F, p) ==
  {f \in About(F, p) :
     \A g \in About(F, p) : SubjectOf[g] = SubjectOf[f] => TimeOf[f] <= TimeOf[g]}

Against(p) == {q \in Prop : {p, q} \in Opposed}

Qualifies(F, p) ==
  /\ Cardinality(Subjects(F, p)) >= MIN_SUBJECTS
  /\ Cardinality({TimeOf[f] : f \in Supporters(F, p)}) >= MIN_DISTINCT_TIMES
  /\ \A q \in Against(p) : Cardinality(Subjects(F, q)) * 2 < Cardinality(Subjects(F, p))

------------------------------------------------------------------------------
(* People. *)

Say(f) ==
  /\ facts[f] = "none" /\ facts' = [facts EXCEPT ![f] = "open"]
  /\ UNCHANGED <<patterns, booked, noted, run, crashes, disturbed>>

Withdraw(f) ==
  /\ facts[f] = "open" /\ facts' = [facts EXCEPT ![f] = "gone"]
  /\ UNCHANGED <<patterns, booked, noted, run, crashes, disturbed>>

RetractByHand(i) ==
  /\ i \in Live /\ patterns' = [patterns EXCEPT ![i].open = FALSE]
  /\ UNCHANGED <<facts, booked, noted, run, crashes, disturbed>>

------------------------------------------------------------------------------
(* A pass: the tokens with an open fact, one after the other. *)

Moves(t, x) == run' = [run EXCEPT ![t] = x]
Goto(t, ph) == Moves(t, [run[t] EXCEPT !.at = ph])

Gather(t) ==
  /\ run[t].at = "idle"
  /\ Moves(t, IF Open = {} THEN Idle
              ELSE [Idle EXCEPT !.at = "look", !.seen = Open, !.live = Live,
                                !.todo = {PropOf[f] : f \in Open}])
  /\ disturbed' = (disturbed \/ \E u \in Thread : run[u].at # "idle")
  /\ UNCHANGED <<facts, patterns, booked, noted, crashes>>

(* Whether the pattern was open at T: closed since, it still was; asserted *)
(* since, it was not.                                                      *)
WasOpen(t, i) == i \in run[t].live

(* The row is read and says what is to be done for the token. *)
Step(t, p) ==
  LET row  == booked[p]
      holds == Qualifies(run[t].seen, p)
      fits == run[t].made < MAX_NEW_PER_RUN
  IN  CASE row.pattern = 0 /\ holds /\ fits             -> "assert"
        [] row.pattern # 0 /\ ~ holds /\ WasOpen(t, row.pattern) -> "retract"
        [] row.pattern # 0 /\ holds
             /\ row.support # Supporters(run[t].seen, p) -> "reinforce"
        [] OTHER                                          -> "pass"

Finished(t) == Moves(t, IF run[t].todo = {} THEN Idle
                        ELSE [run[t] EXCEPT !.at = "look", !.of = {}, !.had = {}, !.new = 0])

Pass(t, p) ==
  /\ run[t].at = "look" /\ p \in run[t].todo /\ Step(t, p) = "pass"
  /\ Moves(t, IF run[t].todo = {p} THEN Idle ELSE [run[t] EXCEPT !.todo = @ \ {p}])
  /\ UNCHANGED <<facts, patterns, booked, noted, crashes, disturbed>>

Look(t, p) ==
  /\ run[t].at = "look" /\ p \in run[t].todo /\ Step(t, p) # "pass"
  /\ Moves(t, [run[t] EXCEPT !.at = Step(t, p), !.of = {p}, !.todo = @ \ {p},
                           !.had = booked[p].support])
  /\ UNCHANGED <<facts, patterns, booked, noted, crashes, disturbed>>

AssertPattern(t) ==
  /\ run[t].at = "assert" /\ Len(patterns) < MaxPatterns
  /\ \E p \in run[t].of :
       patterns' = Append(patterns, [prop |-> p, rests |-> {}, open |-> TRUE])
  /\ Moves(t, [run[t] EXCEPT !.at = "derive", !.new = Len(patterns) + 1, !.made = @ + 1])
  /\ UNCHANGED <<facts, booked, noted, crashes, disturbed>>

Derive(t) ==
  /\ run[t].at = "derive"
  /\ \E p \in run[t].of :
       patterns' = [patterns EXCEPT ![run[t].new].rests = Supporters(run[t].seen, p)]
  /\ Goto(t, "book")
  /\ UNCHANGED <<facts, booked, noted, crashes, disturbed>>

(* INSERT OR IGNORE: the first pattern of a token keeps the row. *)
Book(t) ==
  /\ run[t].at = "book"
  /\ \E p \in run[t].of :
       booked' = [booked EXCEPT ![p] =
         IF @.pattern = 0 THEN [pattern |-> run[t].new, support |-> Supporters(run[t].seen, p)]
                          ELSE @]
  /\ Finished(t)
  /\ UNCHANGED <<facts, patterns, noted, crashes, disturbed>>

(* Mutant of RetractPattern: the row is written, nothing is retracted. *)
RetractRowOnly(t) ==
  /\ run[t].at = "retract" /\ Goto(t, "update")
  /\ UNCHANGED <<facts, patterns, booked, noted, crashes, disturbed>>

(* The engine refuses a second close, and the pass ends with that error. *)
RetractPattern(t) ==
  /\ run[t].at = "retract"
  /\ \E p \in run[t].of :
       LET i == booked[p].pattern
       IN  IF patterns[i].open
           THEN patterns' = [patterns EXCEPT ![i].open = FALSE] /\ Goto(t, "update")
           ELSE Moves(t, Idle) /\ UNCHANGED patterns
  /\ UNCHANGED <<facts, booked, noted, crashes, disturbed>>

(* New supporters are noted on the pattern there is, never on a second one. *)
Reinforce(t) ==
  /\ run[t].at = "reinforce"
  /\ \E p \in run[t].of :
       noted' = noted \cup
         {booked[p].pattern} \X (Supporters(run[t].seen, p) \ run[t].had)
  /\ Goto(t, "update")
  /\ UNCHANGED <<facts, patterns, booked, crashes, disturbed>>

UpdateRow(t) ==
  /\ run[t].at = "update"
  /\ \E p \in run[t].of :
       booked' = [booked EXCEPT ![p].support = Supporters(run[t].seen, p)]
  /\ Finished(t)
  /\ UNCHANGED <<facts, patterns, noted, crashes, disturbed>>

Crash ==
  /\ crashes < MaxCrashes /\ crashes' = crashes + 1
  /\ disturbed' = (disturbed \/ \E t \in Thread : run[t].at # "idle")
  /\ run' = [t \in Thread |-> Idle]
  /\ UNCHANGED <<facts, patterns, booked, noted>>

------------------------------------------------------------------------------
Init ==
  /\ facts = [f \in Fact |-> "none"] /\ patterns = <<>>
  /\ booked = [p \in Prop |-> NoRow] /\ noted = {}
  /\ run = [t \in Thread |-> Idle] /\ crashes = 0 /\ disturbed = FALSE

Proceed(t) ==
  \/ AssertPattern(t) \/ Derive(t) \/ Book(t)
  \/ RetractPattern(t) \/ Reinforce(t) \/ UpdateRow(t)
  \/ \E p \in Prop : Pass(t, p) \/ Look(t, p)

People ==
  \/ \E f \in Fact : Say(f) \/ Withdraw(f)
  \/ \E i \in 1..MaxPatterns : RetractByHand(i)

Next == People \/ Crash \/ \E t \in Thread : Gather(t) \/ Proceed(t)

Spec == Init /\ [][Next]_vars

------------------------------------------------------------------------------
(* Properties. *)

(* Every variable has its type; a row names a pattern of its own token. *)
TypeOK ==
  /\ facts \in [Fact -> {"none", "open", "gone"}]
  /\ \A i \in DOMAIN patterns : patterns[i].prop \in Prop
       /\ patterns[i].rests \subseteq Fact /\ patterns[i].open \in BOOLEAN
  /\ \A p \in Prop : booked[p] # NoRow =>
       /\ booked[p].pattern \in DOMAIN patterns /\ patterns[booked[p].pattern].prop = p
       /\ booked[p].support \subseteq Fact
  /\ noted \subseteq (DOMAIN patterns) \X Fact
  /\ \A t \in Thread : run[t].seen \subseteq Fact /\ run[t].todo \subseteq Prop
       /\ run[t].made \in 0..MAX_NEW_PER_RUN /\ run[t].new \in 0..Len(patterns)

(* consolidation.py:44, "never a duplicate": there is one generalization of *)
(* a token, whatever comes, goes and comes back, unless two passes          *)
(* overlapped or one was cut off between the assertion and its row.         *)
OnePatternEach ==
  ~ disturbed =>
    \A i, j \in DOMAIN patterns : patterns[i].prop = patterns[j].prop => i = j

(* A pass that runs to its end leaves no booked pattern believed that the  *)
(* facts it saw do not support, of any token it saw a fact of.              *)
PassSettles ==
  [][\A t \in Thread :
       run[t].at \in {"look", "book", "update"} /\ run'[t] = Idle /\ ~ disturbed' =>
         \A p \in {PropOf[f] : f \in run[t].seen} :
            booked'[p].pattern \in run[t].live /\ patterns'[booked'[p].pattern].open =>
              Qualifies(run[t].seen, p)]_vars
================================================================================
