------------------------------ MODULE MCJudgments ------------------------------
(***************************************************************************)
(* What the server decides and writes down, in one model: approvals,       *)
(* merges of people, consolidated patterns, hypotheses, and the sharing of *)
(* patterns between installs.  They share no state, so a scenario says     *)
(* which of them moves while the others keep still: the states are those   *)
(* of each alone.                                                          *)
(***************************************************************************)
EXTENDS MCApprovalQueue, Sequences

CONSTANTS
  Person, Words, Org, Suffix, Merger, MaxCorefs, MaxEdges,
  Fact, SubjectOf, PropOf, TimeOf, Opposed, Consolidator, Scheduler,
  MIN_SUBJECTS, MIN_DISTINCT_TIMES, MAX_NEW_PATTERNS, MaxPatterns, MaxStops,
  Claim, Negation, Bare, Leap, ClaimOf, SourceOf, GeneratorOf, FromPrior, Source, Doubter,
  MAX_NEW_HUNCHES, ASK_AFTER_PASSES, MaxEnds, MaxVerdicts,
  Install, Runner, Request, Pattern, Banked, Pointed, Own,
  POOLED_MIN_SOURCES, MaxIds, MaxMessages, MaxPulls, MaxChanges

VARIABLES scenario,
          known, edges, corefs, row, merging, drawn, mixed,
          facts, patterns, booked, noted, pass, stops, disturbed,
          held, alive, hunches, saved, doubt, ends, crossed,
          choice, named, bank, pooled, sharing, net, contributions, withdrawals, spent, minted,
          promised, stored

judging       == <<known, edges, corefs, row, merging, drawn, mixed>>
consolidating == <<facts, patterns, booked, noted, pass, stops, disturbed>>
guessing      == <<held, alive, hunches, saved, doubt, ends, crossed>>
pooling       == <<choice, named, bank, pooled, sharing, net, contributions, withdrawals, spent,
                   minted, promised, stored>>

Merges == INSTANCE Merges WITH
  Thread <- Merger, run <- merging, overlapped <- mixed

Patterns == INSTANCE Consolidation WITH
  Thread <- Consolidator, MAX_NEW_PER_RUN <- MAX_NEW_PATTERNS, MaxCrashes <- MaxStops,
  run <- pass, crashes <- stops

Hunches == INSTANCE Hypotheses WITH
  Thread <- Doubter, MAX_NEW_PER_RUN <- MAX_NEW_HUNCHES, MaxCrashes <- MaxEnds,
  db <- hunches, disk <- saved, run <- doubt, crashes <- ends, overlapped <- crossed

Commons == INSTANCE Commons WITH run <- sharing, crossed <- stored

(* For TLC: a bare Sarah, and two records of one Sarah Chen of acme. *)
Names    == "s" :> <<"sarah">> @@ "c" :> <<"sarah", "chen">> @@ "d" :> <<"sarah", "chen">>
Suffixes == "s" :> {} @@ "c" :> {"acme"} @@ "d" :> {"acme"}

(* For TLC: three people say p at two times, and one of them the opposite. *)
Subjects == "f1" :> "ann" @@ "f2" :> "bob" @@ "f3" :> "eve" @@ "n1" :> "bob"
Says     == "f1" :> "p" @@ "f2" :> "p" @@ "f3" :> "p" @@ "n1" :> "np"
Times    == "f1" :> 1 @@ "f2" :> 2 @@ "f3" :> 1 @@ "n1" :> 1

(* For TLC: one question, and three ways to guess it: like ann, or as one  *)
(* prior has it, or as another denies it.                                  *)
Opposites == "q" :> "nq" @@ "nq" :> "q"
BareOf    == "q" :> "q" @@ "nq" :> "q"
Guesses   == "like" :> "q" @@ "prior" :> "q" @@ "denial" :> "nq"
Born      == "like" :> "like" @@ "prior" :> "prior" @@ "denial" :> "prior"
OneGuesser == [l \in Leap |-> "g"]

(* For TLC: an install that is asked and exports from two threads, and one  *)
(* that was pointed at the collector.                                       *)
Threads == {<<"x", "tick">>, <<"x", "web">>, <<"y", "tick">>}
Web     == {<<"x", "web">>}
Banks   == "x" :> {"p", "q"} @@ "y" :> {"p"}

ASSUME MergesAssumption == MaxCorefs \in Nat /\ MaxEdges \in Nat

ASSUME PatternsAssumption == MAX_NEW_PATTERNS \in Nat

ASSUME HunchesAssumption ==
  /\ ClaimOf \in [Leap -> Claim] /\ SourceOf \in [Leap -> Source]
  /\ Negation \in [Claim -> Claim] /\ Bare \in [Claim -> Claim]
  /\ MAX_NEW_HUNCHES \in Nat /\ ASK_AFTER_PASSES \in Nat /\ MaxEnds \in Nat
  /\ IsFiniteSet(Leap) /\ MaxVerdicts \in Nat /\ Cardinality(Leap) <= MaxVerdicts

ASSUME CommonsAssumption ==
  /\ \A x \in Runner : x[1] \in Install
  /\ Banked \in [Install -> SUBSET Pattern]
  /\ POOLED_MIN_SOURCES \in Nat /\ MaxIds \in Nat

JudgmentsInit ==
  /\ Init /\ Merges!Init /\ Patterns!Init /\ Hunches!Init /\ Commons!Init
  /\ scenario \in {"queue", "merges", "patterns", "hunches", "commons"}

QueueMoves ==
  /\ scenario = "queue" /\ Next
  /\ UNCHANGED <<scenario, judging, consolidating, guessing, pooling>>
MergesMove ==
  /\ scenario = "merges" /\ Merges!Next
  /\ UNCHANGED <<scenario, vars, consolidating, guessing, pooling>>
PatternsMove ==
  /\ scenario = "patterns" /\ Patterns!Next
  /\ UNCHANGED <<scenario, vars, judging, guessing, pooling>>
HunchesMove ==
  /\ scenario = "hunches" /\ Hunches!Next
  /\ UNCHANGED <<scenario, vars, judging, consolidating, pooling>>
CommonsMoves ==
  /\ scenario = "commons" /\ Commons!Next
  /\ UNCHANGED <<scenario, vars, judging, consolidating, guessing>>
JudgmentsNext ==
  \/ QueueMoves \/ MergesMove \/ PatternsMove
  \/ HunchesMove \/ CommonsMoves

JudgmentsSpec ==
  /\ JudgmentsInit
  /\ [][JudgmentsNext]_<<scenario, vars, judging, consolidating, guessing, pooling>>

------------------------------------------------------------------------------
(* Nobody is asked twice about one pair of people (Merges). *)
AskedOnce == Merges!AskedOnce /\ []Merges!TypeOK

(* A token has one pattern, and a pass leaves believed what its support *)
(* bears (Consolidation).                                               *)
PatternsFollow == Patterns!PassSettles /\ []Patterns!OnePatternEach /\ []Patterns!TypeOK

(* One case file for a claim, whose verdict counts once (Hypotheses). *)
CasesInOrder ==
  scenario = "hunches" => Hunches!TypeOK /\ Hunches!ScoredOnce /\ Hunches!OneCaseFile

(* Who withdrew is not published, and nobody is taught by one population *)
(* alone (Commons).                                                      *)
CommonsHold == scenario = "commons" => Commons!CommonsHold
================================================================================
