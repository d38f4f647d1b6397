-------------------------------- MODULE Rules --------------------------------
(***************************************************************************)
(* Declared inference rules and their truth maintenance (server/rules.py), *)
(* with the nudge that record() gives it (server/api.py).  A run withdraws *)
(* what no longer follows, then concludes to a bounded fixpoint; the       *)
(* scheduler and POST /v1/memory/infer may run it at the same time, while  *)
(* people record and retract.  An operation of the log is one step here:   *)
(* its own steps are the subject of OpLog.                                 *)
(***************************************************************************)
EXTENDS Integers, Sequences, FiniteSets

CONSTANTS
  Edge,        \* relational claims: [src, rel, dst], what subjects and token spell
  Rule,        \* rules callers declare: [a, da, b, db, then, dthen]
  Said,        \* the edges people assert
  Runner,      \* the scheduler's pass and the requests that run the rules
  Sweeper,   \* the one of them that starts by itself, again and again
  MAX_PASSES, MAX_NEW_PER_RUN,
  MaxClaims, MaxTroubles     \* bounds: claims; rules switched off, nudges lost, crashes

VARIABLES
  claims,    \* claims in recorded order: what each says, rests on, and became
  booked,    \* rule_conclusions: fingerprint -> the conclusion's number
  active,    \* rules whose row is active
  run,       \* thread -> its pass over the rules
  work,      \* closed claims whose dependents a nudge has yet to withdraw
  wasOff,    \* history: rules that were inactive at some time after a declaration
  troubles   \* rules switched off, nudges lost, and crashes

ruling == <<claims, booked, active, run, work, wasOff, troubles>>

ClaimNo == 1..MaxClaims
Claim == [edge : Edge, by : {"person", "rules"}, rests : SUBSET ClaimNo,
          state : {"open", "closed by person", "closed by rules"}]

(* A fingerprint is the hash of the rule and the two premises it joins. *)
Fingerprint == Rule \X ClaimNo \X ClaimNo

IdleRun == [at |-> "idle", rules |-> {}, due |-> {}, changed |-> FALSE, todo |-> {},
            spent |-> {}, pass |-> 0, new |-> 0, made |-> 0, print |-> <<>>, claim |-> 0]

------------------------------------------------------------------------------
(* Reading. *)

Recorded == DOMAIN claims
Open(i) == claims[i].state = "open"
Opens == {i \in Recorded : Open(i)}
Conclusions == {booked[f] : f \in DOMAIN booked}

(* An edge as a rule reads it: with it, or against it. *)
Walk(e, dir) == IF dir = "fwd" THEN <<e.src, e.dst>> ELSE <<e.dst, e.src>>

Joins(r, e1, e2) ==
  /\ e1.rel = r.a /\ e2.rel = r.b
  /\ Walk(e1, r.da)[2] = Walk(e2, r.db)[1]
  /\ Walk(e1, r.da)[1] # Walk(e2, r.db)[2]

Concluded(r, e1, e2) ==
  LET here == Walk(e1, r.da)[1]
      there  == Walk(e2, r.db)[2]
  IN  IF r.dthen = "fwd" THEN [src |-> here, rel |-> r.then, dst |-> there]
                         ELSE [src |-> there,  rel |-> r.then, dst |-> here]

(* The joins of the live edges, as fingerprints. *)
Matches(rules, live) ==
  {f \in rules \X live \X live : Joins(f[1], claims[f[2]].edge, claims[f[3]].edge)}

Says(f) == Concluded(f[1], claims[f[2]].edge, claims[f[3]].edge)

(* A pass joins the live edges once, and leaves out what is spent and what *)
(* is held already; with nothing to conclude it is the run's last.         *)
Pass(x, rules, spent, n) ==
  LET held == {claims[i].edge : i \in Opens}
      todo == {f \in Matches(rules, Opens) : f \notin spent /\ Says(f) \notin held}
  IN  IF todo = {} THEN IdleRun
      ELSE [IdleRun EXCEPT !.at = "pass", !.rules = rules, !.todo = todo,
                           !.spent = spent, !.pass = n, !.made = x.made]

(* Mutant of Due: a conclusion falls only when both premises are gone. *)
DueWhenBothGone(on, live) ==
  {booked[f] : f \in {g \in DOMAIN booked :
     /\ booked[g] \in live
     /\ g[1] \notin on \/ {g[2], g[3]} \cap live = {}}}

(* Booked conclusions that a sweep over the claims open at T withdraws. *)
Due(on, live) ==
  {booked[f] : f \in {g \in DOMAIN booked :
     /\ booked[g] \in live
     /\ g[1] \notin on \/ ~ ({g[2], g[3]} \subseteq live)}}

Closed(C, how) == [i \in Recorded |-> IF i \in C THEN [claims[i] EXCEPT !.state = how]
                                                 ELSE claims[i]]

------------------------------------------------------------------------------
(* People: claims, retractions, declared rules. *)

Say(e) ==
  /\ Len(claims) < MaxClaims
  /\ claims' = Append(claims, [edge |-> e, by |-> "person", rests |-> {}, state |-> "open"])
  /\ UNCHANGED <<booked, active, run, work, wasOff, troubles>>

(* Anyone may close a claim, a conclusion included; record() then nudges. *)
Retract(i) ==
  /\ i \in Opens
  /\ claims' = Closed({i}, "closed by person")
  /\ work' = work \cup {i}
  /\ UNCHANGED <<booked, active, run, wasOff, troubles>>

DeclareRule(r) ==
  /\ r \notin active
  /\ active' = active \cup {r}
  /\ UNCHANGED <<claims, booked, run, work, wasOff, troubles>>

Deactivate(r) ==
  /\ r \in active
  /\ troubles < MaxTroubles /\ troubles' = troubles + 1
  /\ active' = active \ {r} /\ wasOff' = wasOff \cup {r}
  /\ UNCHANGED <<claims, booked, run, work>>

------------------------------------------------------------------------------
(* The nudge: dependents of a closed claim fall in the same request. *)

(* Mutant of Dependents: the derivation graph is walked the wrong way. *)
Grounds(i) == {c \in Opens : c \in claims[i].rests}

Dependents(i) == {c \in Opens \cap Conclusions : i \in claims[c].rests}

Nudge(i) ==
  /\ i \in work
  /\ claims' = Closed(Dependents(i), "closed by rules")
  /\ work' = (work \ {i}) \cup Dependents(i)
  /\ UNCHANGED <<booked, active, run, wasOff, troubles>>

(* record() swallows whatever the nudge raises. *)
NudgeLost ==
  /\ work # {} /\ work' = {}
  /\ troubles < MaxTroubles /\ troubles' = troubles + 1
  /\ UNCHANGED <<claims, booked, active, run, wasOff>>

------------------------------------------------------------------------------
(* A run of the rules. *)

Moves(t, x) == run' = [run EXCEPT ![t] = x]

Start(t) ==
  /\ run[t].at = "idle"
  /\ Moves(t, [IdleRun EXCEPT !.at = "sweep", !.rules = active,
                              !.due = Due(active, Opens)])
  /\ UNCHANGED <<claims, booked, active, work, wasOff, troubles>>

(* One withdrawal of the sweep.  A claim closed since T is refused by the *)
(* engine, and the run ends with that error.                              *)
Withdraw(t, i) ==
  /\ run[t].at = "sweep" /\ i \in run[t].due
  /\ IF Open(i)
     THEN /\ claims' = Closed({i}, "closed by rules")
          /\ Moves(t, [run[t] EXCEPT !.due = @ \ {i}, !.changed = TRUE])
     ELSE /\ Moves(t, IdleRun) /\ UNCHANGED claims
  /\ UNCHANGED <<booked, active, work, wasOff, troubles>>

(* Another look while the last one changed something. *)
SweepAgain(t) ==
  /\ run[t].at = "sweep" /\ run[t].due = {} /\ run[t].changed
  /\ Moves(t, [run[t] EXCEPT !.changed = FALSE, !.due = Due(run[t].rules, Opens)])
  /\ UNCHANGED <<claims, booked, active, work, wasOff, troubles>>

(* The sweep is stable: read the rules and the spent prints, then join. *)
BeginPasses(t) ==
  /\ run[t].at = "sweep" /\ run[t].due = {} /\ ~ run[t].changed
  /\ Moves(t, Pass(run[t], active, DOMAIN booked, 1))
  /\ UNCHANGED <<claims, booked, active, work, wasOff, troubles>>

(* The conclusion, then its derivation, then the row that remembers it. *)
Conclude(t, f) ==
  /\ run[t].at = "pass" /\ f \in run[t].todo /\ Len(claims) < MaxClaims
  /\ claims' = Append(claims, [edge |-> Says(f), by |-> "rules", rests |-> {},
                               state |-> "open"])
  /\ Moves(t, [run[t] EXCEPT !.at = "derive", !.print = f, !.claim = Len(claims) + 1])
  /\ UNCHANGED <<booked, active, work, wasOff, troubles>>

Ground(t) ==
  /\ run[t].at = "derive"
  /\ claims' = [claims EXCEPT ![run[t].claim].rests = {run[t].print[2], run[t].print[3]}]
  /\ Moves(t, [run[t] EXCEPT !.at = "book"])
  /\ UNCHANGED <<booked, active, work, wasOff, troubles>>

(* INSERT OR IGNORE: the first conclusion of a print keeps the row. *)
Book(t) ==
  LET f    == run[t].print
      made == run[t].made + 1
  IN  /\ run[t].at = "book"
      /\ booked' = IF f \in DOMAIN booked THEN booked
                   ELSE [g \in DOMAIN booked \cup {f} |->
                           IF g = f THEN run[t].claim ELSE booked[g]]
      /\ Moves(t, IF made >= MAX_NEW_PER_RUN THEN IdleRun
                  ELSE [run[t] EXCEPT !.at = "pass", !.made = made, !.new = 1,
                                      !.spent = @ \cup {f},
                                      !.todo = {g \in @ : Says(g) # Says(f)},
                                      !.print = <<>>, !.claim = 0])
      /\ UNCHANGED <<claims, active, work, wasOff, troubles>>

(* Every join was dealt with, or no number is left in this instance. *)
PassOver(t) ==
  /\ run[t].at = "pass"
  /\ run[t].todo = {} \/ Len(claims) = MaxClaims
  /\ Moves(t, IF run[t].new = 0 \/ run[t].pass = MAX_PASSES THEN IdleRun
              ELSE Pass(run[t], run[t].rules, run[t].spent, run[t].pass + 1))
  /\ UNCHANGED <<claims, booked, active, work, wasOff, troubles>>

(* The process dies; the log and the rows are what it restarts from. *)
RulesCrash ==
  /\ troubles < MaxTroubles /\ troubles' = troubles + 1
  /\ run' = [t \in Runner |-> IdleRun] /\ work' = {}
  /\ UNCHANGED <<claims, booked, active, wasOff>>

------------------------------------------------------------------------------
RulesInit ==
  /\ claims = <<>> /\ booked = [f \in {} |-> 0]
  /\ active = Rule /\ wasOff = {}
  /\ run = [t \in Runner |-> IdleRun] /\ work = {}
  /\ troubles = 0

Proceed(t) ==
  \/ SweepAgain(t) \/ BeginPasses(t) \/ Ground(t) \/ Book(t) \/ PassOver(t)
  \/ \E i \in ClaimNo : Withdraw(t, i)
  \/ \E f \in run[t].todo : Conclude(t, f)

People ==
  \/ \E e \in Said : Say(e)
  \/ \E i \in ClaimNo : Retract(i)
  \/ \E r \in Rule : DeclareRule(r) \/ Deactivate(r)

RulesNext ==
  \/ People \/ NudgeLost \/ RulesCrash
  \/ \E i \in ClaimNo : Nudge(i)
  \/ \E t \in Runner : Start(t) \/ Proceed(t)

RulesSpec == RulesInit /\ [][RulesNext]_ruling

(* A run that has begun goes on, and the scheduler begins one again and *)
(* again; people, requests and nudges owe nothing.                      *)
RulesFairSpec ==
  /\ RulesSpec
  /\ WF_ruling(Start(Sweeper))
  /\ \A t \in Runner : WF_ruling(Proceed(t))

------------------------------------------------------------------------------
(* Properties. *)

(* Every variable has its type; a run in progress knows what it works on. *)
RulesTypeOK ==
  /\ claims \in Seq(Claim) /\ Len(claims) <= MaxClaims
  /\ DOMAIN booked \subseteq Fingerprint /\ \A f \in DOMAIN booked : booked[f] \in Recorded
  /\ active \subseteq Rule /\ wasOff \subseteq Rule
  /\ work \subseteq Recorded
  /\ troubles \in 0..MaxTroubles
  /\ DOMAIN run = Runner
  /\ \A t \in Runner :
       /\ run[t].at \in {"idle", "sweep", "pass", "derive", "book"}
       /\ run[t].rules \subseteq Rule /\ run[t].due \subseteq Recorded
       /\ run[t].todo \subseteq Rule \X Recorded \X Recorded
       /\ run[t].spent \subseteq Fingerprint
       /\ run[t].pass \in 0..MAX_PASSES /\ run[t].made \in 0..MAX_NEW_PER_RUN
       /\ run[t].new \in {0, 1} /\ run[t].changed \in BOOLEAN
       /\ run[t].at \in {"derive", "book"} =>
            run[t].print \in Fingerprint /\ run[t].claim \in Recorded

(* What a booked conclusion rests on. *)
PrintsOf(i) == {f \in DOMAIN booked : booked[f] = i}

(* Withdrawals have a cause: whatever interleaves, the rules close only a   *)
(* conclusion one of whose premises is closed or whose rule has been off    *)
(* (_sweep, maintain_after_close: never a belief it did not conclude).      *)
WithdrawnForCause ==
  \A i \in Recorded : claims[i].state = "closed by rules" =>
    \E f \in PrintsOf(i) : f[1] \in wasOff \/ ~ Open(f[2]) \/ ~ Open(f[3])

(* A booked conclusion that does not follow any more. *)
Unfounded(i) ==
  /\ i \in Opens
  /\ \E f \in PrintsOf(i) : f[1] \notin active \/ ~ ({f[2], f[3]} \subseteq Opens)

(* "The nudge can be missed, the sweep cannot": a booked conclusion whose   *)
(* premise was closed, or whose rule was switched off, falls in the end,    *)
(* through chains, lost nudges, racing runs and crashes.                    *)
BookedFall == \A i \in ClaimNo : []<>(~ Unfounded(i))
==============================================================================
