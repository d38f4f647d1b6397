---------------------------- MODULE BackgroundProofs ----------------------------
(***************************************************************************)
(* Theorems of what runs behind the requests, for every set of processes,  *)
(* edges, rules, claims, constraints and threads: of Rules, that what the  *)
(* rules withdraw they withdraw for cause; of Tensions, that a decision    *)
(* stands and that a resolved tension is settled; of WriterLock, that the  *)
(* row of the lock names every holder; all whatever interleaves.           *)
(***************************************************************************)
EXTENDS MCBackground, TLAPS, SequenceTheorems, FiniteSetTheorems

(***************************************************************************)
(* I. Rules                                                                *)
(*                                                                         *)
(* A withdrawal decided in one step is executed in a later one, so the     *)
(* invariant follows every claim that is about to fall (due, work) and     *)
(* every conclusion in the making (print, claim) back to what justified    *)
(* it.  It is stated on values, so that one lemma carries it over all      *)
(* steps that only add: claims, closures, booked rows, rules once off.     *)
(***************************************************************************)

(* What a rule concludes from two edges is an edge. *)
RulesAssumption ==
  /\ MAX_PASSES \in Nat \ {0} /\ MAX_NEW_PER_RUN \in Nat \ {0}
  /\ MaxClaims \in Nat /\ MaxTroubles \in Nat
  /\ Said \subseteq Edge
  /\ \A r \in Rule, e1, e2 \in Edge : Joins(r, e1, e2) => Concluded(r, e1, e2) \in Edge

Run == [at : {"idle", "sweep", "pass", "derive", "book"}, rules : SUBSET Rule,
        due : SUBSET ClaimNo, changed : BOOLEAN, todo : SUBSET Fingerprint,
        spent : SUBSET Fingerprint, pass : 0..MAX_PASSES, new : {0, 1},
        made : 0..MAX_NEW_PER_RUN, print : Fingerprint \cup {<<>>},
        claim : ClaimNo \cup {0}]

(* Prints whose premises are among the claims c. *)
Prints(c) == Rule \X (DOMAIN c) \X (DOMAIN c)

(* A row remembers i as the conclusion of a rule that has been off, or of *)
(* premises of which one is closed.                                       *)
Cause(i, c, b, w) ==
  \E f \in DOMAIN b : /\ b[f] = i
                      /\ f[1] \in w \/ c[f[2]].state # "open" \/ c[f[3]].state # "open"

Making(x) == x.at \in {"derive", "book"}

(* A pass x is about claims c, with rows b, where rules w have been off. *)
Fits(x, c, b, w) ==
  /\ x.due \subseteq DOMAIN c /\ \A i \in x.due : Cause(i, c, b, w)
  /\ x.todo \subseteq Prints(c)
  /\ \A f \in x.todo : Joins(f[1], c[f[2]].edge, c[f[3]].edge)
  /\ x.at = "sweep" => Rule \ x.rules \subseteq w
  /\ Making(x) => /\ x.print \in Prints(c) /\ x.claim \in DOMAIN c
                  /\ \A f \in DOMAIN b : b[f] # x.claim
  /\ x.at = "book" => c[x.claim].rests = {x.print[2], x.print[3]}

(* A row's conclusion rests on the premises of its print. *)
Rows(b, c) ==
  /\ DOMAIN b \subseteq Prints(c)
  /\ \A f \in DOMAIN b : b[f] \in DOMAIN c /\ c[b[f]].rests = {f[2], f[3]}

RulesInv ==
  /\ claims \in Seq(Claim) /\ Len(claims) <= MaxClaims
  /\ Rows(booked, claims)
  /\ active \subseteq Rule /\ wasOff \subseteq Rule /\ Rule \ active \subseteq wasOff
  /\ work \subseteq Recorded /\ \A i \in work : ~ Open(i)
  /\ troubles \in 0..MaxTroubles
  /\ run \in [Runner -> Run]
  /\ \A t \in Runner : Fits(run[t], claims, booked, wasOff)
  /\ \A t, u \in Runner : t # u /\ Making(run[t]) /\ Making(run[u]) =>
                            run[t].claim # run[u].claim
  /\ \A i \in Recorded : claims[i].state = "closed by rules" => Cause(i, claims, booked, wasOff)

(* What was said stays said, and what is closed stays closed, as it was. *)
Grown(c, d) ==
  /\ DOMAIN c \subseteq DOMAIN d
  /\ \A i \in DOMAIN c : /\ d[i].edge = c[i].edge
                         /\ c[i].state # "open" => d[i].state = c[i].state

Extended(b, d) == \A f \in DOMAIN b : f \in DOMAIN d /\ d[f] = b[f]

------------------------------------------------------------------------------
(* Claims. *)

LEMMA ClaimGet ==
  ASSUME NEW s \in Seq(Claim)
  PROVE  /\ Len(s) \in Nat /\ DOMAIN s = 1..Len(s)
         /\ \A i \in DOMAIN s : s[i] \in Claim
<1>1. Len(s) \in Nat /\ DOMAIN s = 1..Len(s)
  BY LenProperties
<1>2. \A i \in 1..Len(s) : s[i] \in Claim
  BY ElementOfSeq
<1> QED BY <1>1, <1>2

LEMMA AppendClaim ==
  ASSUME NEW s \in Seq(Claim), NEW v \in Claim
  PROVE  LET r == Append(s, v)
         IN  /\ r \in Seq(Claim) /\ Len(r) = Len(s) + 1 /\ DOMAIN r = 1..Len(s) + 1
             /\ r[Len(s) + 1] = v /\ \A i \in DOMAIN s : r[i] = s[i]
BY AppendProperties, ClaimGet

(* A sequence of as many claims. *)
LEMMA SameLength ==
  ASSUME NEW s \in Seq(Claim), NEW d, d \in [DOMAIN s -> Claim]
  PROVE  d \in Seq(Claim) /\ Len(d) = Len(s) /\ DOMAIN d = DOMAIN s
<1>1. Len(s) \in Nat /\ DOMAIN s = 1..Len(s)
  BY ClaimGet
<1>2. d \in Seq(Claim)
  BY <1>1, SeqDef
<1>3. DOMAIN d = 1..Len(s)
  BY <1>1
<1>4. Len(d) \in Nat /\ DOMAIN d = 1..Len(d)
  BY <1>2, ClaimGet
<1>5. Len(d) = Len(s)
  BY <1>1, <1>3, <1>4
<1> QED BY <1>1, <1>2, <1>3, <1>5

(* Closing claims changes their state and nothing else. *)
OnlyCloses(c, d, C, how) ==
  /\ d \in Seq(Claim) /\ Len(d) = Len(c) /\ DOMAIN d = DOMAIN c
  /\ \A i \in DOMAIN c : d[i].rests = c[i].rests
  /\ \A i \in DOMAIN c : d[i].state = IF i \in C THEN how ELSE c[i].state
  /\ Grown(c, d)

LEMMA CloseClaims ==
  ASSUME claims \in Seq(Claim), NEW C \in SUBSET Opens,
         NEW how \in {"closed by person", "closed by rules"}
  PROVE  OnlyCloses(claims, Closed(C, how), C, how)
<1> DEFINE d == Closed(C, how)
<1>1. \A i \in Recorded : claims[i] \in Claim
  BY ClaimGet DEF Recorded
<1>2. d \in [DOMAIN claims -> Claim]
  BY <1>1 DEF Closed, Recorded, Claim
<1>3. d \in Seq(Claim) /\ Len(d) = Len(claims) /\ DOMAIN d = Recorded
  BY <1>2, SameLength DEF Recorded
<1>4. \A i \in Recorded : d[i] = IF i \in C THEN [claims[i] EXCEPT !.state = how] ELSE claims[i]
  BY DEF Closed
<1>5. \A i \in Recorded :
         /\ d[i].rests = claims[i].rests
         /\ d[i].edge = claims[i].edge
         /\ d[i].state = IF i \in C THEN how ELSE claims[i].state
  BY <1>1, <1>4 DEF Claim
<1>6. Grown(claims, d)
  BY <1>3, <1>5 DEF Grown, Opens, Open, Recorded
<1> HIDE DEF d
<1> QED BY <1>3, <1>5, <1>6 DEF OnlyCloses, Recorded, d

------------------------------------------------------------------------------
(* What is caused stays caused. *)

LEMMA PrintsGrow ==
  ASSUME NEW c, NEW d, DOMAIN c \subseteq DOMAIN d
  PROVE  Prints(c) \subseteq Prints(d)
BY DEF Prints

LEMMA CauseKept ==
  ASSUME NEW c, NEW d, NEW b, NEW e, NEW w, NEW v, NEW i,
         Rows(b, c), Grown(c, d), Extended(b, e), w \subseteq v, Cause(i, c, b, w)
  PROVE  Cause(i, d, e, v)
<1>1. PICK f \in DOMAIN b : /\ b[f] = i
                            /\ f[1] \in w \/ c[f[2]].state # "open" \/ c[f[3]].state # "open"
  BY DEF Cause
<1>2. f[2] \in DOMAIN c /\ f[3] \in DOMAIN c
  BY DEF Rows, Prints
<1>3. f \in DOMAIN e /\ e[f] = i
  BY <1>1 DEF Extended
<1>4. f[1] \in v \/ d[f[2]].state # "open" \/ d[f[3]].state # "open"
  BY <1>1, <1>2 DEF Grown
<1> QED BY <1>3, <1>4 DEF Cause

LEMMA FitsKept ==
  ASSUME NEW c, NEW d, NEW b, NEW e, NEW w, NEW v, NEW x \in Run,
         Rows(b, c), Grown(c, d), Extended(b, e), w \subseteq v, Fits(x, c, b, w),
         Making(x) => \A f \in DOMAIN e : e[f] # x.claim,
         x.at = "book" => d[x.claim].rests = c[x.claim].rests
  PROVE  Fits(x, d, e, v)
<1>1. DOMAIN c \subseteq DOMAIN d /\ Prints(c) \subseteq Prints(d)
  BY PrintsGrow DEF Grown
<1>2. x.due \subseteq DOMAIN d /\ \A i \in x.due : Cause(i, d, e, v)
  BY <1>1, CauseKept DEF Fits
<1>3. x.todo \subseteq Prints(d)
  BY <1>1 DEF Fits
<1>4. \A f \in x.todo : Joins(f[1], d[f[2]].edge, d[f[3]].edge)
  <2> TAKE f \in x.todo
  <2>1. f[2] \in DOMAIN c /\ f[3] \in DOMAIN c
    BY DEF Fits, Prints
  <2>2. d[f[2]].edge = c[f[2]].edge /\ d[f[3]].edge = c[f[3]].edge
    BY <2>1 DEF Grown
  <2> QED BY <2>2 DEF Fits
<1>5. x.at = "sweep" => Rule \ x.rules \subseteq v
  BY DEF Fits
<1>6. Making(x) => /\ x.print \in Prints(d) /\ x.claim \in DOMAIN d
                   /\ \A f \in DOMAIN e : e[f] # x.claim
  BY <1>1 DEF Fits
<1>7. x.at = "book" => d[x.claim].rests = {x.print[2], x.print[3]}
  BY DEF Fits
<1> QED BY <1>2, <1>3, <1>4, <1>5, <1>6, <1>7 DEF Fits

LEMMA RowsKept ==
  ASSUME NEW c, NEW d, NEW b, Rows(b, c), DOMAIN c \subseteq DOMAIN d,
         \A f \in DOMAIN b : d[b[f]].rests = c[b[f]].rests
  PROVE  Rows(b, d)
BY PrintsGrow DEF Rows

LEMMA GrownItself == \A c : Grown(c, c)
BY DEF Grown

LEMMA ExtendedItself == \A b : Extended(b, b)
BY DEF Extended

(* An idle pass owes nothing. *)
LEMMA IdleFits ==
  ASSUME RulesAssumption, NEW c, NEW b, NEW w
  PROVE  IdleRun \in Run /\ ~ Making(IdleRun) /\ Fits(IdleRun, c, b, w)
BY DEF RulesAssumption, IdleRun, Run, Making, Fits

------------------------------------------------------------------------------
(* One step. *)

LEMMA Numbers ==
  ASSUME RulesAssumption, RulesInv
  PROVE  /\ Recorded = 1..Len(claims) /\ Recorded \subseteq ClaimNo
         /\ \A i \in Recorded : claims[i] \in Claim
<1>1. claims \in Seq(Claim) /\ Len(claims) <= MaxClaims /\ MaxClaims \in Nat
  BY DEF RulesInv, RulesAssumption
<1>2. /\ Len(claims) \in Nat /\ Recorded = 1..Len(claims)
      /\ \A i \in Recorded : claims[i] \in Claim
  BY <1>1, ClaimGet DEF Recorded
<1> QED BY <1>1, <1>2 DEF ClaimNo

(* A thread moves, the world does not. *)
LEMMA OnlyRun ==
  ASSUME RulesInv, NEW t \in Runner, NEW x \in Run, Moves(t, x), ~ Making(x),
         Fits(x, claims, booked, wasOff),
         UNCHANGED <<claims, booked, active, work, wasOff, troubles>>
  PROVE  RulesInv'
<1>1. run' \in [Runner -> Run] /\ run'[t] = x /\ \A u \in Runner \ {t} : run'[u] = run[u]
  BY DEF RulesInv, Moves
<1>2. \A u \in Runner : Fits(run'[u], claims, booked, wasOff)
  BY <1>1 DEF RulesInv
<1>3. \A u, v \in Runner : u # v /\ Making(run'[u]) /\ Making(run'[v]) =>
                             run'[u].claim # run'[v].claim
  BY <1>1 DEF RulesInv
<1> QED BY <1>1, <1>2, <1>3 DEF RulesInv, Recorded, Open

(* A thread that keeps still fits the world that has grown around it. *)
LEMMA KeepsFitting ==
  ASSUME RulesInv, NEW t \in Runner, Grown(claims, claims'), Extended(booked, booked'),
         wasOff \subseteq wasOff',
         Making(run[t]) => \A f \in DOMAIN booked' : booked'[f] # run[t].claim,
         run[t].at = "book" => claims'[run[t].claim].rests = claims[run[t].claim].rests
  PROVE  Fits(run[t], claims', booked', wasOff')
<1>1. run[t] \in Run /\ Fits(run[t], claims, booked, wasOff) /\ Rows(booked, claims)
  BY DEF RulesInv
<1> QED BY <1>1, FitsKept

(* What the rules have closed they have closed for a cause that stays. *)
LEMMA StaysCaused ==
  ASSUME RulesInv, Grown(claims, claims'), Extended(booked, booked'), wasOff \subseteq wasOff',
         \A i \in Recorded' : claims'[i].state = "closed by rules" =>
           i \in Recorded /\ (claims[i].state = "closed by rules"
                              \/ Cause(i, claims, booked, wasOff))
  PROVE  \A i \in Recorded' : claims'[i].state = "closed by rules" =>
                                Cause(i, claims', booked', wasOff')
<1> SUFFICES ASSUME NEW i \in Recorded', claims'[i].state = "closed by rules"
             PROVE  Cause(i, claims', booked', wasOff')
  OBVIOUS
<1>1. Cause(i, claims, booked, wasOff) /\ Rows(booked, claims)
  BY DEF RulesInv
<1> QED BY <1>1, CauseKept

(* The world moves, the threads do not; nothing is unsaid or forgotten. *)
LEMMA OnlyWorld ==
  ASSUME RulesInv, UNCHANGED run, Rows(booked, claims'), booked' = booked,
         claims' \in Seq(Claim), Len(claims') <= MaxClaims, Grown(claims, claims'),
         \A i \in Recorded : claims'[i].rests = claims[i].rests,
         wasOff \subseteq wasOff', active' \subseteq Rule, wasOff' \subseteq Rule,
         Rule \ active' \subseteq wasOff', troubles' \in 0..MaxTroubles,
         work' \subseteq Recorded', \A i \in work' : claims'[i].state # "open",
         \A i \in Recorded' : claims'[i].state = "closed by rules" =>
           i \in Recorded /\ (claims[i].state = "closed by rules"
                              \/ Cause(i, claims, booked, wasOff))
  PROVE  RulesInv'
<1>1. \A t \in Runner : Fits(run[t], claims', booked', wasOff')
  <2> TAKE t \in Runner
  <2>1. Making(run[t]) => \A f \in DOMAIN booked : booked[f] # run[t].claim
    BY DEF RulesInv, Fits
  <2>2. run[t].at = "book" => run[t].claim \in Recorded
    BY DEF RulesInv, Fits, Recorded, Making
  <2> QED BY <2>1, <2>2, KeepsFitting, ExtendedItself
<1>2. \A i \in Recorded' : claims'[i].state = "closed by rules" =>
                             Cause(i, claims', booked', wasOff')
  BY StaysCaused, ExtendedItself
<1> QED BY <1>1, <1>2 DEF RulesInv, Open

(* What a sweep withdraws has lost a premise or its rule. *)
LEMMA DueCaused ==
  ASSUME RulesInv, NEW rules \in SUBSET Rule, Rule \ rules \subseteq wasOff
  PROVE  /\ Due(rules, Opens) \subseteq Recorded
         /\ \A i \in Due(rules, Opens) : Cause(i, claims, booked, wasOff)
<1> SUFFICES ASSUME NEW i \in Due(rules, Opens)
             PROVE  i \in Recorded /\ Cause(i, claims, booked, wasOff)
  OBVIOUS
<1>1. PICK f \in DOMAIN booked : /\ booked[f] = i /\ i \in Opens
                                 /\ f[1] \notin rules \/ ~ ({f[2], f[3]} \subseteq Opens)
  BY DEF Due
<1>2. f[1] \in Rule /\ f[2] \in Recorded /\ f[3] \in Recorded
  BY DEF RulesInv, Rows, Prints, Recorded
<1> QED BY <1>1, <1>2 DEF Cause, Opens, Open

(* A pass joins open claims. *)
LEMMA PassFits ==
  ASSUME RulesAssumption, RulesInv, NEW x, x.made \in 0..MAX_NEW_PER_RUN,
         NEW rules \in SUBSET Rule, NEW spent \in SUBSET Fingerprint, NEW n \in 0..MAX_PASSES
  PROVE  LET r == Pass(x, rules, spent, n)
         IN  r \in Run /\ ~ Making(r) /\ Fits(r, claims, booked, wasOff)
<1> DEFINE standing == {claims[i].edge : i \in Opens}
           todo == {f \in Matches(rules, Opens) : f \notin spent /\ Says(f) \notin standing}
           r == [IdleRun EXCEPT !.at = "pass", !.rules = rules, !.todo = todo,
                                !.spent = spent, !.pass = n, !.made = x.made]
<1>1. CASE todo = {}
  BY <1>1, IdleFits DEF Pass
<1>2. CASE todo # {}
  <2>1. Pass(x, rules, spent, n) = r
    BY <1>2 DEF Pass
  <2>2. Recorded \subseteq ClaimNo
    BY Numbers
  <2>3. todo \subseteq Prints(claims) /\ todo \subseteq Fingerprint
    BY <2>2 DEF Matches, Prints, Fingerprint, Opens, Recorded
  <2>4. \A f \in todo : Joins(f[1], claims[f[2]].edge, claims[f[3]].edge)
    BY DEF Matches
  <2> HIDE DEF todo
  <2>5. /\ r \in Run /\ r.at = "pass" /\ r.due = {} /\ r.todo = todo
    BY <2>3, IdleFits DEF IdleRun, Run
  <2>6. ~ Making(r) /\ Fits(r, claims, booked, wasOff)
    BY <2>3, <2>4, <2>5 DEF Fits, Making
  <2> QED BY <2>1, <2>5, <2>6
<1> QED BY <1>1, <1>2

LEMMA SayInv ==
  ASSUME RulesAssumption, RulesInv, NEW e \in Said, Say(e)
  PROVE  RulesInv'
<1> DEFINE v == [edge |-> e, by |-> "person", rests |-> {}, state |-> "open"]
<1>1. v \in Claim /\ v.state = "open"
  BY DEF Claim, RulesAssumption
<1>2. claims \in Seq(Claim) /\ claims' = Append(claims, v)
  BY DEF RulesInv, Say
<1> HIDE DEF v
<1>3. /\ claims' \in Seq(Claim) /\ Len(claims') = Len(claims) + 1
      /\ Recorded' = 1..Len(claims) + 1 /\ Recorded = 1..Len(claims) /\ Len(claims) \in Nat
      /\ claims'[Len(claims) + 1] = v /\ \A i \in Recorded : claims'[i] = claims[i]
  BY <1>1, <1>2, AppendClaim, ClaimGet DEF Recorded
<1>4. Len(claims') <= MaxClaims
  BY <1>3 DEF Say, RulesAssumption
<1>5. Grown(claims, claims')
  BY <1>3 DEF Grown, Recorded
<1>6. Rows(booked, claims')
  <2>1. \A f \in DOMAIN booked : booked[f] \in Recorded
    BY DEF RulesInv, Rows, Recorded
  <2> QED BY <2>1, <1>3, <1>5, RowsKept DEF RulesInv, Grown
<1>7. \A i \in Recorded' : claims'[i].state = "closed by rules" =>
        i \in Recorded /\ claims[i].state = "closed by rules"
  <2> TAKE i \in Recorded'
  <2>1. i \in Recorded \/ i = Len(claims) + 1
    BY <1>3
  <2> QED BY <2>1, <1>1, <1>3
<1>8. work' \subseteq Recorded' /\ \A i \in work' : claims'[i].state # "open"
  <2>1. work' = work /\ work \subseteq Recorded /\ \A i \in work : claims[i].state # "open"
    BY DEF RulesInv, Say, Open
  <2>2. Recorded \subseteq Recorded'
    BY <1>3
  <2> QED BY <2>1, <2>2, <1>3
<1> QED BY <1>3, <1>4, <1>5, <1>6, <1>7, <1>8, OnlyWorld DEF Say, RulesInv

(* Closing claims whose closing is caused, and putting them to the nudge. *)
LEMMA CloseInv ==
  ASSUME RulesAssumption, RulesInv, NEW C \in SUBSET Opens,
         NEW how \in {"closed by person", "closed by rules"},
         how = "closed by rules" => \A i \in C : Cause(i, claims, booked, wasOff),
         claims' = Closed(C, how), work' \subseteq work \cup C,
         UNCHANGED <<booked, active, run, wasOff, troubles>>
  PROVE  RulesInv'
<1>1. /\ claims' \in Seq(Claim) /\ Len(claims') = Len(claims) /\ Recorded' = Recorded
      /\ \A i \in Recorded : claims'[i].rests = claims[i].rests
      /\ \A i \in Recorded : claims'[i].state = IF i \in C THEN how ELSE claims[i].state
      /\ Grown(claims, claims')
  <2>1. claims \in Seq(Claim)
    BY DEF RulesInv
  <2>2. OnlyCloses(claims, claims', C, how)
    BY <2>1, CloseClaims
  <2> QED BY <2>2 DEF OnlyCloses, Recorded
<1>2. Rows(booked, claims')
  <2>1. \A f \in DOMAIN booked : booked[f] \in Recorded
    BY DEF RulesInv, Rows, Recorded
  <2> QED BY <2>1, <1>1, RowsKept DEF RulesInv, Grown
<1>3. work' \subseteq Recorded' /\ \A i \in work' : claims'[i].state # "open"
  BY <1>1 DEF RulesInv, Open, Opens
<1>4. \A i \in Recorded' : claims'[i].state = "closed by rules" =>
        i \in Recorded /\ (claims[i].state = "closed by rules"
                           \/ Cause(i, claims, booked, wasOff))
  BY <1>1
<1> QED BY <1>1, <1>2, <1>3, <1>4, OnlyWorld DEF RulesInv

LEMMA RetractInv ==
  ASSUME RulesAssumption, RulesInv, NEW i, Retract(i)
  PROVE  RulesInv'
BY CloseInv DEF Retract

(* A dependent of a closed claim is a row's conclusion, and the claim one *)
(* of its premises.                                                       *)
LEMMA NudgeInv ==
  ASSUME RulesAssumption, RulesInv, NEW i, Nudge(i)
  PROVE  RulesInv'
<1>1. \A c \in Dependents(i) : Cause(c, claims, booked, wasOff)
  <2> TAKE c \in Dependents(i)
  <2>1. PICK f \in DOMAIN booked : booked[f] = c
    BY DEF Dependents, Conclusions
  <2>2. i \in {f[2], f[3]}
    BY <2>1 DEF Dependents, RulesInv, Rows
  <2>3. claims[i].state # "open"
    BY DEF Nudge, RulesInv, Open
  <2> QED BY <2>1, <2>2, <2>3 DEF Cause
<1>2. Dependents(i) \subseteq Opens /\ work' \subseteq work \cup Dependents(i)
  BY DEF Dependents, Nudge
<1> QED BY <1>1, <1>2, CloseInv DEF Nudge

(* Rules switched on and off, and nudges that go missing. *)
LEMMA SwitchInv ==
  ASSUME RulesAssumption, RulesInv,
         (\E r \in Rule : DeclareRule(r) \/ Deactivate(r)) \/ NudgeLost
  PROVE  RulesInv'
<1>1. /\ claims' = claims /\ booked' = booked /\ run' = run
      /\ active' \subseteq Rule /\ wasOff' \subseteq Rule /\ wasOff \subseteq wasOff'
      /\ Rule \ active' \subseteq wasOff' /\ work' \subseteq work
  BY DEF RulesInv, DeclareRule, Deactivate, NudgeLost
<1>2. troubles' \in 0..MaxTroubles
  <2>1. troubles \in 0..MaxTroubles /\ MaxTroubles \in Nat
    BY DEF RulesInv, RulesAssumption
  <2>2. troubles' = troubles \/ (troubles < MaxTroubles /\ troubles' = troubles + 1)
    BY DEF DeclareRule, Deactivate, NudgeLost
  <2> QED BY <2>1, <2>2
<1>3. Recorded' = Recorded
  BY <1>1 DEF Recorded
<1>4. work' \subseteq Recorded' /\ \A i \in work' : claims'[i].state # "open"
  BY <1>1, <1>3 DEF RulesInv, Open
<1> QED BY <1>1, <1>2, <1>3, <1>4, OnlyWorld, GrownItself DEF RulesInv

LEMMA CrashInv ==
  ASSUME RulesAssumption, RulesInv, RulesCrash
  PROVE  RulesInv'
<1>1. run' = [t \in Runner |-> IdleRun] /\ troubles' \in 0..MaxTroubles /\ work' = {}
  <2>1. troubles \in 0..MaxTroubles /\ MaxTroubles \in Nat
    BY DEF RulesInv, RulesAssumption
  <2> QED BY <2>1 DEF RulesCrash
<1>2. \A t \in Runner : run'[t] = IdleRun
  BY <1>1
<1>3. /\ run' \in [Runner -> Run] /\ \A t \in Runner : Fits(run'[t], claims, booked, wasOff)
      /\ \A t \in Runner : ~ Making(run'[t])
  BY <1>1, <1>2, IdleFits
<1> QED BY <1>1, <1>3 DEF RulesCrash, RulesInv, Recorded, Open

------------------------------------------------------------------------------
(* The steps of a run. *)

LEMMA RunGet ==
  ASSUME RulesInv, NEW t \in Runner
  PROVE  run[t] \in Run /\ Fits(run[t], claims, booked, wasOff)
BY DEF RulesInv

LEMMA StartInv ==
  ASSUME RulesAssumption, RulesInv, NEW t \in Runner, Start(t)
  PROVE  RulesInv'
<1> DEFINE due == Due(active, Opens)
           x == [IdleRun EXCEPT !.at = "sweep", !.rules = active, !.due = due]
<1>1. active \in SUBSET Rule /\ Rule \ active \subseteq wasOff
  BY DEF RulesInv
<1>2. due \subseteq Recorded /\ \A i \in due : Cause(i, claims, booked, wasOff)
  BY <1>1, DueCaused
<1>3. due \subseteq ClaimNo
  BY <1>2, Numbers
<1> HIDE DEF due
<1>4. /\ x \in Run /\ x.at = "sweep" /\ x.rules = active /\ x.due = due /\ x.todo = {}
  BY <1>1, <1>3, IdleFits DEF IdleRun, Run
<1>5. ~ Making(x) /\ Fits(x, claims, booked, wasOff)
  BY <1>1, <1>2, <1>4 DEF Fits, Making, Recorded
<1>6. Moves(t, x)
  BY DEF Start, due
<1> HIDE DEF x
<1> QED BY <1>4, <1>5, <1>6, OnlyRun DEF Start

LEMMA SweepAgainInv ==
  ASSUME RulesAssumption, RulesInv, NEW t \in Runner, SweepAgain(t)
  PROVE  RulesInv'
<1> DEFINE due == Due(run[t].rules, Opens)
           x == [run[t] EXCEPT !.changed = FALSE, !.due = due]
<1>1. /\ run[t] \in Run /\ Fits(run[t], claims, booked, wasOff) /\ run[t].at = "sweep"
      /\ run[t].rules \in SUBSET Rule /\ Rule \ run[t].rules \subseteq wasOff
  BY RunGet DEF SweepAgain, Fits, Run
<1>2. due \subseteq Recorded /\ \A i \in due : Cause(i, claims, booked, wasOff)
  BY <1>1, DueCaused
<1>3. due \subseteq ClaimNo
  BY <1>2, Numbers
<1> HIDE DEF due
<1>4. /\ x \in Run /\ x.at = "sweep" /\ x.rules = run[t].rules /\ x.due = due
      /\ x.todo = run[t].todo
  BY <1>1, <1>3 DEF Run
<1>5. ~ Making(x) /\ Fits(x, claims, booked, wasOff)
  BY <1>1, <1>2, <1>4 DEF Fits, Making, Recorded
<1>6. Moves(t, x)
  BY DEF SweepAgain, due
<1> HIDE DEF x
<1> QED BY <1>4, <1>5, <1>6, OnlyRun DEF SweepAgain

LEMMA BeginPassesInv ==
  ASSUME RulesAssumption, RulesInv, NEW t \in Runner, BeginPasses(t)
  PROVE  RulesInv'
<1> DEFINE x == Pass(run[t], active, DOMAIN booked, 1)
<1>1. run[t] \in Run /\ run[t].made \in 0..MAX_NEW_PER_RUN
  BY RunGet DEF Run
<1>2. active \in SUBSET Rule /\ DOMAIN booked \in SUBSET Prints(claims)
  BY DEF RulesInv, Rows
<1>3. DOMAIN booked \in SUBSET Fingerprint /\ 1 \in 0..MAX_PASSES
  BY <1>2, Numbers DEF Prints, Fingerprint, Recorded, RulesAssumption
<1>4. x \in Run /\ ~ Making(x) /\ Fits(x, claims, booked, wasOff)
  BY <1>1, <1>2, <1>3, PassFits
<1> QED BY <1>4, OnlyRun DEF BeginPasses

LEMMA PassOverInv ==
  ASSUME RulesAssumption, RulesInv, NEW t \in Runner, PassOver(t)
  PROVE  RulesInv'
<1> DEFINE x == Pass(run[t], run[t].rules, run[t].spent, run[t].pass + 1)
<1>1. /\ run[t] \in Run /\ run[t].made \in 0..MAX_NEW_PER_RUN /\ run[t].rules \in SUBSET Rule
      /\ run[t].spent \in SUBSET Fingerprint /\ run[t].pass \in 0..MAX_PASSES
  BY RunGet DEF Run
<1>2. CASE run[t].new = 0 \/ run[t].pass = MAX_PASSES
  BY <1>2, IdleFits, OnlyRun DEF PassOver
<1>3. CASE ~ (run[t].new = 0 \/ run[t].pass = MAX_PASSES)
  <2>1. run[t].pass + 1 \in 0..MAX_PASSES
    BY <1>1, <1>3 DEF RulesAssumption
  <2>2. x \in Run /\ ~ Making(x) /\ Fits(x, claims, booked, wasOff)
    BY <1>1, <2>1, PassFits
  <2> QED BY <1>3, <2>2, OnlyRun DEF PassOver
<1> QED BY <1>2, <1>3

(* A withdrawal closes a claim that was due. *)
LEMMA WithdrawInv ==
  ASSUME RulesAssumption, RulesInv, NEW t \in Runner, NEW i, Withdraw(t, i)
  PROVE  RulesInv'
<1>1. CASE ~ Open(i)
  BY <1>1, IdleFits, OnlyRun DEF Withdraw
<1>2. CASE Open(i)
  <2> DEFINE x == [run[t] EXCEPT !.due = @ \ {i}, !.changed = TRUE]
             C == {i}
  <2>1. /\ run[t] \in Run /\ Fits(run[t], claims, booked, wasOff) /\ run[t].at = "sweep"
        /\ i \in run[t].due /\ i \in Recorded /\ Cause(i, claims, booked, wasOff)
    BY RunGet DEF Withdraw, Fits, Recorded
  <2>2. /\ x \in Run /\ x.at = "sweep" /\ x.rules = run[t].rules /\ x.todo = run[t].todo
        /\ x.due = run[t].due \ {i}
    BY <2>1 DEF Run
  <2>3. ~ Making(x) /\ Fits(x, claims, booked, wasOff)
    BY <2>1, <2>2 DEF Fits, Making
  <2>4. /\ C \subseteq Opens /\ claims' = Closed(C, "closed by rules")
        /\ Moves(t, x) /\ UNCHANGED <<booked, active, work, wasOff, troubles>>
    BY <1>2, <2>1 DEF Withdraw, Opens
  <2> HIDE DEF x
  <2>5. /\ claims \in Seq(Claim) /\ Rows(booked, claims) /\ Len(claims) <= MaxClaims
        /\ run \in [Runner -> Run] /\ work \subseteq Recorded
    BY DEF RulesInv
  <2>6. /\ claims' \in Seq(Claim) /\ Len(claims') = Len(claims) /\ Recorded' = Recorded
        /\ \A j \in Recorded : claims'[j].rests = claims[j].rests
        /\ \A j \in Recorded :
             claims'[j].state = IF j \in C THEN "closed by rules" ELSE claims[j].state
        /\ Grown(claims, claims')
    <3>1. OnlyCloses(claims, claims', C, "closed by rules")
      BY <2>4, <2>5, CloseClaims
    <3> QED BY <3>1 DEF OnlyCloses, Recorded
  <2>7. Rows(booked, claims')
    <3>1. \A f \in DOMAIN booked : booked[f] \in Recorded
      BY <2>5 DEF Rows, Recorded
    <3> QED BY <2>5, <2>6, <3>1, RowsKept DEF Grown
  <2>8. \A j \in Recorded' : claims'[j].state = "closed by rules" =>
                               Cause(j, claims', booked', wasOff')
    <3>1. \A j \in Recorded' : claims'[j].state = "closed by rules" =>
            j \in Recorded /\ (claims[j].state = "closed by rules"
                               \/ Cause(j, claims, booked, wasOff))
      BY <2>1, <2>6
    <3> QED BY <2>4, <2>6, <3>1, StaysCaused, ExtendedItself
  <2>9. run' \in [Runner -> Run] /\ run'[t] = x /\ \A u \in Runner \ {t} : run'[u] = run[u]
    BY <2>2, <2>4, <2>5 DEF Moves
  <2>10. \A u \in Runner : Fits(run'[u], claims', booked', wasOff')
    <3>1. Fits(x, claims', booked', wasOff')
      BY <2>2, <2>3, <2>4, <2>5, <2>6, FitsKept, ExtendedItself
    <3>2. ASSUME NEW u \in Runner PROVE Fits(run[u], claims', booked', wasOff')
      <4>1. Making(run[u]) => /\ \A f \in DOMAIN booked : booked[f] # run[u].claim
                              /\ run[u].claim \in Recorded
        BY RunGet DEF Fits, Recorded
      <4> QED BY <2>4, <2>6, <4>1, KeepsFitting, ExtendedItself DEF Making
    <3> QED BY <2>9, <3>1, <3>2
  <2>11. \A u, v \in Runner : u # v /\ Making(run'[u]) /\ Making(run'[v]) =>
                                run'[u].claim # run'[v].claim
    BY <2>3, <2>9 DEF RulesInv
  <2>12. work' \subseteq Recorded' /\ \A j \in work' : claims'[j].state # "open"
    BY <2>4, <2>6 DEF RulesInv, Open
  <2> QED BY <2>4, <2>5, <2>6, <2>7, <2>8, <2>9, <2>10, <2>11, <2>12 DEF RulesInv, Open
<1> QED BY <1>1, <1>2

(* A new conclusion: nothing rests on it and no row remembers it yet. *)
LEMMA ConcludeInv ==
  ASSUME RulesAssumption, RulesInv, NEW t \in Runner, NEW f \in run[t].todo, Conclude(t, f)
  PROVE  RulesInv'
<1> DEFINE n == Len(claims) + 1
           v == [edge |-> Says(f), by |-> "rules", rests |-> {}, state |-> "open"]
           x == [run[t] EXCEPT !.at = "derive", !.print = f, !.claim = n]
<1>1. /\ run[t] \in Run /\ Fits(run[t], claims, booked, wasOff) /\ run[t].at = "pass"
      /\ f \in Prints(claims) /\ Joins(f[1], claims[f[2]].edge, claims[f[3]].edge)
  BY RunGet DEF Conclude, Fits
<1>2. v \in Claim /\ v.state = "open"
  <2>1. f[1] \in Rule /\ f[2] \in Recorded /\ f[3] \in Recorded
    BY <1>1 DEF Prints, Recorded
  <2>2. claims[f[2]].edge \in Edge /\ claims[f[3]].edge \in Edge
    BY <2>1, Numbers DEF Claim
  <2>3. Says(f) \in Edge
    BY <1>1, <2>1, <2>2 DEF Says, RulesAssumption
  <2> QED BY <2>3 DEF Claim
<1>3. claims \in Seq(Claim) /\ claims' = Append(claims, v) /\ Moves(t, x)
  BY DEF RulesInv, Conclude
<1> HIDE DEF v
<1>4. /\ claims' \in Seq(Claim) /\ Len(claims') = n /\ Recorded' = 1..n
      /\ Recorded = 1..Len(claims) /\ Len(claims) \in Nat
      /\ claims'[n] = v /\ \A i \in Recorded : claims'[i] = claims[i]
  BY <1>2, <1>3, AppendClaim, ClaimGet DEF Recorded
<1>5. /\ n \in Recorded' /\ n \notin Recorded /\ Recorded \subseteq Recorded'
      /\ \A i \in Recorded' : i \in Recorded \/ i = n
  BY <1>4
<1>6. Len(claims') <= MaxClaims /\ n \in ClaimNo
  <2>1. MaxClaims \in Nat /\ Len(claims) < MaxClaims
    BY DEF Conclude, RulesAssumption
  <2> QED BY <1>4, <2>1 DEF ClaimNo
<1> HIDE DEF n
<1>7. Grown(claims, claims')
  BY <1>4, <1>5 DEF Grown, Recorded
<1>8. Rows(booked, claims) /\ \A g \in DOMAIN booked : booked[g] \in Recorded
  BY DEF RulesInv, Rows, Recorded
<1>9. Rows(booked, claims')
  BY <1>4, <1>7, <1>8, RowsKept DEF Grown
<1>10. \A i \in Recorded' : claims'[i].state = "closed by rules" =>
                              Cause(i, claims', booked', wasOff')
  <2>1. \A i \in Recorded' : claims'[i].state = "closed by rules" =>
          i \in Recorded /\ claims[i].state = "closed by rules"
    BY <1>2, <1>4, <1>5
  <2> QED BY <1>7, <2>1, StaysCaused, ExtendedItself DEF Conclude
<1>11. UNCHANGED <<booked, active, work, wasOff, troubles>>
  BY DEF Conclude
<1>12. \A u \in Runner : Fits(run[u], claims', booked', wasOff')
  <2> TAKE u \in Runner
  <2>1. Making(run[u]) => /\ \A g \in DOMAIN booked : booked[g] # run[u].claim
                          /\ run[u].claim \in Recorded
    BY RunGet DEF Fits, Recorded
  <2> QED BY <1>4, <1>7, <1>11, <2>1, KeepsFitting, ExtendedItself DEF Making
<1>13. /\ x \in Run /\ x.at = "derive" /\ x.print = f /\ x.claim = n
       /\ x.rules = run[t].rules /\ x.todo = run[t].todo /\ x.due = run[t].due
  <2>1. f \in Fingerprint
    BY <1>1 DEF Run
  <2> QED BY <1>1, <1>6, <2>1 DEF Run
<1>14. Fits(x, claims', booked', wasOff')
  <2>1. f \in Prints(claims')
    BY <1>1, <1>7, PrintsGrow DEF Grown
  <2>2. n \in DOMAIN claims' /\ \A g \in DOMAIN booked' : booked'[g] # n
    BY <1>5, <1>8, <1>11 DEF Recorded
  <2> QED BY <1>12, <1>13, <2>1, <2>2 DEF Fits, Making
<1> HIDE DEF x
<1>15. run' \in [Runner -> Run] /\ run'[t] = x /\ \A u \in Runner \ {t} : run'[u] = run[u]
  BY <1>3, <1>13 DEF Moves, RulesInv
<1>16. \A u \in Runner : Fits(run'[u], claims', booked', wasOff')
  BY <1>12, <1>14, <1>15
<1>17. \A u, w \in Runner : u # w /\ Making(run'[u]) /\ Making(run'[w]) =>
                              run'[u].claim # run'[w].claim
  <2>1. \A u \in Runner : Making(run[u]) => run[u].claim # n
    BY <1>5, RunGet DEF Fits, Recorded
  <2>2. \A u, w \in Runner : u # w /\ Making(run[u]) /\ Making(run[w]) =>
                               run[u].claim # run[w].claim
    BY DEF RulesInv
  <2> QED BY <1>13, <1>15, <2>1, <2>2
<1>18. work' \subseteq Recorded' /\ \A i \in work' : claims'[i].state # "open"
  <2>1. work \subseteq Recorded /\ \A i \in work : claims[i].state # "open"
    BY DEF RulesInv, Open
  <2> QED BY <1>4, <1>5, <1>11, <2>1
<1> QED BY <1>4, <1>6, <1>9, <1>10, <1>11, <1>15, <1>16, <1>17, <1>18 DEF RulesInv, Open

(* The derivation: no row remembers the conclusion, nobody else makes it. *)
LEMMA GroundInv ==
  ASSUME RulesAssumption, RulesInv, NEW t \in Runner, Ground(t)
  PROVE  RulesInv'
<1> DEFINE n == run[t].claim
           R == {run[t].print[2], run[t].print[3]}
           v == [claims[n] EXCEPT !.rests = R]
           x == [run[t] EXCEPT !.at = "book"]
<1>1. /\ run[t] \in Run /\ Fits(run[t], claims, booked, wasOff) /\ run[t].at = "derive"
      /\ run[t].print \in Prints(claims) /\ n \in Recorded
      /\ \A g \in DOMAIN booked : booked[g] # n
  BY RunGet DEF Ground, Fits, Making, Recorded
<1>2. /\ claims \in Seq(Claim) /\ Recorded = 1..Len(claims) /\ Recorded \subseteq ClaimNo
      /\ \A i \in Recorded : claims[i] \in Claim
  BY Numbers DEF RulesInv
<1>3. v \in Claim /\ v.rests = R /\ v.edge = claims[n].edge /\ v.state = claims[n].state
  <2>1. R \subseteq ClaimNo
    BY <1>1, <1>2 DEF Prints, Recorded
  <2> HIDE DEF R, n
  <2> QED BY <1>1, <1>2, <2>1 DEF Claim
<1>4. claims' = [claims EXCEPT ![n] = v] /\ Moves(t, x)
  BY DEF Ground
<1> HIDE DEF v
<1>5. /\ claims' \in Seq(Claim) /\ Len(claims') = Len(claims) /\ Recorded' = Recorded
      /\ \A i \in Recorded : claims'[i] = IF i = n THEN v ELSE claims[i]
  <2>1. claims' \in [DOMAIN claims -> Claim]
    BY <1>2, <1>3, <1>4 DEF Recorded
  <2>2. \A i \in Recorded : claims'[i] = IF i = n THEN v ELSE claims[i]
    BY <1>4 DEF Recorded
  <2> QED BY <1>2, <2>1, <2>2, SameLength DEF Recorded
<1>6. Grown(claims, claims')
  BY <1>3, <1>5 DEF Grown, Recorded
<1>7. UNCHANGED <<booked, active, work, wasOff, troubles>>
  BY DEF Ground
<1>8. Rows(booked, claims')
  <2>1. Rows(booked, claims) /\ \A g \in DOMAIN booked : booked[g] \in Recorded
    BY DEF RulesInv, Rows, Recorded
  <2> QED BY <1>1, <1>5, <1>6, <2>1, RowsKept DEF Grown
<1>9. \A i \in Recorded' : claims'[i].state = "closed by rules" =>
                             Cause(i, claims', booked', wasOff')
  <2>1. \A i \in Recorded' : claims'[i].state = "closed by rules" =>
          i \in Recorded /\ claims[i].state = "closed by rules"
    BY <1>3, <1>5
  <2> QED BY <1>6, <1>7, <2>1, StaysCaused, ExtendedItself
<1>10. ASSUME NEW u \in Runner, u # t
       PROVE  Fits(run[u], claims', booked', wasOff')
  <2>1. Making(run[u]) => /\ \A g \in DOMAIN booked : booked[g] # run[u].claim
                          /\ run[u].claim \in Recorded
    BY RunGet DEF Fits, Recorded
  <2>2. Making(run[u]) => run[u].claim # n
    BY <1>1, <1>10 DEF RulesInv, Making
  <2> QED BY <1>5, <1>6, <1>7, <2>1, <2>2, KeepsFitting, ExtendedItself DEF Making
<1>11. /\ x \in Run /\ x.at = "book" /\ x.print = run[t].print /\ x.claim = n
       /\ x.rules = run[t].rules /\ x.todo = run[t].todo /\ x.due = run[t].due
  BY <1>1 DEF Run
<1>12. Fits(x, claims', booked', wasOff')
  <2>1. Fits(run[t], claims', booked', wasOff')
    BY <1>1, <1>6, <1>7, KeepsFitting, ExtendedItself
  <2>2. claims'[n].rests = R
    BY <1>1, <1>3, <1>5
  <2> HIDE DEF n
  <2> QED BY <1>1, <1>11, <2>1, <2>2 DEF Fits, Making
<1> HIDE DEF x
<1>13. run' \in [Runner -> Run] /\ run'[t] = x /\ \A u \in Runner \ {t} : run'[u] = run[u]
  BY <1>4, <1>11 DEF Moves, RulesInv
<1>14. \A u \in Runner : Fits(run'[u], claims', booked', wasOff')
  BY <1>10, <1>12, <1>13
<1>15. \A u, w \in Runner : u # w /\ Making(run'[u]) /\ Making(run'[w]) =>
                              run'[u].claim # run'[w].claim
  <2>1. \A u, w \in Runner : u # w /\ Making(run[u]) /\ Making(run[w]) =>
                               run[u].claim # run[w].claim
    BY DEF RulesInv
  <2>2. Making(run[t])
    BY <1>1 DEF Making
  <2> QED BY <1>11, <1>13, <2>1, <2>2
<1>16. work' \subseteq Recorded' /\ \A i \in work' : claims'[i].state # "open"
  <2>1. work \subseteq Recorded /\ \A i \in work : claims[i].state # "open"
    BY DEF RulesInv, Open
  <2> QED BY <1>3, <1>5, <1>7, <2>1
<1> QED BY <1>5, <1>7, <1>8, <1>9, <1>13, <1>14, <1>15, <1>16 DEF RulesInv, Open

(* The row: the first conclusion of a print keeps it. *)
LEMMA BookInv ==
  ASSUME RulesAssumption, RulesInv, NEW t \in Runner, Book(t)
  PROVE  RulesInv'
<1> DEFINE f == run[t].print
           n == run[t].claim
           made == run[t].made + 1
           x == [run[t] EXCEPT !.at = "pass", !.made = made, !.new = 1,
                               !.spent = @ \cup {f},
                               !.todo = {g \in @ : Says(g) # Says(f)},
                               !.print = <<>>, !.claim = 0]
<1>1. /\ run[t] \in Run /\ Fits(run[t], claims, booked, wasOff) /\ run[t].at = "book"
      /\ f \in Prints(claims) /\ n \in Recorded /\ claims[n].rests = {f[2], f[3]}
      /\ \A g \in DOMAIN booked : booked[g] # n
  BY RunGet DEF Book, Fits, Making, Recorded
<1>2. booked' = IF f \in DOMAIN booked THEN booked
                ELSE [g \in DOMAIN booked \cup {f} |-> IF g = f THEN n ELSE booked[g]]
  BY DEF Book
<1>3. UNCHANGED <<claims, active, work, wasOff, troubles>> /\ Recorded' = Recorded
  BY DEF Book, Recorded
<1>4. run' = [run EXCEPT ![t] = IF made >= MAX_NEW_PER_RUN THEN IdleRun ELSE x]
  BY DEF Book, Moves
<1>5. Rows(booked, claims) /\ Rows(booked', claims) /\ Extended(booked, booked')
  <2>1. Rows(booked, claims)
    BY DEF RulesInv
  <2> HIDE DEF f, n
  <2> QED BY <1>1, <1>2, <2>1 DEF Rows, Extended, Recorded
<1>6. \A g \in DOMAIN booked' : booked'[g] = n \/ (g \in DOMAIN booked /\ booked'[g] = booked[g])
  BY <1>2
<1>7. ASSUME NEW u \in Runner, u # t
      PROVE  Fits(run[u], claims', booked', wasOff')
  <2>1. Making(run[u]) => run[u].claim # n /\ \A g \in DOMAIN booked : booked[g] # run[u].claim
    BY <1>1, <1>7 DEF RulesInv, Making, Fits
  <2> HIDE DEF n
  <2> QED BY <1>3, <1>5, <1>6, <2>1, KeepsFitting, GrownItself
<1>8. (x \in Run /\ ~ Making(x) /\ Fits(x, claims, booked', wasOff)) \/ made >= MAX_NEW_PER_RUN
  <2> SUFFICES ASSUME made < MAX_NEW_PER_RUN
               PROVE  x \in Run /\ ~ Making(x) /\ Fits(x, claims, booked', wasOff)
    <3>1. made \in Int /\ MAX_NEW_PER_RUN \in Int
      <4>1. run[t].made \in 0..MAX_NEW_PER_RUN
        BY <1>1 DEF Run
      <4>2. MAX_NEW_PER_RUN \in Nat
        BY DEF RulesAssumption
      <4> QED BY <4>1, <4>2
    <3> HIDE DEF made, x
    <3>2. made >= MAX_NEW_PER_RUN \/ made < MAX_NEW_PER_RUN
      BY <3>1
    <3> QED BY <3>2
  <2>1. made \in 0..MAX_NEW_PER_RUN
    BY <1>1 DEF Run, RulesAssumption
  <2>2. f \in Fingerprint
    BY <1>1, Numbers DEF Prints, Fingerprint, Recorded
  <2>3. run[t].todo \subseteq Prints(claims) /\ run[t].todo \subseteq Fingerprint
    BY <1>1 DEF Fits, Run
  <2> HIDE DEF f, made
  <2>4. /\ x \in Run /\ x.at = "pass" /\ x.due = run[t].due /\ x.rules = run[t].rules
        /\ x.todo \subseteq run[t].todo
    BY <1>1, <2>1, <2>2, <2>3 DEF Run
  <2> HIDE DEF x
  <2>5. /\ run[t].due \subseteq DOMAIN claims
        /\ \A i \in run[t].due : Cause(i, claims, booked', wasOff)
    BY <1>1, <1>5, CauseKept, GrownItself DEF Fits
  <2> QED BY <1>1, <2>3, <2>4, <2>5 DEF Fits, Making
<1>9. PICK y \in Run : /\ run' = [run EXCEPT ![t] = y]
                       /\ ~ Making(y) /\ Fits(y, claims, booked', wasOff)
  BY <1>4, <1>8, IdleFits
<1>10. run' \in [Runner -> Run] /\ run'[t] = y /\ \A u \in Runner \ {t} : run'[u] = run[u]
  BY <1>9 DEF RulesInv
<1>11. \A u \in Runner : Fits(run'[u], claims', booked', wasOff')
  BY <1>3, <1>7, <1>9, <1>10
<1>12. \A u, w \in Runner : u # w /\ Making(run'[u]) /\ Making(run'[w]) =>
                              run'[u].claim # run'[w].claim
  BY <1>9, <1>10 DEF RulesInv
<1>13. \A i \in Recorded' : claims'[i].state = "closed by rules" =>
                              Cause(i, claims', booked', wasOff')
  BY <1>3, <1>5, StaysCaused, GrownItself
<1> QED BY <1>3, <1>5, <1>10, <1>11, <1>12, <1>13 DEF RulesInv, Open

------------------------------------------------------------------------------
LEMMA RulesStart ==
  ASSUME RulesAssumption, RulesInit
  PROVE  RulesInv
<1>1. claims = <<>> /\ booked = [f \in {} |-> 0] /\ DOMAIN claims = {} /\ DOMAIN booked = {}
  BY DEF RulesInit
<1>2. claims \in Seq(Claim) /\ Len(claims) = 0
  BY <1>1, EmptySeq
<1>3. \A t \in Runner : run[t] = IdleRun
  BY DEF RulesInit
<1>4. /\ run \in [Runner -> Run] /\ \A t \in Runner : Fits(run[t], claims, booked, wasOff)
      /\ \A t \in Runner : ~ Making(run[t])
  BY <1>3, IdleFits DEF RulesInit
<1>5. Rows(booked, claims)
  BY <1>1 DEF Rows
<1>6. /\ active \subseteq Rule /\ wasOff \subseteq Rule /\ Rule \ active \subseteq wasOff
      /\ work = {} /\ troubles \in 0..MaxTroubles
  BY DEF RulesInit, RulesAssumption
<1> QED BY <1>1, <1>2, <1>4, <1>5, <1>6 DEF RulesInv, RulesAssumption, Recorded

LEMMA RulesStep ==
  ASSUME RulesAssumption, RulesInv, [RulesNext]_ruling
  PROVE  RulesInv'
<1>1. CASE UNCHANGED ruling
  BY <1>1 DEF ruling, RulesInv, Recorded, Open
<1>2. CASE \E e \in Said : Say(e)
  BY <1>2, SayInv
<1>3. CASE \E i \in ClaimNo : Retract(i)
  BY <1>3, RetractInv
<1>4. CASE (\E r \in Rule : DeclareRule(r) \/ Deactivate(r)) \/ NudgeLost
  BY <1>4, SwitchInv
<1>5. CASE RulesCrash
  BY <1>5, CrashInv
<1>6. CASE \E i \in ClaimNo : Nudge(i)
  BY <1>6, NudgeInv
<1>7. CASE \E t \in Runner : Start(t) \/ SweepAgain(t) \/ BeginPasses(t) \/ PassOver(t)
  BY <1>7, StartInv, SweepAgainInv, BeginPassesInv, PassOverInv
<1>8. CASE \E t \in Runner : Ground(t) \/ Book(t)
  BY <1>8, GroundInv, BookInv
<1>9. CASE \E t \in Runner : \E i \in ClaimNo : Withdraw(t, i)
  BY <1>9, WithdrawInv
<1>10. CASE \E t \in Runner : \E f \in run[t].todo : Conclude(t, f)
  BY <1>10, ConcludeInv
<1> QED BY <1>1, <1>2, <1>3, <1>4, <1>5, <1>6, <1>7, <1>8, <1>9, <1>10
        DEF RulesNext, People, Proceed

(* The inductive invariant: due and nudged claims have their cause, and a  *)
(* conclusion in the making belongs to one thread and to no row.           *)
THEOREM RulesSound == ASSUME RulesAssumption PROVE RulesSpec => []RulesInv
<1>1. RulesInit => RulesInv
  BY RulesStart
<1>2. RulesInv /\ [RulesNext]_ruling => RulesInv'
  BY RulesStep
<1> QED BY <1>1, <1>2, PTL DEF RulesSpec

(* What the invariant of the rules says of types. *)
LEMMA RulesFit == ASSUME RulesAssumption, RulesInv PROVE RulesTypeOK
<1>1. DOMAIN booked \subseteq Fingerprint /\ \A f \in DOMAIN booked : booked[f] \in Recorded
  BY Numbers DEF RulesInv, Rows, Prints, Fingerprint, Recorded
<1>2. ASSUME NEW t \in Runner
      PROVE  /\ run[t].at \in {"idle", "sweep", "pass", "derive", "book"}
             /\ run[t].rules \subseteq Rule /\ run[t].due \subseteq Recorded
             /\ run[t].todo \subseteq Rule \X Recorded \X Recorded
             /\ run[t].spent \subseteq Fingerprint
             /\ run[t].pass \in 0..MAX_PASSES /\ run[t].made \in 0..MAX_NEW_PER_RUN
             /\ run[t].new \in {0, 1} /\ run[t].changed \in BOOLEAN
             /\ run[t].at \in {"derive", "book"} =>
                  run[t].print \in Fingerprint /\ run[t].claim \in Recorded
  <2>1. run[t] \in Run /\ Fits(run[t], claims, booked, wasOff)
    BY RunGet
  <2>2. Prints(claims) = Rule \X Recorded \X Recorded /\ Prints(claims) \subseteq Fingerprint
    BY Numbers DEF Prints, Recorded, Fingerprint
  <2> QED BY <2>1, <2>2 DEF Run, Fits, Making, Recorded
<1> QED BY <1>1, <1>2 DEF RulesInv, RulesTypeOK

(* Every variable has its type: for every set of edges closed under the     *)
(* rules' joins, and every bound.                                           *)
THEOREM RulesTyped == ASSUME RulesAssumption PROVE RulesSpec => []RulesTypeOK
  BY RulesSound, RulesFit, PTL

(* Withdrawals have a cause, for any number of threads, rules and claims:   *)
(* through racing runs, nudges that overtake them and crashes, the rules    *)
(* close only a conclusion of theirs that lost a premise or its rule        *)
(* (rules.py, _sweep and maintain_after_close).                             *)
THEOREM AlwaysForCause == ASSUME RulesAssumption PROVE RulesSpec => []WithdrawnForCause
<1>1. RulesInv => WithdrawnForCause
  BY DEF RulesInv, WithdrawnForCause, PrintsOf, Cause, Recorded, Open
<1> QED BY <1>1, RulesSound, PTL

(***************************************************************************)
(* II. Tensions                                                            *)
(*                                                                         *)
(* A pass acts on rows it selected before: the invariant says what those   *)
(* rows can have become when it does.  Two judgments, or a judgment and a  *)
(* check, may overwrite each other; the history variable says when that    *)
(* could be, and until then the thread that judges is the only busy one.   *)
(***************************************************************************)

TensionsAssumption == MaxSwitches \in Nat

Party == UNION {q.between : q \in Question}

Pursuit == [at : {"idle", "check", "lapse", "raise", "judge", "retract", "dismiss"},
            current : SUBSET Question, todo : SUBSET (Question \cup Relation),
            was : SUBSET Question, of : SUBSET Question, keep : SUBSET Party,
            had : SUBSET Relation]

Judges(x) == x.at \in {"judge", "retract", "dismiss"}

(* Claims of the question's relation toward a counterparty that is not kept. *)
Against(q, keep) ==
  {i \in Relation : LET e == EdgeOf[i]
                    IN  /\ e.rel = q.on.rel /\ Side(q.on, e) = q.entity
                        /\ Other(q.on, e) \in q.between \ keep}

(* A pass x is about claims c: a resolver has yet to retract, of the claims *)
(* it found against the one that is kept, those that are not closed.        *)
Founded(x, c) ==
  /\ x.had \subseteq {i \in Relation : c[i] # "none"}
  /\ x.at = "retract" => x.todo \subseteq {i \in Relation : c[i] # "none"}
  /\ x.at # "retract" => x.todo \subseteq Question
  /\ IF Judges(x) THEN \E q \in Question : x.of = {q} ELSE x.of = {}
  /\ x.at = "retract" =>
       \A q \in x.of : \A i \in x.had \cap Against(q, x.keep) :
         i \in x.todo \/ c[i] = "closed"

(* No row the pass is about to write has been decided. *)
Undecided(x, s) ==
  /\ x.at \in {"lapse", "raise"} => \A q \in x.todo : s[q] \notin Decided
  /\ Judges(x) => \A q \in x.of : s[q] = "open"

TensionsInv ==
  /\ relations \in [Relation -> {"none", "open", "closed"}]
  /\ shapes \subseteq Constraint /\ status \in [Question -> Status]
  /\ switches \in 0..MaxSwitches /\ overlapped \in BOOLEAN
  /\ check \in [Thread -> Pursuit]
  /\ \A t \in Thread : Founded(check[t], relations)
  /\ ~ overlapped =>
       \A t \in Thread : /\ Undecided(check[t], status)
                         /\ Judges(check[t]) => Busy = {t}

(* What was recorded stays recorded, and what is closed stays closed. *)
Kept(c, d) ==
  \A i \in Relation : /\ c[i] # "none" => d[i] # "none"
                      /\ c[i] = "closed" => d[i] = "closed"

------------------------------------------------------------------------------
LEMMA FoundedKept ==
  ASSUME NEW x, NEW c, NEW d, Founded(x, c), Kept(c, d)
  PROVE  Founded(x, d)
BY DEF Founded, Kept

LEMMA LosersAre ==
  ASSUME NEW q, NEW keep
  PROVE  Losers(q, keep) = Against(q, keep) \cap Related
BY DEF Losers, Toward, Against, Related

LEMMA IdleFounded ==
  ASSUME NEW c, NEW s
  PROVE  Idle \in Pursuit /\ Founded(Idle, c) /\ Undecided(Idle, s) /\ ~ Judges(Idle)
BY DEF Idle, Pursuit, Founded, Undecided, Judges

LEMMA PursuitGet ==
  ASSUME TensionsInv, NEW t \in Thread
  PROVE  check[t] \in Pursuit /\ Founded(check[t], relations)
BY DEF TensionsInv

(* Claims come and go, constraints are switched: the rows stay. *)
LEMMA WorldInv ==
  ASSUME TensionsAssumption, TensionsInv, World
  PROVE  TensionsInv'
<1>1. /\ relations' \in [Relation -> {"none", "open", "closed"}] /\ Kept(relations, relations')
      /\ shapes' \subseteq Constraint /\ UNCHANGED <<status, check, overlapped>>
  BY DEF World, Relate, Unrelate, Declare, Lift, TensionsInv, Kept
<1>2. switches' \in 0..MaxSwitches
  <2>1. switches \in 0..MaxSwitches /\ MaxSwitches \in Nat
    BY DEF TensionsInv, TensionsAssumption
  <2>2. switches' = switches \/ (switches < MaxSwitches /\ switches' = switches + 1)
    BY DEF World, Relate, Unrelate, Declare, Lift
  <2> QED BY <2>1, <2>2
<1>3. \A t \in Thread : Founded(check[t], relations')
  BY <1>1, PursuitGet, FoundedKept
<1> QED BY <1>1, <1>2, <1>3 DEF TensionsInv, Busy

(* A thread that is busy goes on.  Only one that judges decides, and then *)
(* nobody else is busy.                                                   *)
LEMMA GoesOn ==
  ASSUME TensionsInv, NEW t \in Thread, NEW x \in Pursuit, check[t].at # "idle", Turns(t, x),
         UNCHANGED <<shapes, switches, overlapped>>,
         relations' \in [Relation -> {"none", "open", "closed"}], Kept(relations, relations'),
         status' \in [Question -> Status], Founded(x, relations'),
         ~ overlapped => Undecided(x, status'), Judges(x) => Judges(check[t]),
         ~ Judges(check[t]) =>
           \A q \in Question : status'[q] \in Decided => status[q] \in Decided
  PROVE  TensionsInv'
<1>1. /\ check' \in [Thread -> Pursuit] /\ check'[t] = x
      /\ \A u \in Thread \ {t} : check'[u] = check[u]
  BY DEF TensionsInv, Turns
<1>2. \A u \in Thread : Founded(check'[u], relations')
  BY <1>1, PursuitGet, FoundedKept
<1>3. ASSUME ~ overlapped, NEW u \in Thread
      PROVE  Undecided(check'[u], status') /\ (Judges(check'[u]) => Busy' = {u})
  <2>1. t \in Busy /\ \A v \in Thread : Judges(check[v]) => Busy = {v}
    BY <1>3 DEF TensionsInv, Busy
  <2>2. CASE Judges(check[t])
    <3>1. \A v \in Thread \ {t} : check[v].at = "idle"
      BY <2>1, <2>2 DEF Busy
    <3>2. CASE u = t
      BY <1>1, <1>3, <3>1, <3>2 DEF Busy, Judges
    <3>3. CASE u # t
      BY <1>1, <3>1, <3>3 DEF Undecided, Judges
    <3> QED BY <3>2, <3>3
  <2>3. CASE ~ Judges(check[t])
    <3>1. \A v \in Thread : ~ Judges(check[v])
      BY <2>1, <2>3
    <3>2. CASE u = t
      BY <1>1, <1>3, <2>3, <3>2
    <3>3. CASE u # t
      <4>1. check'[u] = check[u] /\ ~ Judges(check[u]) /\ Undecided(check[u], status)
        BY <1>1, <1>3, <3>1, <3>3 DEF TensionsInv
      <4>2. check[u].at \in {"lapse", "raise"} => check[u].todo \subseteq Question
        BY PursuitGet DEF Founded
      <4> QED BY <2>3, <4>1, <4>2 DEF Undecided
    <3> QED BY <3>2, <3>3
  <2> QED BY <2>2, <2>3
<1> QED BY <1>1, <1>2, <1>3 DEF TensionsInv

(* A thread that enters a judgment while another is busy, or any pass while *)
(* another judges, overlaps with it.                                        *)
LEMMA Begins ==
  ASSUME TensionsInv, NEW t \in Thread, NEW x \in Pursuit, Enters(t, x),
         UNCHANGED <<relations, shapes, status, switches>>,
         Founded(x, relations), Undecided(x, status), x.at \in {"check", "judge", "dismiss"}
  PROVE  TensionsInv'
<1>1. /\ check' \in [Thread -> Pursuit] /\ check'[t] = x
      /\ \A u \in Thread \ {t} : check'[u] = check[u]
      /\ check[t].at = "idle"
  BY DEF TensionsInv, Enters, Turns
<1>2. overlapped' \in BOOLEAN
  BY DEF TensionsInv, Enters
<1>3. \A u \in Thread : Founded(check'[u], relations')
  BY <1>1, PursuitGet
<1>4. ASSUME ~ overlapped', NEW u \in Thread
      PROVE  Undecided(check'[u], status') /\ (Judges(check'[u]) => Busy' = {u})
  <2>1. /\ ~ overlapped /\ Undecided(check[u], status)
        /\ \A v \in Busy : ~ Judges(check[v]) /\ x.at \notin {"judge", "dismiss"}
    BY <1>4 DEF Enters, TensionsInv, Judging, Judges
  <2>2. \A v \in Thread : ~ Judges(check[v])
    BY <2>1 DEF Busy, Judges
  <2>3. CASE u = t
    <3>1. Judges(x) => Busy = {}
      BY <2>1 DEF Judges
    <3> QED BY <1>1, <2>3, <3>1 DEF Busy, Judges
  <2>4. CASE u # t
    BY <1>1, <2>1, <2>2, <2>4
  <2> QED BY <2>3, <2>4
<1> QED BY <1>1, <1>2, <1>3, <1>4 DEF TensionsInv

------------------------------------------------------------------------------
(* A detection pass. *)

LEMMA CheckInv ==
  ASSUME TensionsInv, NEW t \in Thread, Check(t)
  PROVE  TensionsInv'
<1> DEFINE now == {q \in Question : Violated(q)}
           x == [Idle EXCEPT !.at = "check", !.current = now]
<1> HIDE DEF now
<1>1. now \subseteq Question
  BY DEF now
<1>2. x \in Pursuit /\ x.at = "check" /\ x.todo = {} /\ x.of = {} /\ x.had = {}
  BY <1>1, IdleFounded DEF Pursuit, Idle
<1>3. Founded(x, relations) /\ Undecided(x, status)
  BY <1>2 DEF Founded, Undecided, Judges
<1>4. Enters(t, x) /\ UNCHANGED <<relations, shapes, status, switches>>
  BY DEF Check, now
<1> HIDE DEF x
<1> QED BY <1>2, <1>3, <1>4, Begins

LEMMA SelectOpenInv ==
  ASSUME TensionsInv, NEW t \in Thread, SelectOpen(t)
  PROVE  TensionsInv'
<1> DEFINE left == {q \in Question : status[q] = "open"} \ check[t].current
           x == [check[t] EXCEPT !.at = "lapse", !.todo = left]
<1>1. /\ check[t] \in Pursuit /\ Founded(check[t], relations) /\ check[t].at = "check"
      /\ Turns(t, x) /\ UNCHANGED <<relations, shapes, status, switches, overlapped>>
  BY PursuitGet DEF SelectOpen
<1>2. left \subseteq Question /\ \A q \in left : status[q] \notin Decided
  BY DEF Decided
<1> HIDE DEF left
<1>3. x \in Pursuit /\ x.at = "lapse" /\ x.todo = left /\ x.of = check[t].of /\ x.had = check[t].had
  BY <1>1, <1>2 DEF Pursuit
<1>4. Founded(x, relations) /\ Undecided(x, status) /\ ~ Judges(x)
  BY <1>1, <1>2, <1>3 DEF Founded, Undecided, Judges
<1> HIDE DEF x
<1> QED BY <1>1, <1>3, <1>4, GoesOn DEF TensionsInv, Kept

(* A row of the pass changes, and was undecided if nothing overlapped. *)
LEMMA LapseInv ==
  ASSUME TensionsInv, NEW t \in Thread, NEW q \in Question, Lapse(t, q)
  PROVE  TensionsInv'
<1> DEFINE x == [check[t] EXCEPT !.todo = @ \ {q}]
<1>1. /\ check[t] \in Pursuit /\ Founded(check[t], relations)
      /\ check[t].at = "lapse" /\ q \in check[t].todo
      /\ Turns(t, x) /\ UNCHANGED <<relations, shapes, switches, overlapped>>
      /\ status' = [status EXCEPT ![q] = "lapsed"]
  BY PursuitGet DEF Lapse
<1>2. /\ x \in Pursuit /\ x.at = "lapse" /\ x.todo = check[t].todo \ {q} /\ x.of = check[t].of
      /\ x.had = check[t].had
  BY <1>1 DEF Pursuit
<1>3. /\ status' \in [Question -> Status]
      /\ \A p \in Question : status'[p] \in Decided => status[p] \in Decided
  BY <1>1 DEF TensionsInv, Status, Decided
<1>4. Founded(x, relations) /\ ~ Judges(x)
  BY <1>1, <1>2 DEF Founded, Judges
<1>5. ~ overlapped => Undecided(x, status')
  <2>1. ~ overlapped => Undecided(check[t], status)
    BY DEF TensionsInv
  <2>2. x.todo \subseteq Question
    BY <1>2, <1>4 DEF Founded
  <2> QED BY <1>1, <1>2, <1>3, <2>1, <2>2 DEF Undecided, Judges
<1> HIDE DEF x
<1> QED BY <1>1, <1>2, <1>3, <1>4, <1>5, GoesOn DEF TensionsInv, Kept

LEMMA SelectSeenInv ==
  ASSUME TensionsInv, NEW t \in Thread, SelectSeen(t)
  PROVE  TensionsInv'
<1> DEFINE ask == Unasked(check[t].current)
           was == {q \in ask : status[q] # "none"}
           y == [check[t] EXCEPT !.at = "raise", !.todo = ask, !.current = {}, !.was = was]
           x == IF ask = {} THEN Idle ELSE y
<1>1. /\ check[t] \in Pursuit /\ Founded(check[t], relations) /\ check[t].at = "lapse"
      /\ Turns(t, x) /\ UNCHANGED <<relations, shapes, status, switches, overlapped>>
  BY PursuitGet DEF SelectSeen
<1>2. ask \subseteq Question /\ \A q \in ask : status[q] \notin Decided
  BY <1>1 DEF Unasked, Decided, Pursuit
<1>3. was \subseteq Question
  BY <1>2
<1> HIDE DEF ask, was
<1>4. y \in Pursuit /\ y.at = "raise" /\ y.todo = ask /\ y.of = check[t].of /\ y.had = check[t].had
  BY <1>1, <1>2, <1>3 DEF Pursuit
<1>5. Founded(y, relations) /\ Undecided(y, status) /\ ~ Judges(y)
  BY <1>1, <1>2, <1>4 DEF Founded, Undecided, Judges
<1>6. x \in Pursuit /\ Founded(x, relations) /\ Undecided(x, status) /\ ~ Judges(x)
  BY <1>4, <1>5, IdleFounded
<1> HIDE DEF x
<1> QED BY <1>1, <1>6, GoesOn DEF TensionsInv, Kept

LEMMA RaiseInv ==
  ASSUME TensionsInv, NEW t \in Thread, NEW q \in Question, Raise(t, q)
  PROVE  TensionsInv'
<1> DEFINE y == [check[t] EXCEPT !.todo = @ \ {q}]
           x == IF check[t].todo = {q} THEN Idle ELSE y
<1>1. /\ check[t] \in Pursuit /\ Founded(check[t], relations)
      /\ check[t].at = "raise" /\ q \in check[t].todo
      /\ Turns(t, x) /\ UNCHANGED <<relations, shapes, switches, overlapped>>
      /\ status' = [status EXCEPT ![q] = IF q \in check[t].was \/ @ = "none" THEN "open" ELSE @]
  BY PursuitGet DEF Raise
<1>2. /\ status' \in [Question -> Status]
      /\ \A p \in Question : status'[p] \in Decided => status[p] \in Decided
  BY <1>1 DEF TensionsInv, Status, Decided
<1>3. /\ y \in Pursuit /\ y.at = "raise" /\ y.todo = check[t].todo \ {q} /\ y.of = check[t].of
      /\ y.had = check[t].had
  BY <1>1 DEF Pursuit
<1>4. Founded(y, relations) /\ ~ Judges(y)
  BY <1>1, <1>3 DEF Founded, Judges
<1>5. ~ overlapped => Undecided(y, status')
  <2>1. ~ overlapped => Undecided(check[t], status)
    BY DEF TensionsInv
  <2>2. y.todo \subseteq Question
    BY <1>3, <1>4 DEF Founded
  <2> QED BY <1>1, <1>2, <1>3, <2>1, <2>2 DEF Undecided, Judges
<1>6. /\ x \in Pursuit /\ Founded(x, relations) /\ ~ Judges(x)
      /\ (~ overlapped => Undecided(x, status'))
  BY <1>3, <1>4, <1>5, IdleFounded
<1> HIDE DEF x
<1> QED BY <1>1, <1>2, <1>6, GoesOn DEF TensionsInv, Kept

------------------------------------------------------------------------------
(* A person's judgment. *)

LEMMA ResolveInv ==
  ASSUME TensionsInv, NEW t \in Thread, NEW q \in Question, NEW keep \in q.between,
         Resolve(t, q, keep)
  PROVE  TensionsInv'
<1> DEFINE x == [Idle EXCEPT !.at = "judge", !.of = {q}, !.keep = {keep}]
<1>1. keep \in Party
  BY DEF Party
<1>2. x \in Pursuit /\ x.at = "judge" /\ x.todo = {} /\ x.of = {q} /\ x.had = {}
  BY <1>1, IdleFounded DEF Pursuit, Idle
<1>3. Founded(x, relations) /\ Undecided(x, status)
  BY <1>2 DEF Founded, Undecided, Judges, Resolve
<1>4. Enters(t, x) /\ UNCHANGED <<relations, shapes, status, switches>>
  BY DEF Resolve
<1> HIDE DEF x
<1> QED BY <1>2, <1>3, <1>4, Begins

LEMMA DismissInv ==
  ASSUME TensionsInv, NEW t \in Thread, NEW q \in Question, Dismiss(t, q)
  PROVE  TensionsInv'
<1> DEFINE x == [Idle EXCEPT !.at = "dismiss", !.of = {q}]
<1>1. x \in Pursuit /\ x.at = "dismiss" /\ x.todo = {} /\ x.of = {q} /\ x.had = {}
  BY IdleFounded DEF Pursuit, Idle
<1>2. Founded(x, relations) /\ Undecided(x, status)
  BY <1>1 DEF Founded, Undecided, Judges, Dismiss
<1>3. Enters(t, x) /\ UNCHANGED <<relations, shapes, status, switches>>
  BY DEF Dismiss
<1> HIDE DEF x
<1> QED BY <1>1, <1>2, <1>3, Begins

(* All that was recorded against the one who is kept is to be retracted. *)
LEMMA SelectEdgesInv ==
  ASSUME TensionsInv, NEW t \in Thread, SelectEdges(t)
  PROVE  TensionsInv'
<1>1. PICK q \in check[t].of :
        Turns(t, [check[t] EXCEPT !.at = "retract", !.todo = Losers(q, check[t].keep),
                                !.had = Related])
  BY DEF SelectEdges
<1> DEFINE x == [check[t] EXCEPT !.at = "retract", !.todo = Losers(q, check[t].keep),
                               !.had = Related]
<1>2. /\ check[t] \in Pursuit /\ Founded(check[t], relations)
      /\ check[t].at = "judge" /\ check[t].of = {q}
      /\ q \in Question /\ UNCHANGED <<relations, shapes, status, switches, overlapped>>
  BY <1>1, PursuitGet DEF SelectEdges, Founded, Judges
<1>3. Losers(q, check[t].keep) \subseteq Related /\ Related \subseteq Relation
  BY LosersAre DEF Related
<1>4. /\ x \in Pursuit /\ x.at = "retract" /\ x.todo = Losers(q, check[t].keep)
      /\ x.of = check[t].of /\ x.had = Related /\ x.keep = check[t].keep
  BY <1>2, <1>3 DEF Pursuit
<1> HIDE DEF x
<1>5. Founded(x, relations)
  BY <1>2, <1>3, <1>4, LosersAre DEF Founded, Judges, Related
<1>6. ~ overlapped => Undecided(x, status)
  <2>1. ~ overlapped => Undecided(check[t], status)
    BY DEF TensionsInv
  <2> QED BY <1>2, <1>4, <2>1 DEF Undecided, Judges
<1>7. Judges(check[t])
  BY <1>2 DEF Judges
<1>8. Turns(t, x)
  BY <1>1 DEF x
<1> QED BY <1>2, <1>4, <1>5, <1>6, <1>7, <1>8, GoesOn DEF TensionsInv, Kept

LEMMA RetractLoserInv ==
  ASSUME TensionsInv, NEW t \in Thread, NEW i \in Relation, RetractLoser(t, i)
  PROVE  TensionsInv'
<1> DEFINE x == [check[t] EXCEPT !.todo = @ \ {i}]
<1>1. /\ check[t] \in Pursuit /\ Founded(check[t], relations)
      /\ check[t].at = "retract" /\ i \in check[t].todo
      /\ Turns(t, x) /\ UNCHANGED <<shapes, status, switches, overlapped>>
      /\ relations' = [relations EXCEPT ![i] = "closed"]
  BY PursuitGet DEF RetractLoser
<1>2. /\ x \in Pursuit /\ x.at = "retract" /\ x.todo = check[t].todo \ {i} /\ x.of = check[t].of
      /\ x.had = check[t].had /\ x.keep = check[t].keep
  BY <1>1 DEF Pursuit
<1> HIDE DEF x
<1>3. relations' \in [Relation -> {"none", "open", "closed"}] /\ relations'[i] = "closed"
  BY <1>1 DEF TensionsInv
<1>4. Kept(relations, relations')
  BY <1>1, <1>3 DEF Kept, TensionsInv
<1>5. Founded(check[t], relations')
  BY <1>1, <1>4, FoundedKept
<1>6. Founded(x, relations')
  BY <1>1, <1>2, <1>3, <1>5 DEF Founded, Judges
<1>7. ~ overlapped => Undecided(x, status)
  <2>1. ~ overlapped => Undecided(check[t], status)
    BY DEF TensionsInv
  <2> QED BY <1>1, <1>2, <2>1 DEF Undecided, Judges
<1>8. Judges(check[t])
  BY <1>1 DEF Judges
<1> QED BY <1>1, <1>2, <1>3, <1>4, <1>6, <1>7, <1>8, GoesOn DEF TensionsInv

LEMMA SettlesInv ==
  ASSUME TensionsInv, NEW t \in Thread, Settle(t) \/ SettleDismissal(t)
  PROVE  TensionsInv'
<1>1. PICK s \in Decided : Settles(t, s)
  BY DEF Settle, SettleDismissal, Decided
<1>2. Judges(check[t]) /\ check[t].at # "idle"
  BY DEF Settle, SettleDismissal, Judges
<1>3. status' \in [Question -> Status]
  BY <1>1 DEF Settles, TensionsInv, Status, Decided
<1>4. Turns(t, Idle) /\ UNCHANGED <<relations, shapes, switches, overlapped>>
  BY <1>1 DEF Settles
<1> QED BY <1>2, <1>3, <1>4, GoesOn, IdleFounded DEF TensionsInv, Kept

------------------------------------------------------------------------------
LEMMA TensionsStart ==
  ASSUME TensionsAssumption, TensionsInit
  PROVE  TensionsInv
<1>1. \A t \in Thread : check[t] = Idle
  BY DEF TensionsInit
<1>2. \A t \in Thread : /\ check[t] \in Pursuit /\ Founded(check[t], relations)
                        /\ Undecided(check[t], status) /\ ~ Judges(check[t])
  BY <1>1, IdleFounded
<1>3. check \in [Thread -> Pursuit]
  BY <1>1, <1>2 DEF TensionsInit
<1>4. /\ relations \in [Relation -> {"none", "open", "closed"}] /\ shapes \subseteq Constraint
      /\ status \in [Question -> Status] /\ switches \in 0..MaxSwitches
      /\ overlapped \in BOOLEAN
  <2>1. switches \in 0..MaxSwitches
    BY DEF TensionsInit, TensionsAssumption
  <2> QED BY <2>1 DEF TensionsInit, Status
<1> QED BY <1>2, <1>3, <1>4 DEF TensionsInv

LEMMA TensionsStep ==
  ASSUME TensionsAssumption, TensionsInv, [TensionsNext]_checking
  PROVE  TensionsInv'
<1>1. CASE UNCHANGED checking
  BY <1>1 DEF checking, TensionsInv, Busy
<1>2. CASE World
  BY <1>2, WorldInv
<1>3. CASE \E t \in Thread : Check(t) \/ SelectOpen(t) \/ SelectSeen(t)
  BY <1>3, CheckInv, SelectOpenInv, SelectSeenInv
<1>4. CASE \E t \in Thread : \E q \in Question : Lapse(t, q) \/ Raise(t, q)
  BY <1>4, LapseInv, RaiseInv
<1>5. CASE \E t \in Thread : SelectEdges(t) \/ Settle(t) \/ SettleDismissal(t)
  BY <1>5, SelectEdgesInv, SettlesInv
<1>6. CASE \E t \in Thread : \E i \in Relation : RetractLoser(t, i)
  BY <1>6, RetractLoserInv
<1>7. CASE \E t \in Thread : Requests(t)
  BY <1>7, DismissInv, ResolveInv DEF Requests
<1> QED BY <1>1, <1>2, <1>3, <1>4, <1>5, <1>6, <1>7 DEF TensionsNext, Pursue

(* The inductive invariant: an undecided row stays so until it is written, *)
(* unless a judgment and another pass have overlapped.                     *)
THEOREM TensionsSound == ASSUME TensionsAssumption PROVE TensionsSpec => []TensionsInv
<1>1. TensionsInit => TensionsInv
  BY TensionsStart
<1>2. TensionsInv /\ [TensionsNext]_checking => TensionsInv'
  BY TensionsStep
<1> QED BY <1>1, <1>2, PTL DEF TensionsSpec

(* What the invariant of the tensions says of types. *)
LEMMA TensionsFit == ASSUME TensionsInv PROVE TensionsTypeOK
<1>1. ASSUME NEW t \in Thread
      PROVE  /\ check[t].current \subseteq Question /\ check[t].was \subseteq Question
             /\ check[t].todo \subseteq (IF check[t].at = "retract" THEN Related ELSE Question)
             /\ check[t].had \subseteq Related
             /\ Cardinality(check[t].of) = IF Judging(t) THEN 1 ELSE 0
  <2>1. check[t] \in Pursuit /\ Founded(check[t], relations)
    BY PursuitGet
  <2>2. CASE Judging(t)
    <3>1. PICK q \in Question : check[t].of = {q}
      BY <2>1, <2>2 DEF Founded, Judging, Judges
    <3> QED BY <2>1, <2>2, <3>1, FS_Singleton DEF Pursuit, Founded, Related
  <2>3. CASE ~ Judging(t)
    <3>1. check[t].of = {}
      BY <2>1, <2>3 DEF Founded, Judging, Judges
    <3> QED BY <2>1, <2>3, <3>1, FS_EmptySet DEF Pursuit, Founded, Related
  <2> QED BY <2>2, <2>3
<1> QED BY <1>1 DEF TensionsInv, TensionsTypeOK

(* Every variable has its type, for every set of constants. *)
THEOREM TensionsTyped == ASSUME TensionsAssumption PROVE TensionsSpec => []TensionsTypeOK
  BY TensionsSound, TensionsFit, PTL

(* A decision stands, for every set of claims, constraints and threads: no  *)
(* pass lapses or reopens a question a person has judged, and no second     *)
(* judgment overwrites the first, as long as none overlapped with another   *)
(* pass (constraints.py, check, resolve and dismiss).                       *)
THEOREM DecisionsStand == ASSUME TensionsAssumption PROVE TensionsSpec => DecisionStands
<1> DEFINE Stands == \A q \in Question :
             status[q] \in Decided /\ ~ overlapped' => status'[q] = status[q]
<1>1. TensionsInv /\ [TensionsNext]_checking => [Stands]_checking
  <2> SUFFICES ASSUME TensionsInv, TensionsNext, NEW q \in Question, status[q] \in Decided,
                      ~ overlapped'
               PROVE  status'[q] = status[q]
    BY DEF Stands
  <2>1. status \in [Question -> Status]
    BY DEF TensionsInv
  <2>2. \A t \in Thread : ~ overlapped => Undecided(check[t], status)
    BY DEF TensionsInv
  <2>3. ASSUME NEW t \in Thread, NEW p \in Question, Lapse(t, p) \/ Raise(t, p)
        PROVE  status'[q] = status[q]
    <3>1. ~ overlapped /\ check[t].at \in {"lapse", "raise"} /\ p \in check[t].todo
      BY <2>3 DEF Lapse, Raise
    <3>2. status[p] \notin Decided
      BY <2>2, <3>1 DEF Undecided
    <3> QED BY <2>1, <2>3, <3>2 DEF Lapse, Raise
  <2>4. ASSUME NEW t \in Thread, NEW s, Settles(t, s), Judges(check[t])
        PROVE  status'[q] = status[q]
    <3>1. ~ overlapped /\ \A p \in check[t].of : status[p] = "open"
      BY <2>2, <2>4 DEF Settles, Undecided
    <3> QED BY <2>1, <2>4, <3>1 DEF Settles, Decided
  <2>5. CASE World
    BY <2>5 DEF World, Relate, Unrelate, Declare, Lift
  <2>6. CASE \E t \in Thread : Check(t) \/ Requests(t)
    BY <2>6 DEF Check, Requests, Resolve, Dismiss
  <2>7. CASE \E t \in Thread : Settle(t) \/ SettleDismissal(t)
    BY <2>4, <2>7 DEF Settle, SettleDismissal, Judges
  <2>8. CASE \E t \in Thread : \/ SelectOpen(t) \/ SelectSeen(t) \/ SelectEdges(t)
                               \/ \E i \in Relation : RetractLoser(t, i)
    BY <2>8 DEF SelectOpen, SelectSeen, SelectEdges, RetractLoser
  <2> QED BY <2>3, <2>5, <2>6, <2>7, <2>8 DEF TensionsNext, Pursue
<1> QED BY <1>1, TensionsSound, PTL DEF TensionsSpec, DecisionStands

(* A resolved tension is settled: when its row says so, every claim that    *)
(* was recorded against the one who is kept before the resolver looked has  *)
(* been closed, however many corroborations there were and whatever else    *)
(* ran (constraints.py, resolve).                                           *)
THEOREM ResolvedSettled == ASSUME TensionsAssumption PROVE TensionsSpec => ResolvedIsSettled
<1> DEFINE Settled == \A t \in Thread, q \in Question :
             check[t].at = "retract" /\ q \in check[t].of /\ check'[t] = Idle =>
               \A i \in Toward(q, q.between \ check[t].keep) \cap check[t].had :
                  relations[i] # "open"
<1>1. TensionsInv /\ [TensionsNext]_checking => [Settled]_checking
  <2> SUFFICES ASSUME TensionsInv, TensionsNext, NEW t \in Thread, NEW q \in Question,
                      check[t].at = "retract", q \in check[t].of, check'[t] = Idle,
                      NEW i \in Toward(q, q.between \ check[t].keep), i \in check[t].had
               PROVE  relations[i] # "open"
    BY DEF Settled
  <2>1. check[t] \in Pursuit /\ Founded(check[t], relations) /\ check \in [Thread -> Pursuit]
    BY PursuitGet DEF TensionsInv
  <2>2. i \in Against(q, check[t].keep)
    BY LosersAre DEF Losers
  <2>3. check[t].todo = {}
    <3> SUFFICES ASSUME check[t].todo # {} PROVE FALSE
      OBVIOUS
    <3>1. check'[t] # check[t]
      BY DEF Idle
    <3>2. Settle(t) \/ \E j \in Relation : RetractLoser(t, j)
      <4>1. CASE World
        BY <3>1, <4>1 DEF World, Relate, Unrelate, Declare, Lift
      <4>2. CASE \E u \in Thread : Check(u) \/ Requests(u)
        BY <2>1, <3>1, <4>2 DEF Check, Requests, Resolve, Dismiss, Enters, Turns
      <4>3. CASE \E u \in Thread : \/ SelectOpen(u) \/ SelectSeen(u) \/ SelectEdges(u)
                                   \/ SettleDismissal(u)
                                   \/ \E p \in Question : Lapse(u, p) \/ Raise(u, p)
        BY <2>1, <3>1, <4>3 DEF SelectOpen, SelectSeen, SelectEdges, SettleDismissal, Settles,
                                Lapse, Raise, Turns
      <4>4. CASE \E u \in Thread : Settle(u) \/ \E j \in Relation : RetractLoser(u, j)
        BY <2>1, <3>1, <4>4 DEF Settle, Settles, RetractLoser, Turns
      <4> QED BY <4>1, <4>2, <4>3, <4>4 DEF TensionsNext, Pursue
    <3>3. PICK j \in Relation : RetractLoser(t, j)
      BY <3>2 DEF Settle
    <3>4. check'[t].at = "retract"
      BY <2>1, <3>3 DEF RetractLoser, Turns, Pursuit
    <3> QED BY <3>4 DEF Idle
  <2> QED BY <2>1, <2>2, <2>3 DEF Founded
<1> QED BY <1>1, TensionsSound, PTL DEF TensionsSpec, ResolvedIsSettled

(***************************************************************************)
(* III. The writer lock                                                    *)
(*                                                                         *)
(* The row of the writer lock names every holder, for any number of        *)
(* processes and hosts, as long as a live holder beats in time and no new  *)
(* process finds the host:pid the row still names to be its own.           *)
(*                                                                         *)
(* HolderOwnsRow is not inductive: it must also be known that the owner of *)
(* a stale row is not running, and that what a starter judged of the row   *)
(* stays true until the row is written, which is when its compare-and-swap *)
(* is bound to fail.                                                       *)
(***************************************************************************)

Running(p) == phase[p] \in {"confirm", "serving"}

RowsTyped ==
  /\ row \subseteq [owner : Proc, age : 0..Stale]
  /\ \A r, s \in row : r = s
  /\ phase \in [Proc -> Phase]
  /\ held \subseteq Proc /\ judged \subseteq Proc

HoldersServe == \A p \in held : Serving(p)

StaleOwnerIsDown == \A r \in row : r.age = Stale => ~ Running(r.owner)

StarterOwnsNothing ==
  \A p \in Proc :
     phase[p] # "mine" /\ (phase[p] \in {"booted", "insert", "take"} => ~ Owns(p))

JudgementHolds ==
  \A p \in judged : phase[p] = "take" /\ \A r \in row : ~ Running(r.owner)

LockCore ==
  /\ HolderOwnsRow /\ HoldersServe
  /\ StaleOwnerIsDown /\ StarterOwnsNothing /\ JudgementHolds

LockInv == RowsTyped /\ reused \in BOOLEAN /\ (~ reused => LockCore)

------------------------------------------------------------------------------
(* Before anybody started there is no row and no holder. *)
LEMMA LockInit == ASSUME LockAssumption, Init PROVE LockInv
  BY DEF LockAssumption, Init, LockInv, LockCore, RowsTyped, HolderOwnsRow, HoldersServe,
         StaleOwnerIsDown, StarterOwnsNothing, JudgementHolds, Running, Owns, Phase

(* Every step keeps the one row well formed, whoever starts under what name. *)
LEMMA RowsStep ==
  ASSUME LockAssumption, RowsTyped, reused \in BOOLEAN, [Next]_vars
  PROVE  RowsTyped' /\ reused' \in BOOLEAN /\ (reused => reused')
<1> USE DEF RowsTyped, Owns, Serving, Phase, Goto, SetRow
<1>1. ASSUME NEW p \in Proc, Import(p)
      PROVE  RowsTyped' /\ reused' \in BOOLEAN /\ (reused => reused')
  BY <1>1 DEF Import
<1>2. ASSUME NEW p \in Proc, Acquire(p) PROVE RowsTyped' /\ UNCHANGED reused
  <2>1. CASE ReadNone(p) \/ ReadMine(p) \/ ReadStale(p) \/ ReadHeld(p)
    BY <2>1 DEF ReadNone, ReadMine, ReadStale, ReadHeld
  <2>2. CASE Insert(p) BY <2>2 DEF Insert, LockAssumption
  <2>3. CASE Reacquire(p) BY <2>3 DEF Reacquire
  <2>4. CASE Take(p) BY <2>4 DEF Take, LockAssumption
  <2>5. CASE Confirm(p) BY <2>5 DEF Confirm
  <2> QED BY <1>2, <2>1, <2>2, <2>3, <2>4, <2>5 DEF Acquire
<1>3. ASSUME NEW p \in Proc, Beat(p) PROVE RowsTyped' /\ UNCHANGED reused
  BY <1>3 DEF Beat, LockAssumption
<1>4. ASSUME NEW p \in Proc, Write(p) \/ Exit(p) \/ Crash(p) PROVE RowsTyped' /\ UNCHANGED reused
  BY <1>4 DEF Write, Exit, Crash
<1>5. ASSUME NEW p \in Proc, Shutdown(p) PROVE RowsTyped' /\ UNCHANGED reused
  BY <1>5 DEF Shutdown
<1>6. CASE Age
  BY <1>6 DEF Age, LockAssumption
<1>7. CASE UNCHANGED vars
  BY <1>7 DEF vars
<1> QED BY <1>1, <1>2, <1>3, <1>4, <1>5, <1>6, <1>7 DEF Next

(* Every step of every process, and of time, keeps the row and the holders  *)
(* together.                                                                *)
LEMMA CoreStep ==
  ASSUME LockAssumption, Prompt, RowsTyped, ~ reused, LockCore, [Next]_vars, ~ reused'
  PROVE  LockCore'
<1> USE DEF LockCore, RowsTyped, HolderOwnsRow, HoldersServe, StaleOwnerIsDown,
            StarterOwnsNothing, JudgementHolds, Running, Owns, Serving, Phase
<1>1. ASSUME NEW p \in Proc, Import(p) PROVE LockCore'
  BY <1>1 DEF Import, Goto
<1>2. ASSUME NEW p \in Proc, Acquire(p) PROVE LockCore'
  <2>1. CASE ReadNone(p) BY <2>1 DEF ReadNone, Goto
  <2>2. CASE ReadMine(p) BY <2>2 DEF ReadMine, Goto
  <2>3. CASE ReadStale(p) BY <2>3 DEF ReadStale, Goto, MayLookGone
  <2>4. CASE ReadHeld(p) BY <2>4 DEF ReadHeld, Goto
  <2>5. CASE Insert(p)
    <3>1. CASE row = {}
      <4>1. held = {} /\ Stale # 0 /\ 0 \in 0..Stale
        BY <3>1 DEF LockAssumption
      <4>2. /\ row' = {[owner |-> p, age |-> 0]} /\ judged' = {} /\ held' = {p}
            /\ phase' = [phase EXCEPT ![p] = "serving"]
        BY <2>5, <3>1, <4>1 DEF Insert, Goto, SetRow
      <4> QED BY <4>1, <4>2, <3>1
    <3>2. CASE row # {}
      BY <2>5, <3>2 DEF Insert, Goto
    <3> QED BY <3>1, <3>2
  <2>6. CASE Reacquire(p) BY <2>6 DEF Reacquire, Goto
  <2>7. CASE Take(p) BY <2>7 DEF Take, Goto, SetRow, LockAssumption
  <2>8. CASE Confirm(p) BY <2>8 DEF Confirm, Goto
  <2> QED BY <1>2, <2>1, <2>2, <2>3, <2>4, <2>5, <2>6, <2>7, <2>8 DEF Acquire
<1>3. ASSUME NEW p \in Proc, Beat(p) PROVE LockCore'
  BY <1>3 DEF Beat, SetRow, LockAssumption
<1>4. ASSUME NEW p \in Proc, Write(p) PROVE LockCore'
  BY <1>4 DEF Write
<1>5. ASSUME NEW p \in Proc, Shutdown(p) PROVE LockCore'
  BY <1>5 DEF Shutdown, Goto, SetRow
<1>6. ASSUME NEW p \in Proc, Exit(p) PROVE LockCore'
  BY <1>6 DEF Exit, Goto
<1>7. ASSUME NEW p \in Proc, Crash(p) PROVE LockCore'
  BY <1>7 DEF Crash, Goto
<1>8. CASE Age
  BY <1>8 DEF Age, LockAssumption
<1>9. CASE UNCHANGED vars
  BY <1>9 DEF vars
<1> QED BY <1>1, <1>2, <1>3, <1>4, <1>5, <1>6, <1>7, <1>8, <1>9 DEF Next

(* The inductive invariant of the lock. *)
THEOREM LockSound == ASSUME LockAssumption, Prompt PROVE Spec => []LockInv
<1>1. Init => LockInv BY LockInit
<1>2. LockInv /\ [Next]_vars => LockInv' BY RowsStep, CoreStep DEF LockInv
<1> QED BY <1>1, <1>2, PTL DEF Spec

(* Whoever believes it holds the lock is named by the row, as long as no    *)
(* process started under a name that the row still held (store.py:166-208). *)
THEOREM HoldersOwnTheRow ==
  ASSUME LockAssumption, Prompt PROVE Spec => []HolderOwnsRow
<1>1. LockInv => HolderOwnsRow BY DEF LockInv, LockCore, HolderOwnsRow
<1> QED BY <1>1, LockSound, PTL

(* Under the same assumptions two processes never hold the lock at once.    *)
THEOREM OneHolder ==
  ASSUME LockAssumption, Prompt
  PROVE  Spec => [](~ reused => \A p, q \in held : p = q)
<1>1. LockInv => (~ reused => \A p, q \in held : p = q)
  BY DEF LockInv, LockCore, RowsTyped, HolderOwnsRow, Owns
<1> QED BY <1>1, LockSound, PTL
(* Whatever any process does, under whatever name it starts, the lock is    *)
(* well typed: in particular writer_lock never has a second row.            *)
LEMMA LockTypedStep ==
  ASSUME LockAssumption, TypeOK, RowsTyped, reused \in BOOLEAN, [Next]_vars
  PROVE  TypeOK'
<1>1. RowsTyped' /\ reused' \in BOOLEAN
  BY RowsStep
<1>2. Cardinality(row') <= 1
  <2>1. CASE row' = {}
    BY <2>1, FS_EmptySet
  <2>2. CASE row' # {}
    <3>1. PICK r \in row' : TRUE
      BY <2>2
    <3>2. row' = {r}
      BY <1>1, <3>1 DEF RowsTyped
    <3>3. Cardinality({r}) = 1
      BY FS_Singleton
    <3> QED BY <3>2, <3>3
  <2> QED BY <2>1, <2>2
<1>3. whole' \subseteq Proc /\ crashes' \in 0..MaxCrashes
  <2> USE DEF TypeOK, LockAssumption
  <2>1. ASSUME NEW p \in Proc, Import(p) PROVE whole' \subseteq Proc /\ crashes' \in 0..MaxCrashes
    BY <2>1 DEF Import
  <2>2. ASSUME NEW p \in Proc, Acquire(p) PROVE whole' \subseteq Proc /\ crashes' \in 0..MaxCrashes
    BY <2>2 DEF Acquire, ReadNone, ReadMine, ReadStale, ReadHeld, Insert, Reacquire, Take, Confirm
  <2>3. ASSUME NEW p \in Proc, Beat(p) \/ Write(p) \/ Exit(p) \/ Shutdown(p) PROVE whole' \subseteq Proc /\ crashes' \in 0..MaxCrashes
    BY <2>3 DEF Beat, Write, Exit, Shutdown
  <2>4. ASSUME NEW p \in Proc, Crash(p) PROVE whole' \subseteq Proc /\ crashes' \in 0..MaxCrashes
    BY <2>4 DEF Crash
  <2>5. CASE Age
    BY <2>5 DEF Age
  <2>6. CASE UNCHANGED vars
    BY <2>6 DEF vars
  <2> QED BY <2>1, <2>2, <2>3, <2>4, <2>5, <2>6 DEF Next
<1> QED BY <1>1, <1>2, <1>3 DEF TypeOK, RowsTyped

LockTyped == TypeOK /\ RowsTyped

(* The types of the lock hold without any assumption on time. *)
LEMMA LockTypedSound ==
  ASSUME LockAssumption
  PROVE  /\ Init => LockTyped
         /\ LockTyped /\ [Next]_vars => LockTyped'
<1>1. Init => LockTyped
  <2> SUFFICES ASSUME Init PROVE LockTyped
    OBVIOUS
  <2>1. RowsTyped
    BY LockInit DEF LockInv
  <2>2. Cardinality(row) <= 1
    BY FS_EmptySet DEF Init
  <2>3. whole = {} /\ crashes \in 0..MaxCrashes /\ reused = FALSE
    BY DEF Init, LockAssumption
  <2> QED BY <2>1, <2>2, <2>3 DEF LockTyped, TypeOK, RowsTyped
<1>2. LockTyped /\ [Next]_vars => LockTyped'
  BY LockTypedStep, RowsStep DEF LockTyped, TypeOK
<1> QED BY <1>1, <1>2

(* Everything behind the requests is well typed, whichever of the three     *)
(* moves: a pass, a check and the lock share no state (MCBackground).       *)
THEOREM BackgroundTyped ==
  ASSUME RulesAssumption, TensionsAssumption, LockAssumption
  PROVE  BackSpec => []TypesOK
<1> DEFINE Sound == LockTyped /\ RulesInv /\ TensionsInv
<1>1. BackInit => Sound
  BY LockTypedSound, RulesStart, TensionsStart DEF BackInit
<1>2. Sound /\ [LocksMove \/ RulesMove \/ TensionsMove]_all => Sound'
  <2> SUFFICES ASSUME Sound, [LocksMove \/ RulesMove \/ TensionsMove]_all PROVE Sound'
    OBVIOUS
  <2>1. [Next]_vars /\ [RulesNext]_ruling /\ [TensionsNext]_checking
    BY DEF LocksMove, RulesMove, TensionsMove, all
  <2> QED BY <2>1, LockTypedSound, RulesStep, TensionsStep
<1>3. Sound => TypesOK
  BY RulesFit, TensionsFit DEF LockTyped, TypesOK
<1> QED BY <1>1, <1>2, <1>3, PTL DEF BackSpec
=================================================================================
