--------------------------- MODULE OperationsProofs ---------------------------
(***************************************************************************)
(* What replaying a log does, for any log and any operations: lemmas for   *)
(* the proofs about the modules that replay one.                           *)
(*                                                                         *)
(* Replay is a recursive function; what it does with one row more is       *)
(* proved by induction on the length of the log (SetInduction).            *)
(***************************************************************************)
EXTENDS Operations, TLAPS, SequenceTheorems, WellFoundedInduction

(* Induction over the naturals, stated with a set: the least number outside *)
(* it would have a predecessor inside.                                      *)
LEMMA SetInduction ==
  ASSUME NEW S, 0 \in S, \A n \in Nat : n \in S => n + 1 \in S
  PROVE  \A n \in Nat : n \in S
<1> DEFINE R == OpToRel(<, Nat)
           T == {n \in Nat : n \notin S}
<1>1. IsWellFoundedOn(R, Nat)
  BY NatLessThanWellFounded
<1>2. ASSUME NEW x \in Nat, NEW y \in Nat, x < y PROVE <<x, y>> \in R
  BY <1>2 DEF OpToRel
<1> HIDE DEF R
<1>3. ASSUME T # {} PROVE FALSE
  <2>1. PICK x \in T : \A y \in T : ~ (<<y, x>> \in R)
    BY <1>1, <1>3, WFMin
  <2>2. x \in Nat /\ x \notin S
    BY <2>1
  <2>3. x # 0
    BY <2>2
  <2>4. x - 1 \in Nat /\ x - 1 < x /\ (x - 1) + 1 = x
    BY <2>2, <2>3
  <2>5. x - 1 \notin T
    BY <1>2, <2>1, <2>2, <2>4
  <2>6. x - 1 \in S
    BY <2>4, <2>5
  <2> QED BY <2>2, <2>4, <2>6
<1> QED BY <1>3

(* One row more. *)
After(r, row) == IF r.code = "ACCEPTED" THEN Apply(r.eng, row.op) ELSE r

(* The engines a replay of l goes through. *)
Runs(g, l) ==
  /\ g = [n \in 0..Len(l) |-> g[n]]
  /\ g[0] = Result(NewEngine, "ACCEPTED")
  /\ \A n \in 1..Len(l) : g[n] = After(g[n - 1], l[n])

(* A log has one run. *)
LEMMA RunsOnce ==
  ASSUME NEW l, Len(l) \in Nat, NEW g, NEW h, Runs(g, l), Runs(h, l)
  PROVE  g = h
<1> DEFINE S == {n \in Nat : n \in 0..Len(l) => g[n] = h[n]}
<1>1. 0 \in S
  BY DEF Runs
<1>2. ASSUME NEW n \in Nat, n \in S PROVE n + 1 \in S
  <2> SUFFICES ASSUME n + 1 \in 0..Len(l) PROVE g[n + 1] = h[n + 1]
    OBVIOUS
  <2>1. n \in 0..Len(l) /\ n + 1 \in 1..Len(l) /\ (n + 1) - 1 = n
    OBVIOUS
  <2>2. g[n] = h[n]
    BY <1>2, <2>1
  <2> QED BY <2>1, <2>2 DEF Runs
<1> HIDE DEF S
<1>3. \A n \in Nat : n \in S
  BY <1>1, <1>2, SetInduction
<1>4. \A n \in 0..Len(l) : g[n] = h[n]
  BY <1>3 DEF S
<1> QED BY <1>4 DEF Runs

(* The run of a log with one row more. *)
LEMMA RunsMore ==
  ASSUME NEW l, Len(l) \in Nat, NEW g, Runs(g, l), NEW m, Len(m) = Len(l) + 1,
         \A n \in 1..Len(l) : m[n] = l[n]
  PROVE  Runs([n \in 0..Len(m) |-> IF n = Len(m) THEN After(g[Len(l)], m[n]) ELSE g[n]], m)
<1> DEFINE k == Len(l)
           h == [n \in 0..(k + 1) |-> IF n = k + 1 THEN After(g[k], m[n]) ELSE g[n]]
<1>1. h = [n \in 0..(k + 1) |-> h[n]]
  OBVIOUS
<1>2. h[k + 1] = After(g[k], m[k + 1]) /\ \A n \in 0..k : h[n] = g[n]
  OBVIOUS
<1> HIDE DEF h
<1>3. /\ g[0] = Result(NewEngine, "ACCEPTED")
      /\ \A n \in 1..k : g[n] = After(g[n - 1], l[n])
  BY DEF Runs
<1>4. h[0] = Result(NewEngine, "ACCEPTED")
  BY <1>2, <1>3
<1>5. \A n \in 1..(k + 1) : h[n] = After(h[n - 1], m[n])
  <2> TAKE n \in 1..(k + 1)
  <2>1. CASE n = k + 1
    BY <1>2, <2>1
  <2>2. CASE n \in 1..k
    <3>1. n \in 0..k /\ n - 1 \in 0..k
      BY <2>2
    <3>2. h[n] = g[n] /\ h[n - 1] = g[n - 1] /\ m[n] = l[n]
      BY <1>2, <2>2, <3>1
    <3> QED BY <1>3, <2>2, <3>2
  <2> QED BY <2>1, <2>2
<1>6. Runs(h, m)
  BY <1>1, <1>4, <1>5 DEF Runs
<1> QED BY <1>6 DEF h

(* Every log has a run. *)
LEMMA RunsExists ==
  ASSUME NEW S, NEW l \in Seq(S)
  PROVE  \E g : Runs(g, l)
<1> DEFINE P(n) == \E g : /\ g = [i \in 0..n |-> g[i]]
                          /\ g[0] = Result(NewEngine, "ACCEPTED")
                          /\ \A i \in 1..n : g[i] = After(g[i - 1], l[i])
           T == {n \in Nat : P(n)}
<1>1. 0 \in T
  <2> DEFINE g == [i \in 0..0 |-> Result(NewEngine, "ACCEPTED")]
  <2>1. g = [i \in 0..0 |-> g[i]] /\ g[0] = Result(NewEngine, "ACCEPTED")
    OBVIOUS
  <2>2. \A i \in 1..0 : g[i] = After(g[i - 1], l[i])
    OBVIOUS
  <2> HIDE DEF g
  <2>3. P(0)
    BY <2>1, <2>2
  <2> QED BY <2>3
<1>2. ASSUME NEW n \in Nat, n \in T PROVE n + 1 \in T
  <2>1. PICK g : /\ g = [i \in 0..n |-> g[i]]
                 /\ g[0] = Result(NewEngine, "ACCEPTED")
                 /\ \A i \in 1..n : g[i] = After(g[i - 1], l[i])
    BY <1>2
  <2> DEFINE h == [i \in 0..(n + 1) |-> IF i = n + 1 THEN After(g[n], l[n + 1]) ELSE g[i]]
  <2>2. h = [i \in 0..(n + 1) |-> h[i]] /\ h[0] = Result(NewEngine, "ACCEPTED")
    BY <2>1
  <2>3. h[n + 1] = After(h[n], l[n + 1]) /\ \A i \in 0..n : h[i] = g[i]
    OBVIOUS
  <2> HIDE DEF h
  <2>4. \A i \in 1..(n + 1) : h[i] = After(h[i - 1], l[i])
    <3> TAKE i \in 1..(n + 1)
    <3>1. CASE i = n + 1
      BY <2>3, <3>1
    <3>2. CASE i \in 1..n
      <4>1. i \in 0..n /\ i - 1 \in 0..n
        BY <3>2
      <4>2. h[i] = g[i] /\ h[i - 1] = g[i - 1]
        BY <2>3, <4>1
      <4> QED BY <2>1, <3>2, <4>2
    <3> QED BY <3>1, <3>2
  <2>5. P(n + 1)
    BY <2>2, <2>4
  <2>6. n + 1 \in Nat
    OBVIOUS
  <2> HIDE DEF P
  <2> QED BY <2>5, <2>6
<1> HIDE DEF T
<1>3. \A n \in Nat : n \in T
  BY <1>1, <1>2, SetInduction
<1>4. Len(l) \in T
  BY <1>3, LenProperties
<1> QED BY <1>4 DEF T, Runs

(* The replay ends where the run of it ends. *)
LEMMA ReplayRuns ==
  ASSUME NEW S, NEW l \in Seq(S), NEW g, Runs(g, l)
  PROVE  Replay(l) = g[Len(l)]
<1> DEFINE Step(u, n) == IF n = 0 THEN Result(NewEngine, "ACCEPTED")
                         ELSE IF u[n - 1].code = "ACCEPTED"
                              THEN Apply(u[n - 1].eng, l[n].op) ELSE u[n - 1]
           U == CHOOSE u : u = [n \in 0..Len(l) |-> Step(u, n)]
<1>1. Replay(l) = U[Len(l)]
  BY DEF Replay
<1>2. Len(l) \in Nat
  BY LenProperties
<1>3. g = [n \in 0..Len(l) |-> Step(g, n)]
  <2>1. \A n \in 0..Len(l) : g[n] = Step(g, n)
    <3> TAKE n \in 0..Len(l)
    <3>1. CASE n = 0
      BY <3>1 DEF Runs
    <3>2. CASE n # 0
      <4>1. n \in 1..Len(l)
        BY <1>2, <3>2
      <4>2. g[n] = After(g[n - 1], l[n])
        BY <4>1 DEF Runs
      <4> QED BY <3>2, <4>2 DEF After
    <3> QED BY <3>1, <3>2
  <2> HIDE DEF Step
  <2> QED BY <2>1 DEF Runs
<1>4. U = [n \in 0..Len(l) |-> Step(U, n)]
  BY <1>3
<1> HIDE DEF U
<1>5. Runs(U, l)
  <2>1. \A n \in 0..Len(l) : U[n] = Step(U, n)
    BY <1>4
  <2>2. U = [n \in 0..Len(l) |-> U[n]]
    BY <1>4
  <2>3. U[0] = Result(NewEngine, "ACCEPTED")
    BY <1>2, <2>1
  <2>4. ASSUME NEW n \in 1..Len(l) PROVE U[n] = After(U[n - 1], l[n])
    <3>1. n \in 0..Len(l) /\ n # 0
      BY <1>2
    <3>2. U[n] = Step(U, n)
      BY <2>1, <3>1
    <3> QED BY <3>1, <3>2 DEF After
  <2> QED BY <2>2, <2>3, <2>4 DEF Runs
<1> QED BY <1>1, <1>2, <1>5, RunsOnce

(* A replay of one row more applies that row to what the replay gave. *)
LEMMA ReplayAppend ==
  ASSUME NEW S, NEW l \in Seq(S), NEW x \in S
  PROVE  Replay(Append(l, x)) = After(Replay(l), x)
<1> DEFINE m == Append(l, x)
<1>1. PICK g : Runs(g, l)
  BY RunsExists
<1>2. /\ m \in Seq(S) /\ Len(m) = Len(l) + 1 /\ m[Len(m)] = x
      /\ \A n \in 1..Len(l) : m[n] = l[n]
  BY AppendProperties
<1>3. Len(l) \in Nat
  BY LenProperties
<1> HIDE DEF m
<1> DEFINE h == [n \in 0..Len(m) |-> IF n = Len(m) THEN After(g[Len(l)], m[n]) ELSE g[n]]
<1>4. Runs(h, m)
  BY <1>1, <1>2, <1>3, RunsMore
<1>5. h[Len(m)] = After(g[Len(l)], x)
  BY <1>2, <1>3
<1> HIDE DEF h
<1>6. Replay(m) = h[Len(m)]
  BY <1>2, <1>4, ReplayRuns
<1>7. Replay(l) = g[Len(l)]
  BY <1>1, ReplayRuns
<1> QED BY <1>5, <1>6, <1>7 DEF m

(* No row: a new engine. *)
LEMMA ReplayNothing == Replay(<<>>) = Result(NewEngine, "ACCEPTED")
<1> DEFINE g == [n \in 0..0 |-> Result(NewEngine, "ACCEPTED")]
<1>1. <<>> \in Seq({}) /\ Len(<<>>) = 0
  BY EmptySeq
<1>2. g = [n \in 0..0 |-> g[n]] /\ g[0] = Result(NewEngine, "ACCEPTED")
  OBVIOUS
<1> HIDE DEF g
<1>3. Runs(g, <<>>)
  BY <1>1, <1>2 DEF Runs
<1> QED BY <1>1, <1>2, <1>3, ReplayRuns

(* The latest clock is one of the clocks, and none is later. *)
LEMMA LatestClockIs ==
  ASSUME NEW S, NEW l \in Seq(S), \A i \in DOMAIN l : l[i].clock \in Nat
  PROVE  /\ LatestClock(l) \in {0} \cup {l[i].clock : i \in DOMAIN l}
         /\ \A i \in DOMAIN l : l[i].clock <= LatestClock(l)
<1> DEFINE C(n) == {0} \cup {l[i].clock : i \in 1..n}
           T == {n \in Nat : n <= Len(l) => \E c \in C(n) : \A i \in 1..n : l[i].clock <= c}
<1>1. DOMAIN l = 1..Len(l) /\ Len(l) \in Nat
  BY LenProperties
<1>2. 0 \in T
  OBVIOUS
<1>3. ASSUME NEW n \in Nat, n \in T PROVE n + 1 \in T
  <2> SUFFICES ASSUME n + 1 <= Len(l)
               PROVE  \E c \in C(n + 1) : \A i \in 1..(n + 1) : l[i].clock <= c
    OBVIOUS
  <2>1. PICK c \in C(n) : \A i \in 1..n : l[i].clock <= c
    BY <1>1, <1>3
  <2>2. c \in Nat /\ l[n + 1].clock \in Nat /\ \A i \in 1..(n + 1) : l[i].clock \in Nat
    BY <1>1, <2>1
  <2>3. c \in C(n + 1) /\ l[n + 1].clock \in C(n + 1)
    BY <2>1
  <2>4. CASE l[n + 1].clock <= c
    <3>1. \A i \in 1..(n + 1) : l[i].clock <= c
      BY <2>1, <2>4
    <3> QED BY <2>3, <3>1
  <2>5. CASE c < l[n + 1].clock
    <3> HIDE DEF C
    <3>1. \A i \in 1..(n + 1) : i = n + 1 \/ i \in 1..n
      OBVIOUS
    <3>2. \A i \in 1..(n + 1) : l[i].clock <= l[n + 1].clock
      BY <2>1, <2>2, <2>5, <3>1
    <3> QED BY <2>3, <3>2
  <2> QED BY <2>2, <2>4, <2>5
<1> HIDE DEF T
<1>4. Len(l) \in T
  BY <1>1, <1>2, <1>3, SetInduction
<1>5. \E c \in {0} \cup {l[i].clock : i \in DOMAIN l} : \A i \in DOMAIN l : l[i].clock <= c
  BY <1>1, <1>4 DEF T
<1> QED BY <1>5 DEF LatestClock
===============================================================================
