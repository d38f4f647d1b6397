------------------------------ MODULE WorkersProofs ------------------------------
(***************************************************************************)
(* Theorems of what picks work up, for every set of workers, jobs, requests *)
(* and components: of IngestJobs, that what is marked as done was done and *)
(* that nothing is done twice; of Healing, that one request at a time      *)
(* recovers a component and gives its slot back.                           *)
(***************************************************************************)
EXTENDS MCWorkers, TLAPS, SequenceTheorems, FiniteSetTheorems, WellFoundedInduction

(***************************************************************************)
(* I. Ingest jobs                                                          *)
(*                                                                         *)
(* JobsInv is inductive: what is marked as done was done (Whole), and an   *)
(* item that no two workers had at once is done once (Once).  Excl, which  *)
(* needs workers that claim and jobs that do not outlast their heartbeat,  *)
(* keeps two workers off one job.                                          *)
(***************************************************************************)

------------------------------------------------------------------------------
(* The types of a job, of marks, of a claim and of a worker. *)
Job    == [state : State, attempts : Nat, due : BOOLEAN, beat : {"none", "fresh", "stale"}]
Marks  == [anchored : SUBSET Items, printed : SUBSET Fact]
Stated == [fact : Fact, item : Items, over : SUBSET Nat, open : BOOLEAN, grounded : BOOLEAN]
Place  == {"idle", "extract", "event", "fact", "store", "derive", "complete"}
Run    == [at : Place, queue : SUBSET [item : Items, tries : Int], item : 0..NItems,
           tries : Int, anchor : BOOLEAN, todo : Seq(Fact), olds : SUBSET Nat]

(* All is well typed. *)
Typed ==
  /\ job \in [Items -> Job]
  /\ anchored \subseteq Items /\ printed \subseteq Fact
  /\ unsaved \in [Processes -> Marks]
  /\ moments \in [Items -> Nat]
  /\ claims \in Seq(Stated)
  /\ run \in [Worker -> Run]
  /\ shared \subseteq Items /\ crashes \in Nat

(* Fact f stands in a grounded claim. *)
Grounds(c, f) == \E n \in DOMAIN c : c[n].fact = f /\ c[n].grounded

(* A worker busy with an item: what it has found so far is done. *)
Fits(x, c, m) ==
  /\ x.olds \subseteq DOMAIN c
  /\ x.at # "idle" => x.item \in Items /\ x.tries \in Nat
  /\ x.at \in {"extract"} /\ x.anchor => m[x.item] >= 1
  /\ x.at \in {"event", "fact", "store", "derive"} => x.todo # <<>>
  /\ x.at \in {"fact", "store", "derive"} => m[x.item] >= 1
  /\ x.at \in {"event", "fact", "store", "derive", "complete"} /\ x.item \notin Excluded =>
       \A f \in ToSet(FactsOf[x.item]) : f \in ToSet(x.todo) \/ (m[x.item] >= 1 /\ Grounds(c, f))
  /\ x.at = "complete" => x.todo = <<>>
  /\ x.at = "derive" => \E n \in DOMAIN c : /\ x.olds = {n} /\ c[n].item = x.item
                                            /\ c[n].fact = Head(x.todo)

(* A worker that does not claim knows the attempts of what it will take. *)
Counted(w, x) == w \notin Claiming => \A q \in x.queue : q.tries \in Nat

(* Whatever is marked was done. *)
Sound(a, p, u, m, c) ==
  /\ \A i \in a : m[i] >= 1
  /\ \A f \in p : Grounds(c, f)
  /\ \A P \in Processes : /\ \A i \in u[P].anchored : m[i] >= 1
                          /\ \A f \in u[P].printed : Grounds(c, f)

(* What is marked, in progress or completed was done. *)
Whole ==
  /\ Sound(anchored, printed, unsaved, moments, claims)
  /\ \A w \in Worker : Fits(run[w], claims, moments) /\ Counted(w, run[w])
  /\ CompletedIsWhole

------------------------------------------------------------------------------
(* w has item i in hand. *)
Has(w, i) == ~ At(w, "idle") /\ Mine(w) = i

(* Only one worker has ever had the item in hand at a time. *)
Single == \A i \in Items \ shared : \A v, w \in Worker : Has(v, i) /\ Has(w, i) => v = w

(* Fact f of item i was claimed: it has its mark, or its worker is about to set it. *)
Marked(i, n, f) ==
  \/ f \in printed
  \/ \E w \in Worker : /\ Has(w, i)
                       /\ \/ f \in unsaved[ProcessOf(w)].printed
                          \/ At(w, "derive") /\ run[w].olds = {n}

(* An item not shared has one event, marked or about to be. *)
EventOnce(i) ==
  /\ moments[i] <= 1
  /\ moments[i] = 1 =>
       \/ i \in anchored
       \/ \E w \in Worker : Has(w, i) /\ i \in unsaved[ProcessOf(w)].anchored
  /\ \A w \in Worker :
       Has(w, i) /\ (At(w, "event") \/ (At(w, "extract") /\ ~ run[w].anchor)) => moments[i] = 0

(* It claims no fact again but over a weaker claim. *)
ClaimOnce(i) ==
  /\ \A w \in Worker :
       Has(w, i) /\ At(w, "store") /\ run[w].olds = {} =>
         \A n \in DOMAIN claims : claims[n].item = i => claims[n].fact # This(w)
  /\ \A n \in DOMAIN claims, f \in Fact :
       claims[n].item = i /\ claims[n].fact = f => Marked(i, n, f)
  /\ \A m, n \in DOMAIN claims :
       m < n /\ claims[m].item = i /\ claims[n].item = i /\ claims[m].fact = claims[n].fact
         => claims[n].over # {}

(* The third part: until a crash, what is not shared is done once. *)
Once == Single /\ (crashes = 0 => \A i \in Items \ shared : EventOnce(i) /\ ClaimOnce(i))

(* The elements of a sequence that is not empty: its head, and the rest. *)
LEMMA HeadAndRest ==
  ASSUME NEW S, NEW s \in Seq(S), s # <<>>
  PROVE  /\ Head(s) \in S /\ Tail(s) \in Seq(S)
         /\ ToSet(s) = {Head(s)} \cup ToSet(Tail(s))
         /\ \A n \in DOMAIN Tail(s) : n + 1 \in DOMAIN s /\ Tail(s)[n] = s[n + 1]
<1>1. /\ Len(s) \in Nat /\ Len(s) > 0 /\ DOMAIN s = 1..Len(s)
      /\ Len(Tail(s)) = Len(s) - 1 /\ DOMAIN Tail(s) = 1..(Len(s) - 1)
      /\ Head(s) = s[1] /\ Head(s) \in S /\ Tail(s) \in Seq(S)
      /\ \A n \in 1..(Len(s) - 1) : Tail(s)[n] = s[n + 1]
  OBVIOUS
<1>2. ASSUME NEW x \in ToSet(s) PROVE x = Head(s) \/ x \in ToSet(Tail(s))
  <2>1. PICK n \in 1..Len(s) : x = s[n]
    BY <1>1, <1>2 DEF ToSet
  <2>2. CASE n = 1
    BY <1>1, <2>1, <2>2
  <2>3. CASE n # 1
    <3>1. n - 1 \in 1..(Len(s) - 1) /\ (n - 1) + 1 = n
      BY <1>1, <2>3
    <3>2. Tail(s)[n - 1] = x
      BY <1>1, <2>1, <3>1
    <3> QED BY <1>1, <3>1, <3>2 DEF ToSet
  <2> QED BY <2>2, <2>3
<1>3. \A n \in 1..(Len(s) - 1) : n + 1 \in 1..Len(s)
  BY <1>1
<1>4. ToSet(Tail(s)) \subseteq ToSet(s)
  BY <1>1, <1>3 DEF ToSet
<1>5. Head(s) \in ToSet(s)
  BY <1>1 DEF ToSet
<1> QED BY <1>1, <1>2, <1>3, <1>4, <1>5

(* The elements of a sequence are of its type; only <<>> has none. *)
LEMMA Elements ==
  ASSUME NEW S, NEW s \in Seq(S)
  PROVE  ToSet(s) \subseteq S /\ (s = <<>> => ToSet(s) = {}) /\ (ToSet(s) = {} => s = <<>>)
<1>1. Len(s) \in Nat /\ DOMAIN s = 1..Len(s) /\ \A n \in 1..Len(s) : s[n] \in S
  OBVIOUS
<1>2. s = <<>> <=> Len(s) = 0
  OBVIOUS
<1>3. s # <<>> => s[1] \in ToSet(s)
  BY <1>1, <1>2 DEF ToSet
<1>4. s = <<>> => ToSet(s) = {}
  BY <1>1, <1>2 DEF ToSet
<1>5. ToSet(s) \subseteq S
  BY <1>1 DEF ToSet
<1> QED BY <1>3, <1>4, <1>5

(* One more claim. *)
LEMMA OneMore ==
  ASSUME NEW S, NEW s \in Seq(S), NEW x \in S
  PROVE  /\ Append(s, x) \in Seq(S) /\ Len(s) \in Nat /\ DOMAIN s = 1..Len(s)
         /\ Len(Append(s, x)) = Len(s) + 1
         /\ DOMAIN Append(s, x) = DOMAIN s \cup {Len(s) + 1} /\ Len(s) + 1 \notin DOMAIN s
         /\ \A n \in DOMAIN s : Append(s, x)[n] = s[n]
         /\ Append(s, x)[Len(s) + 1] = x
OBVIOUS

(* A worker belongs to a process.                                           *)
LEMMA Home == ASSUME NEW w \in Worker PROVE ProcessOf(w) \in Processes /\ w \in ProcessOf(w)
BY DEF ProcessOf, Worker

(* A worker at rest is well typed. *)
LEMMA RestingIsRun == Resting \in Run
<1>1. <<>> \in Seq(Fact)
  OBVIOUS
<1> QED BY <1>1, IngestAssumption DEF Resting, Run, Place

(* The types of what a worker does, part by part. *)
LEMMA Pieces ==
  ASSUME Typed, NEW w \in Worker
  PROVE  /\ run[w] \in Run /\ run[w].queue \subseteq [item : Items, tries : Int]
         /\ run[w].todo \in Seq(Fact) /\ run[w].item \in 0..NItems /\ run[w].at \in Place
         /\ run[w].olds \subseteq Nat /\ run[w].tries \in Int /\ run[w].anchor \in BOOLEAN
         /\ Mine(w) = run[w].item /\ ProcessOf(w) \in Processes
         /\ Anchored(w) \subseteq Items /\ Printed(w) \subseteq Fact
         /\ unsaved[ProcessOf(w)] \in Marks
BY Home DEF Typed, Run, Mine, Anchored, Printed, Marks

(* A worker changes what it is doing. *)
LEMMA RunTyped ==
  ASSUME Typed, NEW w \in Worker, NEW x \in Run, run' = [run EXCEPT ![w] = x]
  PROVE  run' \in [Worker -> Run] /\ run'[w] = x /\ \A v \in Worker \ {w} : run'[v] = run[v]
BY DEF Typed

(* One job changes.                                                         *)
LEMMA JobTyped ==
  ASSUME Typed, NEW i \in Items, NEW x \in Job, job' = [job EXCEPT ![i] = x]
  PROVE  job' \in [Items -> Job] /\ job'[i] = x /\ \A j \in Items \ {i} : job'[j] = job[j]
BY DEF Typed

(* A commit moves marks that are well typed.                                *)
LEMMA CommitTyped ==
  ASSUME Typed, NEW w \in Worker, Commit(w)
  PROVE  anchored' \subseteq Items /\ printed' \subseteq Fact /\ unsaved' \in [Processes -> Marks]
BY Pieces DEF Typed, Commit, Nothing, Marks

(* A worker that leaves its item keeps its queue.                           *)
LEMMA LeaveRun ==
  ASSUME Typed, NEW w \in Worker, Leave(w)
  PROVE  \E x \in Run :
           /\ run' = [run EXCEPT ![w] = x] /\ x.at = "idle" /\ x.olds = {}
           /\ x.queue = run[w].queue
<1> DEFINE x == IF run[w].queue = {} THEN Resting
                ELSE [Resting EXCEPT !.queue = run[w].queue, !.item = Mine(w)]
<1>1. run' = [run EXCEPT ![w] = x]
  BY DEF Leave, Typed
<1>2. x \in Run /\ x.at = "idle" /\ x.olds = {} /\ x.queue = run[w].queue
  BY RestingIsRun, Pieces DEF Resting, Run
<1> QED BY <1>1, <1>2

(* The claim that is stored. *)
Claim1(w) == [fact |-> This(w), item |-> Mine(w), over |-> run[w].olds,
              open |-> TRUE, grounded |-> FALSE]

(* Closing claims changes nothing else about them.                          *)
LEMMA ClosedTyped ==
  ASSUME Typed, NEW olds
  PROVE  /\ Closed(olds) \in Seq(Stated) /\ DOMAIN Closed(olds) = DOMAIN claims
         /\ \A n \in DOMAIN claims :
              /\ Closed(olds)[n].fact = claims[n].fact /\ Closed(olds)[n].item = claims[n].item
              /\ Closed(olds)[n].over = claims[n].over
              /\ Closed(olds)[n].grounded = claims[n].grounded
<1>1. /\ claims \in Seq(Stated) /\ Len(claims) \in Nat /\ DOMAIN claims = 1..Len(claims)
      /\ \A n \in DOMAIN claims : claims[n] \in Stated
  BY DEF Typed
<1>2. \A n \in DOMAIN claims : /\ Closed(olds)[n] \in Stated
                               /\ Closed(olds)[n].fact = claims[n].fact
                               /\ Closed(olds)[n].item = claims[n].item
                               /\ Closed(olds)[n].over = claims[n].over
                               /\ Closed(olds)[n].grounded = claims[n].grounded
  BY <1>1 DEF Closed, Stated
<1>3. Closed(olds) = [n \in 1..Len(claims) |-> Closed(olds)[n]]
  BY <1>1 DEF Closed
<1> HIDE DEF Closed
<1> QED BY <1>1, <1>2, <1>3

(* What each step of a worker does to the claims and the events: nothing that *)
(* was there goes.                                                            *)
Grown(c, d) ==
  /\ DOMAIN c \subseteq DOMAIN d
  /\ \A n \in DOMAIN c : /\ d[n].fact = c[n].fact /\ d[n].item = c[n].item
                         /\ d[n].over = c[n].over /\ (c[n].grounded => d[n].grounded)
More(m, k) == \A i \in Items : m[i] \in Nat /\ k[i] \in Nat /\ m[i] <= k[i]

(* What fits a worker goes on fitting as claims and events are added.       *)
LEMMA FitsGrown ==
  ASSUME IngestAssumption, NEW x \in Run, NEW c, NEW d, NEW m, NEW k,
         Fits(x, c, m), Grown(c, d), More(m, k)
  PROVE  Fits(x, d, k)
<1>1. \A f : Grounds(c, f) => Grounds(d, f)
  BY DEF Grounds, Grown
<1>2. \A i \in Items : m[i] >= 1 => k[i] >= 1
  BY DEF More
<1>3. \A n \in DOMAIN c : n \in DOMAIN d /\ d[n].item = c[n].item /\ d[n].fact = c[n].fact
  BY DEF Grown
<1>4. x.olds \subseteq DOMAIN d
  BY DEF Fits, Grown
<1>5. x.at # "idle" => x.item \in Items
  BY DEF Fits
<1> QED BY <1>1, <1>2, <1>3, <1>4, <1>5 DEF Fits

(* Marks stay sound as claims and events are added.                         *)
LEMMA SoundGrown ==
  ASSUME NEW a \in SUBSET Items, NEW p, NEW u \in [Processes -> Marks],
         NEW c, NEW d, NEW m, NEW k, Sound(a, p, u, m, c), Grown(c, d), More(m, k)
  PROVE  Sound(a, p, u, k, d)
<1>1. \A f : Grounds(c, f) => Grounds(d, f)
  BY DEF Grounds, Grown
<1>2. \A i \in Items : m[i] >= 1 => k[i] >= 1
  BY DEF More
<1>3. \A P \in Processes : u[P].anchored \subseteq Items
  BY DEF Marks
<1> QED BY <1>1, <1>2, <1>3 DEF Sound

(* What the connection of a worker reads is sound.                          *)
LEMMA SoundHere ==
  ASSUME Typed, Whole, NEW w \in Worker
  PROVE  /\ \A i \in Anchored(w) : moments[i] >= 1
         /\ \A f \in Printed(w) : Grounds(claims, f)
BY Home DEF Whole, Sound, Anchored, Printed

(* A commit leaves the marks sound.                                         *)
LEMMA CommitSound ==
  ASSUME Typed, Whole, NEW w \in Worker, Commit(w)
  PROVE  Sound(anchored', printed', unsaved', moments, claims)
<1>1. unsaved' \in [Processes -> Marks] /\ anchored' = Anchored(w) /\ printed' = Printed(w)
  BY CommitTyped DEF Commit
<1>2. \A P \in Processes : unsaved'[P] = unsaved[P] \/ unsaved'[P] = Nothing
  BY DEF Commit, Typed
<1> QED BY <1>1, <1>2, SoundHere DEF Whole, Sound, Nothing

(* Every fact of item i is done. *)
Finished(i) ==
  i \notin Excluded => \A f \in ToSet(FactsOf[i]) : moments[i] >= 1 /\ Grounds(claims, f)

(* The step of a worker keeps the invariant, if what it left does. *)
LEMMA WorkerStep ==
  ASSUME IngestAssumption, Typed, Typed', Whole, NEW w \in Worker,
         \A v \in Worker \ {w} : run'[v] = run[v],
         Grown(claims, claims'), More(moments, moments'),
         Sound(anchored', printed', unsaved', moments', claims'),
         Fits(run'[w], claims', moments'), Counted(w, run'[w]),
         \A i \in Items : job'[i].state = "completed" => job[i].state = "completed" \/ Finished(i)
  PROVE  Whole'
<1>1. \A v \in Worker : Fits(run'[v], claims', moments')
  BY FitsGrown DEF Whole, Typed
<1>2. \A v \in Worker : Counted(v, run'[v])
  BY DEF Whole
<1>3. ASSUME NEW i \in Items \ Excluded, job'[i].state = "completed", NEW f \in ToSet(FactsOf[i])
      PROVE  moments'[i] >= 1 /\ Grounds(claims', f)
  <2>1. moments[i] >= 1 /\ Grounds(claims, f)
    BY <1>3 DEF Whole, CompletedIsWhole, Finished, Grounds
  <2>2. Grounds(claims', f)
    BY <2>1 DEF Grounds, Grown
  <2>3. moments'[i] >= 1
    BY <2>1 DEF More
  <2> QED BY <2>2, <2>3
<1>4. CompletedIsWhole'
  BY <1>3 DEF CompletedIsWhole, Grounds
<1> QED BY <1>1, <1>2, <1>4 DEF Whole

(* Nothing that stays the same goes.                                        *)
LEMMA SameGrown ==
  ASSUME Typed PROVE Grown(claims, claims) /\ More(moments, moments)
BY DEF Typed, Grown, More

(* Two records of a worker that differ in its queue alone. *)
SameWork(x, y) ==
  /\ x.at = y.at /\ x.item = y.item /\ x.tries = y.tries /\ x.anchor = y.anchor
  /\ x.todo = y.todo /\ x.olds = y.olds

(* Scan keeps types and soundness; so do the other steps, one by one.       *)
LEMMA KeepsOne ==
  ASSUME NEW w \in Worker
  PROVE  IngestAssumption /\ Typed /\ Whole /\ Scan(w) => Typed' /\ Whole'
<1> SUFFICES ASSUME IngestAssumption, Typed, Whole, Scan(w) PROVE Typed' /\ Whole'
  OBVIOUS
<1> DEFINE q == {[item |-> i, tries |-> job[i].attempts] : i \in {j \in Items : Ready(j)}}
           x == [run[w] EXCEPT !.queue = q]
<1>1. q \subseteq [item : Items, tries : Int] /\ \A r \in q : r.tries \in Nat
  BY DEF Typed, Job
<1>2. run' = [run EXCEPT ![w] = x]
  BY DEF Scan, Typed
<1> HIDE DEF q
<1>3. x \in Run /\ x.queue = q /\ SameWork(x, run[w])
  <2>1. PICK r \in Run : r = run[w]
    BY Pieces
  <2>2. [r EXCEPT !.queue = q] \in Run /\ [r EXCEPT !.queue = q].queue = q
    BY <1>1 DEF Run
  <2>3. SameWork([r EXCEPT !.queue = q], r)
    BY DEF Run, SameWork
  <2> QED BY <2>1, <2>2, <2>3
<1> HIDE DEF x
<1>4. run' \in [Worker -> Run] /\ run'[w] = x /\ \A v \in Worker \ {w} : run'[v] = run[v]
  BY <1>2, <1>3, RunTyped
<1>5. Typed'
  BY <1>4 DEF Scan, Typed, counters
<1>6. Fits(x, claims, moments) /\ Counted(w, x)
  BY <1>1, <1>3 DEF Whole, Fits, Counted, SameWork
<1> QED BY <1>4, <1>5, <1>6, WorkerStep, SameGrown DEF Scan, Whole, Sound

(* OutOfTime.                                                               *)
LEMMA KeepsOut ==
  ASSUME NEW w \in Worker
  PROVE  IngestAssumption /\ Typed /\ Whole /\ OutOfTime(w) => Typed' /\ Whole'
<1> SUFFICES ASSUME IngestAssumption, Typed, Whole, OutOfTime(w) PROVE Typed' /\ Whole'
  OBVIOUS
<1>4. run' \in [Worker -> Run] /\ run'[w] = Resting /\ \A v \in Worker \ {w} : run'[v] = run[v]
  BY RestingIsRun, RunTyped DEF OutOfTime
<1>5. Typed'
  BY <1>4 DEF OutOfTime, Typed, counters
<1>6. Fits(Resting, claims, moments) /\ Counted(w, Resting)
  BY DEF Resting, Fits, Counted
<1> QED BY <1>4, <1>5, <1>6, WorkerStep, SameGrown DEF OutOfTime, Whole

(* ClaimBatch.                                                              *)
LEMMA KeepsClaim ==
  ASSUME NEW w \in Worker
  PROVE  IngestAssumption /\ Typed /\ Whole /\ ClaimBatch(w) => Typed' /\ Whole'
<1> SUFFICES ASSUME IngestAssumption, Typed, Whole, ClaimBatch(w) PROVE Typed' /\ Whole'
  OBVIOUS
<1> DEFINE got == {i \in Items : Ready(i)}
           q == {[item |-> i, tries |-> -1] : i \in got}
           x == [run[w] EXCEPT !.queue = q]
<1>1. q \subseteq [item : Items, tries : Int]
  OBVIOUS
<1>2. run' = [run EXCEPT ![w] = x] /\ w \in Claiming
  BY DEF ClaimBatch, Typed
<1>7. /\ job' \in [Items -> Job]
      /\ \A i \in Items : job'[i].state = "completed" => job[i].state = "completed"
  <2>1. job' = [i \in Items |-> IF i \in got THEN [job[i] EXCEPT !.state = "running", !.beat = "fresh"]
                               ELSE job[i]]
    BY DEF ClaimBatch
  <2> HIDE DEF got
  <2>2. ASSUME NEW i \in Items
        PROVE job'[i] \in Job /\ (job'[i].state = "completed" => job[i].state = "completed")
    <3>1. job[i] \in Job
      BY DEF Typed
    <3>2. [job[i] EXCEPT !.state = "running", !.beat = "fresh"] \in Job
      BY <3>1 DEF Job, State
    <3> QED BY <2>1, <3>1, <3>2 DEF Job
  <2> QED BY <2>1, <2>2
<1> HIDE DEF q
<1>3. x \in Run /\ x.queue = q /\ SameWork(x, run[w])
  <2>1. PICK r \in Run : r = run[w]
    BY Pieces
  <2>2. [r EXCEPT !.queue = q] \in Run /\ [r EXCEPT !.queue = q].queue = q
    BY <1>1 DEF Run
  <2>3. SameWork([r EXCEPT !.queue = q], r)
    BY DEF Run, SameWork
  <2> QED BY <2>1, <2>2, <2>3
<1> HIDE DEF x
<1>4. run' \in [Worker -> Run] /\ run'[w] = x /\ \A v \in Worker \ {w} : run'[v] = run[v]
  BY <1>2, <1>3, RunTyped
<1>8. Commit(w) /\ moments' = moments /\ claims' = claims
  BY DEF ClaimBatch
<1>5. Typed'
  BY <1>4, <1>7, <1>8, CommitTyped DEF ClaimBatch, Typed, counters
<1>6. Fits(x, claims, moments) /\ Counted(w, x)
  BY <1>2, <1>3 DEF Whole, Fits, Counted, SameWork
<1> QED BY <1>4, <1>5, <1>6, <1>7, <1>8, WorkerStep, SameGrown, CommitSound

(* The two fields of a job that starts, set one after the other.            *)
LEMMA StartedJob ==
  ASSUME NEW f \in [Items -> Job], NEW i \in Items
  PROVE  [f EXCEPT ![i].state = "running", ![i].beat = "fresh"]
           = [f EXCEPT ![i] = [f[i] EXCEPT !.state = "running", !.beat = "fresh"]]
OBVIOUS

(* Start.                                                                   *)
LEMMA KeepsStart ==
  ASSUME NEW w \in Worker
  PROVE  IngestAssumption /\ Typed /\ Whole /\ Start(w) => Typed' /\ Whole'
<1> SUFFICES ASSUME IngestAssumption, Typed, Whole, Start(w) PROVE Typed' /\ Whole'
  OBVIOUS
<1>1. PICK q \in run[w].queue :
        /\ job' = [job EXCEPT ![q.item].state = "running", ![q.item].beat = "fresh"]
        /\ run' = [run EXCEPT ![w] =
             [Resting EXCEPT !.at = "extract", !.queue = run[w].queue \ {q}, !.item = q.item,
                             !.tries = IF w \in Claiming THEN job[q.item].attempts ELSE q.tries,
                             !.anchor = q.item \in Anchored(w)]]
        /\ shared' = shared \cup {i \in {q.item} : InHand(i)}
  BY DEF Start
<1> DEFINE b == q.item \in Anchored(w)
           t == IF w \in Claiming THEN job[q.item].attempts ELSE q.tries
           x == [Resting EXCEPT !.at = "extract", !.queue = run[w].queue \ {q}, !.item = q.item,
                                !.tries = t, !.anchor = b]
           y == [job[q.item] EXCEPT !.state = "running", !.beat = "fresh"]
<1>2. q.item \in Items /\ q.tries \in Int /\ q \in [item : Items, tries : Int]
  BY Pieces
<1>3. t \in Nat
  BY <1>2 DEF Typed, Job, Whole, Counted
<1>4. /\ x \in Run /\ x.at = "extract" /\ x.item = q.item /\ x.tries = t /\ x.olds = {}
      /\ x.queue = run[w].queue \ {q} /\ x.anchor = b
  <2>1. Items \subseteq 0..NItems
    BY IngestAssumption DEF Items
  <2>2. run[w].queue \ {q} \subseteq [item : Items, tries : Int]
    BY Pieces
  <2>3. b \in BOOLEAN /\ "extract" \in Place
    BY DEF Place
  <2>4. Resting.olds = {}
    BY DEF Resting
  <2> HIDE DEF t, b
  <2>5. q.item \in 0..NItems /\ t \in Int
    <3>1. q.item \in 0..NItems
      BY <1>2, <2>1
    <3>2. t \in Int
      BY <1>3
    <3> QED BY <3>1, <3>2
  <2> DEFINE r == Resting
             Q == SUBSET [item : Items, tries : Int]
  <2>6. r \in [at : Place, queue : Q, item : 0..NItems, tries : Int, anchor : BOOLEAN,
               todo : Seq(Fact), olds : SUBSET Nat]
    BY RestingIsRun DEF Run
  <2>7. run[w].queue \ {q} \in Q
    BY <2>2
  <2> HIDE DEF r, Q
  <2>8. x = [r EXCEPT !.at = "extract", !.queue = run[w].queue \ {q}, !.item = q.item,
                      !.tries = t, !.anchor = b]
    BY DEF r
  <2> HIDE DEF x
  <2>9. x \in [at : Place, queue : Q, item : 0..NItems, tries : Int, anchor : BOOLEAN,
               todo : Seq(Fact), olds : SUBSET Nat]
    BY <2>3, <2>5, <2>6, <2>7, <2>8
  <2>10. /\ x.at = "extract" /\ x.item = q.item /\ x.tries = t /\ x.olds = r.olds
         /\ x.queue = run[w].queue \ {q} /\ x.anchor = b
    BY <2>6, <2>8
  <2> QED BY <2>4, <2>9, <2>10 DEF Run, r, Q
<1>5. y \in Job /\ job' = [job EXCEPT ![q.item] = y] /\ y.state = "running"
  <2>1. job[q.item] \in Job
    BY <1>2 DEF Typed
  <2>2. y \in Job /\ y.state = "running"
    BY <2>1 DEF Job, State
  <2>3. job \in [Items -> Job]
    BY DEF Typed
  <2> HIDE DEF y
  <2> QED BY <1>1, <1>2, <2>2, <2>3, StartedJob DEF y
<1>6. job' \in [Items -> Job] /\ job'[q.item] = y /\ \A j \in Items \ {q.item} : job'[j] = job[j]
  <2> HIDE DEF y
  <2> QED BY <1>2, <1>5, JobTyped
<1> HIDE DEF x, y, t
<1>7. run' \in [Worker -> Run] /\ run'[w] = x /\ \A v \in Worker \ {w} : run'[v] = run[v]
  <2>1. run' = [run EXCEPT ![w] = x]
    BY <1>1 DEF x, t
  <2> QED BY <1>4, <2>1, RunTyped
<1>8. Commit(w) /\ moments' = moments /\ claims' = claims
  BY DEF Start
<1>9. Typed'
  <2>1. anchored' \subseteq Items /\ printed' \subseteq Fact /\ unsaved' \in [Processes -> Marks]
    BY <1>8, CommitTyped
  <2>2. shared' \subseteq Items /\ crashes' = crashes
    BY <1>1, <1>2 DEF Typed, Start
  <2> QED BY <1>6, <1>7, <1>8, <2>1, <2>2 DEF Typed
<1>10. Fits(x, claims, moments)
  <2>1. x.anchor => moments[x.item] >= 1
    BY <1>2, <1>4, SoundHere
  <2> QED BY <1>2, <1>3, <1>4, <2>1 DEF Fits
<1>11. Counted(w, x)
  BY <1>4 DEF Counted, Whole
<1> QED BY <1>2, <1>5, <1>6, <1>7, <1>8, <1>9, <1>10, <1>11, WorkerStep, SameGrown, CommitSound

(* Extract.                                                                 *)
LEMMA KeepsExtract ==
  ASSUME NEW w \in Worker
  PROVE  IngestAssumption /\ Typed /\ Whole /\ Extract(w) => Typed' /\ Whole'
<1> SUFFICES ASSUME IngestAssumption, Typed, Whole, Extract(w) PROVE Typed' /\ Whole'
  OBVIOUS
<1> DEFINE facts == IF Mine(w) \in Excluded THEN <<>> ELSE FactsOf[Mine(w)]
           a == IF facts = <<>> THEN "complete" ELSE IF run[w].anchor THEN "fact" ELSE "event"
           x == [run[w] EXCEPT !.todo = facts, !.at = a]
<1>1. run[w].at = "extract" /\ Fits(run[w], claims, moments) /\ Mine(w) \in Items
  BY DEF Extract, At, Whole, Fits, Mine
<1>2. facts \in Seq(Fact)
  BY <1>1, IngestAssumption
<1>3. run' = [run EXCEPT ![w] = x]
  BY DEF Extract, Typed
<1>4. /\ x \in Run /\ x.at = a /\ x.todo = facts /\ x.item = Mine(w) /\ x.olds = run[w].olds
      /\ x.tries = run[w].tries /\ x.queue = run[w].queue
  <2>1. a \in Place
    BY DEF Place
  <2>2. run[w] \in Run
    BY Pieces
  <2> HIDE DEF a, facts
  <2> QED BY <1>2, <2>1, <2>2 DEF Run, Mine
<1>5. Mine(w) \notin Excluded => facts = FactsOf[Mine(w)]
  OBVIOUS
<1>6. /\ facts = <<>> => a = "complete"
      /\ facts # <<>> => a \in {"fact", "event"} /\ (a = "fact" => run[w].anchor)
  OBVIOUS
<1> HIDE DEF x, facts, a
<1>7. run' \in [Worker -> Run] /\ run'[w] = x /\ \A v \in Worker \ {w} : run'[v] = run[v]
  BY <1>3, <1>4, RunTyped
<1>8. Typed'
  BY <1>7 DEF Extract, Typed, counters
<1>9. Fits(x, claims, moments)
  BY <1>1, <1>4, <1>5, <1>6, Pieces DEF Fits
<1>11. Counted(w, x)
  BY <1>4 DEF Counted, Whole
<1> QED BY <1>7, <1>8, <1>9, <1>11, WorkerStep, SameGrown DEF Extract, Whole

(* RecordEvent.                                                             *)
LEMMA KeepsEvent ==
  ASSUME NEW w \in Worker
  PROVE  IngestAssumption /\ Typed /\ Whole /\ RecordEvent(w) => Typed' /\ Whole'
<1> SUFFICES ASSUME IngestAssumption, Typed, Whole, RecordEvent(w) PROVE Typed' /\ Whole'
  OBVIOUS
<1> DEFINE x == [run[w] EXCEPT !.at = "fact"]
           i == Mine(w)
           P == ProcessOf(w)
           u == [anchored |-> {i}, printed |-> {}]
<1>1. run[w].at = "event" /\ Fits(run[w], claims, moments) /\ i \in Items /\ i = run[w].item
  BY DEF RecordEvent, At, Whole, Fits, Mine
<1>2. run' = [run EXCEPT ![w] = x]
  BY DEF RecordEvent, Go, Typed
<1>3. /\ x \in Run /\ x.at = "fact" /\ x.todo = run[w].todo /\ x.item = i
      /\ x.olds = run[w].olds /\ x.tries = run[w].tries /\ x.queue = run[w].queue
  <2>1. PICK r \in Run : r = run[w]
    BY Pieces
  <2>2. "fact" \in Place
    BY DEF Place
  <2>3. [r EXCEPT !.at = "fact"] \in Run
    BY <2>2 DEF Run
  <2>4. /\ [r EXCEPT !.at = "fact"].at = "fact" /\ [r EXCEPT !.at = "fact"].todo = r.todo
        /\ [r EXCEPT !.at = "fact"].item = r.item /\ [r EXCEPT !.at = "fact"].olds = r.olds
        /\ [r EXCEPT !.at = "fact"].tries = r.tries /\ [r EXCEPT !.at = "fact"].queue = r.queue
    BY DEF Run
  <2> QED BY <1>1, <2>1, <2>3, <2>4
<1> HIDE DEF x
<1>4. run' \in [Worker -> Run] /\ run'[w] = x /\ \A v \in Worker \ {w} : run'[v] = run[v]
  BY <1>2, <1>3, RunTyped
<1>5. /\ moments' \in [Items -> Nat] /\ moments'[i] = moments[i] + 1
      /\ \A j \in Items \ {i} : moments'[j] = moments[j]
  BY <1>1 DEF RecordEvent, Typed
<1>6. claims' = claims /\ job' = job /\ shared' = shared /\ crashes' = crashes
  BY DEF RecordEvent, counters
<1>7. unsaved' \in [Processes -> Marks] /\ unsaved'[P] = u /\ \A Q \in Processes \ {P} : unsaved'[Q] = unsaved[Q]
  <2>1. u \in Marks /\ u = [Nothing EXCEPT !.anchored = {i}]
    <3>1. {i} \in SUBSET Items /\ {} \in SUBSET Fact
      BY <1>1
    <3> DEFINE e == {}
               s == {i}
    <3>2. Nothing = [anchored |-> e, printed |-> e]
      BY DEF Nothing
    <3>3. u = [anchored |-> s, printed |-> e] /\ e \in SUBSET Fact /\ s \in SUBSET Items
      BY <3>1
    <3>4. [Nothing EXCEPT !.anchored = {i}] = [Nothing EXCEPT !.anchored = s]
      OBVIOUS
    <3> HIDE DEF e, s, u
    <3>5. u = [Nothing EXCEPT !.anchored = s]
      BY <3>2, <3>3
    <3>6. u \in Marks
      BY <3>3 DEF Marks
    <3> QED BY <3>4, <3>5, <3>6
  <2>2. P \in Processes
    BY Home
  <2> HIDE DEF u, P, i
  <2> QED BY <2>1, <2>2 DEF RecordEvent, Typed, P, i
<1>8. anchored' = Anchored(w) /\ printed' = Printed(w)
  BY DEF RecordEvent
<1>9. Typed'
  BY <1>4, <1>5, <1>6, <1>7, <1>8, Pieces DEF Typed
<1>10. Grown(claims, claims') /\ More(moments, moments') /\ moments'[i] >= 1
  <2>1. moments \in [Items -> Nat] /\ \A j \in Items : moments[j] \in Nat /\ moments'[j] \in Nat
    BY <1>5 DEF Typed
  <2>2. \A j \in Items : moments[j] <= moments'[j]
    BY <1>1, <1>5, <2>1
  <2>3. moments'[i] >= 1
    BY <1>1, <1>5, <2>1
  <2> QED BY <1>6, <2>1, <2>2, <2>3, SameGrown DEF More
<1>11. Sound(anchored', printed', unsaved', moments', claims')
  <2>1. \A j \in Anchored(w) : moments'[j] >= 1
    BY <1>10, SoundHere, Pieces DEF More
  <2>2. ASSUME NEW Q \in Processes
        PROVE  /\ \A j \in unsaved'[Q].anchored : moments'[j] >= 1
               /\ \A f \in unsaved'[Q].printed : Grounds(claims, f)
    <3>1. CASE Q = P
      BY <1>7, <1>10, <3>1
    <3>2. CASE Q # P
      BY <1>7, <1>10, <3>2 DEF Whole, Sound, More, Typed, Marks
    <3> QED BY <3>1, <3>2
  <2> QED BY <1>6, <1>8, <2>1, <2>2, SoundHere DEF Sound
<1>12. Fits(x, claims, moments')
  <2>1. Fits(run[w], claims, moments')
    BY <1>1, <1>10, FitsGrown, SameGrown, Pieces
  <2> QED BY <1>1, <1>3, <1>10, <2>1 DEF Fits
<1>13. Counted(w, x)
  BY <1>3 DEF Counted, Whole
<1> QED BY <1>4, <1>6, <1>9, <1>10, <1>11, <1>12, <1>13, WorkerStep

(* Reinforce: the fact is printed, so it is grounded.                       *)
LEMMA KeepsReinforce ==
  ASSUME NEW w \in Worker
  PROVE  IngestAssumption /\ Typed /\ Whole /\ Reinforce(w) => Typed' /\ Whole'
<1> SUFFICES ASSUME IngestAssumption, Typed, Whole, Reinforce(w) PROVE Typed' /\ Whole'
  OBVIOUS
<1> DEFINE a == AfterFact(w)
           t == Rest(w)
           x == [run[w] EXCEPT !.todo = t, !.at = a]
<1>1. run[w].at = "fact" /\ Fits(run[w], claims, moments)
  BY DEF Reinforce, At, Whole
<1>2. run[w].todo # <<>> /\ run[w].item \in Items
  BY <1>1 DEF Fits
<1>3. /\ t \in Seq(Fact) /\ ToSet(run[w].todo) = {This(w)} \cup ToSet(t)
      /\ a \in Place /\ (a = "fact" => t # <<>>) /\ (a = "complete" => t = <<>>)
      /\ a \in {"fact", "complete"}
  BY <1>2, HeadAndRest, Pieces DEF Rest, This, AfterFact, Place
<1>4. run' = [run EXCEPT ![w] = x]
  BY DEF Reinforce, Typed
<1> HIDE DEF a, t
<1>5. /\ x \in Run /\ x.at = a /\ x.todo = t /\ x.item = run[w].item
      /\ x.olds = run[w].olds /\ x.tries = run[w].tries /\ x.queue = run[w].queue
  <2>1. run[w] \in Run
    BY Pieces
  <2> QED BY <1>3, <2>1 DEF Run
<1> HIDE DEF x
<1>6. run' \in [Worker -> Run] /\ run'[w] = x /\ \A v \in Worker \ {w} : run'[v] = run[v]
  BY <1>4, <1>5, RunTyped
<1>7. Typed'
  BY <1>6 DEF Reinforce, Typed, counters
<1>8. Grounds(claims, This(w))
  BY SoundHere DEF Reinforce
<1>9. Fits(x, claims, moments)
  <2>1. moments[run[w].item] >= 1
    BY <1>1 DEF Fits
  <2> QED BY <1>1, <1>2, <1>3, <1>5, <1>8, <2>1 DEF Fits
<1>11. Counted(w, x)
  BY <1>5 DEF Counted, Whole
<1> QED BY <1>6, <1>7, <1>9, <1>11, WorkerStep, SameGrown DEF Reinforce, Whole

(* Decide.                                                                  *)
LEMMA KeepsDecide ==
  ASSUME NEW w \in Worker
  PROVE  IngestAssumption /\ Typed /\ Whole /\ Decide(w) => Typed' /\ Whole'
<1> SUFFICES ASSUME IngestAssumption, Typed, Whole, Decide(w) PROVE Typed' /\ Whole'
  OBVIOUS
<1> DEFINE o == OpenWeaker(This(w))
           x == [run[w] EXCEPT !.olds = o, !.at = "store"]
<1>1. run[w].at = "fact" /\ Fits(run[w], claims, moments)
  BY DEF Decide, At, Whole
<1>2. o \subseteq DOMAIN claims /\ DOMAIN claims \subseteq Nat
  <2>1. claims \in Seq(Stated)
    BY DEF Typed
  <2> QED BY <2>1 DEF OpenWeaker
<1>4. run' = [run EXCEPT ![w] = x]
  BY DEF Decide, Typed
<1> HIDE DEF o
<1>5. /\ x \in Run /\ x.at = "store" /\ x.todo = run[w].todo /\ x.item = run[w].item
      /\ x.olds = o /\ x.tries = run[w].tries /\ x.queue = run[w].queue
  <2>1. o \subseteq Nat /\ "store" \in Place
    BY <1>2 DEF Place
  <2>2. run[w] \in Run
    BY Pieces
  <2> QED BY <2>1, <2>2 DEF Run
<1> HIDE DEF x
<1>6. run' \in [Worker -> Run] /\ run'[w] = x /\ \A v \in Worker \ {w} : run'[v] = run[v]
  BY <1>4, <1>5, RunTyped
<1>7. Typed'
  BY <1>6 DEF Decide, Typed, counters
<1>9. Fits(x, claims, moments)
  BY <1>1, <1>2, <1>5 DEF Fits
<1>11. Counted(w, x)
  BY <1>5 DEF Counted, Whole
<1> QED BY <1>6, <1>7, <1>9, <1>11, WorkerStep, SameGrown DEF Decide, Whole

(* Store adds a claim that no event grounds yet.                            *)
LEMMA KeepsStore ==
  ASSUME NEW w \in Worker
  PROVE  IngestAssumption /\ Typed /\ Whole /\ Store(w) => Typed' /\ Whole'
<1> SUFFICES ASSUME IngestAssumption, Typed, Whole, Store(w) PROVE Typed' /\ Whole'
  OBVIOUS
<1> DEFINE c == Claim1(w)
           d == Closed(run[w].olds)
           k == Len(claims) + 1
           o == {k}
           x == [run[w] EXCEPT !.at = "derive", !.olds = o]
<1>1. run[w].at = "store" /\ Fits(run[w], claims, moments)
  BY DEF Store, At, Whole
<1>2. run[w].todo # <<>> /\ run[w].item \in Items /\ This(w) \in Fact /\ This(w) = Head(run[w].todo)
  BY <1>1, HeadAndRest, Pieces DEF Fits, This
<1>3. c \in Stated /\ c.item = run[w].item /\ c.fact = This(w)
  BY <1>2, Pieces DEF Claim1, Stated, Mine
<1>4. /\ d \in Seq(Stated) /\ DOMAIN d = DOMAIN claims /\ Len(d) = Len(claims)
      /\ \A n \in DOMAIN claims : /\ d[n].fact = claims[n].fact /\ d[n].item = claims[n].item
                                  /\ d[n].over = claims[n].over
                                  /\ d[n].grounded = claims[n].grounded
  <2>1. d \in Seq(Stated) /\ DOMAIN d = DOMAIN claims
    BY ClosedTyped
  <2>2. claims \in Seq(Stated)
    BY DEF Typed
  <2>3. Len(d) = Len(claims)
    <3> HIDE DEF d
    <3> QED BY <2>1, <2>2
  <2> QED BY <2>1, <2>3, ClosedTyped
<1>5. claims' = Append(d, c)
  BY DEF Store, Claim1
<1> HIDE DEF c, d
<1>6. /\ claims' \in Seq(Stated) /\ DOMAIN claims' = DOMAIN claims \cup {k}
      /\ k \in Nat /\ k \notin DOMAIN claims /\ claims'[k] = c
      /\ \A n \in DOMAIN claims : claims'[n] = d[n]
  BY <1>3, <1>4, <1>5, OneMore
<1>7. run' = [run EXCEPT ![w] = x]
  BY DEF Store, Typed
<1> HIDE DEF k
<1>8. /\ x \in Run /\ x.at = "derive" /\ x.todo = run[w].todo /\ x.item = run[w].item
      /\ x.olds = o /\ x.tries = run[w].tries /\ x.queue = run[w].queue
  <2>1. o \subseteq Nat /\ "derive" \in Place
    BY <1>6 DEF Place
  <2>2. run[w] \in Run
    BY Pieces
  <2> HIDE DEF o
  <2> QED BY <2>1, <2>2 DEF Run
<1> HIDE DEF x
<1>9. run' \in [Worker -> Run] /\ run'[w] = x /\ \A v \in Worker \ {w} : run'[v] = run[v]
  BY <1>7, <1>8, RunTyped
<1>10. Commit(w) /\ moments' = moments /\ job' = job /\ shared' = shared /\ crashes' = crashes
  BY DEF Store, counters
<1>11. Typed'
  BY <1>6, <1>9, <1>10, CommitTyped DEF Typed
<1>12. Grown(claims, claims') /\ More(moments, moments)
  BY <1>4, <1>6, SameGrown DEF Grown
<1>13. Sound(anchored', printed', unsaved', moments', claims')
  <2>1. anchored' \in SUBSET Items /\ unsaved' \in [Processes -> Marks]
    BY <1>10, CommitTyped
  <2> QED BY <1>10, <1>12, <2>1, CommitSound, SoundGrown
<1>14. Fits(x, claims', moments)
  <2>1. Fits(run[w], claims', moments)
    BY <1>1, <1>12, FitsGrown, Pieces
  <2>2. x.olds = {k} /\ k \in DOMAIN claims' /\ claims'[k].item = x.item /\ claims'[k].fact = Head(x.todo)
    BY <1>2, <1>3, <1>6, <1>8
  <2> QED BY <1>1, <1>8, <2>1, <2>2 DEF Fits
<1>15. Counted(w, x)
  BY <1>8 DEF Counted, Whole
<1> QED BY <1>9, <1>10, <1>11, <1>12, <1>13, <1>14, <1>15, WorkerStep

(* Derive grounds it, then prints its fact.                                 *)
LEMMA KeepsDerive ==
  ASSUME NEW w \in Worker
  PROVE  IngestAssumption /\ Typed /\ Whole /\ Derive(w) => Typed' /\ Whole'
<1> SUFFICES ASSUME IngestAssumption, Typed, Whole, Derive(w) PROVE Typed' /\ Whole'
  OBVIOUS
<1> DEFINE a == AfterFact(w)
           t == Rest(w)
           e == {}
           f == This(w)
           x == [run[w] EXCEPT !.todo = t, !.at = a, !.olds = e]
           P == ProcessOf(w)
           s == {f}
           u == [Nothing EXCEPT !.printed = s]
<1>1. run[w].at = "derive" /\ Fits(run[w], claims, moments)
  BY DEF Derive, At, Whole
<1>2. run[w].todo # <<>> /\ run[w].item \in Items /\ moments[run[w].item] >= 1
  BY <1>1 DEF Fits
<1>3. /\ t \in Seq(Fact) /\ ToSet(run[w].todo) = {f} \cup ToSet(t) /\ f \in Fact
      /\ a \in Place /\ (a = "fact" => t # <<>>) /\ (a = "complete" => t = <<>>)
      /\ a \in {"fact", "complete"} /\ f = Head(run[w].todo)
  BY <1>2, HeadAndRest, Pieces DEF Rest, This, AfterFact, Place
<1>4. run' = [run EXCEPT ![w] = x]
  BY DEF Derive, Typed
<1>5. PICK k \in DOMAIN claims : run[w].olds = {k} /\ claims[k].fact = f
  BY <1>1, <1>3 DEF Fits
<1>6. /\ claims' = [n \in DOMAIN claims |-> IF n \in run[w].olds THEN [claims[n] EXCEPT !.grounded = TRUE]
                                           ELSE claims[n]]
      /\ unsaved' = [unsaved EXCEPT ![P] = u] /\ anchored' = Anchored(w) /\ printed' = Printed(w)
      /\ moments' = moments /\ job' = job /\ shared' = shared /\ crashes' = crashes
  BY DEF Derive, counters
<1>7. u \in Marks /\ u.anchored = {} /\ u.printed = s
  <2>1. Nothing = [anchored |-> e, printed |-> e]
    BY DEF Nothing
  <2>2. e \in SUBSET Items /\ e \in SUBSET Fact /\ s \in SUBSET Fact
    BY <1>3
  <2> HIDE DEF e, s
  <2>3. u = [anchored |-> e, printed |-> s]
    BY <2>1
  <2> HIDE DEF u
  <2> QED BY <2>2, <2>3 DEF Marks, e
<1> HIDE DEF a, t, f, u
<1>8. /\ x \in Run /\ x.at = a /\ x.todo = t /\ x.item = run[w].item
      /\ x.olds = {} /\ x.tries = run[w].tries /\ x.queue = run[w].queue
  <2>1. run[w] \in Run /\ e \in SUBSET Nat
    BY Pieces
  <2> HIDE DEF e
  <2>2. /\ x \in Run /\ x.at = a /\ x.todo = t /\ x.item = run[w].item
        /\ x.olds = e /\ x.tries = run[w].tries /\ x.queue = run[w].queue
    BY <1>3, <2>1 DEF Run
  <2> QED BY <2>2 DEF e
<1> HIDE DEF x
<1>9. run' \in [Worker -> Run] /\ run'[w] = x /\ \A v \in Worker \ {w} : run'[v] = run[v]
  BY <1>4, <1>8, RunTyped
<1>10. /\ claims' \in Seq(Stated) /\ DOMAIN claims' = DOMAIN claims
       /\ \A n \in DOMAIN claims : /\ claims'[n].fact = claims[n].fact
                                   /\ claims'[n].item = claims[n].item
                                   /\ claims'[n].over = claims[n].over
                                   /\ claims[n].grounded => claims'[n].grounded
       /\ claims'[k].grounded
  <2>1. /\ claims \in Seq(Stated) /\ Len(claims) \in Nat /\ DOMAIN claims = 1..Len(claims)
        /\ \A n \in DOMAIN claims : claims[n] \in Stated
    BY DEF Typed
  <2>2. ASSUME NEW n \in DOMAIN claims
        PROVE  /\ claims'[n] \in Stated /\ claims'[n].fact = claims[n].fact
               /\ claims'[n].item = claims[n].item /\ claims'[n].over = claims[n].over
               /\ (claims[n].grounded \/ n = k => claims'[n].grounded)
    <3>1. claims[n] \in Stated
      BY <2>1
    <3>2. claims'[n] = IF n = k THEN [claims[n] EXCEPT !.grounded = TRUE] ELSE claims[n]
      BY <1>5, <1>6
    <3>3. CASE n = k
      <4>1. claims'[n] = [claims[n] EXCEPT !.grounded = TRUE]
        BY <3>2, <3>3
      <4> DEFINE r == claims[n]
                 O == SUBSET Nat
      <4>2. r \in [fact : Fact, item : Items, over : O, open : BOOLEAN, grounded : BOOLEAN]
        BY <3>1 DEF Stated
      <4> DEFINE b == TRUE
      <4>3. claims'[n] = [r EXCEPT !.grounded = b] /\ b \in BOOLEAN
        BY <4>1
      <4> HIDE DEF r, O, b
      <4>4. claims'[n].grounded = b
        BY <4>2, <4>3
      <4>5. claims'[n].fact = r.fact /\ claims'[n].item = r.item /\ claims'[n].over = r.over
        BY <4>2, <4>3
      <4>6. claims'[n] \in [fact : Fact, item : Items, over : O, open : BOOLEAN, grounded : BOOLEAN]
        BY <4>2, <4>3
      <4> QED BY <4>4, <4>5, <4>6 DEF r, O, b, Stated
    <3>4. CASE n # k
      BY <3>1, <3>2, <3>4
    <3> QED BY <3>3, <3>4
  <2>3. claims' = [n \in 1..Len(claims) |-> claims'[n]]
    BY <1>6, <2>1
  <2>4. claims' \in Seq(Stated) /\ DOMAIN claims' = DOMAIN claims
    BY <2>1, <2>2, <2>3
  <2> QED BY <1>5, <2>2, <2>4
<1>11. /\ unsaved' \in [Processes -> Marks] /\ unsaved'[P] = u
       /\ \A Q \in Processes \ {P} : unsaved'[Q] = unsaved[Q]
  BY <1>6, <1>7, Home DEF Typed
<1>12. Typed'
  BY <1>6, <1>9, <1>10, <1>11, Pieces DEF Typed
<1>13. Grown(claims, claims') /\ More(moments, moments)
  BY <1>10, SameGrown DEF Grown
<1>14. Grounds(claims', f)
  BY <1>5, <1>10 DEF Grounds
<1>15. Sound(anchored', printed', unsaved', moments', claims')
  <2>1. \A g : Grounds(claims, g) => Grounds(claims', g)
    BY <1>13 DEF Grown, Grounds
  <2>2. ASSUME NEW Q \in Processes
        PROVE  /\ \A j \in unsaved'[Q].anchored : moments[j] >= 1
               /\ \A g \in unsaved'[Q].printed : Grounds(claims', g)
    <3>1. CASE Q = P
      BY <1>7, <1>11, <1>14, <3>1
    <3>2. CASE Q # P
      BY <1>11, <2>1, <3>2 DEF Whole, Sound
    <3> QED BY <3>1, <3>2
  <2> QED BY <1>6, <2>1, <2>2, SoundHere DEF Sound
<1>16. Fits(x, claims', moments)
  <2>1. Fits(run[w], claims', moments)
    BY <1>1, <1>13, FitsGrown, Pieces
  <2> QED BY <1>1, <1>2, <1>3, <1>8, <1>14, <2>1 DEF Fits
<1>17. Counted(w, x)
  BY <1>8 DEF Counted, Whole
<1> QED BY <1>6, <1>9, <1>12, <1>13, <1>15, <1>16, <1>17, WorkerStep

(* Complete: nothing is left to do, so the item is whole.                   *)
LEMMA KeepsComplete ==
  ASSUME NEW w \in Worker
  PROVE  IngestAssumption /\ Typed /\ Whole /\ Complete(w) => Typed' /\ Whole'
<1> SUFFICES ASSUME IngestAssumption, Typed, Whole, Complete(w) PROVE Typed' /\ Whole'
  OBVIOUS
<1> DEFINE i == Mine(w)
           y == [job[i] EXCEPT !.state = "completed", !.attempts = job[i].attempts + 1, !.beat = "none"]
<1>1. run[w].at = "complete" /\ Fits(run[w], claims, moments) /\ i \in Items /\ i = run[w].item
  BY DEF Complete, At, Whole, Fits, Mine
<1>2. y \in Job
  <2>1. job[i] \in Job
    BY <1>1 DEF Typed
  <2>2. job[i].attempts + 1 \in Nat
    BY <2>1 DEF Job
  <2>3. "completed" \in State
    BY DEF State
  <2> QED BY <2>1, <2>2, <2>3 DEF Job
<1>3. Leave(w) /\ Commit(w) /\ job' = [job EXCEPT ![i] = y]
  BY <1>1 DEF Complete, Typed
<1> HIDE DEF y
<1>4. PICK x \in Run : /\ run' = [run EXCEPT ![w] = x] /\ x.at = "idle" /\ x.olds = {}
                       /\ x.queue = run[w].queue
  BY <1>3, LeaveRun
<1>5. run' \in [Worker -> Run] /\ run'[w] = x /\ \A v \in Worker \ {w} : run'[v] = run[v]
  BY <1>4, RunTyped
<1>6. job' \in [Items -> Job] /\ \A j \in Items \ {i} : job'[j] = job[j]
  BY <1>1, <1>2, <1>3, JobTyped
<1>7. moments' = moments /\ claims' = claims /\ shared' = shared /\ crashes' = crashes
  BY DEF Complete, counters
<1>8. Typed'
  BY <1>3, <1>5, <1>6, <1>7, CommitTyped DEF Typed
<1>9. Fits(x, claims, moments) /\ Counted(w, x)
  BY <1>4 DEF Fits, Counted, Whole
<1>10. Finished(i)
  <2>1. run[w].todo = <<>>
    BY <1>1 DEF Fits
  <2>2. ToSet(run[w].todo) = {}
    BY <2>1, Elements, Pieces
  <2> QED BY <1>1, <2>2 DEF Fits, Finished
<1> QED BY <1>3, <1>5, <1>6, <1>7, <1>8, <1>9, <1>10, WorkerStep, SameGrown, CommitSound

(* A failure gives the item back.                                           *)
LEMMA FailKeeps ==
  ASSUME IngestAssumption, Typed, Whole, NEW w \in Worker, ~ At(w, "idle"), Fail(w),
         shared' = shared, crashes' = crashes
  PROVE  Typed' /\ Whole'
<1> DEFINE i == Mine(w)
           tries == run[w].tries + 1
           y == [state |-> IF tries >= MAX_ATTEMPTS THEN "dead_lettered" ELSE "retrying",
                 attempts |-> tries, due |-> tries >= MAX_ATTEMPTS, beat |-> "none"]
<1>1. run[w].at # "idle" /\ Fits(run[w], claims, moments)
  BY DEF At, Whole
<1>2. i \in Items /\ i = run[w].item /\ tries \in Nat
  BY <1>1 DEF Fits, Mine
<1>3. y \in Job /\ y.state # "completed"
  <2>1. MAX_ATTEMPTS \in Nat
    BY IngestAssumption
  <2>2. (tries >= MAX_ATTEMPTS) \in BOOLEAN
    BY <1>2, <2>1
  <2> QED BY <1>2, <2>2 DEF Job, State
<1>4. Leave(w) /\ Commit(w) /\ job' = [job EXCEPT ![i] = y]
  BY DEF Fail
<1> HIDE DEF y
<1>5. PICK x \in Run : /\ run' = [run EXCEPT ![w] = x] /\ x.at = "idle" /\ x.olds = {}
                       /\ x.queue = run[w].queue
  BY <1>4, LeaveRun
<1>6. run' \in [Worker -> Run] /\ run'[w] = x /\ \A v \in Worker \ {w} : run'[v] = run[v]
  BY <1>5, RunTyped
<1>7. job' \in [Items -> Job] /\ job'[i] = y /\ \A j \in Items \ {i} : job'[j] = job[j]
  BY <1>2, <1>3, <1>4, JobTyped
<1>8. moments' = moments /\ claims' = claims
  BY DEF Fail
<1>9. Typed'
  BY <1>4, <1>6, <1>7, <1>8, CommitTyped DEF Typed
<1>10. Fits(x, claims, moments) /\ Counted(w, x)
  BY <1>5 DEF Fits, Counted, Whole
<1> QED BY <1>3, <1>4, <1>6, <1>7, <1>8, <1>9, <1>10, WorkerStep, SameGrown, CommitSound

(* The three ways to fail.                                                  *)
LEMMA KeepsFail ==
  ASSUME NEW w \in Worker
  PROVE  IngestAssumption /\ Typed /\ Whole /\ (ProviderDown(w) \/ BadFact(w) \/ Rejected(w))
           => Typed' /\ Whole'
<1>1. ProviderDown(w) \/ BadFact(w) \/ Rejected(w) =>
        ~ At(w, "idle") /\ Fail(w) /\ shared' = shared /\ crashes' = crashes
  BY DEF ProviderDown, BadFact, Rejected, counters, At
<1> QED BY <1>1, FailKeeps

(* The world around the workers touches jobs alone, and completes none. *)
LEMMA JobsKeep ==
  ASSUME IngestAssumption, Typed, Whole, job' \in [Items -> Job],
         \A i \in Items : job'[i].state = "completed" => job[i].state = "completed",
         UNCHANGED <<anchored, printed, unsaved, moments, claims, run, crashes, shared>>
  PROVE  Typed' /\ Whole'
BY DEF Typed, Whole, CompletedIsWhole, Counted

(* Polling, time, recovery, requeues and cancellations.                     *)
LEMMA KeepsWorld ==
  ASSUME IngestAssumption, Typed, Whole,
         \/ \E i \in Items : Poll(i) \/ GoStale(i) \/ BackoffOver(i) \/ CancelJob(i)
         \/ RecoverStale \/ RetryDeadLetters
  PROVE  Typed' /\ Whole'
<1>1. \A i \in Items : job[i] \in Job
  BY DEF Typed
<1>2. ASSUME NEW i \in Items, Poll(i) \/ GoStale(i) \/ BackoffOver(i) \/ CancelJob(i)
      PROVE Typed' /\ Whole'
  <2>1. PICK y \in Job : job' = [job EXCEPT ![i] = y] /\ (y.state = "completed" => job[i].state = "completed")
    <3>1. CASE Poll(i)
      <4>1. [job[i] EXCEPT !.state = "pending"] \in Job
        BY <1>1 DEF Job, State
      <4> QED BY <1>1, <3>1, <4>1 DEF Poll, Job
    <3>2. CASE GoStale(i)
      <4>1. [job[i] EXCEPT !.beat = "stale"] \in Job
        BY <1>1 DEF Job, State
      <4> QED BY <1>1, <3>2, <4>1 DEF GoStale, Job
    <3>3. CASE BackoffOver(i)
      <4> DEFINE b == TRUE
                 y == [job[i] EXCEPT !.due = b]
      <4>1. y \in Job
        <5>1. b \in BOOLEAN
          OBVIOUS
        <5> HIDE DEF b
        <5> QED BY <1>1, <5>1 DEF Job
      <4>2. y.state = job[i].state
        BY <1>1 DEF Job
      <4>3. job' = [job EXCEPT ![i] = y]
        BY <3>3 DEF BackoffOver
      <4> HIDE DEF y
      <4> QED BY <4>1, <4>2, <4>3
    <3>4. CASE CancelJob(i)
      <4>1. [job[i] EXCEPT !.state = "cancelled"] \in Job
        BY <1>1 DEF Job, State
      <4> QED BY <1>1, <3>4, <4>1 DEF CancelJob, Job
    <3> QED BY <1>2, <3>1, <3>2, <3>3, <3>4
  <2>2. UNCHANGED <<anchored, printed, unsaved, moments, claims, run, crashes, shared>>
    BY <1>2 DEF Poll, GoStale, BackoffOver, CancelJob, counters
  <2> QED BY <2>1, <2>2, JobTyped, JobsKeep
<1>3. ASSUME RecoverStale PROVE Typed' /\ Whole'
  <2>1. ASSUME NEW i \in Items
        PROVE  job'[i] \in Job /\ (job'[i].state = "completed" => job[i].state = "completed")
    <3>1. [job[i] EXCEPT !.state = "pending", !.beat = "none"] \in Job
      <4>1. "pending" \in State
        BY DEF State
      <4>2. job[i] \in Job
        BY <1>1
      <4> QED BY <4>1, <4>2 DEF Job
    <3> QED BY <1>1, <1>3, <3>1 DEF RecoverStale, Job
  <2>2. job' = [i \in Items |-> job'[i]]
    BY <1>3 DEF RecoverStale
  <2> QED BY <1>3, <2>1, <2>2, JobsKeep DEF RecoverStale, counters
<1>4. ASSUME RetryDeadLetters PROVE Typed' /\ Whole'
  <2>1. ASSUME NEW i \in Items
        PROVE  job'[i] \in Job /\ (job'[i].state = "completed" => job[i].state = "completed")
    <3>1. [NoJob EXCEPT !.state = "pending"] \in Job /\ [NoJob EXCEPT !.state = "pending"].state = "pending"
      BY DEF Job, State, NoJob
    <3> QED BY <1>1, <1>4, <3>1 DEF RetryDeadLetters, Job
  <2>2. job' = [i \in Items |-> job'[i]]
    BY <1>4 DEF RetryDeadLetters
  <2> QED BY <1>4, <2>1, <2>2, JobsKeep DEF RetryDeadLetters
<1> QED BY <1>2, <1>3, <1>4

(* A crash loses marks that were not saved, never one that is not true.     *)
LEMMA KeepsCrash ==
  ASSUME NEW P \in Processes
  PROVE  IngestAssumption /\ Typed /\ Whole /\ Crash(P) => Typed' /\ Whole'
<1> SUFFICES ASSUME IngestAssumption, Typed, Whole, Crash(P) PROVE Typed' /\ Whole'
  OBVIOUS
<1>1. /\ run' = [w \in Worker |-> IF w \in P THEN Resting ELSE run[w]]
      /\ unsaved' = [unsaved EXCEPT ![P] = Nothing] /\ crashes' = crashes + 1
      /\ UNCHANGED <<job, anchored, printed, moments, claims, shared>>
  BY DEF Crash
<1>2. run' \in [Worker -> Run]
  BY <1>1, RestingIsRun DEF Typed
<1>3. Nothing \in Marks /\ Nothing.anchored = {} /\ Nothing.printed = {}
  BY DEF Nothing, Marks
<1>4. unsaved' \in [Processes -> Marks] /\ \A Q \in Processes : unsaved'[Q] \in {unsaved[Q], Nothing}
  BY <1>1, <1>3 DEF Typed
<1>5. Typed'
  BY <1>1, <1>2, <1>4 DEF Typed
<1>6. Fits(Resting, claims, moments) /\ \A w \in Worker : Counted(w, Resting)
  BY DEF Resting, Fits, Counted
<1>7. \A w \in Worker : Fits(run'[w], claims, moments) /\ Counted(w, run'[w])
  BY <1>1, <1>6 DEF Whole
<1>8. Sound(anchored, printed, unsaved', moments, claims)
  BY <1>3, <1>4 DEF Whole, Sound
<1>9. CompletedIsWhole'
  BY <1>1 DEF Whole, CompletedIsWhole
<1> QED BY <1>1, <1>5, <1>7, <1>8, <1>9 DEF Whole

(* Types and soundness at the start.                                        *)
LEMMA InitJobs == IngestAssumption /\ Init => Typed /\ Whole
<1> SUFFICES ASSUME IngestAssumption, Init PROVE Typed /\ Whole
  OBVIOUS
<1>1. NoJob \in Job /\ NoJob.state = "none"
  BY DEF NoJob, Job, State
<1>2. Nothing \in Marks /\ Nothing.anchored = {} /\ Nothing.printed = {}
  BY DEF Nothing, Marks
<1>3. Fits(Resting, claims, moments) /\ \A w \in Worker : Counted(w, Resting)
  BY DEF Resting, Fits, Counted
<1>4. Typed
  BY <1>1, <1>2, RestingIsRun DEF Init, Typed
<1>5. Sound(anchored, printed, unsaved, moments, claims)
  BY <1>2 DEF Init, Sound
<1>6. CompletedIsWhole
  BY <1>1 DEF Init, CompletedIsWhole
<1> QED BY <1>3, <1>4, <1>5, <1>6 DEF Init, Whole

(* Every step keeps types and soundness.                                    *)
LEMMA NextJobs == IngestAssumption /\ Typed /\ Whole /\ [Next]_vars => Typed' /\ Whole'
<1> SUFFICES ASSUME IngestAssumption, Typed, Whole, [Next]_vars PROVE Typed' /\ Whole'
  OBVIOUS
<1>1. CASE \E w \in Worker : Work(w) \/ OutOfTime(w)
  <2> PICK w \in Worker : Work(w) \/ OutOfTime(w)
    BY <1>1
  <2> QED BY KeepsOne, KeepsOut, KeepsClaim, KeepsStart, KeepsExtract, KeepsEvent, KeepsReinforce,
             KeepsDecide, KeepsStore, KeepsDerive, KeepsComplete, KeepsFail DEF Work, ProcessOne
<1>2. CASE \E P \in Processes : Crash(P)
  BY <1>2, KeepsCrash
<1>3. CASE UNCHANGED vars
  <2>1. UNCHANGED <<job, anchored, printed, unsaved, moments, claims, run, crashes, shared>>
    BY <1>3 DEF vars
  <2> QED BY <2>1, JobsKeep DEF Typed
<1> QED BY <1>1, <1>2, <1>3, KeepsWorld DEF Next

(* What w has written is there after its step, or saved. *)
Saving(w) ==
  \/ /\ UNCHANGED <<anchored, printed, unsaved>>
     /\ run[w].at # "idle" => run'[w].at # "idle" /\ run'[w].item = run[w].item
  \/ /\ anchored' = Anchored(w) /\ printed' = Printed(w)
     /\ \A Q \in Processes \ {ProcessOf(w)} : unsaved'[Q] = unsaved[Q]

(* No other worker moves, and w takes nothing new in hand. *)
Alone(w) ==
  /\ \A v \in Worker \ {w} : run'[v] = run[v]
  /\ run'[w].at # "idle" => run[w].at # "idle" /\ run'[w].item = run[w].item

(* A step that takes nothing new in hand keeps items with one worker.       *)
LEMMA SingleKept ==
  ASSUME Single, NEW w \in Worker, Alone(w), shared' = shared
  PROVE  Single'
BY DEF Single, Alone, Has, At, Mine

(* An event is marked, or its worker has yet to save the mark.              *)
LEMMA EventKept ==
  ASSUME NEW w \in Worker, Alone(w), Saving(w), NEW i \in Items, EventOnce(i),
         moments'[i] = moments[i],
         run'[w].at = "event" => ~ run[w].anchor /\ run[w].at = "extract",
         run'[w].at = "extract" => run'[w].anchor = run[w].anchor /\ run[w].at = "extract"
  PROVE  EventOnce(i)'
<1>1. ASSUME moments'[i] = 1
      PROVE  \/ i \in anchored'
             \/ \E v \in Worker : Has(v, i)' /\ i \in unsaved'[ProcessOf(v)].anchored
  <2>1. CASE i \in anchored
    BY <2>1 DEF Saving, Anchored
  <2>2. CASE i \notin anchored
    <3>1. PICK v \in Worker : Has(v, i) /\ i \in unsaved[ProcessOf(v)].anchored
      BY <1>1, <2>2 DEF EventOnce
    <3>2. CASE UNCHANGED <<anchored, printed, unsaved>>
               /\ (run[w].at # "idle" => run'[w].at # "idle" /\ run'[w].item = run[w].item)
      BY <3>1, <3>2 DEF Has, At, Mine, Alone
    <3>3. CASE /\ anchored' = Anchored(w) /\ printed' = Printed(w)
               /\ \A Q \in Processes \ {ProcessOf(w)} : unsaved'[Q] = unsaved[Q]
      <4>1. CASE ProcessOf(v) = ProcessOf(w)
        BY <3>1, <3>3, <4>1 DEF Anchored
      <4>2. CASE ProcessOf(v) # ProcessOf(w)
        <5>1. v # w /\ ProcessOf(v) \in Processes
          BY <4>2, Home
        <5> QED BY <3>1, <3>3, <4>2, <5>1 DEF Has, At, Mine, Alone
      <4> QED BY <4>1, <4>2
    <3> QED BY <3>2, <3>3 DEF Saving
  <2> QED BY <2>1, <2>2
<1>2. ASSUME NEW v \in Worker, run'[v].at # "idle", run'[v].item = i,
             run'[v].at = "event" \/ (run'[v].at = "extract" /\ ~ run'[v].anchor)
      PROVE  moments'[i] = 0
  <2>1. run[v].at # "idle" /\ run[v].item = i
    BY <1>2 DEF Alone
  <2>2. run[v].at = "event" \/ (run[v].at = "extract" /\ ~ run[v].anchor)
    BY <1>2 DEF Alone
  <2> QED BY <2>1, <2>2 DEF EventOnce, Has, At, Mine
<1> QED BY <1>1, <1>2 DEF EventOnce, Has, At, Mine

(* Claims stay what they say. *)
SameClaims ==
  /\ DOMAIN claims' = DOMAIN claims
  /\ \A n \in DOMAIN claims : /\ claims'[n].fact = claims[n].fact
                              /\ claims'[n].item = claims[n].item
                              /\ claims'[n].over = claims[n].over

(* A mark that was set, or about to be set by another worker, is so afterwards. *)
LEMMA MarkKept ==
  ASSUME NEW w \in Worker, Alone(w), Saving(w), NEW i \in Items, NEW n, NEW f,
         Marked(i, n, f),
         ~ (Has(w, i) /\ run[w].at = "derive" /\ run[w].olds = {n})
  PROVE  Marked(i, n, f)'
<1>1. CASE f \in printed
  BY <1>1 DEF Saving, Printed, Marked
<1>2. CASE f \notin printed
  <2>1. PICK v \in Worker : /\ Has(v, i)
                            /\ \/ f \in unsaved[ProcessOf(v)].printed
                               \/ At(v, "derive") /\ run[v].olds = {n}
    BY <1>2 DEF Marked
  <2>2. CASE At(v, "derive") /\ run[v].olds = {n}
    <3>1. v # w
      BY <2>1, <2>2 DEF At
    <3>2. run'[v] = run[v]
      BY <3>1 DEF Alone
    <3>3. Has(v, i)' /\ run'[v].at = "derive" /\ run'[v].olds = {n}
      BY <2>1, <2>2, <3>2 DEF Has, At, Mine
    <3> QED BY <3>3 DEF Marked, At
  <2>3. CASE f \in unsaved[ProcessOf(v)].printed
    <3>2. CASE UNCHANGED <<anchored, printed, unsaved>>
               /\ (run[w].at # "idle" => run'[w].at # "idle" /\ run'[w].item = run[w].item)
      <4>1. Has(v, i)'
        BY <2>1, <3>2 DEF Has, At, Mine, Alone
      <4> QED BY <2>3, <3>2, <4>1 DEF Marked
    <3>3. CASE /\ anchored' = Anchored(w) /\ printed' = Printed(w)
               /\ \A Q \in Processes \ {ProcessOf(w)} : unsaved'[Q] = unsaved[Q]
      <4>1. CASE ProcessOf(v) = ProcessOf(w)
        BY <2>3, <3>3, <4>1 DEF Printed, Marked
      <4>2. CASE ProcessOf(v) # ProcessOf(w)
        <5>1. v # w /\ ProcessOf(v) \in Processes
          BY <4>2, Home
        <5>2. Has(v, i)'
          BY <2>1, <5>1 DEF Has, At, Mine, Alone
        <5>3. unsaved'[ProcessOf(v)] = unsaved[ProcessOf(v)]
          BY <3>3, <4>2, <5>1
        <5> QED BY <2>3, <5>2, <5>3 DEF Marked
      <4> QED BY <4>1, <4>2
    <3> QED BY <3>2, <3>3 DEF Saving
  <2> QED BY <2>1, <2>2, <2>3
<1> QED BY <1>1, <1>2

(* A step that decides nothing and records no claim keeps claims single.    *)
LEMMA ClaimKept ==
  ASSUME NEW w \in Worker, Alone(w), Saving(w), NEW i \in Items, ClaimOnce(i), SameClaims,
         run[w].at # "derive", run'[w].at # "store"
  PROVE  ClaimOnce(i)'
<1>1. ASSUME NEW n \in DOMAIN claims, NEW f \in Fact, claims[n].item = i, claims[n].fact = f
      PROVE  Marked(i, n, f)'
  <2>1. Marked(i, n, f)
    BY <1>1 DEF ClaimOnce
  <2> QED BY <2>1, MarkKept
<1>2. ASSUME NEW v \in Worker, run'[v].at # "idle", run'[v].item = i, run'[v].at = "store",
             run'[v].olds = {}, NEW n \in DOMAIN claims, claims[n].item = i
      PROVE  claims[n].fact # Head(run'[v].todo)
  <2>1. run'[v] = run[v]
    BY <1>2 DEF Alone
  <2> QED BY <1>2, <2>1 DEF ClaimOnce, Has, At, Mine, This
<1>3. \A v \in Worker :
        Has(v, i)' /\ At(v, "store")' /\ run'[v].olds = {} =>
          \A n \in DOMAIN claims' : claims'[n].item = i => claims'[n].fact # This(v)'
  BY <1>2 DEF SameClaims, Has, At, Mine, This
<1>4. \A n \in DOMAIN claims', f \in Fact :
        claims'[n].item = i /\ claims'[n].fact = f => Marked(i, n, f)'
  BY <1>1 DEF SameClaims
<1>5. \A m, n \in DOMAIN claims' :
        m < n /\ claims'[m].item = i /\ claims'[n].item = i /\ claims'[m].fact = claims'[n].fact
          => claims'[n].over # {}
  BY DEF SameClaims, ClaimOnce
<1> QED BY <1>3, <1>4, <1>5 DEF ClaimOnce

(* A step that neither records nor decides anything. *)
LEMMA QuietStep ==
  ASSUME Once, NEW w \in Worker, Alone(w), Saving(w), SameClaims, moments' = moments,
         shared' = shared, crashes' = crashes,
         run[w].at # "derive", run'[w].at # "store",
         run'[w].at = "event" => ~ run[w].anchor /\ run[w].at = "extract",
         run'[w].at # "extract"
  PROVE  Once'
<1>1. Single'
  BY SingleKept DEF Once
<1>2. ASSUME crashes = 0, NEW i \in Items \ shared
      PROVE  EventOnce(i)' /\ ClaimOnce(i)'
  <2>1. EventOnce(i) /\ ClaimOnce(i)
    BY <1>2 DEF Once
  <2> QED BY <2>1, EventKept, ClaimKept
<1> QED BY <1>1, <1>2 DEF Once

(* What a busy worker has in hand is an item.                               *)
LEMMA OnceFits ==
  ASSUME Typed, Whole, NEW w \in Worker
  PROVE  /\ Fits(run[w], claims, moments)
         /\ run[w].at # "idle" => run[w].item \in Items
BY DEF Whole, Fits

(* The steps of an idle worker.                                             *)
LEMMA OnceIdle ==
  ASSUME NEW w \in Worker
  PROVE  Typed /\ Once /\ (Scan(w) \/ OutOfTime(w) \/ ClaimBatch(w)) => Once'
<1> SUFFICES ASSUME Typed, Once, Scan(w) \/ OutOfTime(w) \/ ClaimBatch(w) PROVE Once'
  OBVIOUS
<1>1. run[w].at = "idle" /\ run'[w].at = "idle" /\ \A v \in Worker \ {w} : run'[v] = run[v]
  <2>1. \A y : [run[w] EXCEPT !.queue = y].at = run[w].at
    BY Pieces DEF Run
  <2>2. run \in [Worker -> Run] /\ run[w].at = "idle"
    BY DEF Scan, OutOfTime, ClaimBatch, At, Typed
  <2>3. \/ \E y : run' = [run EXCEPT ![w].queue = y]
        \/ run' = [run EXCEPT ![w] = Resting]
    BY DEF Scan, OutOfTime, ClaimBatch
  <2>4. ASSUME NEW y, run' = [run EXCEPT ![w].queue = y]
        PROVE  run'[w].at = "idle" /\ \A v \in Worker \ {w} : run'[v] = run[v]
    <3>1. run'[w] = [run[w] EXCEPT !.queue = y]
      BY <2>2, <2>4
    <3> QED BY <2>1, <2>2, <2>4, <3>1
  <2>5. ASSUME run' = [run EXCEPT ![w] = Resting]
        PROVE  run'[w].at = "idle" /\ \A v \in Worker \ {w} : run'[v] = run[v]
    BY <2>2, <2>5 DEF Resting
  <2> QED BY <2>2, <2>3, <2>4, <2>5
<1>2. claims' = claims /\ moments' = moments /\ shared' = shared /\ crashes' = crashes
  BY DEF Scan, OutOfTime, ClaimBatch, counters
<1>3. UNCHANGED <<anchored, printed, unsaved>> \/ Commit(w)
  BY DEF Scan, OutOfTime, ClaimBatch
<1>4. Alone(w) /\ Saving(w) /\ SameClaims
  BY <1>1, <1>2, <1>3 DEF Alone, Saving, SameClaims, Commit, Typed
<1> QED BY <1>1, <1>2, <1>4, QuietStep

(* Extract and Reinforce.                                                   *)
LEMMA OnceExtract ==
  ASSUME NEW w \in Worker
  PROVE  Typed /\ Once /\ (Extract(w) \/ Reinforce(w)) => Once'
<1> SUFFICES ASSUME Typed, Once, Extract(w) \/ Reinforce(w) PROVE Once'
  OBVIOUS
<1>1. /\ run[w].at \in {"extract", "fact"} /\ run'[w].item = run[w].item
      /\ run'[w].at \in {"complete", "fact", "event"}
      /\ run'[w].at = "event" => ~ run[w].anchor /\ run[w].at = "extract"
      /\ \A v \in Worker \ {w} : run'[v] = run[v]
  BY DEF Extract, Reinforce, At, Typed, Run, AfterFact
<1>2. /\ claims' = claims /\ moments' = moments /\ shared' = shared /\ crashes' = crashes
      /\ UNCHANGED <<anchored, printed, unsaved>>
  BY DEF Extract, Reinforce, counters
<1>4. Alone(w) /\ Saving(w) /\ SameClaims
  BY <1>1, <1>2 DEF Alone, Saving, SameClaims
<1> QED BY <1>1, <1>2, <1>4, QuietStep

(* Complete and the failures: what was written is saved.                    *)
LEMMA OnceLeave ==
  ASSUME NEW w \in Worker
  PROVE  Typed /\ Once /\ (Complete(w) \/ ProviderDown(w) \/ BadFact(w) \/ Rejected(w)) => Once'
<1> SUFFICES ASSUME Typed, Once, Complete(w) \/ ProviderDown(w) \/ BadFact(w) \/ Rejected(w)
             PROVE  Once'
  OBVIOUS
<1>1. run[w].at \in {"extract", "fact", "store", "complete"} /\ Leave(w) /\ Commit(w)
  BY DEF Complete, ProviderDown, BadFact, Rejected, Fail, At
<1>2. claims' = claims /\ moments' = moments /\ shared' = shared /\ crashes' = crashes
  BY DEF Complete, ProviderDown, BadFact, Rejected, Fail, counters
<1>3. PICK x \in Run : /\ run' = [run EXCEPT ![w] = x] /\ x.at = "idle" /\ x.olds = {}
                       /\ x.queue = run[w].queue
  BY <1>1, LeaveRun
<1>4. run'[w] = x /\ \A v \in Worker \ {w} : run'[v] = run[v]
  BY <1>3, RunTyped
<1>5. Alone(w) /\ Saving(w) /\ SameClaims
  BY <1>1, <1>2, <1>3, <1>4 DEF Alone, Saving, SameClaims, Commit
<1> QED BY <1>1, <1>2, <1>3, <1>4, <1>5, QuietStep

(* Start: an item that is in another hand becomes shared; of one that is not, all is saved. *)
LEMMA OnceStart ==
  ASSUME NEW w \in Worker
  PROVE  Typed /\ Once /\ Start(w) => Once'
<1> SUFFICES ASSUME Typed, Once, Start(w) PROVE Once'
  OBVIOUS
<1>1. PICK q \in run[w].queue :
        /\ run' = [run EXCEPT ![w] =
             [Resting EXCEPT !.at = "extract", !.queue = run[w].queue \ {q}, !.item = q.item,
                             !.tries = IF w \in Claiming THEN job[q.item].attempts ELSE q.tries,
                             !.anchor = q.item \in Anchored(w)]]
        /\ shared' = shared \cup {i \in {q.item} : InHand(i)}
  BY DEF Start
<1>2. /\ run[w].at = "idle" /\ Commit(w) /\ moments' = moments /\ claims' = claims
      /\ crashes' = crashes /\ q.item \in Items
  BY Pieces DEF Start, At
<1>3. /\ run'[w].at = "extract" /\ run'[w].item = q.item
      /\ run'[w].anchor = (q.item \in Anchored(w)) /\ run'[w].olds = {}
      /\ \A v \in Worker \ {w} : run'[v] = run[v]
  BY <1>1 DEF Typed, Resting
<1>4. Single'
  <2> SUFFICES ASSUME NEW i \in Items \ shared', NEW u \in Worker, NEW v \in Worker,
                      Has(u, i)', Has(v, i)'
               PROVE  u = v
    BY DEF Single
  <2>1. i \notin shared /\ (i = q.item => ~ InHand(i))
    BY <1>1
  <2>2. CASE u # w /\ v # w
    BY <1>3, <2>1, <2>2 DEF Once, Single, Has, At, Mine
  <2>3. CASE (u = w \/ v = w) /\ u # v
    <3>1. i = q.item
      BY <1>3, <2>3 DEF Has, Mine
    <3>2. \E z \in Worker : z # w /\ Has(z, i)'
      BY <2>3
    <3>3. InHand(i)
      BY <1>3, <3>2 DEF InHand, Has, At, Mine
    <3> QED BY <2>1, <3>1, <3>3
  <2> QED BY <2>2, <2>3
<1>5. ASSUME crashes = 0, NEW i \in Items \ shared'
      PROVE  EventOnce(i)' /\ ClaimOnce(i)'
  <2>1. EventOnce(i) /\ ClaimOnce(i) /\ i \notin shared
    BY <1>1, <1>5 DEF Once
  <2>2. Saving(w)
    BY <1>2 DEF Saving, Commit
  <2>3. /\ moments[i] = 1 => i \in anchored' \/ \E v \in Worker : Has(v, i)' /\ i \in unsaved'[ProcessOf(v)].anchored
        /\ \A n \in DOMAIN claims, f \in Fact :
             claims[n].item = i /\ claims[n].fact = f => Marked(i, n, f)'
    <3>1. \A v \in Worker : Has(v, i) => v # w /\ Has(v, i)'
      BY <1>2, <1>3 DEF Has, At, Mine
    <3>2. ASSUME NEW v \in Worker, Has(v, i)
          PROVE  \/ ProcessOf(v) = ProcessOf(w)
                 \/ ProcessOf(v) # ProcessOf(w) /\ unsaved'[ProcessOf(v)] = unsaved[ProcessOf(v)]
      BY <1>2, Home DEF Commit, Typed
    <3>3. anchored' = anchored \cup unsaved[ProcessOf(w)].anchored
          /\ printed' = printed \cup unsaved[ProcessOf(w)].printed
      BY <1>2 DEF Commit, Anchored, Printed
    <3>4. moments[i] = 1 => i \in anchored' \/ \E v \in Worker : Has(v, i)' /\ i \in unsaved'[ProcessOf(v)].anchored
      BY <2>1, <3>1, <3>2, <3>3 DEF EventOnce
    <3>5. ASSUME NEW n \in DOMAIN claims, NEW f \in Fact, claims[n].item = i, claims[n].fact = f
          PROVE  Marked(i, n, f)'
      <4>1. Marked(i, n, f)
        BY <2>1, <3>5 DEF ClaimOnce
      <4>2. CASE f \in printed
        BY <3>3, <4>2 DEF Marked
      <4>3. CASE f \notin printed
        <5>1. PICK v \in Worker : /\ Has(v, i)
                                  /\ \/ f \in unsaved[ProcessOf(v)].printed
                                     \/ At(v, "derive") /\ run[v].olds = {n}
          BY <4>1, <4>3 DEF Marked
        <5>2. Has(v, i)' /\ run'[v] = run[v]
          BY <1>3, <3>1, <5>1
        <5>3. CASE At(v, "derive") /\ run[v].olds = {n}
          BY <5>2, <5>3 DEF Marked, At
        <5>4. CASE f \in unsaved[ProcessOf(v)].printed
          <6>1. CASE ProcessOf(v) = ProcessOf(w)
            BY <3>3, <5>4, <6>1 DEF Marked
          <6>2. CASE ProcessOf(v) # ProcessOf(w)
            <7>1. unsaved'[ProcessOf(v)] = unsaved[ProcessOf(v)]
              BY <3>2, <5>1, <6>2
            <7> QED BY <5>2, <5>4, <7>1 DEF Marked
          <6> QED BY <6>1, <6>2
        <5> QED BY <5>1, <5>3, <5>4
      <4> QED BY <4>2, <4>3
    <3> QED BY <3>4, <3>5
  <2>4. ASSUME NEW v \in Worker, run'[v].at # "idle", run'[v].item = i,
               run'[v].at = "event" \/ (run'[v].at = "extract" /\ ~ run'[v].anchor)
        PROVE  moments[i] = 0
    <3>1. CASE v # w
      BY <1>3, <2>1, <2>4, <3>1 DEF EventOnce, Has, At, Mine
    <3>2. CASE v = w
      <4>1. i = q.item /\ i \notin Anchored(w) /\ ~ InHand(i)
        <5>1. i = q.item /\ run'[w].at = "extract"
          BY <1>3, <2>4, <3>2
        <5>2. ~ run'[w].anchor
          BY <2>4, <3>2, <5>1
        <5>3. i \notin Anchored(w)
          BY <1>3, <5>1, <5>2
        <5>4. ~ InHand(i)
          BY <1>1, <1>5, <5>1
        <5> QED BY <5>1, <5>3, <5>4
      <4>2. ~ \E u \in Worker : Has(u, i)
        BY <4>1 DEF InHand, Has
      <4>3. i \notin anchored
        BY <4>1 DEF Anchored
      <4>4. moments[i] # 1 /\ moments[i] \in Nat /\ moments[i] <= 1
        BY <2>1, <4>2, <4>3 DEF EventOnce, Typed
      <4> QED BY <4>4
    <3> QED BY <3>1, <3>2
  <2>5. EventOnce(i)'
    BY <1>2, <2>1, <2>3, <2>4 DEF EventOnce, Has, At, Mine
  <2>6. ASSUME NEW v \in Worker, Has(v, i)', At(v, "store")'
        PROVE  run'[v] = run[v]
    BY <1>3, <2>6 DEF At
  <2>7. \A v \in Worker :
          Has(v, i)' /\ At(v, "store")' /\ run'[v].olds = {} =>
            \A n \in DOMAIN claims : claims[n].item = i => claims[n].fact # This(v)'
    BY <2>1, <2>6 DEF ClaimOnce, Has, At, Mine, This
  <2>8. ClaimOnce(i)'
    BY <1>2, <2>1, <2>3, <2>7 DEF ClaimOnce
  <2> QED BY <2>5, <2>8
<1> QED BY <1>2, <1>4, <1>5 DEF Once

(* RecordEvent: the item had no event.                                      *)
LEMMA OnceRecord ==
  ASSUME NEW w \in Worker
  PROVE  Typed /\ Whole /\ Once /\ RecordEvent(w) => Once'
<1> SUFFICES ASSUME Typed, Whole, Once, RecordEvent(w) PROVE Once'
  OBVIOUS
<1>0. run[w].item \in Items
  BY OnceFits DEF RecordEvent, At
<1> PICK h \in Items : h = run[w].item
  BY <1>0
<1>1. /\ run[w].at = "event" /\ Mine(w) = h
      /\ run'[w].at = "fact" /\ run'[w].item = h /\ run'[w].olds = run[w].olds
      /\ \A v \in Worker \ {w} : run'[v] = run[v]
  <2>1. run[w].at = "event" /\ run' = [run EXCEPT ![w].at = "fact"]
    BY DEF RecordEvent, Go, At
  <2> QED BY <2>1 DEF Typed, Run, Mine
<1>2. /\ moments' = [moments EXCEPT ![h] = @ + 1] /\ claims' = claims /\ shared' = shared
      /\ crashes' = crashes /\ anchored' = Anchored(w) /\ printed' = Printed(w)
      /\ unsaved' = [unsaved EXCEPT ![ProcessOf(w)] = [Nothing EXCEPT !.anchored = {h}]]
  BY <1>1 DEF RecordEvent, counters
<1>3. unsaved'[ProcessOf(w)].anchored = {h} /\ \A Q \in Processes \ {ProcessOf(w)} : unsaved'[Q] = unsaved[Q]
  BY <1>2, Home DEF Typed, Nothing
<1>4. Alone(w) /\ Saving(w) /\ SameClaims
  BY <1>1, <1>2, <1>3 DEF Alone, Saving, SameClaims
<1>5. Single'
  BY <1>2, <1>4, SingleKept DEF Once
<1>6. ASSUME crashes = 0, NEW i \in Items \ shared
      PROVE  EventOnce(i)' /\ ClaimOnce(i)'
  <2>1. EventOnce(i) /\ ClaimOnce(i)
    BY <1>6 DEF Once
  <2>2. ClaimOnce(i)'
    BY <1>1, <1>4, <2>1, ClaimKept
  <2>3. CASE i # h
    <3>1. moments'[i] = moments[i]
      BY <1>1, <1>2, <2>3 DEF Typed
    <3> QED BY <1>1, <1>4, <2>1, <2>2, <3>1, EventKept
  <2>4. CASE i = h
    <3>1. moments[h] = 0
      BY <1>1, <2>1, <2>4 DEF EventOnce, Has, At, Mine
    <3>2. moments'[h] = 1
      BY <1>1, <1>2, <3>1 DEF Typed
    <3>3. Has(w, h)' /\ h \in unsaved'[ProcessOf(w)].anchored
      BY <1>1, <1>3 DEF Has, At, Mine
    <3>4. ASSUME NEW v \in Worker, Has(v, h)' PROVE v = w
      BY <1>5, <1>6, <1>2, <2>4, <3>3, <3>4 DEF Single
    <3>5. ~ At(w, "event")' /\ ~ At(w, "extract")'
      BY <1>1 DEF At
    <3> QED BY <2>2, <2>4, <3>2, <3>3, <3>4, <3>5 DEF EventOnce
  <2> QED BY <2>3, <2>4
<1> QED BY <1>2, <1>5, <1>6 DEF Once

(* Decide: a fact that is not printed was not claimed.                      *)
LEMMA OnceDecide ==
  ASSUME NEW w \in Worker
  PROVE  Typed /\ Whole /\ Once /\ Decide(w) => Once'
<1> SUFFICES ASSUME Typed, Whole, Once, Decide(w) PROVE Once'
  OBVIOUS
<1>1. /\ run[w].at = "fact" /\ run[w].item \in Items /\ run[w].todo # <<>>
      /\ run'[w].at = "store" /\ run'[w].item = run[w].item /\ run'[w].todo = run[w].todo
      /\ run'[w].olds = OpenWeaker(This(w))
      /\ \A v \in Worker \ {w} : run'[v] = run[v]
  <2>1. run[w].at = "fact"
    BY DEF Decide, At
  <2>2. run[w].item \in Items /\ run[w].todo # <<>>
    BY <2>1, OnceFits DEF Fits
  <2>3. run' = [run EXCEPT ![w].olds = OpenWeaker(This(w)), ![w].at = "store"]
    BY DEF Decide
  <2> QED BY <2>1, <2>2, <2>3 DEF Typed, Run
<1>2. /\ moments' = moments /\ claims' = claims /\ shared' = shared /\ crashes' = crashes
      /\ UNCHANGED <<anchored, printed, unsaved>>
  BY DEF Decide, counters
<1>3. Alone(w) /\ Saving(w) /\ SameClaims
  BY <1>1, <1>2 DEF Alone, Saving, SameClaims
<1>4. Single'
  BY <1>2, <1>3, SingleKept DEF Once
<1>5. ASSUME crashes = 0, NEW i \in Items \ shared
      PROVE  EventOnce(i)' /\ ClaimOnce(i)'
  <2>1. EventOnce(i) /\ ClaimOnce(i)
    BY <1>5 DEF Once
  <2>2. EventOnce(i)'
    BY <1>1, <1>2, <1>3, <2>1, EventKept
  <2>3. ASSUME NEW n \in DOMAIN claims, NEW f \in Fact, claims[n].item = i, claims[n].fact = f
        PROVE  Marked(i, n, f)'
    <3>1. Marked(i, n, f)
      BY <2>1, <2>3 DEF ClaimOnce
    <3> QED BY <1>1, <1>3, <3>1, MarkKept
  <2>4. ASSUME NEW n \in DOMAIN claims, claims[n].item = i, claims[n].fact = This(w), Has(w, i),
               OpenWeaker(This(w)) = {}
        PROVE  FALSE
    <3>1. This(w) \in Fact
      BY <1>1, HeadAndRest, Pieces DEF This
    <3>2. PICK f \in Fact : f = This(w)
      BY <3>1
    <3>3. Marked(i, n, f)
      BY <2>1, <2>4, <3>2 DEF ClaimOnce
    <3>4. ASSUME NEW v \in Worker, Has(v, i) PROVE v = w
      BY <1>5, <2>4, <3>4 DEF Once, Single
    <3>5. f \in Printed(w)
      BY <1>1, <3>3, <3>4 DEF Marked, Printed, At
    <3> QED BY <2>4, <3>2, <3>5 DEF Decide
  <2>5. ASSUME NEW v \in Worker, Has(v, i)', At(v, "store")', run'[v].olds = {},
               NEW n \in DOMAIN claims, claims[n].item = i
        PROVE  claims[n].fact # This(v)'
    <3>1. CASE v = w
      <4>1. This(w)' = This(w) /\ Has(w, i)
        BY <1>1, <2>5, <3>1 DEF This, Has, At, Mine
      <4> QED BY <1>1, <2>4, <2>5, <3>1, <4>1
    <3>2. CASE v # w
      <4>1. run'[v] = run[v]
        BY <1>1, <3>2
      <4>2. Has(v, i) /\ At(v, "store") /\ run[v].olds = {} /\ This(v)' = This(v)
        BY <2>5, <4>1 DEF Has, At, Mine, This
      <4> QED BY <2>1, <2>5, <4>2 DEF ClaimOnce
    <3> QED BY <3>1, <3>2
  <2>6. ClaimOnce(i)'
    BY <1>2, <2>1, <2>3, <2>5 DEF ClaimOnce
  <2> QED BY <2>2, <2>6
<1> QED BY <1>2, <1>4, <1>5 DEF Once

(* Store: a second claim of a fact is over a weaker one.                    *)
LEMMA OnceStore ==
  ASSUME NEW w \in Worker
  PROVE  Typed /\ Whole /\ Once /\ Store(w) => Once'
<1> SUFFICES ASSUME Typed, Whole, Once, Store(w) PROVE Once'
  OBVIOUS
<1> DEFINE c == Claim1(w)
           d == Closed(run[w].olds)
           k == Len(claims) + 1
<1>1. /\ run[w].at = "store" /\ run[w].item \in Items /\ run[w].todo # <<>>
      /\ run'[w].at = "derive" /\ run'[w].item = run[w].item /\ run'[w].olds = {k}
      /\ \A v \in Worker \ {w} : run'[v] = run[v]
  <2>1. run[w].at = "store"
    BY DEF Store, At
  <2>2. run[w].item \in Items /\ run[w].todo # <<>>
    BY <2>1, OnceFits DEF Fits
  <2>3. run' = [run EXCEPT ![w].at = "derive", ![w].olds = {k}]
    BY DEF Store
  <2> QED BY <2>1, <2>2, <2>3 DEF Typed, Run
<1>2. /\ moments' = moments /\ shared' = shared /\ crashes' = crashes /\ Commit(w)
  BY DEF Store, counters
<1>3. This(w) \in Fact
  BY <1>1, HeadAndRest, Pieces DEF This
<1>4. c \in Stated /\ c.item = run[w].item /\ c.fact = This(w) /\ c.over = run[w].olds
  BY <1>1, <1>3, Pieces DEF Claim1, Stated, Mine
<1>5. /\ d \in Seq(Stated) /\ DOMAIN d = DOMAIN claims /\ Len(d) = Len(claims)
      /\ \A n \in DOMAIN claims : /\ d[n].fact = claims[n].fact /\ d[n].item = claims[n].item
                                  /\ d[n].over = claims[n].over
  <2>1. d \in Seq(Stated) /\ DOMAIN d = DOMAIN claims
    BY ClosedTyped
  <2>2. claims \in Seq(Stated)
    BY DEF Typed
  <2>3. Len(d) = Len(claims)
    <3> HIDE DEF d
    <3> QED BY <2>1, <2>2
  <2> QED BY <2>1, <2>3, ClosedTyped
<1>6. claims' = Append(d, c)
  BY DEF Store, Claim1
<1> HIDE DEF c, d
<1>7. /\ DOMAIN claims' = DOMAIN claims \cup {k} /\ DOMAIN claims = 1..Len(claims)
      /\ k \in Nat /\ k \notin DOMAIN claims /\ claims'[k] = c
      /\ \A n \in DOMAIN claims : claims'[n] = d[n]
  <2>1. DOMAIN claims = 1..Len(claims) /\ Len(claims) \in Nat
    BY DEF Typed
  <2> QED BY <1>4, <1>5, <1>6, <2>1, OneMore
<1>8. \A n \in DOMAIN claims : n < k /\ ~ (k < n)
  BY <1>7
<1> HIDE DEF k
<1>9. Alone(w) /\ Saving(w)
  BY <1>1, <1>2 DEF Alone, Saving, Commit, Typed
<1>10. Single'
  BY <1>2, <1>9, SingleKept DEF Once
<1>11. \A n \in DOMAIN claims : /\ claims'[n].fact = claims[n].fact
                                /\ claims'[n].item = claims[n].item
                                /\ claims'[n].over = claims[n].over
  BY <1>5, <1>7
<1>12. ASSUME crashes = 0, NEW i \in Items \ shared
       PROVE  EventOnce(i)' /\ ClaimOnce(i)'
  <2>1. EventOnce(i) /\ ClaimOnce(i)
    BY <1>12 DEF Once
  <2>2. EventOnce(i)'
    BY <1>1, <1>2, <1>9, <2>1, EventKept
  <2>3. ASSUME NEW n \in DOMAIN claims', NEW f \in Fact, claims'[n].item = i, claims'[n].fact = f
        PROVE  Marked(i, n, f)'
    <3>1. CASE n = k
      <4>1. Has(w, i)' /\ At(w, "derive")' /\ run'[w].olds = {n}
        BY <1>1, <1>4, <1>7, <2>3, <3>1 DEF Has, At, Mine
      <4> QED BY <4>1 DEF Marked
    <3>2. CASE n # k
      <4>1. Marked(i, n, f)
        BY <1>7, <1>11, <2>1, <2>3, <3>2 DEF ClaimOnce
      <4> QED BY <1>1, <1>9, <4>1, MarkKept
    <3> QED BY <3>1, <3>2
  <2>4. ASSUME NEW v \in Worker, Has(v, i)', At(v, "store")', run'[v].olds = {},
               NEW n \in DOMAIN claims', claims'[n].item = i
        PROVE  claims'[n].fact # This(v)'
    <3>1. v # w
      BY <1>1, <2>4 DEF At
    <3>2. run'[v] = run[v]
      BY <1>1, <3>1
    <3>3. Has(v, i) /\ At(v, "store") /\ run[v].olds = {} /\ This(v)' = This(v)
      BY <2>4, <3>2 DEF Has, At, Mine, This
    <3>4. n # k
      <4>1. ASSUME n = k PROVE FALSE
        <5>1. Has(w, i)
          BY <1>1, <1>4, <1>7, <2>4, <4>1 DEF Has, At, Mine
        <5> QED BY <1>12, <3>1, <3>3, <5>1 DEF Once, Single
      <4> QED BY <4>1
    <3> QED BY <1>7, <1>11, <2>1, <2>4, <3>3, <3>4 DEF ClaimOnce
  <2>5. ASSUME NEW m \in DOMAIN claims', NEW n \in DOMAIN claims', m < n,
               claims'[m].item = i, claims'[n].item = i, claims'[m].fact = claims'[n].fact
        PROVE  claims'[n].over # {}
    <3>1. m \in DOMAIN claims
      BY <1>7, <1>8, <2>5
    <3>2. CASE n \in DOMAIN claims
      BY <1>11, <2>1, <2>5, <3>1, <3>2 DEF ClaimOnce
    <3>3. CASE n = k
      <4>1. Has(w, i) /\ claims[m].item = i /\ claims[m].fact = This(w) /\ claims'[n].over = run[w].olds
        BY <1>1, <1>4, <1>7, <1>11, <2>5, <3>1, <3>3 DEF Has, At, Mine
      <4> QED BY <1>1, <2>1, <3>1, <4>1 DEF ClaimOnce, At
    <3> QED BY <1>7, <3>2, <3>3
  <2>6. ClaimOnce(i)'
    BY <2>3, <2>4, <2>5 DEF ClaimOnce
  <2> QED BY <2>2, <2>6
<1> QED BY <1>2, <1>10, <1>12 DEF Once

(* Derive: the mark of the claim is written.                                *)
LEMMA OnceDerive ==
  ASSUME NEW w \in Worker
  PROVE  Typed /\ Whole /\ Once /\ Derive(w) => Once'
<1> SUFFICES ASSUME Typed, Whole, Once, Derive(w) PROVE Once'
  OBVIOUS
<1>1. /\ run[w].at = "derive" /\ run[w].item \in Items /\ run[w].todo # <<>>
      /\ run'[w].at \in {"fact", "complete"} /\ run'[w].item = run[w].item
      /\ \A v \in Worker \ {w} : run'[v] = run[v]
  <2>1. run[w].at = "derive"
    BY DEF Derive, At
  <2>2. run[w].item \in Items /\ run[w].todo # <<>>
    BY <2>1, OnceFits DEF Fits
  <2>3. run' = [run EXCEPT ![w].todo = Rest(w), ![w].at = AfterFact(w), ![w].olds = {}]
        /\ AfterFact(w) \in {"fact", "complete"}
    BY DEF Derive, AfterFact
  <2> QED BY <2>1, <2>2, <2>3 DEF Typed, Run
<1>2. PICK k \in DOMAIN claims : run[w].olds = {k} /\ claims[k].fact = This(w)
  BY <1>1, OnceFits DEF Fits, This
<1>3. /\ moments' = moments /\ shared' = shared /\ crashes' = crashes
      /\ anchored' = Anchored(w) /\ printed' = Printed(w)
      /\ unsaved' = [unsaved EXCEPT ![ProcessOf(w)] = [Nothing EXCEPT !.printed = {This(w)}]]
  BY DEF Derive, counters
<1>4. /\ unsaved'[ProcessOf(w)].printed = {This(w)}
      /\ \A Q \in Processes \ {ProcessOf(w)} : unsaved'[Q] = unsaved[Q]
  BY <1>3, Home DEF Typed, Nothing
<1>5. SameClaims
  <2>1. claims' = [n \in DOMAIN claims |-> IF n \in run[w].olds THEN [claims[n] EXCEPT !.grounded = TRUE]
                                          ELSE claims[n]]
    BY DEF Derive
  <2>2. \A n \in DOMAIN claims : claims[n] \in Stated
    BY DEF Typed
  <2> QED BY <2>1, <2>2 DEF SameClaims, Stated
<1>6. Alone(w) /\ Saving(w)
  BY <1>1, <1>3, <1>4 DEF Alone, Saving
<1>7. Single'
  BY <1>3, <1>6, SingleKept DEF Once
<1>8. ASSUME crashes = 0, NEW i \in Items \ shared
      PROVE  EventOnce(i)' /\ ClaimOnce(i)'
  <2>1. EventOnce(i) /\ ClaimOnce(i)
    BY <1>8 DEF Once
  <2>2. EventOnce(i)'
    BY <1>1, <1>3, <1>6, <2>1, EventKept
  <2>3. ASSUME NEW n \in DOMAIN claims, NEW f \in Fact, claims[n].item = i, claims[n].fact = f
        PROVE  Marked(i, n, f)'
    <3>1. Marked(i, n, f)
      BY <2>1, <2>3 DEF ClaimOnce
    <3>2. CASE Has(w, i) /\ run[w].olds = {n}
      <4>1. n = k /\ f = This(w)
        BY <1>2, <2>3, <3>2
      <4>2. Has(w, i)' /\ f \in unsaved'[ProcessOf(w)].printed
        BY <1>1, <1>4, <3>2, <4>1 DEF Has, At, Mine
      <4> QED BY <4>2 DEF Marked
    <3>3. CASE ~ (Has(w, i) /\ run[w].olds = {n})
      BY <1>6, <3>1, <3>3, MarkKept
    <3> QED BY <3>2, <3>3
  <2>4. ASSUME NEW v \in Worker, Has(v, i)', At(v, "store")', run'[v].olds = {},
               NEW n \in DOMAIN claims, claims[n].item = i
        PROVE  claims[n].fact # This(v)'
    <3>1. run'[v] = run[v]
      BY <1>1, <2>4 DEF At
    <3>2. Has(v, i) /\ At(v, "store") /\ run[v].olds = {} /\ This(v)' = This(v)
      BY <2>4, <3>1 DEF Has, At, Mine, This
    <3> QED BY <2>1, <2>4, <3>2 DEF ClaimOnce
  <2>5. ClaimOnce(i)'
    BY <1>5, <2>1, <2>3, <2>4 DEF ClaimOnce, SameClaims
  <2> QED BY <2>2, <2>5
<1> QED BY <1>3, <1>7, <1>8 DEF Once

(* Steps that no worker takes.                                              *)
LEMMA OnceWorld ==
  ASSUME Once, UNCHANGED <<anchored, printed, unsaved, moments, claims, run, crashes, shared>>
  PROVE  Once'
<1>1. Single'
  BY DEF Once, Single, Has, At, Mine
<1>2. ASSUME crashes = 0, NEW i \in Items \ shared
      PROVE  EventOnce(i)' /\ ClaimOnce(i)'
  <2>1. EventOnce(i) /\ ClaimOnce(i)
    BY <1>2 DEF Once
  <2>2. EventOnce(i)'
    BY <2>1 DEF EventOnce, Has, At, Mine
  <2>3. ClaimOnce(i)'
    BY <2>1 DEF ClaimOnce, Marked, Has, At, Mine, This
  <2> QED BY <2>2, <2>3
<1> QED BY <1>1, <1>2 DEF Once

(* A crash ends the promise.                                                *)
LEMMA OnceCrash ==
  ASSUME NEW P \in Processes
  PROVE  Typed /\ Once /\ Crash(P) => Once'
<1> SUFFICES ASSUME Typed, Once, Crash(P) PROVE Once'
  OBVIOUS
<1>1. /\ run' = [w \in Worker |-> IF w \in P THEN Resting ELSE run[w]]
      /\ shared' = shared /\ crashes' = crashes + 1
  BY DEF Crash
<1>2. Single'
  BY <1>1 DEF Once, Single, Has, At, Mine, Resting
<1>3. crashes' # 0
  BY <1>1 DEF Typed
<1> QED BY <1>2, <1>3 DEF Once

(* Nothing is claimed at the start.                                         *)
LEMMA InitOnce == Init => Once
<1> SUFFICES ASSUME Init PROVE Once
  OBVIOUS
<1>1. \A w \in Worker : run[w].at = "idle"
  BY DEF Init, Resting
<1>2. DOMAIN claims = {} /\ \A i \in Items : moments[i] = 0
  BY DEF Init
<1> QED BY <1>1, <1>2 DEF Once, Single, EventOnce, ClaimOnce, Has, At

(* Every step keeps events and claims single.                               *)
LEMMA NextOnce == IngestAssumption /\ Typed /\ Whole /\ Once /\ [Next]_vars => Once'
<1> SUFFICES ASSUME Typed, Whole, Once, [Next]_vars PROVE Once'
  OBVIOUS
<1>1. CASE \E w \in Worker : Work(w) \/ OutOfTime(w)
  <2> PICK w \in Worker : Work(w) \/ OutOfTime(w)
    BY <1>1
  <2> QED BY OnceIdle, OnceStart, OnceExtract, OnceRecord, OnceDecide, OnceStore, OnceDerive,
             OnceLeave DEF Work, ProcessOne
<1>2. CASE \E P \in Processes : Crash(P)
  BY <1>2, OnceCrash
<1>3. CASE UNCHANGED vars
  <2>1. UNCHANGED <<anchored, printed, unsaved, moments, claims, run, crashes, shared>>
    BY <1>3 DEF vars
  <2> QED BY <2>1, OnceWorld
<1>4. CASE \/ \E i \in Items : Poll(i) \/ GoStale(i) \/ BackoffOver(i) \/ CancelJob(i)
           \/ RecoverStale \/ RetryDeadLetters
  <2>1. UNCHANGED <<anchored, printed, unsaved, moments, claims, run, crashes, shared>>
    BY <1>4 DEF Poll, GoStale, BackoffOver, CancelJob, RecoverStale, RetryDeadLetters, counters
  <2> QED BY <2>1, OnceWorld
<1> QED BY <1>1, <1>2, <1>3, <1>4 DEF Next

------------------------------------------------------------------------------
(* The inductive invariant. *)
JobsInv == Typed /\ Whole /\ Once

(* The inductive invariant of jobs and workers, for any items, processes,   *)
(* threads and bounds.                                                      *)
THEOREM JobsSound == Spec => []JobsInv
<1>1. Init => JobsInv
  BY IngestAssumption, InitJobs, InitOnce DEF JobsInv
<1>2. JobsInv /\ [Next]_vars => JobsInv'
  BY IngestAssumption, NextJobs, NextOnce DEF JobsInv
<1> QED BY <1>1, <1>2, PTL DEF Spec

(* The types of claims.                                                     *)
LEMMA StatedClaims == Typed => \A n \in DOMAIN claims : claims[n] \in Stated
<1> SUFFICES ASSUME Typed PROVE \A n \in DOMAIN claims : claims[n] \in Stated
  OBVIOUS
<1>1. claims \in Seq(Stated)
  BY DEF Typed
<1> QED BY <1>1

(* Type correctness.                                                        *)
THEOREM JobsTyped == Spec => []TypeOK
<1>1. JobsInv => TypeOK
  <2> SUFFICES ASSUME JobsInv PROVE TypeOK
    OBVIOUS
  <2>1. Typed /\ Whole
    BY DEF JobsInv
  <2>2. \A w \in Worker : ToSet(run[w].todo) \subseteq Fact /\ run[w].olds \subseteq DOMAIN claims
    BY <2>1, Elements, Pieces DEF Whole, Fits
  <2>3. \A n \in DOMAIN claims : claims[n].fact \in Fact /\ claims[n].item \in Items
    BY <2>1, StatedClaims DEF Stated
  <2> QED BY <2>1, <2>2, <2>3 DEF Typed, TypeOK, Job, Marks
<1> QED BY <1>1, JobsSound, PTL

(* A completed job has every fact of its item on a claim that an event      *)
(* grounds, through crashes, failures, requeues and any workers at once     *)
(* (_process_one in ingest.py).                                             *)
THEOREM CompletedStaysWhole == Spec => []CompletedIsWhole
<1>1. JobsInv => CompletedIsWhole
  BY DEF JobsInv, Whole
<1> QED BY <1>1, JobsSound, PTL

(* As long as no process died, doing a job again repeats neither its event  *)
(* nor its claims (ingest.py:672).                                          *)
THEOREM NothingTwice == Spec => []ProcessedOnce
<1>1. JobsInv => ProcessedOnce
  <2> SUFFICES ASSUME JobsInv, crashes = 0 PROVE
         /\ \A i \in Items \ shared : moments[i] <= 1
         /\ \A m, n \in DOMAIN claims :
              /\ m < n /\ claims[m].item \notin shared
              /\ <<claims[m].item, claims[m].fact>> = <<claims[n].item, claims[n].fact>>
              => claims[n].over # {}
    BY DEF ProcessedOnce
  <2>1. \A i \in Items \ shared : EventOnce(i) /\ ClaimOnce(i)
    BY DEF JobsInv, Once
  <2>2. \A n \in DOMAIN claims : claims[n].item \in Items
    BY StatedClaims DEF JobsInv, Stated
  <2> QED BY <2>1, <2>2 DEF EventOnce, ClaimOnce
<1> QED BY <1>1, JobsSound, PTL

(* w has item i in its queue; in its queue or in hand. *)
InQueue(w, i) == \E q \in run[w].queue : q.item = i
Holds(w, i)   == Has(w, i) \/ InQueue(w, i)

(* A job that runs, and lately said so. *)
Fresh(x) == x.state = "running" /\ x.beat = "fresh"

(* No item is in two queues of a worker, or in its hand and its queue. *)
Neat(x) ==
  /\ x.at # "idle" => ~ \E q \in x.queue : q.item = x.item
  /\ \A q, r \in x.queue : q.item = r.item => q = r

(* What a worker holds, no other does, and it is fresh. *)
Excl ==
  /\ \A w \in Worker, i \in Items : Holds(w, i) => Fresh(job[i])
  /\ \A v, w \in Worker, i \in Items : Holds(v, i) /\ Holds(w, i) => v = w
  /\ \A w \in Worker : Neat(run[w])

(* Every worker claims, and no job outlasts its heartbeat. *)
OneEach == ~ SlowJobs /\ Claiming = Worker

(* Nobody takes anything new, and what is held goes on fresh. *)
LEMMA HeldLess ==
  ASSUME Excl,
         \A v \in Worker, i \in Items : Holds(v, i)' => Holds(v, i) /\ Fresh(job'[i]),
         \A w \in Worker : Neat(run'[w])
  PROVE  Excl'
BY DEF Excl

(* Nothing held changes hands.                                              *)
LEMMA HeldSame ==
  ASSUME Excl, run' = run,
         \A i \in Items : (\E w \in Worker : Holds(w, i)) /\ Fresh(job[i]) => Fresh(job'[i])
  PROVE  Excl'
<1>1. \A v \in Worker, i \in Items : Holds(v, i)' => Holds(v, i) /\ Fresh(job'[i])
  BY DEF Excl, Holds, Has, At, Mine, InQueue
<1> QED BY <1>1, HeldLess DEF Excl

(* Time runs out on no job that is held, and requeues take none.            *)
LEMMA HeldWorld ==
  ASSUME OneEach, Typed, Excl,
         \/ \E i \in Items : Poll(i) \/ GoStale(i) \/ BackoffOver(i) \/ CancelJob(i)
         \/ RecoverStale \/ RetryDeadLetters
  PROVE  Excl'
<1>1. run' = run
  BY DEF Poll, GoStale, BackoffOver, CancelJob, RecoverStale, RetryDeadLetters
<1>2. ASSUME NEW i \in Items, NEW w \in Worker, Holds(w, i), Fresh(job[i])
      PROVE  Fresh(job'[i])
  <2>1. ASSUME NEW j \in Items, Poll(j) PROVE job'[i] = job[i]
    BY <1>2, <2>1 DEF Poll, Fresh, Typed
  <2>2. ASSUME NEW j \in Items, GoStale(j) PROVE job'[i] = job[i]
    <3>1. InHand(i) \/ Queued(i)
      BY <1>2 DEF Holds, Has, InQueue, InHand, Queued, OneEach
    <3>2. i # j
      BY <2>2, <3>1 DEF GoStale, OneEach
    <3> QED BY <2>2, <3>2 DEF GoStale, Typed
  <2>3. ASSUME NEW j \in Items, BackoffOver(j) PROVE job'[i] = job[i]
    BY <1>2, <2>3 DEF BackoffOver, Fresh, Typed
  <2>4. ASSUME NEW j \in Items, CancelJob(j) PROVE job'[i] = job[i]
    BY <1>2, <2>4 DEF CancelJob, Fresh, Typed
  <2>5. ASSUME RecoverStale PROVE job'[i] = job[i]
    BY <1>2, <2>5 DEF RecoverStale, Stale, Fresh
  <2>6. ASSUME RetryDeadLetters PROVE job'[i] = job[i]
    BY <1>2, <2>6 DEF RetryDeadLetters, Fresh
  <2> QED BY <1>2, <2>1, <2>2, <2>3, <2>4, <2>5, <2>6
<1> QED BY <1>1, <1>2, HeldSame

(* ClaimBatch: what is ready is held by nobody.                             *)
LEMMA HeldClaim ==
  ASSUME NEW w \in Worker
  PROVE  Typed /\ Excl /\ ClaimBatch(w) => Excl'
<1> SUFFICES ASSUME Typed, Excl, ClaimBatch(w) PROVE Excl'
  OBVIOUS
<1> DEFINE got == {i \in Items : Ready(i)}
           q == {[item |-> i, tries |-> -1] : i \in got}
<1>1. /\ run[w].at = "idle" /\ run[w].queue = {} /\ run'[w].at = "idle" /\ run'[w].queue = q
      /\ \A v \in Worker \ {w} : run'[v] = run[v]
  <2>1. run[w].at = "idle" /\ run[w].queue = {} /\ run' = [run EXCEPT ![w].queue = q]
    BY DEF ClaimBatch, At
  <2> HIDE DEF q
  <2> QED BY <2>1 DEF Typed, Run
<1>2. /\ \A i \in got : Fresh(job'[i])
      /\ \A i \in Items \ got : job'[i] = job[i]
  <2>1. job' = [i \in Items |-> IF i \in got THEN [job[i] EXCEPT !.state = "running", !.beat = "fresh"]
                               ELSE job[i]]
    BY DEF ClaimBatch
  <2>2. \A i \in Items : Fresh([job[i] EXCEPT !.state = "running", !.beat = "fresh"])
    BY DEF Typed, Job, Fresh
  <2>3. got \subseteq Items
    OBVIOUS
  <2> HIDE DEF got
  <2>4. \A i \in got : job'[i] = [job[i] EXCEPT !.state = "running", !.beat = "fresh"]
    BY <2>1, <2>3
  <2> QED BY <2>1, <2>2, <2>3, <2>4
<1>3. \A i \in got, v \in Worker : ~ Holds(v, i)
  BY DEF Excl, Ready, Fresh
<1>4. \A i \in Items : Holds(w, i)' <=> i \in got
  <2>1. \A i : (\E r \in q : r.item = i) <=> i \in got
    <3> HIDE DEF got
    <3>1. ASSUME NEW i \in got PROVE \E r \in q : r.item = i
      <4>1. [item |-> i, tries |-> -1] \in q /\ [item |-> i, tries |-> -1].item = i
        OBVIOUS
      <4> QED BY <4>1
    <3>2. ASSUME NEW r \in q PROVE r.item \in got
      OBVIOUS
    <3> QED BY <3>1, <3>2
  <2> HIDE DEF q, got
  <2> QED BY <1>1, <2>1 DEF Holds, Has, At, Mine, InQueue
<1>5. \A v \in Worker \ {w}, i \in Items : Holds(v, i)' <=> Holds(v, i)
  BY <1>1 DEF Holds, Has, At, Mine, InQueue
<1>6. Neat(run'[w])
  BY <1>1 DEF Neat
<1>7. \A v \in Worker : Neat(run'[v])
  BY <1>1, <1>6 DEF Excl
<1> HIDE DEF got, q
<1>8. ASSUME NEW v \in Worker, NEW i \in Items, Holds(v, i)'
      PROVE  Fresh(job'[i]) /\ (v # w => i \notin got)
  <2>1. CASE v = w
    BY <1>2, <1>4, <1>8, <2>1
  <2>2. CASE v # w
    BY <1>2, <1>3, <1>5, <1>8, <2>2 DEF Excl
  <2> QED BY <2>1, <2>2
<1>9. ASSUME NEW u \in Worker, NEW v \in Worker, NEW i \in Items, Holds(u, i)', Holds(v, i)'
      PROVE  u = v
  BY <1>4, <1>5, <1>8, <1>9 DEF Excl
<1> QED BY <1>7, <1>8, <1>9 DEF Excl

(* Start: the item leaves the queue for the hand.                           *)
LEMMA HeldStart ==
  ASSUME NEW w \in Worker
  PROVE  Typed /\ Excl /\ Start(w) => Excl'
<1> SUFFICES ASSUME Typed, Excl, Start(w) PROVE Excl'
  OBVIOUS
<1>1. PICK q \in run[w].queue :
        /\ job' = [job EXCEPT ![q.item].state = "running", ![q.item].beat = "fresh"]
        /\ run' = [run EXCEPT ![w] =
             [Resting EXCEPT !.at = "extract", !.queue = run[w].queue \ {q}, !.item = q.item,
                             !.tries = IF w \in Claiming THEN job[q.item].attempts ELSE q.tries,
                             !.anchor = q.item \in Anchored(w)]]
  BY DEF Start
<1>2. run[w].at = "idle" /\ q.item \in Items
  BY Pieces DEF Start, At
<1>3. /\ run'[w].at = "extract" /\ run'[w].item = q.item /\ run'[w].queue = run[w].queue \ {q}
      /\ \A v \in Worker \ {w} : run'[v] = run[v]
  BY <1>1 DEF Typed, Resting
<1>4. Fresh(job'[q.item]) /\ \A i \in Items \ {q.item} : job'[i] = job[i]
  BY <1>1, <1>2 DEF Typed, Job, Fresh
<1>5. ASSUME NEW v \in Worker, NEW i \in Items, Holds(v, i)'
      PROVE  Holds(v, i) /\ Fresh(job'[i])
  <2>1. Holds(v, i)
    <3>1. CASE v = w
      BY <1>3, <1>5, <3>1 DEF Holds, Has, At, Mine, InQueue
    <3>2. CASE v # w
      BY <1>3, <1>5, <3>2 DEF Holds, Has, At, Mine, InQueue
    <3> QED BY <3>1, <3>2
  <2> QED BY <1>4, <2>1 DEF Excl
<1>6. Neat(run'[w])
  <2>1. Neat(run[w]) /\ run[w].queue \subseteq [item : Items, tries : Int]
    BY Pieces DEF Excl
  <2> QED BY <1>3, <2>1 DEF Neat
<1>7. \A v \in Worker : Neat(run'[v])
  BY <1>3, <1>6 DEF Excl
<1> QED BY <1>5, <1>7, HeldLess

(* A worker goes on with its item. *)
LEMMA HeldOn ==
  ASSUME NEW w \in Worker
  PROVE  Typed /\ Excl
         /\ (Extract(w) \/ RecordEvent(w) \/ Reinforce(w) \/ Decide(w) \/ Store(w) \/ Derive(w))
           => Excl'
<1> SUFFICES ASSUME Typed, Excl,
                    Extract(w) \/ RecordEvent(w) \/ Reinforce(w) \/ Decide(w) \/ Store(w) \/ Derive(w)
             PROVE  Excl'
  OBVIOUS
<1>1. /\ run[w].at # "idle" /\ run'[w].at # "idle"
      /\ run'[w].item = run[w].item /\ run'[w].queue = run[w].queue
      /\ \A v \in Worker \ {w} : run'[v] = run[v]
  <2>1. run \in [Worker -> Run] /\ run[w].at # "idle"
    BY DEF Typed, At, Extract, RecordEvent, Reinforce, Decide, Store, Derive
  <2>2. CASE RecordEvent(w)
    BY <2>1, <2>2 DEF RecordEvent, Go, Run
  <2>3. CASE Decide(w) \/ Store(w)
    BY <2>1, <2>3 DEF Decide, Store, Run
  <2>4. CASE Extract(w) \/ Reinforce(w) \/ Derive(w)
    <3>1. AfterFact(w) # "idle"
      BY DEF AfterFact
    <3> QED BY <2>1, <2>4, <3>1 DEF Extract, Reinforce, Derive, Run
  <2> QED BY <2>2, <2>3, <2>4
<1>2. job' = job
  BY DEF Extract, RecordEvent, Reinforce, Decide, Store, Derive
<1>3. \A v \in Worker, i \in Items : Holds(v, i)' => Holds(v, i) /\ Fresh(job'[i])
  BY <1>1, <1>2 DEF Holds, Has, At, Mine, InQueue, Excl
<1>4. \A v \in Worker : Neat(run'[v])
  BY <1>1 DEF Excl, Neat
<1> QED BY <1>3, <1>4, HeldLess

(* A worker that is done holds its queue.                                   *)
LEMMA HeldLeave ==
  ASSUME NEW w \in Worker
  PROVE  Typed /\ Whole /\ Excl /\ (Complete(w) \/ ProviderDown(w) \/ BadFact(w) \/ Rejected(w))
           => Excl'
<1> SUFFICES ASSUME Typed, Whole, Excl, Complete(w) \/ ProviderDown(w) \/ BadFact(w) \/ Rejected(w)
             PROVE  Excl'
  OBVIOUS
<1>1. run[w].at # "idle" /\ Leave(w)
  BY DEF Complete, ProviderDown, BadFact, Rejected, Fail, At
<1>2. run[w].item \in Items
  BY <1>1, OnceFits
<1>3. \A i \in Items \ {run[w].item} : job'[i] = job[i]
  BY <1>2 DEF Complete, ProviderDown, BadFact, Rejected, Fail, Typed, Mine
<1>4. PICK x \in Run : /\ run' = [run EXCEPT ![w] = x] /\ x.at = "idle" /\ x.olds = {}
                       /\ x.queue = run[w].queue
  BY <1>1, LeaveRun
<1>5. run'[w] = x /\ \A v \in Worker \ {w} : run'[v] = run[v]
  BY <1>4, RunTyped
<1>6. ASSUME NEW v \in Worker, NEW i \in Items, Holds(v, i)'
      PROVE  Holds(v, i) /\ Fresh(job'[i])
  <2>1. CASE v = w
    <3>1. InQueue(w, i)
      BY <1>4, <1>5, <1>6, <2>1 DEF Holds, Has, At, Mine, InQueue
    <3>2. i # run[w].item
      BY <1>1, <3>1 DEF Excl, Neat, InQueue
    <3> QED BY <1>3, <2>1, <3>1, <3>2 DEF Excl, Holds
  <2>2. CASE v # w
    <3>1. Holds(v, i)
      BY <1>5, <1>6, <2>2 DEF Holds, Has, At, Mine, InQueue
    <3>2. Holds(w, run[w].item)
      BY <1>1 DEF Holds, Has, At, Mine
    <3>3. i # run[w].item
      BY <1>2, <2>2, <3>1, <3>2 DEF Excl
    <3> QED BY <1>3, <3>1, <3>3 DEF Excl
  <2> QED BY <2>1, <2>2
<1>7. \A v \in Worker : Neat(run'[v])
  BY <1>4, <1>5 DEF Excl, Neat
<1> QED BY <1>6, <1>7, HeldLess

(* A crash lets go.                                                         *)
LEMMA HeldCrash ==
  ASSUME NEW P \in Processes
  PROVE  Excl /\ Crash(P) => Excl'
<1> SUFFICES ASSUME Excl, Crash(P) PROVE Excl'
  OBVIOUS
<1>1. run' = [w \in Worker |-> IF w \in P THEN Resting ELSE run[w]] /\ job' = job
  BY DEF Crash
<1>2. \A v \in Worker, i \in Items : Holds(v, i)' => Holds(v, i) /\ Fresh(job'[i])
  BY <1>1 DEF Holds, Has, At, Mine, InQueue, Excl, Resting
<1>3. \A v \in Worker : Neat(run'[v])
  BY <1>1 DEF Excl, Neat, Resting
<1> QED BY <1>2, <1>3, HeldLess

(* Every step keeps jobs with one worker.                                   *)
LEMMA NextHeld ==
  IngestAssumption /\ OneEach /\ Typed /\ Whole /\ Excl /\ [Next]_vars => Excl'
<1> SUFFICES ASSUME OneEach, Typed, Whole, Excl, [Next]_vars PROVE Excl'
  OBVIOUS
<1>1. CASE \E w \in Worker : Work(w) \/ OutOfTime(w)
  <2> PICK w \in Worker : Work(w) \/ OutOfTime(w)
    BY <1>1
  <2>1. ~ Scan(w) /\ ~ OutOfTime(w)
    BY DEF Scan, OutOfTime, OneEach
  <2> QED BY <2>1, HeldClaim, HeldStart, HeldOn, HeldLeave DEF Work, ProcessOne
<1>2. CASE \E P \in Processes : Crash(P)
  BY <1>2, HeldCrash
<1>3. CASE UNCHANGED vars
  <2>1. run' = run /\ job' = job
    BY <1>3 DEF vars
  <2> QED BY <2>1, HeldSame
<1> QED BY <1>1, <1>2, <1>3, HeldWorld DEF Next

(* Workers that claim (claim_batch in worker.py) are never two on one job, if *)
(* no job outlasts the 60 s after which recover_stale hands it out again.   *)
THEOREM NeverTwiceAtOnce == ASSUME OneEach PROVE Spec => []NeverTwice
<1>1. Init => Excl
  BY DEF Init, Excl, Holds, Has, At, InQueue, Resting, Neat
<1>2. JobsInv /\ Excl /\ [Next]_vars => Excl'
  BY IngestAssumption, NextHeld DEF JobsInv
<1>3. Excl /\ JobsInv => NoDoubleRun
  <2> SUFFICES ASSUME Excl, JobsInv, NEW v \in Worker, NEW w \in Worker, v # w,
                      ~ At(v, "idle"), ~ At(w, "idle"), Mine(v) = Mine(w)
               PROVE  FALSE
    BY DEF NoDoubleRun
  <2>1. Mine(v) \in Items
    BY OnceFits DEF JobsInv, At, Mine
  <2> QED BY <2>1 DEF Excl, Holds, Has
<1> QED BY <1>1, <1>2, <1>3, JobsSound, JobsTyped, PTL DEF Spec, NeverTwice

(***************************************************************************)
(* II. Self-healing                                                        *)
(*                                                                         *)
(* A slot is taken in one step and given back in another, by a request     *)
(* that may die in between.  The invariant ties the two together: whoever  *)
(* repairs a component has its row, a row with a living owner belongs to a *)
(* request that is still at it, and only a fault leaves a row to nobody.   *)
(***************************************************************************)

FailureRow  == [of : Component, open : BOOLEAN, seen : {1, 2}]
RecoveryRow == [of : Component, plan : Permitted, recent : BOOLEAN,
                state : {"claimed", "verifying", "recovered", "escalated"}]

Recorded == {"repair", "verify", "recovered", "learned", "closing"}
Owning   == Recorded \cup {"claimed"}
Planned  == Owning \cup {"count", "insert"}
Report   == [at : Planned \cup {"idle", "again", "new", "recall"},
             of : Component \cup {"none"}, failure : Nat,
             plan : Permitted \cup {"none"}, rec : Nat]

(* What a request may rely on at each place of the loop. *)
Founded(x, n) ==
  /\ x.at # "idle" => x.of \in Component
  /\ x.at \in Planned => x.plan \in Permitted
  /\ x.at \in Recorded => x.rec \in 1..n

HealingTyped ==
  /\ failures \in Seq(FailureRow) /\ recoveries \in Seq(RecoveryRow)
  /\ slot \in [Component -> Thread \cup {"free", "nobody"}]
  /\ repaired \in [Component -> Permitted \cup {"none"}]
  /\ call \in [Thread -> Report]
  /\ \A t \in Thread : Founded(call[t], Len(recoveries))
  /\ reports \in 0..MaxReports /\ faults \in 0..MaxFaults

Owns(t, c) == call[t].at \in Owning /\ call[t].of = c

HealingInv ==
  /\ HealingTyped
  /\ \A t \in Thread, c \in Component : Owns(t, c) <=> slot[c] = t
  /\ faults = 0 => \A c \in Component : slot[c] # "nobody"

------------------------------------------------------------------------------
(* The newest of some rows is one of them. *)
LEMMA NewestIs ==
  ASSUME NEW n \in Nat, NEW S \in SUBSET (1..n), S # {}
  PROVE  Healing!Newest(S) \in S
<1> DEFINE R == OpToRel(<, Nat)
           T == {n - i : i \in S}
<1>1. T \subseteq Nat /\ T # {}
  <2>1. \A i \in S : i \in 1..n /\ n - i \in Nat
    OBVIOUS
  <2> QED BY <2>1
<1>2. PICK m \in T : \A k \in T : <<k, m>> \notin R
  <2>1. IsWellFoundedOn(R, Nat)
    BY NatLessThanWellFounded
  <2> QED BY <1>1, <2>1, WFMin
<1>3. PICK i \in S : m = n - i
  BY <1>2
<1>4. \A j \in S : j <= i
  <2> SUFFICES ASSUME NEW j \in S, ~ (j <= i) PROVE FALSE
    OBVIOUS
  <2>1. n - j \in T /\ n - j < m
    BY <1>3
  <2>2. <<n - j, m>> \in R
    BY <1>1, <1>2, <2>1 DEF OpToRel
  <2> QED BY <1>2, <2>1, <2>2
<1> QED BY <1>4 DEF Healing!Newest

(* Reading a typed call. *)
LEMMA CallGet ==
  ASSUME HealingInv, NEW t \in Thread
  PROVE  call[t] \in Report /\ Founded(call[t], Len(recoveries))
  BY DEF HealingInv, HealingTyped

(* The rows are unique: a component has one owner. *)
LEMMA OneOwner ==
  ASSUME HealingInv, NEW t \in Thread, NEW u \in Thread, NEW c \in Component, Owns(t, c), Owns(u, c)
  PROVE  t = u
  BY DEF HealingInv

(* A step of one request that neither takes nor returns a slot. *)
LEMMA MovesInv ==
  ASSUME HealingAssumption, HealingInv, NEW t \in Thread, NEW x \in Report,
         Healing!Moves(t, x),
         failures' \in Seq(FailureRow), recoveries' \in Seq(RecoveryRow),
         Len(recoveries') >= Len(recoveries),
         repaired' \in [Component -> Permitted \cup {"none"}],
         UNCHANGED <<slot, faults>>, reports' \in 0..MaxReports,
         Founded(x, Len(recoveries')),
         x.at \in Owning <=> call[t].at \in Owning,
         x.at \in Owning => x.of = call[t].of
  PROVE  HealingInv'
<1>1. /\ call' \in [Thread -> Report] /\ call'[t] = x
      /\ \A u \in Thread \ {t} : call'[u] = call[u]
  BY DEF Healing!Moves, HealingInv, HealingTyped
<1>2. \A u \in Thread : Founded(call[u], Len(recoveries'))
  <2>1. Len(recoveries) \in Nat /\ Len(recoveries') \in Nat
    BY DEF HealingInv, HealingTyped
  <2>2. 1..Len(recoveries) \subseteq 1..Len(recoveries')
    BY <2>1
  <2> QED BY <2>2, CallGet DEF Founded
<1>3. \A u \in Thread : Founded(call'[u], Len(recoveries'))
  BY <1>1, <1>2
<1>4. \A u \in Thread, c \in Component : Owns(u, c)' <=> Owns(u, c)
  BY <1>1 DEF Owns
<1> QED BY <1>1, <1>3, <1>4 DEF HealingInv, HealingTyped

(* Writing one field of one row keeps the rows. *)
LEMMA EntersRows ==
  ASSUME HealingInv, NEW t \in Thread, call[t].at \in Recorded,
         NEW s \in {"claimed", "verifying", "recovered", "escalated"}, Healing!Enters(t, s)
  PROVE  recoveries' \in Seq(RecoveryRow) /\ Len(recoveries') = Len(recoveries)
<1>1. recoveries \in Seq(RecoveryRow) /\ call[t].rec \in 1..Len(recoveries)
  BY CallGet DEF HealingInv, HealingTyped, Founded
<1>2. recoveries[call[t].rec] \in RecoveryRow
  BY <1>1, ElementOfSeq
<1>3. recoveries' = [recoveries EXCEPT ![call[t].rec] = [recoveries[call[t].rec] EXCEPT !.state = s]]
  BY <1>1 DEF Healing!Enters
<1>4. [recoveries[call[t].rec] EXCEPT !.state = s] \in RecoveryRow
  BY <1>2 DEF RecoveryRow
<1> QED BY <1>1, <1>3, <1>4, ExceptSeq

(* Capture, recall and plan: no slot is touched. *)
LEMMA CaptureInv ==
  ASSUME HealingAssumption, HealingInv, NEW t \in Thread, NEW c \in Component,
         Healing!Capture(t, c)
  PROVE  HealingInv'
<1> DEFINE again == [Healing!Idle EXCEPT !.at = "again", !.of = c,
                                  !.failure = Healing!Newest(Healing!OpenRows(c))]
           new   == [Healing!Idle EXCEPT !.at = "new", !.of = c]
<1>1. /\ call[t].at = "idle" /\ reports < MaxReports /\ reports' = reports + 1
      /\ UNCHANGED <<failures, recoveries, slot, repaired, faults>>
  BY DEF Healing!Capture
<1>2. /\ failures \in Seq(FailureRow) /\ Len(failures) \in Nat
      /\ recoveries \in Seq(RecoveryRow) /\ Len(recoveries) \in Nat
      /\ reports' \in 0..MaxReports
  BY <1>1 DEF HealingInv, HealingTyped, HealingAssumption
<1>3. new \in Report /\ new.at = "new" /\ Founded(new, Len(recoveries'))
  BY DEF Report, Healing!Idle, Healing!NoPlan, Planned, Owning, Recorded, Founded
<1>4. CASE Healing!OpenRows(c) # {}
  <2>1. Healing!OpenRows(c) \subseteq 1..Len(failures)
    BY <1>2 DEF Healing!OpenRows
  <2>2. Healing!Newest(Healing!OpenRows(c)) \in Nat
    <3>1. Healing!Newest(Healing!OpenRows(c)) \in Healing!OpenRows(c)
      BY <1>2, <1>4, <2>1, NewestIs
    <3> QED BY <1>2, <2>1, <3>1
  <2>3. again \in Report /\ again.at = "again" /\ Founded(again, Len(recoveries'))
    BY <2>2 DEF Report, Healing!Idle, Healing!NoPlan, Planned, Owning, Recorded, Founded
  <2>4. Healing!Moves(t, again)
    BY <1>4 DEF Healing!Capture
  <2> HIDE DEF again
  <2> QED BY <1>1, <1>2, <2>3, <2>4, MovesInv DEF HealingInv, HealingTyped, Owning, Recorded
<1>5. CASE Healing!OpenRows(c) = {}
  <2>1. Healing!Moves(t, new)
    BY <1>5 DEF Healing!Capture
  <2> HIDE DEF new
  <2> QED BY <1>1, <1>2, <1>3, <2>1, MovesInv DEF HealingInv, HealingTyped, Owning, Recorded
<1> QED BY <1>4, <1>5

(* The steps that write no slot. *)
LEMMA QuietInv ==
  ASSUME HealingAssumption, HealingInv, NEW t \in Thread,
         \/ Healing!CountAgain(t) \/ Healing!InsertFailure(t) \/ Healing!Decline(t)
         \/ Healing!Choose(t) \/ Healing!Count(t) \/ Healing!Execute(t) \/ Healing!Verified(t)
         \/ Healing!Learn(t) \/ Healing!Resolve(t) \/ Healing!Failed(t)
  PROVE  HealingInv'
<1> USE DEF Planned, Owning, Recorded
<1>0. call[t] \in Report /\ Founded(call[t], Len(recoveries))
  BY CallGet
<1>1. /\ failures \in Seq(FailureRow) /\ Len(failures) \in Nat /\ reports \in 0..MaxReports
      /\ recoveries \in Seq(RecoveryRow) /\ Len(recoveries) \in Nat
      /\ repaired \in [Component -> Permitted \cup {"none"}]
  BY DEF HealingInv, HealingTyped
<1>2. CASE Healing!CountAgain(t)
  <2> DEFINE x == [call[t] EXCEPT !.at = "recall"]
             k == call[t].failure
  <2>1. x \in Report /\ x.at = "recall" /\ Founded(x, Len(recoveries))
    BY <1>0, <1>2 DEF Report, Founded, Healing!CountAgain
  <2>2. failures' \in Seq(FailureRow)
    <3>1. failures' = [failures EXCEPT ![k].seen = 2]
      BY <1>2 DEF Healing!CountAgain
    <3>2. CASE k \in 1..Len(failures)
      <4>1. failures[k] \in FailureRow
        BY <1>1, <3>2, ElementOfSeq
      <4>2. [failures[k] EXCEPT !.seen = 2] \in FailureRow
        BY <4>1 DEF FailureRow
      <4> QED BY <1>1, <3>1, <3>2, <4>2, ExceptSeq
    <3>3. CASE k \notin 1..Len(failures)
      <4>1. failures' = failures
        BY <1>1, <3>1, <3>3
      <4> QED BY <1>1, <4>1
    <3> QED BY <3>2, <3>3
  <2>3. /\ Healing!Moves(t, x) /\ call[t].at = "again"
        /\ UNCHANGED <<recoveries, slot, repaired, reports, faults>>
    BY <1>2 DEF Healing!CountAgain, Healing!Goto
  <2> HIDE DEF x
  <2> QED BY <1>1, <2>1, <2>2, <2>3, MovesInv
<1>3. CASE Healing!InsertFailure(t)
  <2> DEFINE n == Len(failures) + 1
             x == [call[t] EXCEPT !.at = "recall", !.failure = n]
  <2>0. n \in Nat
    BY <1>1
  <2>1. /\ Healing!Moves(t, x) /\ call[t].at = "new"
        /\ failures' = Append(failures, [of |-> call[t].of, open |-> TRUE, seen |-> 1])
        /\ UNCHANGED <<recoveries, slot, repaired, reports, faults>>
    BY <1>3 DEF Healing!InsertFailure
  <2>2. x \in Report /\ x.at = "recall" /\ Founded(x, Len(recoveries))
    <3> HIDE DEF n
    <3> QED BY <1>0, <2>0, <2>1 DEF Report, Founded
  <2>3. [of |-> call[t].of, open |-> TRUE, seen |-> 1] \in FailureRow
    BY <1>0, <1>1, <2>1 DEF Founded, FailureRow
  <2>4. failures' \in Seq(FailureRow)
    BY <1>1, <2>1, <2>3, AppendProperties
  <2> HIDE DEF x
  <2>5. x.at \in Owning <=> call[t].at \in Owning
    BY <2>1, <2>2
  <2>6. recoveries' \in Seq(RecoveryRow) /\ Len(recoveries') >= Len(recoveries)
    BY <1>1, <2>1
  <2>7. /\ repaired' \in [Component -> Permitted \cup {"none"}] /\ reports' \in 0..MaxReports
        /\ UNCHANGED <<slot, faults>> /\ Founded(x, Len(recoveries'))
    BY <1>1, <2>1, <2>2
  <2>8. x.at \notin Owning
    BY <2>2
  <2> HIDE DEF Owning
  <2> QED BY <2>1, <2>2, <2>4, <2>5, <2>6, <2>7, <2>8, MovesInv
<1>4. CASE Healing!Decline(t)
  <2>1. /\ Healing!Moves(t, Healing!Idle) /\ call[t].at = "recall"
        /\ UNCHANGED <<failures, recoveries, slot, repaired, reports, faults>>
    BY <1>4 DEF Healing!Decline
  <2>2. /\ Healing!Idle \in Report /\ Healing!Idle.at = "idle"
        /\ Founded(Healing!Idle, Len(recoveries))
    BY DEF Healing!Idle, Healing!NoPlan, Report, Founded
  <2> QED BY <1>1, <2>1, <2>2, MovesInv
<1>5. CASE Healing!Choose(t)
  <2>1. PICK p \in Permitted :
          /\ Healing!Moves(t, [call[t] EXCEPT !.at = "count", !.plan = p]) /\ call[t].at = "recall"
          /\ UNCHANGED <<failures, recoveries, slot, repaired, reports, faults>>
    BY <1>5 DEF Healing!Choose
  <2> DEFINE x == [call[t] EXCEPT !.at = "count", !.plan = p]
  <2>2. x \in Report /\ x.at = "count" /\ Founded(x, Len(recoveries))
    BY <1>0, <1>1, <2>1 DEF Report, Founded
  <2>3. Healing!Moves(t, x)
    BY <2>1
  <2> HIDE DEF x
  <2> QED BY <1>1, <2>1, <2>2, <2>3, MovesInv
<1>6. CASE Healing!Count(t)
  <2> DEFINE x == [call[t] EXCEPT !.at = "insert"]
  <2>1. /\ Healing!Moves(t, x) \/ Healing!Moves(t, Healing!Idle)
        /\ call[t].at = "count"
        /\ UNCHANGED <<failures, recoveries, slot, repaired, reports, faults>>
    BY <1>6 DEF Healing!Count, Healing!Goto
  <2>2. x \in Report /\ x.at = "insert" /\ Founded(x, Len(recoveries))
    BY <1>0, <2>1 DEF Report, Founded
  <2>3. /\ Healing!Idle \in Report /\ Healing!Idle.at = "idle"
        /\ Founded(Healing!Idle, Len(recoveries))
    BY DEF Healing!Idle, Healing!NoPlan, Report, Founded
  <2> HIDE DEF x
  <2> QED BY <1>1, <2>1, <2>2, <2>3, MovesInv
<1>7. CASE Healing!Learn(t)
  <2> DEFINE x == [call[t] EXCEPT !.at = "learned"]
  <2>1. /\ Healing!Moves(t, x) /\ call[t].at = "recovered"
        /\ repaired' = [repaired EXCEPT ![call[t].of] = call[t].plan]
        /\ UNCHANGED <<failures, recoveries, slot, reports, faults>>
    BY <1>7 DEF Healing!Learn, Healing!Goto
  <2>2. x \in Report /\ x.at = "learned" /\ x.of = call[t].of /\ Founded(x, Len(recoveries))
    BY <1>0, <2>1 DEF Report, Founded
  <2>3. repaired' \in [Component -> Permitted \cup {"none"}]
    BY <1>0, <1>1, <2>1 DEF Founded
  <2> HIDE DEF x
  <2> QED BY <1>1, <2>1, <2>2, <2>3, MovesInv
<1>8. CASE Healing!Resolve(t)
  <2> DEFINE x == [call[t] EXCEPT !.at = "closing"]
             k == call[t].failure
  <2>1. /\ Healing!Moves(t, x) /\ call[t].at = "learned"
        /\ failures' = [failures EXCEPT ![k].open = FALSE]
        /\ UNCHANGED <<recoveries, slot, repaired, reports, faults>>
    BY <1>8 DEF Healing!Resolve, Healing!Goto
  <2>2. x \in Report /\ x.at = "closing" /\ x.of = call[t].of /\ Founded(x, Len(recoveries))
    BY <1>0, <2>1 DEF Report, Founded
  <2>3. failures' \in Seq(FailureRow)
    <3>1. CASE k \in 1..Len(failures)
      <4>1. failures[k] \in FailureRow
        BY <1>1, <3>1, ElementOfSeq
      <4>2. [failures[k] EXCEPT !.open = FALSE] \in FailureRow
        BY <4>1 DEF FailureRow
      <4> QED BY <1>1, <2>1, <3>1, <4>2, ExceptSeq
    <3>2. CASE k \notin 1..Len(failures)
      <4>1. failures' = failures
        BY <1>1, <2>1, <3>2
      <4> QED BY <1>1, <4>1
    <3> QED BY <3>1, <3>2
  <2>4. recoveries' \in Seq(RecoveryRow) /\ Len(recoveries') >= Len(recoveries)
    BY <1>1, <2>1
  <2>5. /\ repaired' \in [Component -> Permitted \cup {"none"}] /\ reports' \in 0..MaxReports
        /\ UNCHANGED <<slot, faults>> /\ Founded(x, Len(recoveries'))
    BY <1>1, <2>1, <2>2
  <2> HIDE DEF x
  <2> QED BY <2>1, <2>2, <2>3, <2>4, <2>5, MovesInv
<1>9. CASE Healing!Execute(t) \/ Healing!Verified(t) \/ Healing!Failed(t)
  <2>1. PICK ph \in {"verify", "recovered", "closing"},
             s \in {"verifying", "recovered", "escalated"} :
          /\ Healing!Moves(t, [call[t] EXCEPT !.at = ph]) /\ call[t].at \in {"repair", "verify"}
          /\ Healing!Enters(t, s)
          /\ UNCHANGED <<failures, slot, repaired, reports, faults>>
    BY <1>9 DEF Healing!Execute, Healing!Verified, Healing!Failed, Healing!Goto
  <2> DEFINE x == [call[t] EXCEPT !.at = ph]
  <2>2. recoveries' \in Seq(RecoveryRow) /\ Len(recoveries') = Len(recoveries)
    BY <2>1, EntersRows
  <2>3. x \in Report /\ x.at = ph /\ x.of = call[t].of /\ Founded(x, Len(recoveries'))
    BY <1>0, <2>1, <2>2 DEF Report, Founded
  <2>4. Healing!Moves(t, x)
    BY <2>1
  <2> HIDE DEF x
  <2> QED BY <1>1, <2>1, <2>2, <2>3, <2>4, MovesInv
<1> QED BY <1>2, <1>3, <1>4, <1>5, <1>6, <1>7, <1>8, <1>9

(* A recovery row is inserted by whoever has taken the slot. *)
LEMMA InsertRecoveryInv ==
  ASSUME HealingAssumption, HealingInv, NEW t \in Thread, Healing!InsertRecovery(t)
  PROVE  HealingInv'
<1> DEFINE n == Len(recoveries) + 1
           x == [call[t] EXCEPT !.at = "repair", !.rec = n]
           r == [of |-> call[t].of, plan |-> call[t].plan, state |-> "claimed", recent |-> TRUE]
<1> USE DEF Planned, Owning, Recorded
<1>0. call[t] \in Report /\ Founded(call[t], Len(recoveries))
  BY CallGet
<1>1. /\ failures \in Seq(FailureRow) /\ reports \in 0..MaxReports
      /\ recoveries \in Seq(RecoveryRow) /\ Len(recoveries) \in Nat
      /\ repaired \in [Component -> Permitted \cup {"none"}]
  BY DEF HealingInv, HealingTyped
<1>2. /\ Healing!Moves(t, x) /\ call[t].at = "claimed" /\ recoveries' = Append(recoveries, r)
      /\ UNCHANGED <<failures, slot, repaired, reports, faults>>
  BY DEF Healing!InsertRecovery
<1>3. r \in RecoveryRow
  BY <1>0, <1>2 DEF Founded, RecoveryRow
<1>4. recoveries' \in Seq(RecoveryRow) /\ Len(recoveries') = Len(recoveries) + 1
  BY <1>1, <1>2, <1>3, AppendProperties
<1>5. x \in Report /\ x.at = "repair" /\ x.of = call[t].of /\ Founded(x, Len(recoveries'))
  <2>1. n \in Nat /\ n = Len(recoveries') /\ n \in 1..Len(recoveries')
    BY <1>1, <1>4
  <2> HIDE DEF n
  <2> QED BY <1>0, <1>2, <2>1 DEF Founded, Report
<1> HIDE DEF x, r
<1> QED BY <1>1, <1>2, <1>4, <1>5, MovesInv

(* A request leaves the loop, or is killed: it owns nothing, and is typed. *)
LEMMA IdleReport ==
  ASSUME NEW n \in Nat
  PROVE  Healing!Idle \in Report /\ Founded(Healing!Idle, n) /\ Healing!Idle.at = "idle"
  BY DEF Healing!Idle, Healing!NoPlan, Report, Founded, Planned, Owning, Recorded

(* The row is inserted only where there is none. *)
LEMMA ClaimInv ==
  ASSUME HealingAssumption, HealingInv, NEW t \in Thread, Healing!Claim(t)
  PROVE  HealingInv'
<1> DEFINE c == call[t].of
           x == [call[t] EXCEPT !.at = "claimed"]
<1>1. /\ call[t] \in Report /\ Founded(call[t], Len(recoveries)) /\ call[t].at = "insert"
      /\ UNCHANGED <<failures, recoveries, repaired, reports, faults>>
  BY CallGet DEF Healing!Claim
<1>2. c \in Component
  BY <1>1 DEF Founded
<1>3. CASE slot[c] # "free"
  <2>1. Healing!Moves(t, Healing!Idle) /\ UNCHANGED slot
    BY <1>3 DEF Healing!Claim, Healing!Free
  <2>2. Len(recoveries) \in Nat
    BY DEF HealingInv, HealingTyped
  <2> QED BY <1>1, <2>1, <2>2, IdleReport, MovesInv DEF HealingInv, HealingTyped, Owning, Recorded
<1>4. CASE slot[c] = "free"
  <2>1. /\ slot' = [slot EXCEPT ![c] = t] /\ call' = [call EXCEPT ![t] = x]
    BY <1>4 DEF Healing!Claim, Healing!Free, Healing!Goto, Healing!Moves
  <2>2. x \in Report /\ x.at = "claimed" /\ x.of = c /\ Founded(x, Len(recoveries))
    BY <1>1 DEF Report, Founded, Planned, Owning, Recorded
  <2>3. /\ call' \in [Thread -> Report] /\ call'[t] = x
        /\ \A u \in Thread \ {t} : call'[u] = call[u]
    BY <2>1, <2>2 DEF HealingInv, HealingTyped
  <2>4. /\ slot' \in [Component -> Thread \cup {"free", "nobody"}] /\ slot'[c] = t
        /\ \A d \in Component \ {c} : slot'[d] = slot[d]
    BY <1>2, <2>1 DEF HealingInv, HealingTyped
  <2>5. \A d \in Component : Owns(t, d)' <=> d = c
    BY <2>2, <2>3 DEF Owns, Owning
  <2>6. \A d \in Component : slot[d] # t
    BY <1>1 DEF HealingInv, Owns, Owning, Recorded
  <2>7. \A u \in Thread \ {t}, d \in Component : Owns(u, d)' <=> Owns(u, d)
    BY <2>3 DEF Owns
  <2>8. \A u \in Thread : slot[c] # u
    BY <1>4 DEF HealingAssumption, Healing!Free
  <2>9. \A u \in Thread, d \in Component : Owns(u, d)' <=> slot'[d] = u
    BY <1>2, <2>4, <2>5, <2>6, <2>7, <2>8 DEF HealingInv
  <2>10. \A u \in Thread : Founded(call'[u], Len(recoveries'))
    BY <1>1, <2>2, <2>3, CallGet
  <2>11. \A d \in Component : slot'[d] = "nobody" => slot[d] = "nobody"
    BY <2>4 DEF HealingAssumption, Healing!Lost
  <2> HIDE DEF x, c
  <2> QED BY <1>1, <2>3, <2>4, <2>9, <2>10, <2>11 DEF HealingInv, HealingTyped
<1> QED BY <1>3, <1>4

(* Some requests are gone, and what they held with them. *)
LEMMA LetGoInv ==
  ASSUME HealingAssumption, HealingInv, NEW G \in SUBSET Thread,
         call' = [t \in Thread |-> IF t \in G THEN Healing!Idle ELSE call[t]],
         slot' \in [Component -> Thread \cup {"free", "nobody"}],
         \A c \in Component : slot'[c] = slot[c] \/ (slot[c] \in G /\ slot'[c] \notin Thread),
         \A c \in Component : slot'[c] \notin G,
         faults' \in 0..MaxFaults,
         faults' = 0 => faults = 0 /\ \A c \in Component : slot'[c] = "nobody" => slot[c] = "nobody",
         UNCHANGED <<failures, recoveries, repaired, reports>>
  PROVE  HealingInv'
<1>1. Len(recoveries) \in Nat
  BY DEF HealingInv, HealingTyped
<1>2. \A t \in Thread : call'[t] \in Report /\ Founded(call'[t], Len(recoveries'))
  BY <1>1, IdleReport, CallGet
<1>3. call' \in [Thread -> Report]
  BY <1>2
<1>4. \A t \in Thread, c \in Component : Owns(t, c)' <=> t \notin G /\ Owns(t, c)
  BY <1>1, IdleReport DEF Owns, Owning, Recorded
<1>5. \A t \in Thread, c \in Component : Owns(t, c)' <=> slot'[c] = t
  BY <1>4 DEF HealingInv
<1> QED BY <1>2, <1>3, <1>5 DEF HealingInv, HealingTyped

(* Whoever closes gives its own row back, and no other. *)
LEMMA ReleaseInv ==
  ASSUME HealingAssumption, HealingInv, NEW t \in Thread, Healing!Release(t)
  PROVE  HealingInv'
<1> DEFINE c == call[t].of
<1>1. /\ call[t].at = "closing" /\ call' = [call EXCEPT ![t] = Healing!Idle]
      /\ slot' = [slot EXCEPT ![c] = IF slot[c] = t THEN "free" ELSE slot[c]]
      /\ UNCHANGED <<failures, recoveries, repaired, reports, faults>>
  BY DEF Healing!Release, Healing!Moves, Healing!Free
<1>2. c \in Component /\ Owns(t, c)
  BY <1>1, CallGet DEF Founded, Owns, Owning, Recorded
<1>3. slot[c] = t /\ \A d \in Component \ {c} : slot[d] # t
  BY <1>2 DEF HealingInv, Owns
<1>4. /\ slot' \in [Component -> Thread \cup {"free", "nobody"}] /\ slot'[c] = "free"
      /\ \A d \in Component \ {c} : slot'[d] = slot[d]
  BY <1>1, <1>2, <1>3 DEF HealingInv, HealingTyped
<1> DEFINE G == {t}
<1>5. G \in SUBSET Thread /\ call' = [u \in Thread |-> IF u \in G THEN Healing!Idle ELSE call[u]]
  BY <1>1 DEF HealingInv, HealingTyped
<1>6. "free" \notin Thread
  BY DEF HealingAssumption, Healing!Free
<1>7. faults' = faults /\ faults \in 0..MaxFaults
  BY <1>1 DEF HealingInv, HealingTyped
<1>8. \A d \in Component : slot'[d] = slot[d] \/ (slot[d] \in G /\ slot'[d] \notin Thread)
  BY <1>3, <1>4, <1>6
<1>9. \A d \in Component : slot'[d] \notin G
  BY <1>3, <1>4, <1>6
<1>10. \A d \in Component : slot'[d] = "nobody" => slot[d] = "nobody"
  BY <1>4
<1> HIDE DEF c, G
<1> QED BY ZenonT(40), <1>1, <1>4, <1>5, <1>7, <1>8, <1>9, <1>10, LetGoInv

(* An internal error and a crash leave the rows they held to nobody. *)
LEMMA FaultInv ==
  ASSUME HealingAssumption, HealingInv, (\E t \in Thread : Healing!Raises(t)) \/ Healing!Crash
  PROVE  HealingInv'
<1>1. PICK G \in SUBSET Thread :
        /\ call' = [u \in Thread |-> IF u \in G THEN Healing!Idle ELSE call[u]]
        /\ slot' = [c \in Component |-> IF slot[c] \in G THEN "nobody" ELSE slot[c]]
        /\ faults < MaxFaults /\ faults' = faults + 1
        /\ UNCHANGED <<failures, recoveries, repaired, reports>>
  <2>1. ASSUME Healing!Crash
        PROVE  /\ call' = [u \in Thread |-> IF u \in Thread THEN Healing!Idle ELSE call[u]]
               /\ slot' = [c \in Component |-> IF slot[c] \in Thread THEN "nobody" ELSE slot[c]]
               /\ faults < MaxFaults /\ faults' = faults + 1
               /\ UNCHANGED <<failures, recoveries, repaired, reports>>
    BY <2>1 DEF Healing!Crash, Healing!Lost
  <2>2. ASSUME NEW t \in Thread, Healing!Raises(t)
        PROVE  /\ call' = [u \in Thread |-> IF u \in {t} THEN Healing!Idle ELSE call[u]]
               /\ slot' = [c \in Component |-> IF slot[c] \in {t} THEN "nobody" ELSE slot[c]]
               /\ faults < MaxFaults /\ faults' = faults + 1
               /\ UNCHANGED <<failures, recoveries, repaired, reports>>
    BY <2>2 DEF Healing!Raises, Healing!Moves, Healing!Lost, HealingInv, HealingTyped
  <2>3. CASE Healing!Crash
    <3>1. Thread \in SUBSET Thread
      OBVIOUS
    <3> QED BY <2>1, <2>3, <3>1
  <2>4. CASE \E t \in Thread : Healing!Raises(t)
    <3>1. PICK t \in Thread : Healing!Raises(t)
      BY <2>4
    <3>2. {t} \in SUBSET Thread
      OBVIOUS
    <3> QED BY <2>2, <3>1, <3>2
  <2> QED BY <2>3, <2>4
<1>2. "nobody" \notin Thread
  BY DEF HealingAssumption, Healing!Lost
<1>3. slot' \in [Component -> Thread \cup {"free", "nobody"}]
  BY <1>1 DEF HealingInv, HealingTyped
<1>4. faults' \in 0..MaxFaults /\ faults' # 0
  BY <1>1 DEF HealingInv, HealingTyped, HealingAssumption
<1>5. \A c \in Component : slot'[c] = slot[c] \/ (slot[c] \in G /\ slot'[c] \notin Thread)
  BY <1>1, <1>2
<1>6. \A c \in Component : slot'[c] \notin G
  BY <1>1, <1>2
<1> QED BY <1>1, <1>3, <1>4, <1>5, <1>6, LetGoInv

LEMMA WindowInv ==
  ASSUME HealingAssumption, HealingInv, Healing!WindowPasses
  PROVE  HealingInv'
<1>1. /\ recoveries' = [i \in 1..Len(recoveries) |-> [recoveries[i] EXCEPT !.recent = FALSE]]
      /\ UNCHANGED <<failures, slot, repaired, call, reports, faults>>
      /\ recoveries \in Seq(RecoveryRow) /\ Len(recoveries) \in Nat
  BY DEF Healing!WindowPasses, HealingInv, HealingTyped
<1>2. \A i \in 1..Len(recoveries) : [recoveries[i] EXCEPT !.recent = FALSE] \in RecoveryRow
  <2> SUFFICES ASSUME NEW i \in 1..Len(recoveries)
               PROVE  [recoveries[i] EXCEPT !.recent = FALSE] \in RecoveryRow
    OBVIOUS
  <2>1. recoveries[i] \in RecoveryRow
    BY <1>1, ElementOfSeq
  <2> QED BY <2>1 DEF RecoveryRow
<1>3. recoveries' \in Seq(RecoveryRow) /\ Len(recoveries') = Len(recoveries)
  BY <1>1, <1>2
<1> QED BY <1>1, <1>3 DEF HealingInv, HealingTyped, Owns
------------------------------------------------------------------------------
LEMMA HealingStart ==
  ASSUME HealingAssumption, Healing!Init
  PROVE  HealingInv
<1>1. /\ failures = <<>> /\ recoveries = <<>> /\ Len(recoveries) = 0 /\ reports = 0 /\ faults = 0
      /\ slot = [c \in Component |-> "free"] /\ repaired = [c \in Component |-> "none"]
      /\ call = [t \in Thread |-> Healing!Idle]
  BY EmptySeq DEF Healing!Init, Healing!Free, Healing!NoPlan
<1>2. failures \in Seq(FailureRow) /\ recoveries \in Seq(RecoveryRow)
  BY <1>1, EmptySeq
<1>3. \A t \in Thread : call[t] \in Report /\ Founded(call[t], 0) /\ call[t].at = "idle"
  BY <1>1, IdleReport
<1>4. call \in [Thread -> Report]
  BY <1>1, <1>3
<1>5. \A t \in Thread, c \in Component : ~ Owns(t, c) /\ slot[c] # t /\ slot[c] = "free"
  BY <1>1, <1>3 DEF Owns, Owning, Recorded, HealingAssumption, Healing!Free
<1> QED BY <1>1, <1>2, <1>3, <1>4, <1>5 DEF HealingInv, HealingTyped, HealingAssumption

LEMMA HealingStep ==
  ASSUME HealingAssumption, HealingInv, [Healing!Next]_recovering
  PROVE  HealingInv'
<1>1. CASE UNCHANGED recovering
  BY <1>1 DEF recovering, HealingInv, HealingTyped, Owns
<1>2. CASE Healing!Crash \/ \E t \in Thread : Healing!Raises(t)
  BY <1>2, FaultInv
<1>3. CASE Healing!WindowPasses
  BY <1>3, WindowInv
<1>4. ASSUME NEW t \in Thread, Healing!Handle(t), ~ Healing!Raises(t)
      PROVE  HealingInv'
  <2>1. CASE \E c \in Component : Healing!Capture(t, c)
    BY <2>1, CaptureInv
  <2>2. CASE Healing!Claim(t)
    BY <2>2, ClaimInv
  <2>3. CASE Healing!InsertRecovery(t)
    BY <2>3, InsertRecoveryInv
  <2>4. CASE Healing!Release(t)
    BY <2>4, ReleaseInv
  <2> QED BY <1>4, <2>1, <2>2, <2>3, <2>4, QuietInv DEF Healing!Handle
<1> QED BY <1>1, <1>2, <1>3, <1>4 DEF Healing!Next

(* The instance counts as this module does. *)
LEMMA CountsAlike == \A S : Healing!Cardinality(S) = Cardinality(S)
  BY Zenon DEF Healing!Cardinality, Cardinality

LEMMA HealingFit ==
  ASSUME HealingInv
  PROVE  Healing!TypeOK /\ Healing!OneRecoveryAtATime /\ Healing!SlotsComeBack
<1>1. \A t \in Thread, c \in Component : t \in Healing!Recovering(c) <=> slot[c] = t
  BY DEF HealingInv, Owns, Owning, Recorded, Healing!Recovering
<1>2. Healing!TypeOK
  <2>1. /\ failures \in Seq(FailureRow) /\ recoveries \in Seq(RecoveryRow)
        /\ \A t \in Thread : Founded(call[t], Len(recoveries))
    BY DEF HealingInv, HealingTyped
  <2>2. /\ \A i \in DOMAIN failures : failures[i] \in FailureRow
        /\ \A i \in DOMAIN recoveries : recoveries[i] \in RecoveryRow
        /\ DOMAIN recoveries = 1..Len(recoveries)
    BY <2>1, LenProperties, ElementOfSeq
  <2> QED BY <2>1, <2>2 DEF HealingInv, HealingTyped, Healing!TypeOK, FailureRow, RecoveryRow,
             Founded, Recorded, Healing!Free, Healing!Lost, Healing!NoPlan
<1>3. Healing!OneRecoveryAtATime
  <2>1. ASSUME NEW c \in Component
        PROVE  /\ Cardinality(Healing!Recovering(c)) <= 1
               /\ \A t \in Healing!Recovering(c) : slot[c] = t
    <3>1. Healing!Recovering(c) \subseteq Thread
      BY DEF Healing!Recovering
    <3>2. Healing!Recovering(c) = {} \/ Healing!Recovering(c) = {slot[c]}
      BY <1>1, <3>1
    <3>3. Cardinality(Healing!Recovering(c)) \in {0, 1}
      BY <3>2, FS_EmptySet, FS_Singleton
    <3> QED BY <1>1, <3>1, <3>3
  <2> QED BY <2>1, CountsAlike DEF Healing!OneRecoveryAtATime
<1>4. Healing!SlotsComeBack
  BY <1>1 DEF HealingInv, HealingTyped, Healing!SlotsComeBack, Healing!Free
<1> QED BY <1>2, <1>3, <1>4

(* One recovery of a component at a time, in the row's name, and without a  *)
(* fault every slot comes back: for every set of threads, components and    *)
(* plans and every budget (healing.py, _claim and _release).                *)
THEOREM OneRecovery ==
  Healing!Spec => []Healing!OneRecoveryAtATime /\ []Healing!SlotsComeBack
<1>1. Healing!Init => HealingInv
  BY HealingAssumption, HealingStart
<1>2. HealingInv /\ [Healing!Next]_(Healing!vars) => HealingInv'
  BY HealingAssumption, HealingStep DEF Healing!vars, recovering
<1>3. HealingInv => Healing!OneRecoveryAtATime /\ Healing!SlotsComeBack
  BY HealingFit
<1> QED BY <1>1, <1>2, <1>3, PTL DEF Healing!Spec

(* The same of the model that the run checks, where workers on the jobs     *)
(* and recoveries take turns (MCWorkers).                                   *)
THEOREM SlotsAlwaysHold == WorkersSpec => []SlotsHold
<1>1. WorkersInit => HealingInv
  BY HealingAssumption, HealingStart DEF WorkersInit
<1>2. HealingInv /\ [JobsMove \/ HealingMoves]_all => HealingInv'
  <2> SUFFICES ASSUME HealingInv, [JobsMove \/ HealingMoves]_all PROVE HealingInv'
    OBVIOUS
  <2>1. [Healing!Next]_recovering
    BY DEF JobsMove, HealingMoves, Ingesting, all
  <2> QED BY <2>1, HealingAssumption, HealingStep
<1>3. HealingInv => SlotsHold
  BY HealingFit DEF SlotsHold
<1> QED BY <1>1, <1>2, <1>3, PTL DEF WorkersSpec
==================================================================================
