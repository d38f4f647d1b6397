------------------------------ MODULE IngestJobs ------------------------------
(***************************************************************************)
(* Connector items, their jobs, and the workers that turn them into claims *)
(* (server/ingest.py, claim_batch and run_worker in server/worker.py).     *)
(*                                                                         *)
(* Scanning workers are threads of the API process: the scheduler's tick   *)
(* and the routes that call process_pending.  Claiming workers are         *)
(* worker.py.  A worker is cut wherever it writes to the database, and     *)
(* what its process wrote since the last commit is lost when the process   *)
(* dies.  The engine appears as the list of claims that were recorded.     *)
(***************************************************************************)
EXTENDS Integers, SequencesExt

CONSTANTS
  NItems,           \* items of the connector: jobs are numbered as items are polled
  FactsOf,          \* item -> the facts extraction finds in it, in order
  Excluded,         \* items the classifier keeps out
  Malformed,        \* facts that make _process_one raise
  Weaker,           \* fact -> facts it supersedes (SUPERSEDES)
  Processes,        \* the processes, each a set of workers
  Claiming,         \* workers that claim in batches (worker.py)
  SlowJobs,         \* a job may outlast the 60 s of recover_stale
  MAX_ATTEMPTS,
  MaxOutages, MaxCrashes, MaxRequeues, MaxClaims      \* bounds of the instance

Items  == 1..NItems
Worker == UNION Processes
Fact   == UNION {ToSet(FactsOf[i]) : i \in Items}

ASSUME IngestAssumption ==
  /\ NItems \in Nat /\ \A i \in Items : FactsOf[i] \in Seq(Fact)
  /\ Excluded \subseteq Items /\ Malformed \subseteq Fact
  /\ Weaker \in [Fact -> SUBSET Fact]
  /\ \A P, Q \in Processes : P # Q => P \cap Q = {}
  /\ Claiming \subseteq Worker
  /\ SlowJobs \in BOOLEAN
  /\ {MAX_ATTEMPTS, MaxOutages, MaxCrashes, MaxRequeues, MaxClaims} \subseteq Nat
  \* an engine does not see the claims of another process (see WriterLock)
  /\ (\E P, Q \in Processes : P # Q) => \A f \in Fact : Weaker[f] = {}

VARIABLES
  job,       \* item -> its row of ingest_jobs
  anchored,  \* items whose source record has an event_id, committed
  printed,   \* facts with a row of fact_fingerprints, committed
  unsaved,   \* process -> [anchored, printed]: written, not committed
  moments,   \* item -> events recorded for it
  claims,    \* the claims recorded: [fact, item, over, open, grounded]
  run,       \* worker -> what it is doing
  outages, crashes, requeues,
  shared     \* history: items that two workers have had in hand at once

vars == <<job, anchored, printed, unsaved, moments, claims, run, outages, crashes, requeues,
          shared>>
counters == <<outages, crashes, requeues, shared>>

State == {"none", "pending", "running", "retrying", "completed", "dead_lettered", "cancelled"}
Settled == {"completed", "dead_lettered", "cancelled"}

NoJob == [state |-> "none", attempts |-> 0, due |-> TRUE, beat |-> "none"]
Nothing == [anchored |-> {}, printed |-> {}]
Resting == [at |-> "idle", queue |-> {}, item |-> 0, tries |-> 0, anchor |-> FALSE,
            todo |-> <<>>, olds |-> {}]

Init ==
  /\ job = [i \in Items |-> NoJob]
  /\ anchored = {} /\ printed = {}
  /\ unsaved = [P \in Processes |-> Nothing]
  /\ moments = [i \in Items |-> 0]
  /\ claims = <<>>
  /\ run = [w \in Worker |-> Resting]
  /\ outages = 0 /\ crashes = 0 /\ requeues = 0 /\ shared = {}

ProcessOf(w) == CHOOSE P \in Processes : w \in P

(* What the connection of w's process reads: its own writes included. *)
Anchored(w) == anchored \cup unsaved[ProcessOf(w)].anchored
Printed(w)  == printed \cup unsaved[ProcessOf(w)].printed

(* A commit of any thread saves what the connection has written. *)
Commit(w) ==
  /\ anchored' = Anchored(w)
  /\ printed' = Printed(w)
  /\ unsaved' = [unsaved EXCEPT ![ProcessOf(w)] = Nothing]

Go(w, at) == run' = [run EXCEPT ![w].at = at]
At(w, at) == run[w].at = at
Mine(w) == run[w].item
This(w) == Head(run[w].todo)
InHand(i) == \E w \in Worker : ~ At(w, "idle") /\ Mine(w) = i

------------------------------------------------------------------------------
(* poll_connector: one source record and one pending job for a new item. *)
Poll(i) ==
  /\ job[i].state = "none" /\ \A j \in Items : j < i => job[j].state # "none"
  /\ job' = [job EXCEPT ![i].state = "pending"]
  /\ UNCHANGED <<anchored, printed, unsaved, moments, claims, run, counters>>

Ready(i) == job[i].state = "pending" \/ (job[i].state = "retrying" /\ job[i].due)

(* process_pending reads the rows it is going to work through. *)
Scan(w) ==
  /\ At(w, "idle") /\ run[w].queue = {} /\ w \notin Claiming
  /\ \E i \in Items : Ready(i)
  /\ run' = [run EXCEPT ![w].queue =
       {[item |-> i, tries |-> job[i].attempts] : i \in {j \in Items : Ready(j)}}]
  /\ UNCHANGED <<job, anchored, printed, unsaved, moments, claims, counters>>

(* The time budget, a second at least, is spent: the rest stays as it is. *)
OutOfTime(w) ==
  /\ At(w, "idle") /\ run[w].queue # {} /\ Mine(w) # 0 /\ w \notin Claiming
  /\ run' = [run EXCEPT ![w] = Resting]
  /\ UNCHANGED <<job, anchored, printed, unsaved, moments, claims, counters>>

(* Mutant of ClaimBatch: the update does not look at the state again. *)
ClaimAny(w) ==
  /\ At(w, "idle") /\ run[w].queue = {} /\ w \in Claiming
  /\ \E i \in Items :
       /\ Ready(i) \/ job[i].state = "running"
       /\ job' = [job EXCEPT ![i].state = "running", ![i].beat = "fresh"]
       /\ run' = [run EXCEPT ![w].queue = {[item |-> i, tries |-> -1]}]
  /\ Commit(w)
  /\ UNCHANGED <<moments, claims, counters>>

(* claim_batch: every row goes to `running' only from a state that is ready. *)
ClaimBatch(w) ==
  /\ At(w, "idle") /\ run[w].queue = {} /\ w \in Claiming
  /\ LET got == {i \in Items : Ready(i)}
     IN  /\ got # {}
         /\ job' = [i \in Items |-> IF i \in got
                                    THEN [job[i] EXCEPT !.state = "running", !.beat = "fresh"]
                                    ELSE job[i]]
         /\ run' = [run EXCEPT ![w].queue = {[item |-> i, tries |-> -1] : i \in got}]
  /\ Commit(w)
  /\ UNCHANGED <<moments, claims, counters>>

(* The job of the least id comes first. *)
IsFirst(w, q) == \A r \in run[w].queue : q.item <= r.item

(* Mutant of Start: no heartbeat is written. *)
StartSilently(w) ==
  /\ At(w, "idle")
  /\ \E q \in run[w].queue :
       /\ IsFirst(w, q)
       /\ job' = [job EXCEPT ![q.item].state = "running"]
       /\ run' = [run EXCEPT ![w] =
            [Resting EXCEPT !.at = "extract", !.queue = run[w].queue \ {q}, !.item = q.item,
                            !.tries = q.tries, !.anchor = q.item \in Anchored(w)]]
  /\ Commit(w)
  /\ UNCHANGED <<moments, claims, counters>>

(* _process_one begins: the row is `running' whatever it was meanwhile.  A   *)
(* claimed job is read only now.                                            *)
Start(w) ==
  /\ At(w, "idle")
  /\ \E q \in run[w].queue :
       /\ IsFirst(w, q)
       /\ job' = [job EXCEPT ![q.item].state = "running", ![q.item].beat = "fresh"]
       /\ run' = [run EXCEPT ![w] =
            [Resting EXCEPT !.at = "extract", !.queue = run[w].queue \ {q}, !.item = q.item,
                            !.tries = IF w \in Claiming THEN job[q.item].attempts ELSE q.tries,
                            !.anchor = q.item \in Anchored(w)]]
       /\ shared' = shared \cup {i \in {q.item} : InHand(i)}
  /\ Commit(w)
  /\ UNCHANGED <<moments, claims, outages, crashes, requeues>>

(* Extraction finds the facts; an excluded or empty item ends its job. *)
Extract(w) ==
  /\ At(w, "extract")
  /\ LET facts == IF Mine(w) \in Excluded THEN <<>> ELSE FactsOf[Mine(w)]
     IN  run' = [run EXCEPT ![w].todo = facts,
                            ![w].at = IF facts = <<>> THEN "complete"
                                      ELSE IF run[w].anchor THEN "fact" ELSE "event"]
  /\ UNCHANGED <<job, anchored, printed, unsaved, moments, claims, counters>>

(* One event per source record; its id is saved by the next commit. *)
RecordEvent(w) ==
  /\ At(w, "event")
  /\ moments' = [moments EXCEPT ![Mine(w)] = @ + 1]
  /\ anchored' = Anchored(w)
  /\ printed' = Printed(w)
  /\ unsaved' = [unsaved EXCEPT ![ProcessOf(w)] = [Nothing EXCEPT !.anchored = {Mine(w)}]]
  /\ Go(w, "fact")
  /\ UNCHANGED <<job, claims, counters>>

(* The next fact: what it would supersede, and whether it is known.         *)
OpenWeaker(f) ==
  {n \in DOMAIN claims : claims[n].open /\ claims[n].fact \in Weaker[f]}

Rest(w) == Tail(run[w].todo)
AfterFact(w) == IF Rest(w) = <<>> THEN "complete" ELSE "fact"

Reinforce(w) ==
  /\ At(w, "fact") /\ This(w) \notin Malformed
  /\ This(w) \in Printed(w) /\ OpenWeaker(This(w)) = {}
  /\ run' = [run EXCEPT ![w].todo = Rest(w), ![w].at = AfterFact(w)]
  /\ UNCHANGED <<job, anchored, printed, unsaved, moments, claims, counters>>

Decide(w) ==
  /\ At(w, "fact") /\ This(w) \notin Malformed
  /\ This(w) \notin Printed(w) \/ OpenWeaker(This(w)) # {}
  /\ run' = [run EXCEPT ![w].olds = OpenWeaker(This(w)), ![w].at = "store"]
  /\ UNCHANGED <<job, anchored, printed, unsaved, moments, claims, counters>>

Closed(olds) == [n \in DOMAIN claims |-> IF n \in olds THEN [claims[n] EXCEPT !.open = FALSE]
                                         ELSE claims[n]]

(* Mutant of Store: the fingerprint is written before the derivation. *)
StoreKnown(w) ==
  /\ At(w, "store") /\ Len(claims) < MaxClaims
  /\ \A n \in run[w].olds : claims[n].open
  /\ claims' = Append(Closed(run[w].olds),
                      [fact |-> This(w), item |-> Mine(w), over |-> run[w].olds,
                       open |-> TRUE, grounded |-> FALSE])
  /\ run' = [run EXCEPT ![w].at = "derive", ![w].olds = {Len(claims) + 1}]
  /\ anchored' = Anchored(w)
  /\ printed' = Printed(w) \cup {This(w)}
  /\ unsaved' = [unsaved EXCEPT ![ProcessOf(w)] = Nothing]
  /\ UNCHANGED <<job, moments, counters>>

(* record: assert, or supersede, which is rejected when another worker has  *)
(* closed one of the claims since.                                          *)
Store(w) ==
  /\ At(w, "store") /\ Len(claims) < MaxClaims
  /\ \A n \in run[w].olds : claims[n].open
  /\ claims' = Append(Closed(run[w].olds),
                      [fact |-> This(w), item |-> Mine(w), over |-> run[w].olds,
                       open |-> TRUE, grounded |-> FALSE])
  /\ run' = [run EXCEPT ![w].at = "derive", ![w].olds = {Len(claims) + 1}]
  /\ Commit(w)
  /\ UNCHANGED <<job, moments, counters>>

(* Mutant of Derive: the fingerprint is forgotten. *)
DeriveOnly(w) ==
  /\ At(w, "derive")
  /\ claims' = [n \in DOMAIN claims |-> IF n \in run[w].olds
                                        THEN [claims[n] EXCEPT !.grounded = TRUE] ELSE claims[n]]
  /\ run' = [run EXCEPT ![w].todo = Rest(w), ![w].at = AfterFact(w), ![w].olds = {}]
  /\ Commit(w)
  /\ UNCHANGED <<job, moments, counters>>

(* The claim is derived from the event, then its fingerprint is written. *)
Derive(w) ==
  /\ At(w, "derive")
  /\ claims' = [n \in DOMAIN claims |-> IF n \in run[w].olds
                                        THEN [claims[n] EXCEPT !.grounded = TRUE] ELSE claims[n]]
  /\ anchored' = Anchored(w)
  /\ printed' = Printed(w)
  /\ unsaved' = [unsaved EXCEPT ![ProcessOf(w)] = [Nothing EXCEPT !.printed = {This(w)}]]
  /\ run' = [run EXCEPT ![w].todo = Rest(w), ![w].at = AfterFact(w), ![w].olds = {}]
  /\ UNCHANGED <<job, moments, counters>>

Leave(w) ==
  run' = [run EXCEPT ![w] = IF @.queue = {} THEN Resting
                            ELSE [Resting EXCEPT !.queue = run[w].queue, !.item = Mine(w)]]

Complete(w) ==
  /\ At(w, "complete")
  /\ job' = [job EXCEPT ![Mine(w)].state = "completed", ![Mine(w)].attempts = @ + 1,
                        ![Mine(w)].beat = "none"]
  /\ Leave(w)
  /\ Commit(w)
  /\ UNCHANGED <<moments, claims, counters>>

(* Mutant of Fail: it never gives up. *)
FailAgain(w) ==
  /\ job' = [job EXCEPT ![Mine(w)] = [state |-> "retrying", attempts |-> run[w].tries + 1,
                                      due |-> FALSE, beat |-> "none"]]
  /\ Leave(w)
  /\ Commit(w)
  /\ UNCHANGED <<moments, claims>>

(* The handler of every exception: back off, or give up. *)
Fail(w) ==
  /\ LET tries == run[w].tries + 1
     IN  job' = [job EXCEPT ![Mine(w)] =
                   [state |-> IF tries >= MAX_ATTEMPTS THEN "dead_lettered" ELSE "retrying",
                    attempts |-> tries, due |-> tries >= MAX_ATTEMPTS, beat |-> "none"]]
  /\ Leave(w)
  /\ Commit(w)
  /\ UNCHANGED <<moments, claims>>

ProviderDown(w) ==
  /\ At(w, "extract") /\ outages < MaxOutages
  /\ outages' = outages + 1
  /\ Fail(w)
  /\ UNCHANGED <<crashes, requeues, shared>>

BadFact(w) ==
  /\ At(w, "fact") /\ This(w) \in Malformed
  /\ Fail(w)
  /\ UNCHANGED counters

Rejected(w) ==
  /\ At(w, "store") /\ \E n \in run[w].olds : ~ claims[n].open
  /\ Fail(w)
  /\ UNCHANGED counters

------------------------------------------------------------------------------
(* Time: the heartbeat of a job is written when it starts, never again. *)
Queued(i) == \E w \in Claiming : \E q \in run[w].queue : q.item = i

GoStale(i) ==
  /\ job[i].state = "running" /\ job[i].beat = "fresh"
  /\ SlowJobs \/ ~ (InHand(i) \/ Queued(i))
  /\ job' = [job EXCEPT ![i].beat = "stale"]
  /\ UNCHANGED <<anchored, printed, unsaved, moments, claims, run, counters>>

BackoffOver(i) ==
  /\ job[i].state = "retrying" /\ ~ job[i].due
  /\ job' = [job EXCEPT ![i].due = TRUE]
  /\ UNCHANGED <<anchored, printed, unsaved, moments, claims, run, counters>>

Stale(i) == job[i].state = "running" /\ job[i].beat = "stale"

RecoverStale ==
  /\ \E i \in Items : Stale(i)
  /\ job' = [i \in Items |-> IF Stale(i) THEN [job[i] EXCEPT !.state = "pending", !.beat = "none"]
                             ELSE job[i]]
  /\ UNCHANGED <<anchored, printed, unsaved, moments, claims, run, counters>>

RetryDeadLetters ==
  /\ requeues < MaxRequeues /\ \E i \in Items : job[i].state = "dead_lettered"
  /\ job' = [i \in Items |-> IF job[i].state = "dead_lettered"
                             THEN [NoJob EXCEPT !.state = "pending"] ELSE job[i]]
  /\ requeues' = requeues + 1
  /\ UNCHANGED <<anchored, printed, unsaved, moments, claims, run, outages, crashes, shared>>

CancelJob(i) ==
  /\ job[i].state \in {"pending", "retrying"}
  /\ job' = [job EXCEPT ![i].state = "cancelled"]
  /\ UNCHANGED <<anchored, printed, unsaved, moments, claims, run, counters>>

(* A process dies and starts again: its jobs stay `running'. *)
Crash(P) ==
  /\ crashes < MaxCrashes
  /\ \E w \in P : run[w] # Resting
  /\ run' = [w \in Worker |-> IF w \in P THEN Resting ELSE run[w]]
  /\ unsaved' = [unsaved EXCEPT ![P] = Nothing]
  /\ crashes' = crashes + 1
  /\ UNCHANGED <<job, anchored, printed, moments, claims, outages, requeues, shared>>

ProcessOne(w) ==
  \/ Start(w) \/ Extract(w) \/ RecordEvent(w) \/ Reinforce(w) \/ Decide(w) \/ Store(w)
  \/ Derive(w) \/ Complete(w) \/ ProviderDown(w) \/ BadFact(w) \/ Rejected(w)

Work(w) == Scan(w) \/ ClaimBatch(w) \/ ProcessOne(w)

Next ==
  \/ \E i \in Items : Poll(i) \/ GoStale(i) \/ BackoffOver(i) \/ CancelJob(i)
  \/ \E w \in Worker : Work(w) \/ OutOfTime(w)
  \/ RecoverStale \/ RetryDeadLetters
  \/ \E P \in Processes : Crash(P)

Spec == Init /\ [][Next]_vars

(* The scheduler ticks, a worker that has a job goes on with it, and time   *)
(* passes (scheduler.py:47-64).  Nothing makes the budget run out.          *)
FairSpec ==
  /\ Spec
  /\ \A w \in Worker : WF_vars(Work(w))
  /\ \A i \in Items : WF_vars(GoStale(i)) /\ WF_vars(BackoffOver(i))
  /\ WF_vars(RecoverStale)

------------------------------------------------------------------------------
TypeOK ==
  /\ job \in [Items -> [state : State, attempts : Nat, due : BOOLEAN,
                        beat : {"none", "fresh", "stale"}]]
  /\ anchored \subseteq Items /\ printed \subseteq Fact
  /\ \A P \in Processes : unsaved[P].anchored \subseteq Items /\ unsaved[P].printed \subseteq Fact
  /\ \A n \in DOMAIN claims : claims[n].fact \in Fact /\ claims[n].item \in Items
  /\ \A w \in Worker : ToSet(run[w].todo) \subseteq Fact /\ run[w].olds \subseteq DOMAIN claims

(* A completed job has left nothing behind: each of its facts stands in a   *)
(* claim that an event grounds, made by it or met by it, whatever crashes,  *)
(* retries and other workers did in between (ingest.py:482-610).            *)
CompletedIsWhole ==
  \A i \in Items \ Excluded : job[i].state = "completed" =>
    \A f \in ToSet(FactsOf[i]) :
      moments[i] >= 1 /\ \E n \in DOMAIN claims : claims[n].fact = f /\ claims[n].grounded

(* Doing a job again adds nothing twice: as long as no process died, and no *)
(* two workers had the job at once, an item has one event, and it claims a  *)
(* fact of its own again only to supersede a weaker claim that is open,     *)
(* however often it failed half-way, was given up and requeued, or was run  *)
(* by a second thread after the first (ingest.py:672: reprocessing is safe  *)
(* and idempotent).                                                         *)
ProcessedOnce ==
  crashes = 0 =>
    /\ \A i \in Items \ shared : moments[i] <= 1
    /\ \A m, n \in DOMAIN claims :
         /\ m < n /\ claims[m].item \notin shared
         /\ <<claims[m].item, claims[m].fact>> = <<claims[n].item, claims[n].fact>>
         => claims[n].over # {}

(* Two workers are never on one job (DEPLOYMENT.md: `multiple workers run   *)
(* concurrently with zero double-claims').                                  *)
NoDoubleRun ==
  \A v, w \in Worker : v # w /\ ~ At(v, "idle") /\ ~ At(w, "idle") => Mine(v) # Mine(w)

(* No job is in two hands, and all is well typed. *)
NeverTwice == TypeOK /\ NoDoubleRun

(* A fact that is skipped as known is still an open belief (ingest.py:504:  *)
(* `identical open belief -> skip').                                        *)
SkippedIsOpen ==
  \A w \in Worker : At(w, "complete") => \A f \in ToSet(FactsOf[Mine(w)]) :
     Mine(w) \notin Excluded =>
       \E n \in DOMAIN claims : claims[n].fact = f /\ claims[n].open

(* Every job comes to an end: no crash, outage, back-off or stale heartbeat *)
(* leaves one pending or running for ever.                                  *)
EveryJobSettles ==
  \A i \in Items : []<>(job[i].state \notin {"pending", "running", "retrying"})
==============================================================================
