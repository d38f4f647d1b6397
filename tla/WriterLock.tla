------------------------------ MODULE WriterLock ------------------------------
(***************************************************************************)
(* One writer per database: the processes of a deployment, the row of the  *)
(* table writer_lock, and what each process's engine has seen of the log   *)
(* (WriterLock in server/store.py, main and boot in server/api.py, the     *)
(* heartbeat in server/scheduler.py, server/worker.py).                    *)
(*                                                                         *)
(* A process replays the log while its module is imported, then acquires   *)
(* the lock, then serves.  The row is read, judged and written in separate *)
(* statements.  The age of the heartbeat stands for the time since it:     *)
(* `Stale' ages are STALE_AFTER.                                           *)
(***************************************************************************)
EXTENDS Integers, FiniteSets

CONSTANTS
  Proc,             \* owner names, host:pid
  Host,             \* owner name -> host
  Worker,           \* owners that run worker.py: they never ask for the lock
  Stale,            \* heartbeats this old are missed for STALE_AFTER
  Prompt,           \* a live holder always beats before its row is stale
  InFlight,         \* requests may still run after the lock is released
  Supervised,       \* owners a supervisor starts again (restart: unless-stopped)
  MaxCrashes        \* bound: crashes of an instance

ASSUME LockAssumption ==
  /\ Stale \in Nat \ {0}
  /\ Worker \subseteq Proc /\ Supervised \subseteq Proc
  /\ {Prompt, InFlight} \subseteq BOOLEAN
  /\ MaxCrashes \in Nat

VARIABLES
  row,       \* the rows of writer_lock: {} or {[owner, age]}
  phase,     \* where each process is
  held,      \* WriterLock.held of the processes where it is True
  judged,    \* processes whose reading of the row is still what the row says
  whole,     \* processes whose engine holds every operation of the log
  crashes,
  reused     \* history: has a process started under the host:pid a row still named?

vars == <<row, phase, held, judged, whole, crashes, reused>>

Phase == {"off", "booted", "insert", "mine", "take", "confirm", "serving", "draining"}

Init ==
  /\ row = {}
  /\ phase = [p \in Proc |-> "off"]
  /\ held = {} /\ judged = {} /\ whole = {}
  /\ crashes = 0 /\ reused = FALSE

Owns(p) == \E r \in row : r.owner = p
Serving(p) == phase[p] = "serving"
Goto(p, ph) == phase' = [phase EXCEPT ![p] = ph]

(* import api: boot() replays the log as it is now, before main() asks for  *)
(* the lock.                                                                *)
Import(p) ==
  /\ phase[p] = "off"
  /\ reused' = (reused \/ Owns(p))
  /\ whole' = whole \cup {p}
  /\ Goto(p, IF p \in Worker THEN "serving" ELSE "booted")
  /\ UNCHANGED <<row, held, judged, crashes>>

(* A holder proved dead: same host, no such process.  A pid that is in use  *)
(* again reads as alive.                                                    *)
MayLookGone(p, q) == Host[p] = Host[q] /\ p # q /\ phase[q] = "off"

(* acquire() reads the row and decides. *)
ReadNone(p) ==
  /\ phase[p] = "booted" /\ row = {}
  /\ Goto(p, "insert")
  /\ UNCHANGED <<row, held, judged, whole, crashes, reused>>

ReadMine(p) ==
  /\ phase[p] = "booted" /\ Owns(p)
  /\ Goto(p, "mine")
  /\ UNCHANGED <<row, held, judged, whole, crashes, reused>>

(* Mutant of ReadStale: only a holder proved dead is ever replaced. *)
ReadGone(p) ==
  /\ phase[p] = "booted"
  /\ \E r \in row : r.owner # p /\ MayLookGone(p, r.owner)
  /\ Goto(p, "take")
  /\ judged' = judged \cup {p}
  /\ UNCHANGED <<row, held, whole, crashes, reused>>

ReadStale(p) ==
  /\ phase[p] = "booted"
  /\ \E r \in row : r.owner # p /\ (r.age >= Stale \/ MayLookGone(p, r.owner))
  /\ Goto(p, "take")
  /\ judged' = judged \cup {p}
  /\ UNCHANGED <<row, held, whole, crashes, reused>>

ReadHeld(p) ==
  /\ phase[p] = "booted"
  /\ \E r \in row : r.owner # p /\ r.age < Stale
  /\ Goto(p, "off")
  /\ whole' = whole \ {p}
  /\ UNCHANGED <<row, held, judged, crashes, reused>>

SetRow(r) == row' = r /\ judged' = {}

(* Mutant of Insert: the row has no primary key. *)
InsertAnother(p) ==
  /\ phase[p] = "insert"
  /\ SetRow(row \cup {[owner |-> p, age |-> 0]})
  /\ Goto(p, "serving")
  /\ held' = held \cup {p}
  /\ UNCHANGED <<whole, crashes, reused>>

(* INSERT: the primary key refuses a second row, and that ends the start. *)
Insert(p) ==
  /\ phase[p] = "insert"
  /\ IF row = {}
     THEN /\ SetRow({[owner |-> p, age |-> 0]})
          /\ Goto(p, "serving")
          /\ held' = held \cup {p}
          /\ UNCHANGED whole
     ELSE /\ Goto(p, "off")
          /\ whole' = whole \ {p}
          /\ UNCHANGED <<row, judged, held>>
  /\ UNCHANGED <<crashes, reused>>

(* The row is ours already.  beat() returns at once, for held is not set    *)
(* yet: the heartbeat stays as old as it was.                               *)
Reacquire(p) ==
  /\ phase[p] = "mine"
  /\ Goto(p, "serving")
  /\ held' = held \cup {p}
  /\ UNCHANGED <<row, judged, whole, crashes, reused>>

(* Mutant of Take: the update does not compare the heartbeat. *)
TakeAnyway(p) ==
  /\ phase[p] = "take"
  /\ SetRow({[owner |-> p, age |-> 0]})
  /\ Goto(p, "confirm")
  /\ UNCHANGED <<held, whole, crashes, reused>>

(* Compare-and-swap on the owner and the heartbeat that were read. *)
Take(p) ==
  /\ phase[p] = "take"
  /\ IF p \in judged THEN SetRow({[owner |-> p, age |-> 0]}) ELSE UNCHANGED <<row, judged>>
  /\ Goto(p, "confirm")
  /\ UNCHANGED <<held, whole, crashes, reused>>

Confirm(p) ==
  /\ phase[p] = "confirm"
  /\ IF Owns(p)
     THEN Goto(p, "serving") /\ held' = held \cup {p} /\ UNCHANGED whole
     ELSE Goto(p, "off") /\ whole' = whole \ {p} /\ UNCHANGED held
  /\ UNCHANGED <<row, judged, crashes, reused>>

(* The scheduler's tick: an UPDATE that finds no row of ours does nothing   *)
(* and nobody looks.                                                        *)
Beat(p) ==
  /\ Serving(p) /\ p \in held /\ Owns(p)
  /\ SetRow({[owner |-> p, age |-> 0]})
  /\ UNCHANGED <<phase, held, whole, crashes, reused>>

(* An operation is logged: every other engine misses it from now on. *)
Write(p) ==
  /\ phase[p] \in {"serving", "draining"}
  /\ whole' = whole \cap {p}
  /\ UNCHANGED <<row, phase, held, judged, crashes, reused>>

(* shutdown(): the lock goes first, the server after it. *)
Shutdown(p) ==
  /\ Serving(p) /\ p \notin Worker
  /\ IF Owns(p) THEN SetRow({}) ELSE UNCHANGED <<row, judged>>
  /\ held' = held \ {p}
  /\ IF InFlight THEN Goto(p, "draining") /\ UNCHANGED whole
     ELSE Goto(p, "off") /\ whole' = whole \ {p}
  /\ UNCHANGED <<crashes, reused>>

Exit(p) ==
  /\ phase[p] = "draining"
  /\ Goto(p, "off")
  /\ whole' = whole \ {p}
  /\ UNCHANGED <<row, held, judged, crashes, reused>>

Crash(p) ==
  /\ phase[p] # "off" /\ crashes < MaxCrashes
  /\ Goto(p, "off")
  /\ held' = held \ {p}
  /\ judged' = judged \ {p}
  /\ whole' = whole \ {p}
  /\ crashes' = crashes + 1
  /\ UNCHANGED <<row, reused>>

(* Time passes.  A prompt owner of the row confirms and beats in time. *)
Age ==
  /\ \E r \in row :
       /\ r.age < Stale
       /\ Prompt /\ r.age + 1 = Stale => phase[r.owner] \notin {"confirm", "serving"}
       /\ row' = {[r EXCEPT !.age = @ + 1]}
  /\ UNCHANGED <<phase, held, judged, whole, crashes, reused>>

Acquire(p) ==
  \/ ReadNone(p) \/ ReadMine(p) \/ ReadStale(p) \/ ReadHeld(p)
  \/ Insert(p) \/ Reacquire(p) \/ Take(p) \/ Confirm(p)

Next ==
  \/ \E p \in Proc :
       \/ Import(p) \/ Acquire(p) \/ Beat(p) \/ Write(p)
       \/ Shutdown(p) \/ Exit(p) \/ Crash(p)
  \/ Age

Spec == Init /\ [][Next]_vars

(* A supervised process that refused or ended is started again, a started   *)
(* one goes on, a holder's scheduler ticks, a process that was told to stop *)
(* ends, and time passes.                                                   *)
Fairness ==
  /\ \A p \in Supervised : WF_vars(Import(p))
  /\ \A p \in Proc : WF_vars(Acquire(p)) /\ WF_vars(Beat(p)) /\ WF_vars(Exit(p))
  /\ WF_vars(Age)

FairSpec == Spec /\ Fairness

------------------------------------------------------------------------------
TypeOK ==
  /\ row \subseteq [owner : Proc, age : 0..Stale] /\ Cardinality(row) <= 1
  /\ phase \in [Proc -> Phase]
  /\ held \cup judged \cup whole \subseteq Proc
  /\ crashes \in 0..MaxCrashes /\ reused \in BOOLEAN

(* The row always names the process that believes it holds the lock, so at  *)
(* most one does and its heartbeats keep the others out: through races of   *)
(* starters for a missing or a stale row, takeovers, refusals and crashes,  *)
(* as long as no new process finds its own host:pid in the row (one that    *)
(* does serves on without a fresh heartbeat, store.py:182).                 *)
HolderOwnsRow == ~ reused => \A p \in held : Owns(p)

(* A database is never locked out for good: as long as one process is       *)
(* started again and again, somebody serves, whatever crashed holding the   *)
(* row and never came back (store.py:146-164, 217-220).                     *)
NoLockout == []<>(\E p \in Proc : Serving(p))

(* DEPLOYMENT.md:167: two processes would hold two engines and answer       *)
(* differently, so the second refuses to start: an engine that serves has   *)
(* every operation of the log.                                              *)
ServingEngineIsWhole == \A p \in Proc : Serving(p) => p \in whole
==============================================================================
