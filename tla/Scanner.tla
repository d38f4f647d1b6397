-------------------------------- MODULE Scanner --------------------------------
(***************************************************************************)
(* The memory scanner (server/memory_scanner.py): a scan judges every      *)
(* memory open at its time by its source and writes the verdicts down;     *)
(* applying the scan, at any later time, retracts or asks a reviewer, who  *)
(* decides.  Requests run in threads; an operation of the log is two       *)
(* steps, in memory and then on disk, and a statement is one.              *)
(***************************************************************************)
EXTENDS Integers, Sequences, FiniteSetsExt, Functions

CONSTANTS
  Claim,      \* numbers: the order in which the engine lists its assertions
  BeliefOf,   \* claim -> its subjects and proposition, as one value
  Opposed,    \* pairs of beliefs that contradict each other
  FactsOf,    \* claim -> what its evidence can be: records, see OfEvidence
  Early,      \* claims made before the first scan
  Thread,
  MaxScans, MaxItems, MaxTroubles    \* bounds; of withdrawals, changes of a source and crashes

VARIABLES
  claims,     \* claim -> "absent", "open", "closed": the engine
  disk,       \* the same, as the log on disk has it
  facts,      \* claim -> what its evidence and source say
  scans,      \* memory_scans: [complete, rows], rows of memory_scan_results
  items,      \* review_queue: [claim, status]
  run,        \* thread -> the call it serves
  troubles,
  lost,       \* history: claims whose close a crash undid
  disturbed,  \* history: claims closed by a person, or whose source changed
  overlapped  \* history: two scans were applied at the same time

vars == <<claims, disk, facts, scans, items, run, troubles, lost, disturbed, overlapped>>

Verdicts == {"VALID", "DUPLICATE", "CONTRADICTED", "UNSUPPORTED", "IRRELEVANT",
             "AUTOMATED_NOISE", "LOW_VALUE", "STALE"}

Idle == [does |-> "nothing", at |-> "idle", scan |-> 0, left |-> {}, believed |-> {},
         kept |-> {}, recent |-> FALSE, item |-> 0]

Open == {c \in Claim : claims[c] = "open"}

Moves(t, x) == run' = [run EXCEPT ![t] = x]
Goto(t, ph) == Moves(t, [run[t] EXCEPT !.at = ph])
At(t) == Min(run[t].left)

(* The thread is done with the row it is at. *)
Drop(t) == [run[t] EXCEPT !.left = @ \ {At(t)}, !.at = "row"]

------------------------------------------------------------------------------
(* The verdict on one claim. *)

(* What the mail it came from shows when it is analysed again. *)
Shows == [garbled |-> "STALE", notice |-> "IRRELEVANT", noise |-> "AUTOMATED_NOISE",
          question |-> "UNSUPPORTED", elsewhere |-> "UNSUPPORTED",
          slight |-> "LOW_VALUE", well |-> "VALID"]

(* A quote can only be missed where a row of evidence holds one. *)
OfSource(f) ==
  IF f.reads \in {"question", "elsewhere"} /\ ~ f.quoted THEN "VALID" ELSE Shows[f.reads]

OfEvidence(f) ==
  CASE f.source            -> OfSource(f)
    [] ~ f.source /\ f.quoted -> "STALE"
    [] OTHER -> IF f.derived /\ f.grounded THEN "STALE" ELSE "VALID"

Contradicted(c, believed) == \E d \in believed : {BeliefOf[c], BeliefOf[d]} \in Opposed

(* The first valid claim of the belief that this scan has met. *)
Keepers(t, c) == {k \in run[t].kept : BeliefOf[k] = BeliefOf[c]}

Verdict(t, c) ==
  CASE Keepers(t, c) # {} -> "DUPLICATE"
    [] Keepers(t, c) = {} /\ Contradicted(c, run[t].believed) -> "CONTRADICTED"
    [] OTHER -> OfEvidence(facts[c])

Action(v) ==
  CASE v \in {"DUPLICATE", "UNSUPPORTED", "AUTOMATED_NOISE", "STALE", "IRRELEVANT"} -> "retract"
    [] v = "LOW_VALUE" -> "review"
    [] OTHER           -> "none"

------------------------------------------------------------------------------
(* A scan: the claims open at T, one result after the other. *)

StartScan(t, recent) ==
  /\ run[t] = Idle /\ Len(scans) < MaxScans /\ Open # {}
  /\ scans' = Append(scans, [complete |-> FALSE, rows |-> <<>>])
  /\ Moves(t, [Idle EXCEPT !.does = "scan", !.at = "row", !.scan = Len(scans) + 1,
                           !.left = Open, !.believed = Open, !.recent = recent])
  /\ UNCHANGED <<claims, disk, facts, items, troubles, lost, disturbed, overlapped>>

TooOld(t, c) == run[t].recent /\ facts[c].quoted /\ facts[c].old

(* The scan is complete with its last claim. *)
Judged(t, rows) ==
  scans' = [scans EXCEPT ![run[t].scan] = [complete |-> run[t].left = {At(t)}, rows |-> rows]]

Put(c, row, rows) == [d \in DOMAIN rows \cup {c} |-> IF d = c THEN row ELSE rows[d]]

Advance(t, x) == Moves(t, IF run[t].left = {At(t)} THEN Idle ELSE x)

(* A claim closed at a time before T that only now reaches the engine, and *)
(* one whose evidence is too old for a recent scan, is passed over.        *)
PassOver(t) ==
  /\ run[t].does = "scan"
  /\ LET c == At(t)
     IN  claims[c] = "closed" \/ TooOld(t, c)
  /\ Judged(t, scans[run[t].scan].rows) /\ Advance(t, Drop(t))
  /\ UNCHANGED <<claims, disk, facts, items, troubles, lost, disturbed, overlapped>>

(* A result carries the verdict and, for a duplicate, the claim it repeats. *)
Row(t, c) == [verdict |-> Verdict(t, c), keeper |-> Keepers(t, c), applied |-> FALSE]

(* A mutant: whatever is listed first is kept. *)
KeepsAny(t, c) == run[t].kept \cup {c}

(* A duplicate is only one of a claim that the scan found valid. *)
Keeps(t, c) == IF Verdict(t, c) = "VALID" THEN run[t].kept \cup {c} ELSE run[t].kept

Examine(t) ==
  /\ run[t].does = "scan"
  /\ LET c == At(t)
     IN  /\ ~ TooOld(t, c)
         /\ Judged(t, Put(c, Row(t, c), scans[run[t].scan].rows))
         /\ Advance(t, [Drop(t) EXCEPT !.kept = Keeps(t, c)])
  /\ UNCHANGED <<claims, disk, facts, items, troubles, lost, disturbed, overlapped>>

------------------------------------------------------------------------------
(* Applying a scan: the results not applied yet, read at once. *)

StartApply(t, s) ==
  /\ run[t] = Idle /\ scans[s].complete
  /\ LET rows == {c \in DOMAIN scans[s].rows : ~ scans[s].rows[c].applied}
     IN  /\ rows # {}
         /\ Moves(t, [Idle EXCEPT !.does = "apply", !.at = "row", !.scan = s, !.left = rows])
  /\ overlapped' = (overlapped \/ \E u \in Thread : run[u].does = "apply")
  /\ UNCHANGED <<claims, disk, facts, scans, items, troubles, lost, disturbed>>

RowOf(t) == scans[run[t].scan].rows[At(t)]

Applied(t) == scans' = [scans EXCEPT ![run[t].scan].rows[At(t)].applied = TRUE]

Asked(c) == \E i \in DOMAIN items : items[i].claim = c /\ items[i].status = "pending"

(* Nothing is to be done, or it was done before: the row is marked. *)
Skip(t) ==
  /\ run[t].does = "apply" /\ run[t].at = "row"
  /\ LET c == At(t)
         a == Action(RowOf(t).verdict)
     IN  a = "none" \/ (a = "retract" /\ c \notin Open) \/ (a = "review" /\ Asked(c))
  /\ Applied(t) /\ Advance(t, Drop(t))
  /\ UNCHANGED <<claims, disk, facts, items, troubles, lost, disturbed, overlapped>>

Decide(t) ==
  /\ run[t].does = "apply" /\ run[t].at = "row"
  /\ LET a == Action(RowOf(t).verdict)
     IN  \/ a = "retract" /\ At(t) \in Open /\ Goto(t, "close")
         \/ a = "review" /\ ~ Asked(At(t)) /\ Goto(t, "ask")
  /\ UNCHANGED <<claims, disk, facts, scans, items, troubles, lost, disturbed, overlapped>>

(* The question and the mark are on disk with one commit. *)
Ask(t) ==
  /\ run[t].at = "ask" /\ Len(items) < MaxItems
  /\ items' = Append(items, [claim |-> At(t), status |-> "pending"])
  /\ Applied(t) /\ Advance(t, Drop(t))
  /\ UNCHANGED <<claims, disk, facts, troubles, lost, disturbed, overlapped>>

Mark(t) ==
  /\ run[t].does = "apply" /\ run[t].at = "mark"
  /\ Applied(t) /\ Advance(t, Drop(t))
  /\ UNCHANGED <<claims, disk, facts, items, troubles, lost, disturbed, overlapped>>

------------------------------------------------------------------------------
(* A retraction, whoever asks for it: the engine closes the claim or, when *)
(* it is closed already, rejects; then the operation is logged.            *)

Target(t) == IF run[t].does = "review" THEN items[run[t].item].claim ELSE At(t)

Close(t) ==
  /\ run[t].at = "close" /\ Target(t) \in Open
  /\ claims' = [claims EXCEPT ![Target(t)] = "closed"] /\ Goto(t, "log")
  /\ disturbed' = IF run[t].does = "apply" THEN disturbed ELSE disturbed \cup {Target(t)}
  /\ UNCHANGED <<disk, facts, scans, items, troubles, lost, overlapped>>

(* The error is noted on the row, which stays unapplied; a review fails. *)
Rejected(t) ==
  /\ run[t].at = "close" /\ Target(t) \notin Open
  /\ IF run[t].does = "apply" THEN Advance(t, Drop(t)) ELSE Moves(t, Idle)
  /\ UNCHANGED <<claims, disk, facts, scans, items, troubles, lost, disturbed, overlapped>>

Log(t) ==
  /\ run[t].at = "log" /\ disk' = [disk EXCEPT ![Target(t)] = "closed"]
  /\ IF run[t].does = "withdraw" THEN Moves(t, Idle) ELSE Goto(t, "mark")
  /\ UNCHANGED <<claims, facts, scans, items, troubles, lost, disturbed, overlapped>>

------------------------------------------------------------------------------
(* A reviewer decides on an item that was pending when it was read. *)

Review(t, i) ==
  /\ run[t] = Idle /\ items[i].status = "pending"
  /\ \E at \in {"close", "keep"} :
       Moves(t, [Idle EXCEPT !.does = "review", !.at = at, !.item = i])
  /\ UNCHANGED <<claims, disk, facts, scans, items, troubles, lost, disturbed, overlapped>>

(* UPDATE review_queue SET status = decision + "d". *)
Settle(t) ==
  /\ run[t].does = "review" /\ run[t].at \in {"mark", "keep"}
  /\ items' = [items EXCEPT ![run[t].item].status =
                 IF run[t].at = "keep" THEN "rejectd" ELSE "approved"]
  /\ Moves(t, Idle)
  /\ UNCHANGED <<claims, disk, facts, scans, troubles, lost, disturbed, overlapped>>

------------------------------------------------------------------------------
(* Everything else that happens to a claim. *)

Say(c) ==
  /\ claims[c] = "absent" /\ \A d \in Claim : d < c => claims[d] # "absent"
  /\ claims' = [claims EXCEPT ![c] = "open"] /\ disk' = [disk EXCEPT ![c] = "open"]
  /\ UNCHANGED <<facts, scans, items, run, troubles, lost, disturbed, overlapped>>

(* A person withdraws it. *)
Withdraw(t, c) ==
  /\ run[t] = Idle /\ c \in Open /\ troubles < MaxTroubles /\ troubles' = troubles + 1
  /\ Moves(t, [Idle EXCEPT !.does = "withdraw", !.at = "close", !.left = {c}])
  /\ UNCHANGED <<claims, disk, facts, scans, items, lost, disturbed, overlapped>>

(* Its source goes, comes back, or reads otherwise to a newer classifier. *)
SourceChanges(c, f) ==
  /\ f # facts[c] /\ troubles < MaxTroubles /\ troubles' = troubles + 1
  /\ facts' = [facts EXCEPT ![c] = f] /\ disturbed' = disturbed \cup {c}
  /\ UNCHANGED <<claims, disk, scans, items, run, lost, overlapped>>

(* The threads are gone, and the engine is what the log replays to. *)
Crash ==
  /\ troubles < MaxTroubles /\ troubles' = troubles + 1
  /\ lost' = lost \cup {c \in Claim : claims[c] # disk[c]}
  /\ claims' = disk /\ run' = [t \in Thread |-> Idle]
  /\ UNCHANGED <<disk, facts, scans, items, disturbed, overlapped>>

Init ==
  /\ claims = [c \in Claim |-> IF c \in Early THEN "open" ELSE "absent"] /\ disk = claims
  /\ facts \in {f \in [Claim -> UNION Range(FactsOf)] : \A c \in Claim : f[c] \in FactsOf[c]}
  /\ scans = <<>> /\ items = <<>> /\ run = [t \in Thread |-> Idle]
  /\ troubles = 0
  /\ lost = {} /\ disturbed = {} /\ overlapped = FALSE

Step(t) ==
  \/ \E recent \in BOOLEAN : StartScan(t, recent)
  \/ PassOver(t) \/ Examine(t)
  \/ \E s \in DOMAIN scans : StartApply(t, s)
  \/ Skip(t) \/ Decide(t) \/ Ask(t) \/ Mark(t)
  \/ Close(t) \/ Rejected(t) \/ Log(t)
  \/ \E i \in DOMAIN items : Review(t, i)
  \/ Settle(t)
  \/ \E c \in Claim : Withdraw(t, c)

Next ==
  \/ \E t \in Thread : Step(t)
  \/ \E c \in Claim : Say(c) \/ \E f \in FactsOf[c] : SourceChanges(c, f)
  \/ Crash

Spec == Init /\ [][Next]_vars

------------------------------------------------------------------------------
TypeOK ==
  /\ claims \in [Claim -> {"absent", "open", "closed"}] /\ DOMAIN disk = Claim
  /\ \A c \in Claim : facts[c] \in FactsOf[c]
  /\ \A s \in DOMAIN scans : /\ DOMAIN scans[s].rows \subseteq Claim
                             /\ \A c \in DOMAIN scans[s].rows :
                                  scans[s].rows[c].verdict \in Verdicts
  /\ \A i \in DOMAIN items :
       items[i].claim \in Claim /\ items[i].status \in {"pending", "approved", "rejectd"}
  /\ \A t \in Thread : run[t].left \subseteq Claim

(* No belief is lost as a repetition of itself: when a claim was retracted *)
(* as a duplicate, another of the same belief is still held, or a person   *)
(* closed it or its source changed.  The keeper it was found to repeat may *)
(* itself be retracted, by a later scan that keeps an earlier claim (the   *)
(* keeper of _run_scan, lines 340-352).                                    *)
KeeperStays ==
  \A s \in DOMAIN scans : \A c \in DOMAIN scans[s].rows :
    LET r == scans[s].rows[c]
    IN  r.verdict = "DUPLICATE" /\ r.applied =>
          \E k \in Claim \ {c} : BeliefOf[k] = BeliefOf[c] /\ k \in Open \cup disturbed

(* What is marked as applied was done: the claim is closed, and stays so   *)
(* through restarts, unless the close that was met was lost with a crash.  *)
AppliedIsClosed ==
  /\ \A s \in DOMAIN scans : \A c \in DOMAIN scans[s].rows :
       scans[s].rows[c].applied /\ Action(scans[s].rows[c].verdict) = "retract"
         => c \notin Open \/ c \in lost
  /\ \A i \in DOMAIN items : items[i].status = "approved" => disk[items[i].claim] = "closed"

(* A reviewer is asked about a memory once at a time, unless two scans     *)
(* were applied at the same time (_add_to_review_queue, lines 692-697).    *)
AskedOnce ==
  overlapped \/
    \A i, j \in DOMAIN items :
      items[i].status = "pending" /\ items[j].status = "pending"
        /\ items[i].claim = items[j].claim => i = j

CorrectionsHold == KeeperStays /\ AppliedIsClosed /\ AskedOnce
===============================================================================
