------------------------------ MODULE MemoryProofs ------------------------------
(***************************************************************************)
(* Proofs about how a memory is corrected and found: the memory scanner    *)
(* (Scanner), whose corrections lose no belief, and the rows of the        *)
(* projections (Projections), which say what the engine does.  Each is     *)
(* proved of the component alone and of the model the run memory checks.   *)
(***************************************************************************)
EXTENDS MCMemory, TLAPS, SequenceTheorems, FiniteSetTheorems, WellFoundedInduction

(***************************************************************************)
(* I. Memory scanner                                                       *)
(*                                                                         *)
(* A keeper may be retracted by a later scan, as a repetition of an        *)
(* earlier claim, which may be closed in turn: the invariant follows the   *)
(* chain downwards.  A claim that was closed although its source supports  *)
(* it repeats a smaller one that is held, or that a person closed; a row   *)
(* names keepers that are smaller and supported.                           *)
(***************************************************************************)

ScanRow == [verdict : Scanner!Verdicts, keeper : SUBSET Memory, applied : BOOLEAN]

ScanRows == UNION {[D -> ScanRow] : D \in SUBSET Memory}

ScanRecord == [complete : BOOLEAN, rows : ScanRows]

Item == [claim : Memory, status : {"pending", "approved", "rejectd"}]

Request == [does : {"nothing", "scan", "apply", "withdraw", "review"},
         at : {"idle", "row", "close", "ask", "log", "mark", "keep"},
         scan : Nat, left : SUBSET Memory, believed : SUBSET Memory, kept : SUBSET Memory,
         recent : BOOLEAN, item : Nat]

ScannerTyped ==
  /\ told \in [Memory -> {"absent", "open", "closed"}]
  /\ disk \in [Memory -> {"absent", "open", "closed"}]
  /\ evidence \in [Memory -> UNION {EvidenceOf[c] : c \in Memory}]
  /\ \A c \in Memory : evidence[c] \in EvidenceOf[c]
  /\ scans \in Seq(ScanRecord) /\ items \in Seq(Item) /\ serving \in [Thread -> Request]
  /\ troubles \in 0..MaxTroubles
  /\ lost \subseteq Memory /\ disturbed \subseteq Memory /\ overlapped \in BOOLEAN

(* The log on disk is behind the engine by closes alone. *)
DiskFits ==
  \A c \in Memory : /\ told[c] = "absent" <=> disk[c] = "absent"
                    /\ disk[c] = "closed" => told[c] = "closed"

Supported(c) == c \in disturbed \/ Scanner!OfEvidence(evidence[c]) = "VALID"
Unsupported(c) == c \in disturbed \/ Scanner!OfEvidence(evidence[c]) # "VALID"
Peers(c)     == {k \in Memory : k < c /\ BeliefOf[k] = BeliefOf[c]}
Kept(k)      == told[k] # "absent" /\ Supported(k)

(* What was closed although its source supports it repeats an earlier one. *)
ClosedRepeats ==
  \A c \in Memory : told[c] = "closed" /\ c \notin disturbed /\ Supported(c) =>
    \E k \in Peers(c) : Supported(k) /\ (told[k] = "open" \/ k \in disturbed)

RowFits(c, r) ==
  /\ told[c] # "absent"
  /\ \A k \in r.keeper : k \in Peers(c) /\ Kept(k)
  /\ r.verdict = "DUPLICATE" => r.keeper # {}
  /\ Scanner!Action(r.verdict) = "retract" /\ r.verdict # "DUPLICATE" =>
       Unsupported(c)
  /\ Scanner!Action(r.verdict) = "retract" /\ r.applied => told[c] = "closed" \/ c \in lost

RowsFit ==
  \A s \in DOMAIN scans : \A c \in DOMAIN scans[s].rows : RowFits(c, scans[s].rows[c])

ItemsFit ==
  \A i \in DOMAIN items :
    /\ told[items[i].claim] # "absent"
    /\ items[i].status = "approved" => disk[items[i].claim] = "closed"

ScanFits(x) ==
  x.does = "scan" =>
    /\ x.at = "row" /\ x.left # {}
    /\ x.scan \in DOMAIN scans /\ ~ scans[x.scan].complete
    /\ \A c \in x.left : told[c] # "absent"
    /\ \A k \in x.kept : Kept(k) /\ \A c \in x.left : k < c

ApplyFits(x) ==
  x.does = "apply" =>
    /\ x.at \in {"row", "close", "ask", "log", "mark"} /\ x.left # {}
    /\ x.scan \in DOMAIN scans /\ scans[x.scan].complete
    /\ x.left \subseteq DOMAIN scans[x.scan].rows
    /\ LET c == Scanner!Min(x.left)
           v == scans[x.scan].rows[c].verdict
       IN  /\ x.at \in {"close", "log", "mark"} => Scanner!Action(v) = "retract"
           /\ x.at = "ask" => Scanner!Action(v) = "review"
           /\ x.at \in {"log", "mark"} => told[c] = "closed"
           /\ x.at = "mark" => disk[c] = "closed"
           /\ ~ overlapped /\ x.at = "ask" => ~ Scanner!Asked(c)

WithdrawFits(x) ==
  x.does = "withdraw" =>
    /\ x.at \in {"close", "log"}
    /\ \E c \in Memory : /\ x.left = {c} /\ told[c] # "absent"
                         /\ x.at = "log" => told[c] = "closed"

ReviewFits(x) ==
  x.does = "review" =>
    /\ x.at \in {"close", "log", "mark", "keep"} /\ x.item \in DOMAIN items
    /\ x.at \in {"log", "mark"} => told[items[x.item].claim] = "closed"
    /\ x.at = "mark" => disk[items[x.item].claim] = "closed"

CallFits(x) ==
  /\ ScanFits(x) /\ ApplyFits(x) /\ WithdrawFits(x) /\ ReviewFits(x)
  /\ x.does = "nothing" <=> x = Scanner!Idle

OneScan ==
  \A t, u \in Thread :
    /\ serving[t].does = "scan" /\ serving[u].does = "scan" /\ serving[t].scan = serving[u].scan => t = u
    /\ ~ overlapped /\ serving[t].does = "apply" /\ serving[u].does = "apply" => t = u

ScannerInv ==
  /\ ScannerTyped /\ DiskFits /\ ClosedRepeats /\ RowsFit /\ ItemsFit
  /\ \A t \in Thread : CallFits(serving[t])
  /\ OneScan /\ Scanner!AskedOnce

------------------------------------------------------------------------------
(* A set of claims has a first one. *)
LEMMA FirstClaim ==
  ASSUME NEW S \in SUBSET Memory, S # {}
  PROVE  /\ Scanner!Min(S) \in S
         /\ \A n \in S \ {Scanner!Min(S)} : Scanner!Min(S) < n
<1>1. S \in SUBSET Nat
  BY ScannerAssumption
<1>2. IsWellFoundedOn(OpToRel(<, Nat), Nat)
  BY NatLessThanWellFounded
<1>3. PICK x \in S : \A y \in S : ~ (<<y, x>> \in OpToRel(<, Nat))
  BY <1>1, <1>2, WFMin, Zenon
<1>4. \A y \in S : ~ (y < x)
  BY <1>1, <1>3 DEF OpToRel
<1>5. \A y \in S : x =< y
  BY <1>1, <1>4
<1>6. Scanner!Min(S) \in S /\ \A y \in S : Scanner!Min(S) =< y
  BY <1>5 DEF Scanner!Min
<1>7. PICK m : m = Scanner!Min(S)
  OBVIOUS
<1>8. m \in S /\ m \in Nat /\ \A n \in S : n \in Nat /\ m =< n
  BY <1>1, <1>6, <1>7
<1>9. \A n \in S \ {m} : m < n
  BY <1>8
<1> QED BY <1>7, <1>8, <1>9

(* What is written down of a scan and of a question. *)
LEMMA RowsOfScan ==
  ASSUME NEW f \in ScanRows
  PROVE  /\ DOMAIN f \subseteq Memory /\ f \in [DOMAIN f -> ScanRow]
         /\ \A c \in DOMAIN f : f[c] \in ScanRow
  BY DEF ScanRows

LEMMA RowsMade ==
  ASSUME NEW D \in SUBSET Memory, NEW f \in [D -> ScanRow]
  PROVE  f \in ScanRows
  BY DEF ScanRows

LEMMA ScanGet ==
  ASSUME ScannerInv, NEW s \in DOMAIN scans
  PROVE  /\ scans[s] \in ScanRecord /\ scans[s].complete \in BOOLEAN /\ scans[s].rows \in ScanRows
         /\ DOMAIN scans[s].rows \subseteq Memory
         /\ \A c \in DOMAIN scans[s].rows :
              scans[s].rows[c] \in ScanRow /\ RowFits(c, scans[s].rows[c])
<1>1. scans[s] \in ScanRecord
  BY ElementOfSeq, LenProperties DEF ScannerInv, ScannerTyped
<1>2. scans[s].complete \in BOOLEAN /\ scans[s].rows \in ScanRows
  BY <1>1 DEF ScanRecord
<1> QED BY <1>1, <1>2, RowsOfScan DEF ScannerInv, RowsFit

LEMMA ItemGet ==
  ASSUME ScannerInv, NEW i \in DOMAIN items
  PROVE  /\ items[i] \in Item /\ items[i].claim \in Memory
         /\ items[i].status \in {"pending", "approved", "rejectd"}
         /\ told[items[i].claim] # "absent"
<1>1. items[i] \in Item
  BY ElementOfSeq, LenProperties DEF ScannerInv, ScannerTyped
<1> QED BY <1>1 DEF Item, ScannerInv, ItemsFit

LEMMA CallGet ==
  ASSUME ScannerInv, NEW t \in Thread
  PROVE  serving[t] \in Request /\ CallFits(serving[t])
  BY DEF ScannerInv, ScannerTyped

LEMMA IdleCall ==
  /\ Scanner!Idle \in Request /\ CallFits(Scanner!Idle)
  /\ Scanner!Idle.does = "nothing" /\ Scanner!Idle.at = "idle"
  BY DEF Scanner!Idle, Request, CallFits, ScanFits, ApplyFits, WithdrawFits, ReviewFits

LEMMA ScannerGet ==
  ASSUME ScannerInv
  PROVE  /\ told \in [Memory -> {"absent", "open", "closed"}]
         /\ disk \in [Memory -> {"absent", "open", "closed"}]
         /\ \A c \in Memory : evidence[c] \in EvidenceOf[c]
         /\ evidence \in [Memory -> UNION {EvidenceOf[c] : c \in Memory}]
         /\ scans \in Seq(ScanRecord) /\ items \in Seq(Item) /\ serving \in [Thread -> Request]
         /\ troubles \in 0..MaxTroubles
         /\ lost \subseteq Memory /\ disturbed \subseteq Memory /\ overlapped \in BOOLEAN
  BY DEF ScannerInv, ScannerTyped

(* One thread moves, and the others keep what they have. *)
LEMMA OthersKeep ==
  ASSUME ScannerInv, NEW t \in Thread, NEW x \in Request, Scanner!Moves(t, x)
  PROVE  /\ serving' \in [Thread -> Request] /\ serving'[t] = x
         /\ \A u \in Thread \ {t} : serving'[u] = serving[u]
  BY DEF ScannerInv, ScannerTyped, Scanner!Moves

(* No close is undone, and what was found of a claim stands or the claim   *)
(* was disturbed.                                                          *)
Forward ==
  \A c \in Memory : /\ told[c] # "absent" => told'[c] # "absent"
                    /\ told[c] = "closed" => told'[c] = "closed"
                    /\ disk[c] = "closed" => disk'[c] = "closed"
                    /\ Supported(c) => Supported(c)'
                    /\ Unsupported(c) => Unsupported(c)'

(* What happens to the claims leaves a call what it may be, as long as no  *)
(* close is undone.                                                        *)
LEMMA CallKeeps ==
  ASSUME NEW x \in Request, CallFits(x), Forward,
         DOMAIN scans \subseteq DOMAIN scans',
         x.does = "scan" => ~ scans'[x.scan].complete,
         x.does = "apply" =>
           /\ scans'[x.scan].complete
           /\ DOMAIN scans[x.scan].rows \subseteq DOMAIN scans'[x.scan].rows
           /\ DOMAIN scans[x.scan].rows \subseteq Memory
           /\ \A c \in DOMAIN scans[x.scan].rows :
                scans'[x.scan].rows[c].verdict = scans[x.scan].rows[c].verdict,
         \A i \in DOMAIN items : /\ i \in DOMAIN items' /\ items'[i].claim = items[i].claim
                                 /\ items[i].claim \in Memory,
         x.does = "apply" /\ x.at = "ask" /\ ~ overlapped' =>
           ~ overlapped /\ (~ Scanner!Asked(Scanner!Min(x.left)) => ~ Scanner!Asked(Scanner!Min(x.left))')
  PROVE  CallFits(x)'
<1>1. ScanFits(x)'
  <2> SUFFICES ASSUME x.does = "scan" PROVE ScanFits(x)'
    BY DEF ScanFits
  <2>1. ScanFits(x)
    BY DEF CallFits
  <2>2. x.left \subseteq Memory /\ x.kept \subseteq Memory
    BY DEF Request
  <2>3. \A k \in x.kept : Kept(k)'
    BY <2>1, <2>2 DEF ScanFits, Kept, Forward
  <2> QED BY <2>1, <2>2, <2>3 DEF ScanFits, Forward
<1>2. ApplyFits(x)'
  <2> SUFFICES ASSUME x.does = "apply" PROVE ApplyFits(x)'
    BY DEF ApplyFits
  <2>1. PICK c : c = Scanner!Min(x.left)
    OBVIOUS
  <2>2. ApplyFits(x)
    BY DEF CallFits
  <2>3. /\ x.at \in {"row", "close", "ask", "log", "mark"} /\ x.left # {}
        /\ x.scan \in DOMAIN scans /\ scans[x.scan].complete
        /\ x.left \subseteq DOMAIN scans[x.scan].rows
    BY <2>2 DEF ApplyFits
  <2>4. c \in x.left /\ c \in Memory /\ c \in DOMAIN scans[x.scan].rows
    BY <2>1, <2>3, FirstClaim DEF Request
  <2>5. /\ x.at \in {"close", "log", "mark"} => Scanner!Action(scans[x.scan].rows[c].verdict) = "retract"
        /\ x.at = "ask" => Scanner!Action(scans[x.scan].rows[c].verdict) = "review"
        /\ x.at \in {"log", "mark"} => told[c] = "closed"
        /\ x.at = "mark" => disk[c] = "closed"
        /\ ~ overlapped /\ x.at = "ask" => ~ Scanner!Asked(c)
    BY <2>1, <2>2 DEF ApplyFits
  <2>6. scans'[x.scan].rows[c].verdict = scans[x.scan].rows[c].verdict
    BY <2>4
  <2>7. ~ overlapped' /\ x.at = "ask" => ~ Scanner!Asked(c)'
    BY <2>1, <2>5
  <2> QED BY <2>1, <2>3, <2>4, <2>5, <2>6, <2>7 DEF ApplyFits, Forward
<1>3. WithdrawFits(x)'
  BY DEF CallFits, WithdrawFits, Forward
<1>4. ReviewFits(x)'
  BY DEF CallFits, ReviewFits, Forward
<1>5. x.does = "nothing" <=> x = Scanner!Idle
  BY DEF CallFits
<1> QED BY <1>1, <1>2, <1>3, <1>4, <1>5 DEF CallFits

LEMMA RowKeeps ==
  ASSUME NEW c \in Memory, NEW r \in ScanRow, RowFits(c, r), lost \subseteq lost',
         \A k \in Memory : /\ told[k] # "absent" => told'[k] # "absent"
                           /\ told[k] = "closed" => told'[k] = "closed" \/ k \in lost'
                           /\ Supported(k) => Supported(k)'
                           /\ Unsupported(k) => Unsupported(k)'
  PROVE  RowFits(c, r)'
<1>1. \A k \in r.keeper : k \in Peers(c) /\ Kept(k)'
  BY DEF RowFits, Kept, Peers
<1>2. Peers(c)' = Peers(c)
  BY DEF Peers
<1> QED BY <1>1, <1>2 DEF RowFits

LEMMA NothingMoves ==
  ASSUME UNCHANGED <<told, disk, evidence, disturbed>>
  PROVE  Forward
  BY DEF Forward, Supported, Unsupported

(* A call moves on, and nothing else. *)
LEMMA MoveStep ==
  ASSUME ScannerInv, NEW t \in Thread, NEW x \in Request, Scanner!Moves(t, x), CallFits(x),
         UNCHANGED <<told, disk, evidence, scans, items, lost, disturbed, overlapped>>,
         troubles' \in 0..MaxTroubles,
         x.does \in {"scan", "apply"} => serving[t].does = x.does /\ serving[t].scan = x.scan
  PROVE  ScannerInv'
<1>1. /\ serving' \in [Thread -> Request] /\ serving'[t] = x
      /\ \A u \in Thread \ {t} : serving'[u] = serving[u]
  BY OthersKeep
<1>2. ScannerTyped'
  BY <1>1 DEF ScannerInv, ScannerTyped
<1>3. DiskFits' /\ ClosedRepeats' /\ ItemsFit' /\ Scanner!AskedOnce'
  BY DEF ScannerInv, DiskFits, ClosedRepeats, ItemsFit, Scanner!AskedOnce, Supported, Peers
<1>4. RowsFit'
  BY DEF ScannerInv, RowsFit, RowFits, Kept, Supported, Unsupported, Peers
<1>5. ASSUME NEW z, CallFits(z) PROVE CallFits(z)'
  BY <1>5 DEF CallFits, ScanFits, ApplyFits, WithdrawFits, ReviewFits, Kept, Supported, Scanner!Asked
<1>6. \A u \in Thread : CallFits(serving[u])'
  <2>1. ASSUME NEW u \in Thread \ {t} PROVE CallFits(serving[u])'
    BY <1>1, <1>5, CallGet
  <2>2. CallFits(serving[t])'
    BY <1>1, <1>5
  <2> QED BY <2>1, <2>2
<1>7. OneScan'
  BY <1>1 DEF ScannerInv, OneScan
<1> QED BY <1>2, <1>3, <1>4, <1>6, <1>7 DEF ScannerInv

(* An apply goes on to the next of its rows, or is done. *)
LEMMA NextRow ==
  ASSUME ScannerInv, NEW t \in Thread, serving[t].does = "apply"
  PROVE  LET x == IF serving[t].left = {Scanner!At(t)} THEN Scanner!Idle ELSE Scanner!Drop(t)
         IN  /\ x \in Request /\ CallFits(x)
             /\ x.does # "nothing" => x.does = "apply" /\ x.scan = serving[t].scan
             /\ x.does # "nothing" => x.at = "row"
             /\ x.does \notin {"scan", "withdraw", "review"}
<1> DEFINE x == IF serving[t].left = {Scanner!At(t)} THEN Scanner!Idle ELSE Scanner!Drop(t)
<1>1. serving[t] \in Request /\ ApplyFits(serving[t])
  BY CallGet DEF CallFits
<1>2. CASE serving[t].left = {Scanner!At(t)}
  BY <1>2, IdleCall
<1>3. CASE serving[t].left # {Scanner!At(t)}
  <2>1. x = [serving[t] EXCEPT !.left = @ \ {Scanner!At(t)}, !.at = "row"]
    BY <1>3 DEF Scanner!Drop
  <2>2. /\ x \in Request /\ x.does = "apply" /\ x.at = "row" /\ x.scan = serving[t].scan
        /\ x.left = serving[t].left \ {Scanner!At(t)}
    BY ZenonT(40), <1>1, <2>1 DEF Request
  <2>3. x.left # {}
    BY <1>1, <1>3, <2>2 DEF ApplyFits
  <2>4. ApplyFits(x)
    BY <1>1, <2>2, <2>3 DEF ApplyFits
  <2> QED BY <2>2, <2>4 DEF CallFits, ScanFits, WithdrawFits, ReviewFits, Scanner!Idle
<1> QED BY <1>2, <1>3

(* What an apply is at. *)
LEMMA ApplyGet ==
  ASSUME ScannerInv, NEW t \in Thread, serving[t].does = "apply"
  PROVE  LET c == Scanner!At(t)
             s == serving[t].scan
             v == scans[s].rows[c].verdict
         IN  /\ serving[t] \in Request /\ ApplyFits(serving[t])
             /\ c \in Memory /\ c \in serving[t].left
             /\ s \in DOMAIN scans /\ c \in DOMAIN scans[s].rows /\ scans[s].complete
             /\ serving[t].at \in {"row", "close", "ask", "log", "mark"}
             /\ serving[t].at \in {"close", "log", "mark"} => Scanner!Action(v) = "retract"
             /\ serving[t].at = "ask" => Scanner!Action(v) = "review"
             /\ serving[t].at \in {"log", "mark"} => told[c] = "closed"
             /\ serving[t].at = "mark" => disk[c] = "closed"
             /\ ~ overlapped /\ serving[t].at = "ask" => ~ Scanner!Asked(c)
<1>1. serving[t] \in Request /\ ApplyFits(serving[t])
  BY CallGet DEF CallFits
<1>2. Scanner!At(t) = Scanner!Min(serving[t].left)
  BY DEF Scanner!At
<1>3. serving[t].left \in SUBSET Memory /\ serving[t].left # {}
  BY <1>1 DEF Request, ApplyFits
<1>4. Scanner!At(t) \in serving[t].left
  BY <1>2, <1>3, FirstClaim
<1> QED BY <1>1, <1>2, <1>3, <1>4 DEF ApplyFits

LEMMA DecideStep ==
  ASSUME ScannerInv, NEW t \in Thread, Scanner!Decide(t)
  PROVE  ScannerInv'
<1> DEFINE c == Scanner!At(t)
           v == scans[serving[t].scan].rows[c].verdict
<1>1. /\ serving[t].does = "apply" /\ serving[t].at = "row"
      /\ UNCHANGED <<told, disk, evidence, scans, items, troubles, lost, disturbed, overlapped>>
  BY DEF Scanner!Decide
<1>2. \/ Scanner!Action(v) = "retract" /\ Scanner!Goto(t, "close")
      \/ Scanner!Action(v) = "review" /\ ~ Scanner!Asked(c) /\ Scanner!Goto(t, "ask")
  BY DEF Scanner!Decide, Scanner!RowOf
<1>3. /\ serving[t] \in Request /\ ApplyFits(serving[t])
      /\ c = Scanner!Min(serving[t].left)
  BY <1>1, ApplyGet DEF Scanner!At
<1>4. ASSUME NEW ph \in {"close", "ask"}, Scanner!Goto(t, ph),
             ph = "close" => Scanner!Action(v) = "retract",
             ph = "ask" => Scanner!Action(v) = "review" /\ ~ Scanner!Asked(c)
      PROVE  ScannerInv'
  <2> DEFINE y == [serving[t] EXCEPT !.at = ph]
  <2>1. y \in Request
    BY <1>3 DEF Request
  <2>2. PICK x \in Request : x = y
    BY <2>1
  <2>3. /\ x.does = "apply" /\ x.at = ph /\ x.left = serving[t].left /\ x.scan = serving[t].scan
    BY <1>1, <1>3, <2>2 DEF Request
  <2>4. Scanner!Moves(t, x)
    BY <1>4, <2>2 DEF Scanner!Goto
  <2> HIDE DEF y
  <2>5. ApplyFits(x)
    <3>1. /\ serving[t].left # {} /\ serving[t].scan \in DOMAIN scans
          /\ scans[serving[t].scan].complete
          /\ serving[t].left \subseteq DOMAIN scans[serving[t].scan].rows
      BY <1>1, <1>3 DEF ApplyFits
    <3>2. Scanner!Min(x.left) = c /\ scans[x.scan].rows[c].verdict = v
      BY <1>3, <2>3
    <3> HIDE DEF c, v
    <3> QED BY <1>4, <2>3, <3>1, <3>2 DEF ApplyFits
  <2>6. CallFits(x)
    BY <2>3, <2>5 DEF CallFits, ScanFits, WithdrawFits, ReviewFits, Scanner!Idle
  <2>7. troubles' \in 0..MaxTroubles
    BY <1>1, ScannerGet
  <2> QED BY <1>1, <2>3, <2>4, <2>6, <2>7, MoveStep
<1> QED BY <1>2, <1>4

LEMMA RejectedStep ==
  ASSUME ScannerInv, NEW t \in Thread, Scanner!Rejected(t)
  PROVE  ScannerInv'
<1>1. /\ serving[t].at = "close"
      /\ UNCHANGED <<told, disk, evidence, scans, items, troubles, lost, disturbed, overlapped>>
      /\ troubles' \in 0..MaxTroubles
  BY ScannerGet DEF Scanner!Rejected
<1>2. CASE serving[t].does = "apply"
  <2> DEFINE y == IF serving[t].left = {Scanner!At(t)} THEN Scanner!Idle ELSE Scanner!Drop(t)
  <2>1. PICK x \in Request : x = y
    BY <1>2, NextRow
  <2>2. /\ CallFits(x) /\ x.does \notin {"scan", "withdraw", "review"}
        /\ x.does # "nothing" => x.does = "apply" /\ x.scan = serving[t].scan
    BY <1>2, <2>1, NextRow
  <2>3. Scanner!Moves(t, x)
    BY <1>2, <2>1 DEF Scanner!Rejected, Scanner!Advance
  <2> HIDE DEF y
  <2>4. x.does \in {"scan", "apply"} => serving[t].does = x.does /\ serving[t].scan = x.scan
    BY <1>2, <2>2
  <2> QED BY <1>1, <2>2, <2>3, <2>4, MoveStep
<1>3. CASE serving[t].does # "apply"
  <2>1. PICK x \in Request : x = Scanner!Idle
    BY IdleCall
  <2>2. Scanner!Moves(t, x) /\ CallFits(x) /\ x.does = "nothing"
    BY <1>3, <2>1, IdleCall DEF Scanner!Rejected
  <2> QED BY <1>1, <2>2, MoveStep
<1> QED BY <1>2, <1>3

LEMMA ReviewStep ==
  ASSUME ScannerInv, NEW t \in Thread, NEW i \in DOMAIN items, Scanner!Review(t, i)
  PROVE  ScannerInv'
<1>1. /\ UNCHANGED <<told, disk, evidence, scans, items, troubles, lost, disturbed, overlapped>>
      /\ troubles' \in 0..MaxTroubles
  BY ScannerGet DEF Scanner!Review
<1>2. PICK ph \in {"close", "keep"} :
        Scanner!Moves(t, [Scanner!Idle EXCEPT !.does = "review", !.at = ph, !.item = i])
  BY DEF Scanner!Review
<1> DEFINE y == [Scanner!Idle EXCEPT !.does = "review", !.at = ph, !.item = i]
<1>3. i \in Nat
  BY ScannerGet, LenProperties
<1>4. y \in Request
  BY <1>3 DEF Request, Scanner!Idle
<1>5. PICK x \in Request : x = y
  BY <1>4
<1>6. x.does = "review" /\ x.at = ph /\ x.item = i
  BY <1>5 DEF Scanner!Idle
<1>7. Scanner!Moves(t, x)
  BY <1>2, <1>5
<1> HIDE DEF y
<1>8. CallFits(x)
  BY <1>6 DEF CallFits, ScanFits, ApplyFits, WithdrawFits, ReviewFits, Scanner!Idle
<1> QED BY <1>1, <1>6, <1>7, <1>8, MoveStep

LEMMA WithdrawStep ==
  ASSUME ScannerInv, NEW t \in Thread, NEW c \in Memory, Scanner!Withdraw(t, c)
  PROVE  ScannerInv'
<1>1. /\ UNCHANGED <<told, disk, evidence, scans, items, lost, disturbed, overlapped>>
      /\ troubles < MaxTroubles /\ troubles' = troubles + 1 /\ told[c] = "open"
  BY DEF Scanner!Withdraw, Scanner!Open
<1> DEFINE y == [Scanner!Idle EXCEPT !.does = "withdraw", !.at = "close", !.left = {c}]
<1>2. y \in Request
  BY DEF Request, Scanner!Idle
<1>3. PICK x \in Request : x = y
  BY <1>2
<1>4. x.does = "withdraw" /\ x.at = "close" /\ x.left = {c}
  BY <1>3 DEF Scanner!Idle
<1>5. Scanner!Moves(t, x)
  BY <1>3 DEF Scanner!Withdraw
<1> HIDE DEF y
<1>6. CallFits(x)
  BY <1>1, <1>4 DEF CallFits, ScanFits, ApplyFits, WithdrawFits, ReviewFits, Scanner!Idle
<1>7. troubles' \in 0..MaxTroubles
  BY <1>1, ScannerGet, ScannerAssumption
<1> QED BY <1>1, <1>4, <1>5, <1>6, <1>7, MoveStep

(* Applying begins: two at a time are recorded. *)
LEMMA StartApplyStep ==
  ASSUME ScannerInv, NEW t \in Thread, NEW s \in DOMAIN scans, Scanner!StartApply(t, s)
  PROVE  ScannerInv'
<1> DEFINE rows == {c \in DOMAIN scans[s].rows : ~ scans[s].rows[c].applied}
           y == [Scanner!Idle EXCEPT !.does = "apply", !.at = "row", !.scan = s, !.left = rows]
<1>1. /\ UNCHANGED <<told, disk, evidence, scans, items, troubles, lost, disturbed>>
      /\ scans[s].complete /\ rows # {} /\ serving[t] = Scanner!Idle
      /\ overlapped' = (overlapped \/ \E u \in Thread : serving[u].does = "apply")
  BY DEF Scanner!StartApply
<1>2. s \in Nat /\ rows \in SUBSET Memory /\ rows \subseteq DOMAIN scans[s].rows
  BY ScanGet, ScannerGet, LenProperties
<1>3. Scanner!Moves(t, y)
  BY DEF Scanner!StartApply
<1> HIDE DEF rows
<1>4. y \in Request
  BY <1>2 DEF Request, Scanner!Idle
<1>5. PICK x \in Request : x = y
  BY <1>4
<1>6. x.does = "apply" /\ x.at = "row" /\ x.scan = s /\ x.left = rows
  BY <1>5 DEF Scanner!Idle
<1>7. Scanner!Moves(t, x)
  BY <1>3, <1>5
<1> HIDE DEF y
<1>8. /\ serving' \in [Thread -> Request] /\ serving'[t] = x
      /\ \A u \in Thread \ {t} : serving'[u] = serving[u]
  BY <1>7, OthersKeep
<1>9. CallFits(x)
  <2>1. ApplyFits(x)
    BY <1>1, <1>2, <1>6 DEF ApplyFits
  <2> QED BY <1>6, <2>1 DEF CallFits, ScanFits, WithdrawFits, ReviewFits, Scanner!Idle
<1>10. ScannerTyped' /\ overlapped' \in BOOLEAN /\ (overlapped => overlapped')
  <2>1. overlapped' \in BOOLEAN /\ (overlapped => overlapped')
    BY <1>1, ScannerGet
  <2> QED BY <1>1, <1>8, <2>1 DEF ScannerInv, ScannerTyped
<1>11. DiskFits' /\ ClosedRepeats' /\ ItemsFit'
  BY <1>1 DEF ScannerInv, DiskFits, ClosedRepeats, ItemsFit, Supported, Peers
<1>12. RowsFit'
  BY <1>1 DEF ScannerInv, RowsFit, RowFits, Kept, Supported, Unsupported, Peers
<1>13. Scanner!AskedOnce'
  BY <1>1, <1>10 DEF ScannerInv, Scanner!AskedOnce
<1>14. ASSUME NEW z, CallFits(z) PROVE CallFits(z)'
  BY <1>1, <1>10, <1>14
     DEF CallFits, ScanFits, ApplyFits, WithdrawFits, ReviewFits, Kept, Supported, Scanner!Asked
<1>15. \A u \in Thread : CallFits(serving[u])'
  <2>1. ASSUME NEW u \in Thread \ {t} PROVE CallFits(serving[u])'
    BY <1>8, <1>14, CallGet
  <2>2. CallFits(serving[t])'
    BY <1>8, <1>9, <1>14
  <2> QED BY <2>1, <2>2
<1>16. OneScan'
  <2>1. \A u \in Thread \ {t} : ~ overlapped' => serving'[u].does # "apply"
    BY <1>1, <1>8
  <2>2. \A u, v \in Thread \ {t} :
          serving'[u].does = "scan" /\ serving'[v].does = "scan" /\ serving'[u].scan = serving'[v].scan
            => u = v
    BY <1>8 DEF ScannerInv, OneScan
  <2>3. serving'[t].does = "apply"
    BY <1>6, <1>8
  <2> QED BY <2>1, <2>2, <2>3 DEF OneScan
<1> QED BY <1>10, <1>11, <1>12, <1>13, <1>15, <1>16 DEF ScannerInv

(* A row is marked as applied, and nothing else of any scan changes. *)
Marks(s, c) == scans' = [scans EXCEPT ![s].rows[c].applied = TRUE]

LEMMA RowMarked ==
  ASSUME ScannerInv, NEW s \in DOMAIN scans, NEW c \in DOMAIN scans[s].rows, Marks(s, c)
  PROVE  /\ scans' \in Seq(ScanRecord) /\ DOMAIN scans' = DOMAIN scans
         /\ \A z \in DOMAIN scans :
              /\ scans'[z].complete = scans[z].complete
              /\ DOMAIN scans'[z].rows = DOMAIN scans[z].rows
              /\ \A d \in DOMAIN scans[z].rows :
                   /\ scans'[z].rows[d].verdict = scans[z].rows[d].verdict
                   /\ scans'[z].rows[d].keeper = scans[z].rows[d].keeper
                   /\ scans'[z].rows[d].applied => scans[z].rows[d].applied \/ (z = s /\ d = c)
<1> DEFINE row == [scans[s].rows[c] EXCEPT !.applied = TRUE]
           rows == [scans[s].rows EXCEPT ![c] = row]
           rec == [scans[s] EXCEPT !.rows = rows]
<1>1. /\ scans[s] \in ScanRecord /\ scans[s].rows \in ScanRows /\ scans[s].rows[c] \in ScanRow
      /\ scans \in Seq(ScanRecord)
  BY ScanGet, ScannerGet
<1>2. /\ row \in ScanRow /\ row.verdict = scans[s].rows[c].verdict
      /\ row.keeper = scans[s].rows[c].keeper /\ row.applied = TRUE
  BY <1>1 DEF ScanRow
<1>3. scans' = [scans EXCEPT ![s] = rec]
  BY DEF Marks
<1> HIDE DEF row
<1>4. /\ rows \in ScanRows /\ DOMAIN rows = DOMAIN scans[s].rows /\ rows[c] = row
      /\ \A d \in DOMAIN rows \ {c} : rows[d] = scans[s].rows[d]
  <2>1. rows \in [DOMAIN scans[s].rows -> ScanRow] /\ DOMAIN scans[s].rows \in SUBSET Memory
    BY <1>1, <1>2, RowsOfScan
  <2> QED BY <2>1, RowsMade
<1> HIDE DEF rows
<1>5. rec \in ScanRecord /\ rec.complete = scans[s].complete /\ rec.rows = rows
  BY <1>1, <1>4 DEF ScanRecord
<1> HIDE DEF rec
<1>6. scans' \in Seq(ScanRecord) /\ DOMAIN scans' = DOMAIN scans
  <2>1. s \in 1..Len(scans) /\ DOMAIN scans = 1..Len(scans)
    BY <1>1, LenProperties
  <2> DEFINE new == [scans EXCEPT ![s] = rec]
  <2>2. new \in Seq(ScanRecord) /\ Len(new) = Len(scans)
    BY <1>1, <1>5, <2>1, ExceptSeq
  <2>3. scans' = new
    BY <1>3
  <2> HIDE DEF new
  <2> QED BY <2>1, <2>2, <2>3, LenProperties
<1>7. scans'[s] = rec /\ \A z \in DOMAIN scans \ {s} : scans'[z] = scans[z]
  BY <1>3
<1> QED BY <1>2, <1>4, <1>5, <1>6, <1>7

(* A row of a scan is applied: what it asks for was done. *)
LEMMA MarkStep ==
  ASSUME ScannerInv, NEW t \in Thread, serving[t].does = "apply", Scanner!Applied(t),
         Scanner!Advance(t, Scanner!Drop(t)),
         UNCHANGED <<told, disk, evidence, troubles, lost, disturbed, overlapped>>,
         Scanner!Action(scans[serving[t].scan].rows[Scanner!At(t)].verdict) = "retract"
           => told[Scanner!At(t)] = "closed",
         items' \in Seq(Item), ItemsFit', Scanner!AskedOnce',
         \A i \in DOMAIN items : i \in DOMAIN items' /\ items'[i].claim = items[i].claim,
         \/ items' = items
         \/ \A u \in Thread \ {t} : serving[u].does = "apply" => overlapped
  PROVE  ScannerInv'
<1> DEFINE s == serving[t].scan
           c == Scanner!At(t)
           y == IF serving[t].left = {Scanner!At(t)} THEN Scanner!Idle ELSE Scanner!Drop(t)
<1>1. PICK x \in Request : x = y
  BY NextRow
<1>2. /\ CallFits(x) /\ x.does \notin {"scan", "withdraw", "review"}
      /\ x.does # "nothing" => x.does = "apply" /\ x.scan = serving[t].scan /\ x.at = "row"
  BY <1>1, NextRow
<1>3. Scanner!Moves(t, x)
  BY <1>1 DEF Scanner!Advance
<1> HIDE DEF y
<1>4. /\ serving' \in [Thread -> Request] /\ serving'[t] = x
      /\ \A u \in Thread \ {t} : serving'[u] = serving[u]
  BY <1>3, OthersKeep
<1>5. s \in DOMAIN scans /\ c \in DOMAIN scans[s].rows
  BY ApplyGet
<1>6. /\ scans' \in Seq(ScanRecord) /\ DOMAIN scans' = DOMAIN scans
      /\ \A z \in DOMAIN scans :
           /\ scans'[z].complete = scans[z].complete
           /\ DOMAIN scans'[z].rows = DOMAIN scans[z].rows
           /\ \A d \in DOMAIN scans[z].rows :
                /\ scans'[z].rows[d].verdict = scans[z].rows[d].verdict
                /\ scans'[z].rows[d].keeper = scans[z].rows[d].keeper
                /\ scans'[z].rows[d].applied => scans[z].rows[d].applied \/ (z = s /\ d = c)
  <2>1. scans' = [scans EXCEPT ![s].rows[c].applied = TRUE]
    BY DEF Scanner!Applied
  <2> HIDE DEF s, c
  <2>2. PICK z \in DOMAIN scans : z = s
    BY <1>5
  <2>3. PICK d \in DOMAIN scans[z].rows : d = c
    BY <1>5, <2>2
  <2>4. Marks(z, d)
    BY <2>1, <2>2, <2>3 DEF Marks
  <2> QED BY <2>2, <2>3, <2>4, RowMarked
<1>7. Scanner!Action(scans[s].rows[c].verdict) = "retract" => told[c] = "closed"
  OBVIOUS
<1> HIDE DEF s, c
<1>8. ScannerTyped'
  BY <1>4, <1>6 DEF ScannerInv, ScannerTyped
<1>9. DiskFits' /\ ClosedRepeats'
  BY DEF ScannerInv, DiskFits, ClosedRepeats, Supported, Peers
<1>10. RowsFit'
  <2> SUFFICES ASSUME NEW z \in DOMAIN scans, NEW d \in DOMAIN scans[z].rows
               PROVE  RowFits(d, scans[z].rows[d])'
    BY <1>6 DEF RowsFit
  <2>1. RowFits(d, scans[z].rows[d]) /\ d \in Memory
    BY ScanGet
  <2>2. /\ scans'[z].rows[d].verdict = scans[z].rows[d].verdict
        /\ scans'[z].rows[d].keeper = scans[z].rows[d].keeper
        /\ scans'[z].rows[d].applied => scans[z].rows[d].applied \/ (z = s /\ d = c)
    BY <1>6
  <2> QED BY <1>7, <2>1, <2>2 DEF RowFits, Kept, Supported, Unsupported, Peers
<1>11. Forward
  BY NothingMoves
<1>12. \A u \in Thread : CallFits(serving[u])'
  <2>1. ASSUME NEW u \in Thread \ {t} PROVE CallFits(serving[u])'
    <3>1. PICK z \in Request : z = serving[u]
      BY CallGet
    <3>2. CallFits(z) /\ serving'[u] = z
      BY <1>4, <3>1, CallGet
    <3>3. z.does = "scan" => ~ scans'[z.scan].complete
      BY <1>6, <3>2 DEF CallFits, ScanFits
    <3>4. z.does = "apply" => z.scan \in DOMAIN scans /\ scans[z.scan].complete
      BY <3>2 DEF CallFits, ApplyFits
    <3>5. z.does = "apply" =>
            /\ scans'[z.scan].complete
            /\ DOMAIN scans[z.scan].rows \subseteq DOMAIN scans'[z.scan].rows
            /\ DOMAIN scans[z.scan].rows \subseteq Memory
            /\ \A d \in DOMAIN scans[z.scan].rows :
                 scans'[z.scan].rows[d].verdict = scans[z.scan].rows[d].verdict
      BY <1>6, <3>4, ScanGet
    <3>6. \A i \in DOMAIN items : /\ i \in DOMAIN items' /\ items'[i].claim = items[i].claim
                                  /\ items[i].claim \in Memory
      BY ItemGet
    <3>7. z.does = "apply" /\ z.at = "ask" /\ ~ overlapped' =>
            ~ overlapped /\ (~ Scanner!Asked(Scanner!Min(z.left)) => ~ Scanner!Asked(Scanner!Min(z.left))')
      BY <3>1 DEF Scanner!Asked
    <3>8. DOMAIN scans \subseteq DOMAIN scans'
      BY <1>6
    <3>9. CallFits(z)'
      BY <1>11, <3>2, <3>3, <3>5, <3>6, <3>7, <3>8, CallKeeps
    <3> QED BY <3>2, <3>9
  <2>2. CallFits(x)'
    <3>1. x.does = "apply" => x.scan \in DOMAIN scans /\ scans[x.scan].complete
      BY <1>2 DEF CallFits, ApplyFits
    <3>2. x.does = "apply" =>
            /\ scans'[x.scan].complete
            /\ DOMAIN scans[x.scan].rows \subseteq DOMAIN scans'[x.scan].rows
            /\ DOMAIN scans[x.scan].rows \subseteq Memory
            /\ \A d \in DOMAIN scans[x.scan].rows :
                 scans'[x.scan].rows[d].verdict = scans[x.scan].rows[d].verdict
      BY <1>6, <3>1, ScanGet
    <3>3. \A i \in DOMAIN items : /\ i \in DOMAIN items' /\ items'[i].claim = items[i].claim
                                  /\ items[i].claim \in Memory
      BY ItemGet
    <3>4. x.does # "scan" /\ ~ (x.does = "apply" /\ x.at = "ask") /\ DOMAIN scans \subseteq DOMAIN scans'
      BY <1>2, <1>6
    <3> QED BY <1>2, <1>11, <3>2, <3>3, <3>4, CallKeeps
  <2> QED BY <1>4, <2>1, <2>2
<1>13. OneScan'
  BY <1>2, <1>4 DEF ScannerInv, OneScan
<1> QED BY <1>8, <1>9, <1>10, <1>12, <1>13 DEF ScannerInv

LEMMA SkipStep ==
  ASSUME ScannerInv, NEW t \in Thread, Scanner!Skip(t)
  PROVE  ScannerInv'
<1> DEFINE c == Scanner!At(t)
           v == scans[serving[t].scan].rows[c].verdict
<1>1. /\ serving[t].does = "apply" /\ Scanner!Applied(t)
      /\ Scanner!Advance(t, Scanner!Drop(t))
      /\ UNCHANGED <<told, disk, evidence, items, troubles, lost, disturbed, overlapped>>
      /\ Scanner!Action(v) = "retract" => c \notin Scanner!Open
  BY DEF Scanner!Skip, Scanner!RowOf
<1>2. Scanner!Action(v) = "retract" => told[c] = "closed"
  <2>1. /\ serving[t].scan \in DOMAIN scans /\ c \in DOMAIN scans[serving[t].scan].rows /\ c \in Memory
    BY <1>1, ApplyGet
  <2>2. told[c] # "absent"
    BY <2>1, ScanGet DEF RowFits
  <2> QED BY <1>1, <2>1, <2>2, ScannerGet DEF Scanner!Open
<1>3. /\ items' \in Seq(Item) /\ items' = items
      /\ \A i \in DOMAIN items : i \in DOMAIN items' /\ items'[i].claim = items[i].claim
  BY <1>1, ScannerGet
<1>4. ItemsFit' /\ Scanner!AskedOnce'
  BY <1>1 DEF ScannerInv, ItemsFit, Scanner!AskedOnce
<1> QED BY <1>1, <1>2, <1>3, <1>4, MarkStep

LEMMA MarkedStep ==
  ASSUME ScannerInv, NEW t \in Thread, Scanner!Mark(t)
  PROVE  ScannerInv'
<1>1. /\ serving[t].does = "apply" /\ serving[t].at = "mark" /\ Scanner!Applied(t)
      /\ Scanner!Advance(t, Scanner!Drop(t))
      /\ UNCHANGED <<told, disk, evidence, items, troubles, lost, disturbed, overlapped>>
  BY DEF Scanner!Mark
<1>2. told[Scanner!At(t)] = "closed"
  BY <1>1, ApplyGet
<1>3. /\ items' \in Seq(Item) /\ items' = items
      /\ \A i \in DOMAIN items : i \in DOMAIN items' /\ items'[i].claim = items[i].claim
  BY <1>1, ScannerGet
<1>4. ItemsFit' /\ Scanner!AskedOnce'
  BY <1>1 DEF ScannerInv, ItemsFit, Scanner!AskedOnce
<1> QED BY <1>1, <1>2, <1>3, <1>4, MarkStep

(* A question is put: nobody else could put it since it was looked for. *)
LEMMA AskStep ==
  ASSUME ScannerInv, NEW t \in Thread, Scanner!Ask(t)
  PROVE  ScannerInv'
<1> DEFINE c == Scanner!At(t)
           new == [claim |-> c, status |-> "pending"]
<1>1. /\ serving[t].at = "ask" /\ items' = Append(items, new) /\ Scanner!Applied(t)
      /\ Scanner!Advance(t, Scanner!Drop(t))
      /\ UNCHANGED <<told, disk, evidence, troubles, lost, disturbed, overlapped>>
  BY DEF Scanner!Ask
<1>2. serving[t].does = "apply"
  <2>1. CallFits(serving[t]) /\ serving[t] \in Request
    BY CallGet
  <2>2. serving[t].does # "nothing"
    BY <1>1, <2>1, IdleCall DEF CallFits
  <2>3. serving[t].does \notin {"scan", "withdraw", "review"}
    BY <1>1, <2>1 DEF CallFits, ScanFits, WithdrawFits, ReviewFits
  <2> QED BY <2>1, <2>2, <2>3 DEF Request
<1>3. /\ c \in Memory /\ serving[t].scan \in DOMAIN scans
      /\ c \in DOMAIN scans[serving[t].scan].rows
      /\ Scanner!Action(scans[serving[t].scan].rows[c].verdict) = "review"
      /\ ~ overlapped => ~ Scanner!Asked(c)
  BY <1>1, <1>2, ApplyGet
<1>4. told[c] # "absent"
  BY <1>3, ScanGet DEF RowFits
<1> HIDE DEF c
<1>5. new \in Item /\ items \in Seq(Item)
  BY <1>3, ScannerGet DEF Item
<1>6. /\ items' \in Seq(Item) /\ Len(items') = Len(items) + 1 /\ Len(items) \in Nat
      /\ \A i \in 1..Len(items) : items'[i] = items[i]
      /\ items'[Len(items) + 1] = new
  BY <1>1, <1>5, AppendProperties, LenProperties
<1>7. DOMAIN items = 1..Len(items) /\ DOMAIN items' = 1..(Len(items) + 1)
  BY <1>5, <1>6, LenProperties
<1> DEFINE n == Len(items) + 1
<1>8. /\ DOMAIN items' = DOMAIN items \cup {n} /\ n \notin DOMAIN items
      /\ \A i \in DOMAIN items : items'[i] = items[i]
      /\ items'[n] = new
  BY <1>6, <1>7
<1> HIDE DEF n
<1>9. \A i \in DOMAIN items : i \in DOMAIN items' /\ items'[i].claim = items[i].claim
  BY <1>8
<1>10. ItemsFit'
  BY <1>1, <1>4, <1>8 DEF ScannerInv, ItemsFit
<1>11. Scanner!AskedOnce'
  <2>1. CASE overlapped
    BY <1>1, <2>1 DEF Scanner!AskedOnce
  <2>2. CASE ~ overlapped
    <3>1. \A i \in DOMAIN items : ~ (items[i].claim = c /\ items[i].status = "pending")
      BY <1>3, <2>2 DEF Scanner!Asked
    <3>2. \A i, j \in DOMAIN items :
            items[i].status = "pending" /\ items[j].status = "pending"
              /\ items[i].claim = items[j].claim => i = j
      BY <2>2 DEF ScannerInv, Scanner!AskedOnce
    <3> QED BY <1>8, <3>1, <3>2 DEF Scanner!AskedOnce
  <2> QED BY <2>1, <2>2
<1>12. \A u \in Thread \ {t} : serving[u].does = "apply" => overlapped
  BY <1>2 DEF ScannerInv, OneScan
<1>13. Scanner!Action(scans[serving[t].scan].rows[Scanner!At(t)].verdict) # "retract"
  BY <1>3 DEF c
<1>14. UNCHANGED <<told, disk, evidence, troubles, lost, disturbed, overlapped>>
  BY <1>1
<1> QED BY <1>1, <1>2, <1>6, <1>9, <1>10, <1>11, <1>12, <1>13, <1>14, MarkStep

(* A scan begins. *)
LEMMA StartScanStep ==
  ASSUME ScannerInv, NEW t \in Thread, NEW recent \in BOOLEAN, Scanner!StartScan(t, recent)
  PROVE  ScannerInv'
<1> DEFINE n == Len(scans) + 1
           rec == [complete |-> FALSE, rows |-> <<>>]
           y == [Scanner!Idle EXCEPT !.does = "scan", !.at = "row", !.scan = n,
                    !.left = Scanner!Open, !.believed = Scanner!Open, !.recent = recent]
<1>1. /\ scans' = Append(scans, rec) /\ Scanner!Moves(t, y) /\ Scanner!Open # {}
      /\ UNCHANGED <<told, disk, evidence, items, troubles, lost, disturbed, overlapped>>
  BY DEF Scanner!StartScan
<1>2. Scanner!Open \subseteq Memory /\ \A c \in Scanner!Open : told[c] # "absent"
  BY DEF Scanner!Open
<1>3. rec \in ScanRecord
  <2>1. <<>> \in Seq(ScanRow) /\ Len(<<>>) = 0
    BY EmptySeq
  <2>2. <<>> \in [1..0 -> ScanRow] /\ 1..0 = {}
    BY <2>1, LenProperties
  <2>3. <<>> \in [{} -> ScanRow] /\ {} \in SUBSET Memory
    BY <2>2
  <2>4. <<>> \in ScanRows
    BY <2>3, RowsMade
  <2> QED BY <2>4 DEF ScanRecord
<1>4. /\ scans \in Seq(ScanRecord) /\ Len(scans) \in Nat /\ DOMAIN scans = 1..Len(scans)
  BY ScannerGet, LenProperties
<1>5. /\ scans' \in Seq(ScanRecord) /\ Len(scans') = Len(scans) + 1
      /\ \A i \in 1..Len(scans) : scans'[i] = scans[i]
      /\ scans'[Len(scans) + 1] = rec
  BY <1>1, <1>3, <1>4, AppendProperties
<1>6. DOMAIN scans' = 1..(Len(scans) + 1)
  BY <1>5, LenProperties
<1>7. /\ DOMAIN scans' = DOMAIN scans \cup {n} /\ n \notin DOMAIN scans /\ n \in Nat
      /\ \A i \in DOMAIN scans : scans'[i] = scans[i]
      /\ scans'[n] = rec
  BY <1>4, <1>5, <1>6
<1> HIDE DEF n
<1>8. y \in Request
  BY <1>2, <1>7 DEF Request, Scanner!Idle
<1>9. PICK x \in Request : x = y
  BY <1>8
<1>10. /\ x.does = "scan" /\ x.at = "row" /\ x.scan = n /\ x.left = Scanner!Open /\ x.kept = {}
  BY <1>9 DEF Scanner!Idle
<1>11. Scanner!Moves(t, x)
  BY <1>1, <1>9
<1> HIDE DEF y
<1>12. /\ serving' \in [Thread -> Request] /\ serving'[t] = x
       /\ \A u \in Thread \ {t} : serving'[u] = serving[u]
  BY <1>11, OthersKeep
<1>13. ScannerTyped'
  BY <1>1, <1>5, <1>12 DEF ScannerInv, ScannerTyped
<1>14. DiskFits' /\ ClosedRepeats' /\ ItemsFit' /\ Scanner!AskedOnce'
  BY <1>1 DEF ScannerInv, DiskFits, ClosedRepeats, ItemsFit, Scanner!AskedOnce, Supported, Peers
<1>15. RowsFit'
  <2> SUFFICES ASSUME NEW s \in DOMAIN scans', NEW c \in DOMAIN scans'[s].rows
               PROVE  RowFits(c, scans[s].rows[c])'
    BY DEF RowsFit
  <2>1. CASE s = n
    <3>1. DOMAIN <<>> = {}
      OBVIOUS
    <3> QED BY <1>7, <2>1, <3>1
  <2>2. CASE s \in DOMAIN scans
    <3>1. c \in DOMAIN scans[s].rows /\ scans'[s].rows[c] = scans[s].rows[c]
      BY <1>7, <2>2
    <3>2. PICK r \in ScanRow : r = scans[s].rows[c]
      BY <2>2, <3>1, ScanGet
    <3>3. RowFits(c, r) /\ scans'[s].rows[c] = r
      BY <2>2, <3>1, <3>2, ScanGet
    <3>4. RowFits(c, r)'
      BY <1>1, <3>3 DEF RowFits, Kept, Supported, Unsupported, Peers
    <3> QED BY <3>3, <3>4
  <2> QED BY <1>7, <2>1, <2>2
<1>16. \A u \in Thread : CallFits(serving[u])'
  <2>1. ASSUME NEW u \in Thread \ {t} PROVE CallFits(serving[u])'
    <3>1. PICK z \in Request : z = serving[u]
      BY CallGet
    <3>2. CallFits(z) /\ serving'[u] = z
      BY <1>12, <3>1, CallGet
    <3>3. z.does \in {"scan", "apply"} => z.scan \in DOMAIN scans
      BY <3>2 DEF CallFits, ScanFits, ApplyFits
    <3>4. z.does = "scan" => ~ scans'[z.scan].complete
      BY <1>7, <3>2, <3>3 DEF CallFits, ScanFits
    <3>5. z.does = "apply" =>
            /\ scans'[z.scan].complete
            /\ DOMAIN scans[z.scan].rows \subseteq DOMAIN scans'[z.scan].rows
            /\ DOMAIN scans[z.scan].rows \subseteq Memory
            /\ \A d \in DOMAIN scans[z.scan].rows :
                 scans'[z.scan].rows[d].verdict = scans[z.scan].rows[d].verdict
      BY <1>7, <3>2, <3>3, ScanGet DEF CallFits, ApplyFits
    <3>6. \A i \in DOMAIN items : /\ i \in DOMAIN items' /\ items'[i].claim = items[i].claim
                                  /\ items[i].claim \in Memory
      BY <1>1, ItemGet
    <3>7. z.does = "apply" /\ z.at = "ask" /\ ~ overlapped' =>
            ~ overlapped /\ (~ Scanner!Asked(Scanner!Min(z.left)) => ~ Scanner!Asked(Scanner!Min(z.left))')
      BY <1>1 DEF Scanner!Asked
    <3>8. DOMAIN scans \subseteq DOMAIN scans' /\ Forward
      BY <1>1, <1>7, NothingMoves
    <3>9. CallFits(z)'
      BY <3>2, <3>4, <3>5, <3>6, <3>7, <3>8, CallKeeps
    <3> QED BY <3>2, <3>9
  <2>2. ScanFits(x)'
    BY <1>1, <1>2, <1>7, <1>10 DEF ScanFits
  <2>3. CallFits(x)'
    BY <1>10, <2>2 DEF CallFits, ApplyFits, WithdrawFits, ReviewFits, Scanner!Idle
  <2> QED BY <1>12, <2>1, <2>3
<1>17. OneScan'
  <2>1. \A u \in Thread \ {t} : serving[u].does = "scan" => serving[u].scan # n
    BY <1>7, CallGet DEF CallFits, ScanFits
  <2> QED BY <1>1, <1>10, <1>12, <2>1 DEF ScannerInv, OneScan
<1> QED BY <1>13, <1>14, <1>15, <1>16, <1>17 DEF ScannerInv

(* The verdicts. *)
LEMMA EvidenceShows ==
  ASSUME ScannerInv, NEW c \in Memory
  PROVE  /\ Scanner!OfEvidence(evidence[c]) \in Scanner!Verdicts \ {"DUPLICATE"}
         /\ Scanner!OfEvidence(evidence[c]) # "CONTRADICTED"
<1>1. PICK f : f = evidence[c]
  OBVIOUS
<1>2. f \in [quoted : BOOLEAN, derived : BOOLEAN, grounded : BOOLEAN,
             source : BOOLEAN, old : BOOLEAN, reads : DOMAIN Scanner!Shows]
  BY <1>1, ScannerGet, ScannerAssumption
<1>3. f.reads \in DOMAIN Scanner!Shows /\ f.quoted \in BOOLEAN /\ f.source \in BOOLEAN
  BY <1>2
<1>4. Scanner!Shows[f.reads] \in (Scanner!Verdicts \ {"DUPLICATE"}) \ {"CONTRADICTED"}
  BY <1>3 DEF Scanner!Shows, Scanner!Verdicts
<1>5. Scanner!OfSource(f) \in (Scanner!Verdicts \ {"DUPLICATE"}) \ {"CONTRADICTED"}
  BY <1>4 DEF Scanner!OfSource, Scanner!Verdicts
<1>6. Scanner!OfEvidence(f) \in (Scanner!Verdicts \ {"DUPLICATE"}) \ {"CONTRADICTED"}
  <2>1. CASE f.source
    BY <1>5, <2>1 DEF Scanner!OfEvidence
  <2>2. CASE ~ f.source /\ f.quoted
    BY <2>2 DEF Scanner!OfEvidence, Scanner!Verdicts
  <2>3. CASE ~ f.source /\ ~ f.quoted
    BY <2>3 DEF Scanner!OfEvidence, Scanner!Verdicts
  <2> QED BY <2>1, <2>2, <2>3
<1> QED BY <1>1, <1>6

LEMMA VerdictIs ==
  ASSUME ScannerInv, NEW t \in Thread, NEW c \in Memory
  PROVE  LET v == Scanner!Verdict(t, c)
         IN  /\ v \in Scanner!Verdicts
             /\ v = "DUPLICATE" => Scanner!Keepers(t, c) # {}
             /\ Scanner!Action(v) = "retract" /\ v # "DUPLICATE"
                  => Scanner!OfEvidence(evidence[c]) # "VALID"
             /\ v = "VALID" => Scanner!OfEvidence(evidence[c]) = "VALID"
<1>1. PICK e : e = Scanner!OfEvidence(evidence[c])
  OBVIOUS
<1>2. e \in Scanner!Verdicts \ {"DUPLICATE"} /\ e # "CONTRADICTED"
  BY <1>1, EvidenceShows
<1>3. PICK v : v = Scanner!Verdict(t, c)
  OBVIOUS
<1>4. \/ Scanner!Keepers(t, c) # {} /\ v = "DUPLICATE"
      \/ Scanner!Keepers(t, c) = {} /\ (v = "CONTRADICTED" \/ v = e)
  <2>1. CASE Scanner!Keepers(t, c) # {}
    BY <1>3, <2>1 DEF Scanner!Verdict
  <2>2. CASE Scanner!Keepers(t, c) = {} /\ Scanner!Contradicted(c, serving[t].believed)
    BY <1>3, <2>2 DEF Scanner!Verdict
  <2>3. CASE Scanner!Keepers(t, c) = {} /\ ~ Scanner!Contradicted(c, serving[t].believed)
    BY <1>1, <1>3, <2>3 DEF Scanner!Verdict
  <2> QED BY <2>1, <2>2, <2>3
<1>5. Scanner!Action("VALID") = "none" /\ Scanner!Action("CONTRADICTED") = "none"
  BY DEF Scanner!Action
<1> QED BY <1>1, <1>2, <1>3, <1>4, <1>5 DEF Scanner!Verdicts

(* What a scan is at. *)
LEMMA ScanningGet ==
  ASSUME ScannerInv, NEW t \in Thread, serving[t].does = "scan"
  PROVE  LET c == Scanner!At(t)
         IN  /\ serving[t] \in Request /\ serving[t].at = "row"
             /\ serving[t].scan \in DOMAIN scans /\ ~ scans[serving[t].scan].complete
             /\ c \in Memory /\ c \in serving[t].left /\ told[c] # "absent"
             /\ \A n \in serving[t].left \ {c} : c < n
             /\ \A n \in serving[t].left : told[n] # "absent"
             /\ \A k \in serving[t].kept : Kept(k) /\ \A n \in serving[t].left : k < n
             /\ serving[t].kept \subseteq Memory /\ serving[t].left \subseteq Memory
<1>1. serving[t] \in Request /\ ScanFits(serving[t])
  BY CallGet DEF CallFits
<1>2. Scanner!At(t) = Scanner!Min(serving[t].left)
  BY DEF Scanner!At
<1>3. serving[t].left \in SUBSET Memory /\ serving[t].left # {} /\ serving[t].kept \subseteq Memory
  BY <1>1 DEF Request, ScanFits
<1>4. /\ Scanner!At(t) \in serving[t].left
      /\ \A n \in serving[t].left \ {Scanner!At(t)} : Scanner!At(t) < n
  BY <1>2, <1>3, FirstClaim
<1> QED BY <1>1, <1>3, <1>4 DEF ScanFits

(* A scan is done with one claim. *)
LEMMA JudgeStep ==
  ASSUME ScannerInv, NEW t \in Thread, serving[t].does = "scan",
         NEW rows \in ScanRows, NEW K \in SUBSET Memory,
         Scanner!Judged(t, rows), Scanner!Advance(t, [Scanner!Drop(t) EXCEPT !.kept = K]),
         UNCHANGED <<told, disk, evidence, items, troubles, lost, disturbed, overlapped>>,
         \A k \in K : Kept(k) /\ \A n \in serving[t].left \ {Scanner!At(t)} : k < n,
         \A d \in DOMAIN rows : RowFits(d, rows[d])
  PROVE  ScannerInv'
<1>1. PICK c : c = Scanner!At(t)
  OBVIOUS
<1>2. PICK s \in DOMAIN scans : s = serving[t].scan
  BY ScanningGet
<1>3. /\ serving[t] \in Request /\ serving[t].at = "row" /\ ~ scans[s].complete
      /\ c \in serving[t].left /\ serving[t].left \subseteq Memory
      /\ \A n \in serving[t].left : told[n] # "absent"
  BY <1>1, <1>2, ScanningGet
<1> DEFINE last == serving[t].left = {c}
           rec == [complete |-> last, rows |-> rows]
           y == [Scanner!Drop(t) EXCEPT !.kept = K]
<1>4. scans' = [scans EXCEPT ![s] = rec]
  BY <1>1, <1>2 DEF Scanner!Judged
<1>5. Scanner!Moves(t, IF last THEN Scanner!Idle ELSE y)
  BY <1>1 DEF Scanner!Advance
<1>6. y = [serving[t] EXCEPT !.left = @ \ {c}, !.at = "row", !.kept = K]
  BY <1>1 DEF Scanner!Drop
<1>7. /\ y \in Request /\ y.does = "scan" /\ y.at = "row" /\ y.scan = s
      /\ y.left = serving[t].left \ {c} /\ y.kept = K
  BY <1>2, <1>3, <1>6 DEF Request
<1> HIDE DEF y
<1>8. PICK x \in Request : x = IF last THEN Scanner!Idle ELSE y
  BY <1>7, IdleCall
<1>9. /\ serving' \in [Thread -> Request] /\ serving'[t] = x
      /\ \A u \in Thread \ {t} : serving'[u] = serving[u]
  BY <1>5, <1>8, OthersKeep
<1>10. rec \in ScanRecord /\ rec.complete = last /\ rec.rows = rows
  BY DEF ScanRecord
<1> HIDE DEF rec
<1>11. /\ scans' \in Seq(ScanRecord) /\ DOMAIN scans' = DOMAIN scans
       /\ scans'[s] = rec /\ \A z \in DOMAIN scans \ {s} : scans'[z] = scans[z]
  <2> DEFINE new == [scans EXCEPT ![s] = rec]
  <2>1. s \in 1..Len(scans) /\ DOMAIN scans = 1..Len(scans) /\ scans \in Seq(ScanRecord)
    BY ScannerGet, LenProperties
  <2>2. new \in Seq(ScanRecord) /\ Len(new) = Len(scans)
    BY <1>10, <2>1, ExceptSeq
  <2>3. scans' = new /\ new[s] = rec /\ \A z \in DOMAIN scans \ {s} : new[z] = scans[z]
    BY <1>4
  <2> HIDE DEF new
  <2> QED BY <2>1, <2>2, <2>3, LenProperties
<1> HIDE DEF last
<1>12. ScannerTyped'
  BY <1>9, <1>11 DEF ScannerInv, ScannerTyped
<1>13. DiskFits' /\ ClosedRepeats' /\ ItemsFit' /\ Scanner!AskedOnce'
  BY DEF ScannerInv, DiskFits, ClosedRepeats, ItemsFit, Scanner!AskedOnce, Supported, Peers
<1>14. RowsFit'
  <2> SUFFICES ASSUME NEW z \in DOMAIN scans, NEW d \in DOMAIN scans'[z].rows
               PROVE  RowFits(d, scans[z].rows[d])'
    BY <1>11 DEF RowsFit
  <2>1. PICK r : r = scans'[z].rows[d]
    OBVIOUS
  <2>2. RowFits(d, r)
    <3>1. CASE z = s
      BY <1>10, <1>11, <2>1, <3>1
    <3>2. CASE z # s
      BY <1>11, <2>1, <3>2, ScanGet
    <3> QED BY <3>1, <3>2
  <2>3. RowFits(d, r)'
    BY <2>2 DEF RowFits, Kept, Supported, Unsupported, Peers
  <2> QED BY <2>1, <2>3
<1>15. \A u \in Thread : CallFits(serving[u])'
  <2>1. ASSUME NEW u \in Thread \ {t} PROVE CallFits(serving[u])'
    <3>1. PICK z \in Request : z = serving[u]
      BY CallGet
    <3>2. CallFits(z) /\ serving'[u] = z
      BY <1>9, <3>1, CallGet
    <3>3. z.does = "scan" => z.scan \in DOMAIN scans /\ ~ scans[z.scan].complete /\ z.scan # s
      BY <1>2, <3>1, <3>2 DEF CallFits, ScanFits, ScannerInv, OneScan
    <3>4. z.does = "apply" => z.scan \in DOMAIN scans /\ scans[z.scan].complete /\ z.scan # s
      BY <1>3, <3>2 DEF CallFits, ApplyFits
    <3>5. z.does = "scan" => ~ scans'[z.scan].complete
      BY <1>11, <3>3
    <3>6. z.does = "apply" =>
            /\ scans'[z.scan].complete
            /\ DOMAIN scans[z.scan].rows \subseteq DOMAIN scans'[z.scan].rows
            /\ DOMAIN scans[z.scan].rows \subseteq Memory
            /\ \A d \in DOMAIN scans[z.scan].rows :
                 scans'[z.scan].rows[d].verdict = scans[z.scan].rows[d].verdict
      BY <1>11, <3>4, ScanGet
    <3>7. \A i \in DOMAIN items : /\ i \in DOMAIN items' /\ items'[i].claim = items[i].claim
                                  /\ items[i].claim \in Memory
      BY ItemGet
    <3>8. z.does = "apply" /\ z.at = "ask" /\ ~ overlapped' =>
            ~ overlapped /\ (~ Scanner!Asked(Scanner!Min(z.left)) => ~ Scanner!Asked(Scanner!Min(z.left))')
      BY DEF Scanner!Asked
    <3>9. DOMAIN scans \subseteq DOMAIN scans' /\ Forward
      BY <1>11, NothingMoves
    <3>10. CallFits(z)'
      BY <3>2, <3>5, <3>6, <3>7, <3>8, <3>9, CallKeeps
    <3> QED BY <3>2, <3>10
  <2>2. CallFits(x)'
    <3>1. CASE last
      <4>1. x = Scanner!Idle
        BY <1>8, <3>1
      <4> QED BY <4>1, IdleCall DEF CallFits, ScanFits, ApplyFits, WithdrawFits, ReviewFits
    <3>2. CASE ~ last
      <4>1. x = y
        BY <1>8, <3>2
      <4>2. x.left # {} /\ x.left \subseteq serving[t].left
        BY <1>3, <1>7, <3>2, <4>1 DEF last
      <4>3. /\ s \in DOMAIN scans' /\ scans'[s].complete = FALSE
        BY <1>10, <1>11, <3>2
      <4>4. \A k \in K : Kept(k)' /\ \A n \in x.left : k < n
        BY <1>1, <1>7, <4>1 DEF Kept, Supported
      <4>5. \A n \in x.left : told'[n] # "absent"
        BY <1>3, <4>2
      <4>6. ScanFits(x)'
        BY <1>7, <4>1, <4>2, <4>3, <4>4, <4>5 DEF ScanFits
      <4> QED BY <1>7, <4>1, <4>6 DEF CallFits, ApplyFits, WithdrawFits, ReviewFits, Scanner!Idle
    <3> QED BY <3>1, <3>2
  <2> QED BY <1>9, <2>1, <2>2
<1>16. OneScan'
  <2>1. x.does \in {"scan", "nothing"} /\ (x.does = "scan" => x.scan = serving[t].scan)
    BY <1>2, <1>7, <1>8, IdleCall
  <2> QED BY <1>9, <2>1 DEF ScannerInv, OneScan
<1> QED BY <1>12, <1>13, <1>14, <1>15, <1>16 DEF ScannerInv

LEMMA PassOverStep ==
  ASSUME ScannerInv, NEW t \in Thread, Scanner!PassOver(t)
  PROVE  ScannerInv'
<1>1. /\ serving[t].does = "scan"
      /\ UNCHANGED <<told, disk, evidence, items, troubles, lost, disturbed, overlapped>>
  BY DEF Scanner!PassOver
<1>2. PICK s \in DOMAIN scans : s = serving[t].scan
  BY <1>1, ScanningGet
<1>3. PICK rows \in ScanRows : rows = scans[s].rows
  BY ScanGet
<1>4. PICK K \in SUBSET Memory : K = serving[t].kept
  BY <1>1, ScanningGet
<1>5. Scanner!Judged(t, rows)
  BY <1>2, <1>3 DEF Scanner!PassOver
<1>6. Scanner!Drop(t) = [Scanner!Drop(t) EXCEPT !.kept = K]
  BY <1>1, <1>4, ScanningGet DEF Scanner!Drop, Request
<1>7. Scanner!Advance(t, [Scanner!Drop(t) EXCEPT !.kept = K])
  BY <1>6 DEF Scanner!PassOver
<1>8. \A k \in K : Kept(k) /\ \A n \in serving[t].left \ {Scanner!At(t)} : k < n
  BY <1>1, <1>4, ScanningGet
<1>9. \A d \in DOMAIN rows : RowFits(d, rows[d])
  BY <1>3, ScanGet
<1> QED BY <1>1, <1>5, <1>7, <1>8, <1>9, JudgeStep

LEMMA ExamineStep ==
  ASSUME ScannerInv, NEW t \in Thread, Scanner!Examine(t)
  PROVE  ScannerInv'
<1>1. /\ serving[t].does = "scan"
      /\ UNCHANGED <<told, disk, evidence, items, troubles, lost, disturbed, overlapped>>
  BY DEF Scanner!Examine
<1>2. PICK s \in DOMAIN scans : s = serving[t].scan
  BY <1>1, ScanningGet
<1>3. PICK c \in Memory : c = Scanner!At(t)
  BY <1>1, ScanningGet
<1> DEFINE row == Scanner!Row(t, c)
           old == scans[s].rows
           new == Scanner!Put(c, row, old)
<1>4. /\ c \in serving[t].left /\ told[c] # "absent"
      /\ \A n \in serving[t].left \ {c} : c < n
      /\ \A k \in serving[t].kept : Kept(k) /\ \A n \in serving[t].left : k < n
      /\ serving[t].kept \subseteq Memory
  BY <1>1, <1>3, ScanningGet
<1>5. PICK v : v = Scanner!Verdict(t, c)
  OBVIOUS
<1>6. /\ v \in Scanner!Verdicts
      /\ v = "DUPLICATE" => Scanner!Keepers(t, c) # {}
      /\ Scanner!Action(v) = "retract" /\ v # "DUPLICATE"
           => Scanner!OfEvidence(evidence[c]) # "VALID"
      /\ v = "VALID" => Scanner!OfEvidence(evidence[c]) = "VALID"
  BY <1>5, VerdictIs
<1>7. \A k \in Scanner!Keepers(t, c) : k \in Peers(c) /\ Kept(k) /\ k \in Memory
  BY <1>4 DEF Scanner!Keepers, Peers
<1>8. /\ row \in ScanRow /\ row.verdict = v /\ row.keeper = Scanner!Keepers(t, c) /\ ~ row.applied
  BY <1>5, <1>6, <1>7 DEF Scanner!Row, ScanRow
<1>9. RowFits(c, row)
  BY <1>4, <1>6, <1>7, <1>8 DEF RowFits, Unsupported
<1> HIDE DEF row
<1>10. old \in ScanRows /\ DOMAIN old \subseteq Memory /\ \A d \in DOMAIN old : RowFits(d, old[d])
  BY ScanGet
<1>11. /\ new \in ScanRows /\ DOMAIN new = DOMAIN old \cup {c} /\ new[c] = row
       /\ \A d \in DOMAIN old \ {c} : new[d] = old[d]
  <2>1. /\ DOMAIN old \cup {c} \in SUBSET Memory
        /\ \A d \in DOMAIN old \cup {c} : (IF d = c THEN row ELSE old[d]) \in ScanRow
    BY <1>8, <1>10, RowsOfScan
  <2>2. /\ new \in [DOMAIN old \cup {c} -> ScanRow] /\ new[c] = row
        /\ \A d \in DOMAIN old \ {c} : new[d] = old[d]
    BY <2>1 DEF Scanner!Put
  <2> HIDE DEF new, old
  <2> QED BY <2>1, <2>2, RowsMade
<1>12. Scanner!Judged(t, new) /\ Scanner!Advance(t, [Scanner!Drop(t) EXCEPT !.kept = Scanner!Keeps(t, c)])
  BY <1>2, <1>3 DEF Scanner!Examine, row
<1> HIDE DEF new, old
<1>13. PICK rows \in ScanRows : rows = new
  BY <1>11
<1>14. \A d \in DOMAIN rows : RowFits(d, rows[d])
  BY <1>9, <1>10, <1>11, <1>13
<1>15. Scanner!Keeps(t, c) = IF v = "VALID" THEN serving[t].kept \cup {c} ELSE serving[t].kept
  BY <1>5 DEF Scanner!Keeps
<1>16. PICK K \in SUBSET Memory : K = Scanner!Keeps(t, c)
  BY <1>4, <1>15
<1>17. \A k \in K : Kept(k) /\ \A n \in serving[t].left \ {c} : k < n
  BY <1>4, <1>6, <1>15, <1>16 DEF Kept, Supported
<1>18. Scanner!Judged(t, rows) /\ Scanner!Advance(t, [Scanner!Drop(t) EXCEPT !.kept = K])
  BY <1>12, <1>13, <1>16
<1> QED BY <1>1, <1>3, <1>14, <1>17, <1>18, JudgeStep

(* Who closes a claim, and which. *)
LEMMA ClosingGet ==
  ASSUME ScannerInv, NEW t \in Thread, serving[t].at \in {"close", "log"}
  PROVE  LET c == Scanner!Target(t)
         IN  /\ serving[t] \in Request /\ serving[t].does \in {"apply", "withdraw", "review"}
             /\ c \in Memory /\ told[c] # "absent"
             /\ serving[t].at = "log" => told[c] = "closed"
             /\ serving[t].does = "apply" => c = Scanner!At(t)
             /\ serving[t].does = "withdraw" => serving[t].left = {c}
             /\ serving[t].does = "review" =>
                  serving[t].item \in DOMAIN items /\ items[serving[t].item].claim = c
<1>1. CallFits(serving[t]) /\ serving[t] \in Request
  BY CallGet
<1>2. serving[t].does \in {"apply", "withdraw", "review"}
  <2>1. serving[t].does # "nothing"
    BY <1>1, IdleCall DEF CallFits
  <2>2. serving[t].does # "scan"
    BY <1>1 DEF CallFits, ScanFits
  <2> QED BY <1>1, <2>1, <2>2 DEF Request
<1>3. CASE serving[t].does = "apply"
  <2>1. Scanner!Target(t) = Scanner!At(t)
    BY <1>3 DEF Scanner!Target
  <2>2. /\ Scanner!At(t) \in Memory /\ serving[t].scan \in DOMAIN scans
        /\ Scanner!At(t) \in DOMAIN scans[serving[t].scan].rows
        /\ serving[t].at = "log" => told[Scanner!At(t)] = "closed"
    BY <1>3, ApplyGet
  <2>3. told[Scanner!At(t)] # "absent"
    BY <2>2, ScanGet DEF RowFits
  <2> QED BY <1>1, <1>3, <2>1, <2>2, <2>3
<1>4. CASE serving[t].does = "withdraw"
  <2>1. PICK c \in Memory : /\ serving[t].left = {c} /\ told[c] # "absent"
                            /\ serving[t].at = "log" => told[c] = "closed"
    BY <1>1, <1>4 DEF CallFits, WithdrawFits
  <2>2. Scanner!Min({c}) = c
    BY FirstClaim
  <2>3. Scanner!Target(t) = c
    BY <1>4, <2>1, <2>2 DEF Scanner!Target, Scanner!At
  <2> QED BY <1>1, <1>4, <2>1, <2>3
<1>5. CASE serving[t].does = "review"
  <2>1. Scanner!Target(t) = items[serving[t].item].claim
    BY <1>5 DEF Scanner!Target
  <2>2. /\ serving[t].item \in DOMAIN items
        /\ serving[t].at = "log" => told[items[serving[t].item].claim] = "closed"
    BY <1>1, <1>5 DEF CallFits, ReviewFits
  <2> QED BY <1>1, <1>5, <2>1, <2>2, ItemGet
<1> QED BY <1>2, <1>3, <1>4, <1>5

(* A step of a call that goes forward with the claims. *)
LEMMA ForwardStep ==
  ASSUME ScannerInv, NEW t \in Thread, NEW x \in Request, Scanner!Moves(t, x),
         Forward, UNCHANGED <<evidence, scans, items, troubles, lost, overlapped>>,
         told' \in [Memory -> {"absent", "open", "closed"}],
         disk' \in [Memory -> {"absent", "open", "closed"}],
         disturbed' \subseteq Memory, DiskFits', ClosedRepeats',
         x.does \in {"nothing", serving[t].does}, x.does # "scan",
         x.scan = serving[t].scan \/ x.does # "apply",
         CallFits(x)'
  PROVE  ScannerInv'
<1>1. /\ serving' \in [Thread -> Request] /\ serving'[t] = x
      /\ \A u \in Thread \ {t} : serving'[u] = serving[u]
  BY OthersKeep
<1>2. ScannerTyped'
  BY <1>1 DEF ScannerInv, ScannerTyped
<1>3. RowsFit'
  <2> SUFFICES ASSUME NEW z \in DOMAIN scans, NEW d \in DOMAIN scans[z].rows
               PROVE  RowFits(d, scans[z].rows[d])'
    BY DEF RowsFit
  <2>1. PICK r \in ScanRow : r = scans[z].rows[d]
    BY ScanGet
  <2>2. RowFits(d, r) /\ d \in Memory
    BY <2>1, ScanGet
  <2>3. \A k \in Memory : /\ told[k] # "absent" => told'[k] # "absent"
                          /\ told[k] = "closed" => told'[k] = "closed" \/ k \in lost'
                          /\ Supported(k) => Supported(k)'
                          /\ Unsupported(k) => Unsupported(k)'
    BY DEF Forward
  <2>4. RowFits(d, r)'
    BY <2>2, <2>3, RowKeeps
  <2> QED BY <2>1, <2>4
<1>4. ItemsFit'
  BY ItemGet DEF ScannerInv, ItemsFit, Forward
<1>5. Scanner!AskedOnce'
  BY DEF ScannerInv, Scanner!AskedOnce
<1>6. \A u \in Thread : CallFits(serving[u])'
  <2>1. ASSUME NEW u \in Thread \ {t} PROVE CallFits(serving[u])'
    <3>1. PICK z \in Request : z = serving[u]
      BY CallGet
    <3>2. CallFits(z) /\ serving'[u] = z
      BY <1>1, <3>1, CallGet
    <3>3. z.does = "scan" => ~ scans'[z.scan].complete
      BY <3>2 DEF CallFits, ScanFits
    <3>4. z.does = "apply" => z.scan \in DOMAIN scans /\ scans[z.scan].complete
      BY <3>2 DEF CallFits, ApplyFits
    <3>5. z.does = "apply" =>
            /\ scans'[z.scan].complete
            /\ DOMAIN scans[z.scan].rows \subseteq DOMAIN scans'[z.scan].rows
            /\ DOMAIN scans[z.scan].rows \subseteq Memory
            /\ \A d \in DOMAIN scans[z.scan].rows :
                 scans'[z.scan].rows[d].verdict = scans[z.scan].rows[d].verdict
      BY <3>4, ScanGet
    <3>6. \A i \in DOMAIN items : /\ i \in DOMAIN items' /\ items'[i].claim = items[i].claim
                                  /\ items[i].claim \in Memory
      BY ItemGet
    <3>7. z.does = "apply" /\ z.at = "ask" /\ ~ overlapped' =>
            ~ overlapped /\ (~ Scanner!Asked(Scanner!Min(z.left)) => ~ Scanner!Asked(Scanner!Min(z.left))')
      BY DEF Scanner!Asked
    <3>8. DOMAIN scans \subseteq DOMAIN scans'
      OBVIOUS
    <3>9. CallFits(z)'
      BY <3>2, <3>3, <3>5, <3>6, <3>7, <3>8, CallKeeps
    <3> QED BY <3>2, <3>9
  <2> QED BY <1>1, <2>1
<1>7. OneScan'
  BY <1>1 DEF ScannerInv, OneScan
<1> QED BY <1>2, <1>3, <1>4, <1>5, <1>6, <1>7 DEF ScannerInv

(* A supported claim that is closed as a repetition repeats one that is    *)
(* held, wherever the chain of its keepers ends.                           *)
LEMMA RepeatsHeld ==
  ASSUME ScannerInv, NEW c \in Memory, NEW r, RowFits(c, r), Scanner!Action(r.verdict) = "retract",
         c \notin disturbed, Supported(c)
  PROVE  \E k \in Peers(c) : Supported(k) /\ (told[k] = "open" \/ k \in disturbed)
<1>1. ~ Unsupported(c)
  BY DEF Supported, Unsupported
<1>2. PICK k \in r.keeper : k \in Peers(c) /\ Kept(k)
  BY <1>1 DEF RowFits
<1>3. k \in Memory /\ k < c /\ BeliefOf[k] = BeliefOf[c] /\ Supported(k) /\ told[k] # "absent"
  BY <1>2 DEF Peers, Kept
<1>4. CASE told[k] = "open" \/ k \in disturbed
  BY <1>2, <1>3, <1>4
<1>5. CASE told[k] = "closed" /\ k \notin disturbed
  <2>1. PICK j \in Peers(k) : Supported(j) /\ (told[j] = "open" \/ j \in disturbed)
    BY <1>3, <1>5 DEF ScannerInv, ClosedRepeats
  <2>2. j \in Peers(c)
    BY <1>3, <2>1, ScannerAssumption DEF Peers
  <2> QED BY <2>1, <2>2
<1> QED BY <1>3, <1>4, <1>5, ScannerGet

LEMMA CloseStep ==
  ASSUME ScannerInv, NEW t \in Thread, Scanner!Close(t)
  PROVE  ScannerInv'
<1>1. /\ serving[t].at = "close" /\ Scanner!Goto(t, "log")
      /\ UNCHANGED <<disk, evidence, scans, items, troubles, lost, overlapped>>
  BY DEF Scanner!Close
<1>2. PICK c \in Memory : c = Scanner!Target(t)
  BY <1>1, ClosingGet
<1>3. /\ serving[t] \in Request /\ serving[t].does \in {"apply", "withdraw", "review"}
      /\ serving[t].does = "apply" => c = Scanner!At(t)
      /\ serving[t].does = "withdraw" => serving[t].left = {c}
      /\ serving[t].does = "review" =>
           serving[t].item \in DOMAIN items /\ items[serving[t].item].claim = c
  BY <1>1, <1>2, ClosingGet
<1>4. /\ told[c] = "open" /\ told' = [told EXCEPT ![c] = "closed"]
      /\ disturbed' = IF serving[t].does = "apply" THEN disturbed ELSE disturbed \cup {c}
  BY <1>2 DEF Scanner!Close, Scanner!Open
<1>5. /\ told' \in [Memory -> {"absent", "open", "closed"}] /\ told'[c] = "closed"
      /\ \A d \in Memory \ {c} : told'[d] = told[d]
      /\ disturbed \subseteq disturbed' /\ disturbed' \subseteq Memory
      /\ disk' \in [Memory -> {"absent", "open", "closed"}]
  BY <1>1, <1>4, ScannerGet
<1>6. Forward
  BY <1>1, <1>4, <1>5 DEF Forward, Supported, Unsupported
<1>7. DiskFits'
  BY <1>1, <1>4, <1>5 DEF ScannerInv, DiskFits
<1>8. serving[t].does # "apply" => c \in disturbed'
  BY <1>4
<1>9. serving[t].does = "apply" /\ c \notin disturbed /\ Supported(c) =>
        \E k \in Peers(c) : Supported(k) /\ (told[k] = "open" \/ k \in disturbed)
  <2> SUFFICES ASSUME serving[t].does = "apply", c \notin disturbed, Supported(c)
               PROVE  \E k \in Peers(c) : Supported(k) /\ (told[k] = "open" \/ k \in disturbed)
    OBVIOUS
  <2>1. /\ serving[t].scan \in DOMAIN scans /\ c \in DOMAIN scans[serving[t].scan].rows
        /\ Scanner!Action(scans[serving[t].scan].rows[c].verdict) = "retract"
    BY <1>1, <1>3, ApplyGet
  <2>2. PICK r : r = scans[serving[t].scan].rows[c]
    OBVIOUS
  <2>3. RowFits(c, r) /\ Scanner!Action(r.verdict) = "retract"
    BY <2>1, <2>2, ScanGet
  <2> QED BY <2>3, RepeatsHeld
<1>10. ClosedRepeats'
  <2> SUFFICES ASSUME NEW d \in Memory, told'[d] = "closed", d \notin disturbed', Supported(d)'
               PROVE  \E k \in Peers(d) : Supported(k)' /\ (told'[k] = "open" \/ k \in disturbed')
    BY DEF ClosedRepeats, Peers
  <2>1. Supported(d) /\ d \notin disturbed
    BY <1>1, <1>5 DEF Supported
  <2>2. \A k \in Memory : Supported(k) => Supported(k)'
    BY <1>6 DEF Forward
  <2>3. CASE d = c
    <3>1. PICK k \in Peers(c) : Supported(k) /\ (told[k] = "open" \/ k \in disturbed)
      BY <1>8, <1>9, <2>1, <2>3
    <3>2. k \in Memory /\ k # c
      BY <3>1, ScannerAssumption DEF Peers
    <3> QED BY <1>5, <2>2, <2>3, <3>1, <3>2
  <2>4. CASE d # c
    <3>1. PICK k \in Peers(d) : Supported(k) /\ (told[k] = "open" \/ k \in disturbed)
      BY <1>5, <2>1, <2>4 DEF ScannerInv, ClosedRepeats
    <3>2. k \in Memory /\ k < d /\ BeliefOf[k] = BeliefOf[d]
      BY <3>1 DEF Peers
    <3>3. CASE k # c \/ c \in disturbed'
      BY <1>5, <2>2, <3>1, <3>2, <3>3
    <3>4. CASE k = c /\ c \notin disturbed'
      <4>1. PICK j \in Peers(c) : Supported(j) /\ (told[j] = "open" \/ j \in disturbed)
        BY <1>5, <1>8, <1>9, <3>1, <3>4
      <4>2. j \in Memory /\ j < c /\ BeliefOf[j] = BeliefOf[c]
        BY <4>1 DEF Peers
      <4>3. c < d /\ BeliefOf[c] = BeliefOf[d]
        BY <3>2, <3>4
      <4>4. j \in Nat /\ c \in Nat /\ d \in Nat
        BY <4>2, ScannerAssumption
      <4>5. j # c /\ j < d
        BY <4>2, <4>3, <4>4
      <4>6. j \in Peers(d)
        BY <4>2, <4>3, <4>5 DEF Peers
      <4> QED BY <1>5, <2>2, <4>1, <4>2, <4>5, <4>6
    <3> QED BY <3>3, <3>4
  <2> QED BY <2>3, <2>4
<1> DEFINE y == [serving[t] EXCEPT !.at = "log"]
<1>11. PICK x \in Request : x = y
  BY <1>3 DEF Request
<1>12. /\ x.does = serving[t].does /\ x.at = "log" /\ x.scan = serving[t].scan
       /\ x.left = serving[t].left /\ x.item = serving[t].item
  BY <1>3, <1>11 DEF Request
<1>13. Scanner!Moves(t, x)
  BY <1>1, <1>11 DEF Scanner!Goto
<1> HIDE DEF y
<1>14. CallFits(x)'
  <2>1. CASE x.does = "apply"
    <3>1. /\ serving[t].left # {} /\ serving[t].scan \in DOMAIN scans
          /\ scans[serving[t].scan].complete
          /\ serving[t].left \subseteq DOMAIN scans[serving[t].scan].rows
          /\ Scanner!Action(scans[serving[t].scan].rows[c].verdict) = "retract"
      BY <1>1, <1>3, <1>12, <2>1, ApplyGet DEF ApplyFits
    <3>2. Scanner!Min(x.left) = c
      BY <1>3, <1>12, <2>1 DEF Scanner!At
    <3>3. ApplyFits(x)'
      BY <1>1, <1>5, <1>12, <3>1, <3>2 DEF ApplyFits
    <3> QED BY <2>1, <3>3 DEF CallFits, ScanFits, WithdrawFits, ReviewFits, Scanner!Idle
  <2>2. CASE x.does = "withdraw"
    BY <1>3, <1>5, <1>12, <2>2 DEF CallFits, ScanFits, ApplyFits, WithdrawFits, ReviewFits, Scanner!Idle
  <2>3. CASE x.does = "review"
    BY <1>1, <1>3, <1>5, <1>12, <2>3
       DEF CallFits, ScanFits, ApplyFits, WithdrawFits, ReviewFits, Scanner!Idle
  <2> QED BY <1>3, <1>12, <2>1, <2>2, <2>3
<1>15. UNCHANGED <<evidence, scans, items, troubles, lost, overlapped>>
  BY <1>1
<1>16. x.does \in {"nothing", serving[t].does} /\ x.does # "scan"
  BY <1>3, <1>12
<1> QED BY <1>5, <1>6, <1>7, <1>10, <1>12, <1>13, <1>14, <1>15, <1>16, ForwardStep

(* The log has what the engine did. *)
LEMMA LoggedStep ==
  ASSUME ScannerInv, NEW t \in Thread, Scanner!Log(t)
  PROVE  ScannerInv'
<1>1. /\ serving[t].at = "log" /\ disk' = [disk EXCEPT ![Scanner!Target(t)] = "closed"]
      /\ UNCHANGED <<told, evidence, scans, items, troubles, lost, disturbed, overlapped>>
  BY DEF Scanner!Log
<1>2. PICK c \in Memory : c = Scanner!Target(t)
  BY <1>1, ClosingGet
<1>3. /\ serving[t] \in Request /\ serving[t].does \in {"apply", "withdraw", "review"}
      /\ told[c] = "closed"
      /\ serving[t].does = "apply" => c = Scanner!At(t)
      /\ serving[t].does = "review" =>
           serving[t].item \in DOMAIN items /\ items[serving[t].item].claim = c
  BY <1>1, <1>2, ClosingGet
<1>4. /\ disk' \in [Memory -> {"absent", "open", "closed"}] /\ disk'[c] = "closed"
      /\ \A d \in Memory \ {c} : disk'[d] = disk[d]
      /\ told' \in [Memory -> {"absent", "open", "closed"}] /\ disturbed' \subseteq Memory
  BY <1>1, <1>2, ScannerGet
<1>5. Forward
  BY <1>1, <1>4 DEF Forward, Supported, Unsupported
<1>6. DiskFits' /\ ClosedRepeats'
  BY <1>1, <1>3, <1>4 DEF ScannerInv, DiskFits, ClosedRepeats, Supported, Peers
<1>7. UNCHANGED <<evidence, scans, items, troubles, lost, overlapped>>
  BY <1>1
<1>8. CASE serving[t].does = "withdraw"
  <2>1. PICK x \in Request : x = Scanner!Idle
    BY IdleCall
  <2>2. Scanner!Moves(t, x)
    BY <1>8, <2>1 DEF Scanner!Log
  <2>3. x.does = "nothing" /\ CallFits(x)'
    BY <2>1 DEF CallFits, ScanFits, ApplyFits, WithdrawFits, ReviewFits, Scanner!Idle
  <2> QED BY <1>4, <1>5, <1>6, <1>7, <2>2, <2>3, ForwardStep
<1>9. CASE serving[t].does \in {"apply", "review"}
  <2> DEFINE y == [serving[t] EXCEPT !.at = "mark"]
  <2>1. PICK x \in Request : x = y
    BY <1>3 DEF Request
  <2>2. /\ x.does = serving[t].does /\ x.at = "mark" /\ x.scan = serving[t].scan
        /\ x.left = serving[t].left /\ x.item = serving[t].item
    BY <1>3, <2>1 DEF Request
  <2>3. Scanner!Moves(t, x)
    BY <1>9, <2>1 DEF Scanner!Log, Scanner!Goto
  <2> HIDE DEF y
  <2>4. CallFits(x)'
    <3>1. CASE x.does = "apply"
      <4>1. /\ serving[t].left # {} /\ serving[t].scan \in DOMAIN scans
            /\ scans[serving[t].scan].complete
            /\ serving[t].left \subseteq DOMAIN scans[serving[t].scan].rows
            /\ Scanner!Action(scans[serving[t].scan].rows[c].verdict) = "retract"
        BY <1>1, <1>3, <2>2, <3>1, ApplyGet DEF ApplyFits
      <4>2. Scanner!Min(x.left) = c
        BY <1>3, <2>2, <3>1 DEF Scanner!At
      <4>3. ApplyFits(x)'
        BY <1>1, <1>3, <1>4, <2>2, <4>1, <4>2 DEF ApplyFits
      <4> QED BY <3>1, <4>3 DEF CallFits, ScanFits, WithdrawFits, ReviewFits, Scanner!Idle
    <3>2. CASE x.does = "review"
      BY <1>1, <1>3, <1>4, <2>2, <3>2
         DEF CallFits, ScanFits, ApplyFits, WithdrawFits, ReviewFits, Scanner!Idle
    <3> QED BY <1>9, <2>2, <3>1, <3>2
  <2> QED BY <1>4, <1>5, <1>6, <1>7, <1>9, <2>2, <2>3, <2>4, ForwardStep
<1> QED BY <1>3, <1>8, <1>9

(* An item is decided. *)
Settles(i, st) == items' = [items EXCEPT ![i].status = st]

LEMMA ItemSettled ==
  ASSUME ScannerInv, NEW i \in DOMAIN items, NEW st \in {"approved", "rejectd"}, Settles(i, st)
  PROVE  /\ items' \in Seq(Item) /\ DOMAIN items' = DOMAIN items
         /\ items'[i].status = st
         /\ \A j \in DOMAIN items : /\ items'[j].claim = items[j].claim
                                    /\ j # i => items'[j].status = items[j].status
<1> DEFINE rec == [items[i] EXCEPT !.status = st]
           new == [items EXCEPT ![i] = rec]
<1>1. items[i] \in Item /\ items \in Seq(Item)
  BY ItemGet, ScannerGet
<1>2. rec \in Item /\ rec.claim = items[i].claim /\ rec.status = st
  BY <1>1 DEF Item
<1>3. items' = new
  BY DEF Settles
<1> HIDE DEF rec
<1>4. i \in 1..Len(items) /\ DOMAIN items = 1..Len(items)
  BY <1>1, LenProperties
<1>5. new \in Seq(Item) /\ Len(new) = Len(items)
  BY <1>1, <1>2, <1>4, ExceptSeq
<1>6. items'[i] = rec /\ \A j \in DOMAIN items \ {i} : items'[j] = items[j]
  BY <1>3
<1> HIDE DEF new
<1>7. items' \in Seq(Item) /\ DOMAIN items' = DOMAIN items
  BY <1>3, <1>4, <1>5, LenProperties
<1> QED BY <1>2, <1>6, <1>7

LEMMA SettleStep ==
  ASSUME ScannerInv, NEW t \in Thread, Scanner!Settle(t)
  PROVE  ScannerInv'
<1>1. /\ serving[t].does = "review" /\ serving[t].at \in {"mark", "keep"}
      /\ Scanner!Moves(t, Scanner!Idle)
      /\ UNCHANGED <<told, disk, evidence, scans, troubles, lost, disturbed, overlapped>>
  BY DEF Scanner!Settle
<1>2. CallFits(serving[t])
  BY CallGet
<1>3. PICK i \in DOMAIN items : i = serving[t].item
  BY <1>1, <1>2 DEF CallFits, ReviewFits
<1>4. serving[t].at = "mark" => disk[items[i].claim] = "closed"
  BY <1>1, <1>2, <1>3 DEF CallFits, ReviewFits
<1>5. PICK st \in {"approved", "rejectd"} : st = IF serving[t].at = "keep" THEN "rejectd" ELSE "approved"
  OBVIOUS
<1>6. Settles(i, st)
  BY <1>3, <1>5 DEF Scanner!Settle, Settles
<1>7. /\ items' \in Seq(Item) /\ DOMAIN items' = DOMAIN items
      /\ items'[i].status = st
      /\ \A j \in DOMAIN items : /\ items'[j].claim = items[j].claim
                                 /\ j # i => items'[j].status = items[j].status
  BY <1>6, ItemSettled
<1>8. PICK x \in Request : x = Scanner!Idle
  BY IdleCall
<1>9. /\ serving' \in [Thread -> Request] /\ serving'[t] = x
      /\ \A u \in Thread \ {t} : serving'[u] = serving[u]
  BY <1>1, <1>8, OthersKeep
<1>10. ScannerTyped'
  BY <1>1, <1>7, <1>9 DEF ScannerInv, ScannerTyped
<1>11. DiskFits' /\ ClosedRepeats'
  BY <1>1 DEF ScannerInv, DiskFits, ClosedRepeats, Supported, Peers
<1>12. RowsFit'
  BY <1>1 DEF ScannerInv, RowsFit, RowFits, Kept, Supported, Unsupported, Peers
<1>13. ItemsFit'
  BY <1>1, <1>4, <1>5, <1>7 DEF ScannerInv, ItemsFit
<1>14. \A j \in DOMAIN items : items'[j].status = "pending" => items[j].status = "pending"
  BY <1>7
<1>15. Scanner!AskedOnce'
  BY <1>1, <1>7, <1>14 DEF ScannerInv, Scanner!AskedOnce
<1>16. \A c : Scanner!Asked(c)' => Scanner!Asked(c)
  BY <1>7, <1>14 DEF Scanner!Asked
<1>17. ASSUME NEW z, CallFits(z) PROVE CallFits(z)'
  <2>1. ScanFits(z)' /\ WithdrawFits(z)'
    BY <1>1, <1>17 DEF CallFits, ScanFits, WithdrawFits, Kept, Supported
  <2>2. ApplyFits(z)'
    BY <1>1, <1>16, <1>17 DEF CallFits, ApplyFits
  <2>3. ReviewFits(z)'
    BY <1>1, <1>7, <1>17 DEF CallFits, ReviewFits
  <2> QED BY <1>17, <2>1, <2>2, <2>3 DEF CallFits
<1>18. \A u \in Thread : CallFits(serving[u])'
  <2>1. ASSUME NEW u \in Thread \ {t} PROVE CallFits(serving[u])'
    BY <1>9, <1>17, CallGet
  <2>2. CallFits(serving[t])'
    BY <1>8, <1>9, <1>17, IdleCall
  <2> QED BY <2>1, <2>2
<1>19. OneScan'
  BY <1>1, <1>8, <1>9, IdleCall DEF ScannerInv, OneScan
<1> QED BY <1>10, <1>11, <1>12, <1>13, <1>15, <1>18, <1>19 DEF ScannerInv

(* Nobody serves anything else: claims and sources change under the calls. *)
LEMMA UnderCalls ==
  ASSUME ScannerInv, Forward, UNCHANGED <<scans, items, serving, lost, overlapped>>
  PROVE  /\ RowsFit' /\ ItemsFit' /\ OneScan' /\ Scanner!AskedOnce'
         /\ \A u \in Thread : CallFits(serving[u])'
<1>1. RowsFit'
  <2> SUFFICES ASSUME NEW z \in DOMAIN scans, NEW d \in DOMAIN scans[z].rows
               PROVE  RowFits(d, scans[z].rows[d])'
    BY DEF RowsFit
  <2>1. PICK r \in ScanRow : r = scans[z].rows[d]
    BY ScanGet
  <2>2. RowFits(d, r) /\ d \in Memory
    BY <2>1, ScanGet
  <2>3. \A k \in Memory : /\ told[k] # "absent" => told'[k] # "absent"
                          /\ told[k] = "closed" => told'[k] = "closed" \/ k \in lost'
                          /\ Supported(k) => Supported(k)'
                          /\ Unsupported(k) => Unsupported(k)'
    BY DEF Forward
  <2>4. RowFits(d, r)'
    BY <2>2, <2>3, RowKeeps
  <2> QED BY <2>1, <2>4
<1>2. ItemsFit'
  BY ItemGet DEF ScannerInv, ItemsFit, Forward
<1>3. ASSUME NEW u \in Thread PROVE CallFits(serving[u])'
  <2>1. PICK z \in Request : z = serving[u]
    BY CallGet
  <2>2. CallFits(z) /\ serving'[u] = z
    BY <2>1, CallGet
  <2>3. z.does = "scan" => ~ scans'[z.scan].complete
    BY <2>2 DEF CallFits, ScanFits
  <2>4. z.does = "apply" => z.scan \in DOMAIN scans /\ scans[z.scan].complete
    BY <2>2 DEF CallFits, ApplyFits
  <2>5. z.does = "apply" =>
          /\ scans'[z.scan].complete
          /\ DOMAIN scans[z.scan].rows \subseteq DOMAIN scans'[z.scan].rows
          /\ DOMAIN scans[z.scan].rows \subseteq Memory
          /\ \A d \in DOMAIN scans[z.scan].rows :
               scans'[z.scan].rows[d].verdict = scans[z.scan].rows[d].verdict
    BY <2>4, ScanGet
  <2>6. \A i \in DOMAIN items : /\ i \in DOMAIN items' /\ items'[i].claim = items[i].claim
                                /\ items[i].claim \in Memory
    BY ItemGet
  <2>7. z.does = "apply" /\ z.at = "ask" /\ ~ overlapped' =>
          ~ overlapped /\ (~ Scanner!Asked(Scanner!Min(z.left)) => ~ Scanner!Asked(Scanner!Min(z.left))')
    BY DEF Scanner!Asked
  <2>8. DOMAIN scans \subseteq DOMAIN scans'
    OBVIOUS
  <2>9. CallFits(z)'
    BY <2>2, <2>3, <2>5, <2>6, <2>7, <2>8, CallKeeps
  <2> QED BY <2>2, <2>9
<1> QED BY <1>1, <1>2, <1>3 DEF ScannerInv, OneScan, Scanner!AskedOnce

LEMMA SayStep ==
  ASSUME ScannerInv, NEW c \in Memory, Scanner!Say(c)
  PROVE  ScannerInv'
<1>1. /\ told[c] = "absent" /\ told' = [told EXCEPT ![c] = "open"]
      /\ disk' = [disk EXCEPT ![c] = "open"]
      /\ UNCHANGED <<evidence, scans, items, serving, troubles, lost, disturbed, overlapped>>
  BY DEF Scanner!Say
<1>2. disk[c] = "absent"
  BY <1>1 DEF ScannerInv, DiskFits
<1>3. /\ told' \in [Memory -> {"absent", "open", "closed"}] /\ told'[c] = "open"
      /\ disk' \in [Memory -> {"absent", "open", "closed"}] /\ disk'[c] = "open"
      /\ \A d \in Memory \ {c} : told'[d] = told[d] /\ disk'[d] = disk[d]
  BY <1>1, ScannerGet
<1>4. Forward
  BY <1>1, <1>2, <1>3 DEF Forward, Supported, Unsupported
<1>5. ScannerTyped'
  BY <1>1, <1>3 DEF ScannerInv, ScannerTyped
<1>6. DiskFits'
  BY <1>3 DEF ScannerInv, DiskFits
<1>7. ClosedRepeats'
  <2> SUFFICES ASSUME NEW d \in Memory, told'[d] = "closed", d \notin disturbed, Supported(d)'
               PROVE  \E k \in Peers(d) : Supported(k)' /\ (told'[k] = "open" \/ k \in disturbed)
    BY <1>1 DEF ClosedRepeats, Peers
  <2>1. told[d] = "closed" /\ Supported(d)
    BY <1>1, <1>3 DEF Supported
  <2>2. PICK k \in Peers(d) : Supported(k) /\ (told[k] = "open" \/ k \in disturbed)
    BY <2>1 DEF ScannerInv, ClosedRepeats
  <2>3. k \in Memory
    BY <2>2 DEF Peers
  <2> QED BY <1>1, <1>3, <1>4, <2>2, <2>3 DEF Forward
<1> QED BY <1>1, <1>4, <1>5, <1>6, <1>7, UnderCalls DEF ScannerInv

LEMMA SourceChangesStep ==
  ASSUME ScannerInv, NEW c \in Memory, NEW f \in EvidenceOf[c], Scanner!SourceChanges(c, f)
  PROVE  ScannerInv'
<1>1. /\ troubles < MaxTroubles /\ troubles' = troubles + 1
      /\ evidence' = [evidence EXCEPT ![c] = f] /\ disturbed' = disturbed \cup {c}
      /\ UNCHANGED <<told, disk, scans, items, serving, lost, overlapped>>
  BY DEF Scanner!SourceChanges
<1>2. /\ evidence' \in [Memory -> UNION {EvidenceOf[d] : d \in Memory}]
      /\ \A d \in Memory : evidence'[d] \in EvidenceOf[d]
      /\ \A d \in Memory \ {c} : evidence'[d] = evidence[d]
  BY <1>1, ScannerGet
<1>3. Forward
  BY <1>1, <1>2 DEF Forward, Supported, Unsupported
<1>4. troubles' \in 0..MaxTroubles
  BY <1>1, ScannerGet, ScannerAssumption
<1>5. ScannerTyped'
  BY <1>1, <1>2, <1>4 DEF ScannerInv, ScannerTyped
<1>6. DiskFits'
  BY <1>1 DEF ScannerInv, DiskFits
<1>7. ClosedRepeats'
  <2> SUFFICES ASSUME NEW d \in Memory, told[d] = "closed", d \notin disturbed', Supported(d)'
               PROVE  \E k \in Peers(d) : Supported(k)' /\ (told[k] = "open" \/ k \in disturbed')
    BY <1>1 DEF ClosedRepeats, Peers
  <2>1. d # c /\ d \notin disturbed /\ Supported(d)
    BY <1>1, <1>2 DEF Supported
  <2>2. PICK k \in Peers(d) : Supported(k) /\ (told[k] = "open" \/ k \in disturbed)
    BY <2>1 DEF ScannerInv, ClosedRepeats
  <2>3. k \in Memory
    BY <2>2 DEF Peers
  <2> QED BY <1>1, <1>3, <2>2, <2>3 DEF Forward
<1> QED BY <1>1, <1>3, <1>5, <1>6, <1>7, UnderCalls DEF ScannerInv

(* A restart loses closes that were not logged, and every call. *)
LEMMA RestartStep ==
  ASSUME ScannerInv, Scanner!Crash
  PROVE  ScannerInv'
<1>1. /\ troubles < MaxTroubles /\ troubles' = troubles + 1
      /\ lost' = lost \cup {c \in Memory : told[c] # disk[c]}
      /\ told' = disk /\ serving' = [t \in Thread |-> Scanner!Idle]
      /\ UNCHANGED <<disk, evidence, scans, items, disturbed, overlapped>>
  BY DEF Scanner!Crash
<1>2. troubles' \in 0..MaxTroubles
  BY <1>1, ScannerGet, ScannerAssumption
<1>3. \A t \in Thread : serving'[t] = Scanner!Idle
  BY <1>1
<1>4. serving' \in [Thread -> Request]
  BY <1>1, IdleCall
<1>5. ScannerTyped'
  <2>1. lost' \subseteq Memory /\ told' \in [Memory -> {"absent", "open", "closed"}]
    BY <1>1, ScannerGet
  <2> QED BY <1>1, <1>2, <1>4, <2>1 DEF ScannerInv, ScannerTyped
<1>6. \A c \in Memory : /\ told[c] = "absent" <=> told'[c] = "absent"
                        /\ told'[c] = "closed" => told[c] = "closed"
                        /\ told[c] = "open" => told'[c] = "open"
                        /\ told[c] = "closed" => told'[c] = "closed" \/ c \in lost'
  BY <1>1, ScannerGet DEF ScannerInv, DiskFits
<1>7. DiskFits'
  BY <1>1 DEF DiskFits
<1>8. \A c \in Memory : /\ Supported(c) <=> Supported(c)'
                        /\ Unsupported(c) <=> Unsupported(c)'
  BY <1>1 DEF Supported, Unsupported
<1>9. ClosedRepeats'
  <2> SUFFICES ASSUME NEW d \in Memory, told'[d] = "closed", d \notin disturbed, Supported(d)'
               PROVE  \E k \in Peers(d) : Supported(k)' /\ (told'[k] = "open" \/ k \in disturbed)
    BY <1>1 DEF ClosedRepeats, Peers
  <2>1. told[d] = "closed" /\ Supported(d)
    BY <1>6, <1>8
  <2>2. PICK k \in Peers(d) : Supported(k) /\ (told[k] = "open" \/ k \in disturbed)
    BY <2>1 DEF ScannerInv, ClosedRepeats
  <2>3. k \in Memory
    BY <2>2 DEF Peers
  <2> QED BY <1>6, <1>8, <2>2, <2>3
<1>10. RowsFit'
  <2> SUFFICES ASSUME NEW z \in DOMAIN scans, NEW d \in DOMAIN scans[z].rows
               PROVE  RowFits(d, scans[z].rows[d])'
    BY <1>1 DEF RowsFit
  <2>1. PICK r \in ScanRow : r = scans[z].rows[d]
    BY ScanGet
  <2>2. RowFits(d, r) /\ d \in Memory
    BY <2>1, ScanGet
  <2>3. lost \subseteq lost'
    BY <1>1
  <2>4. \A k \in Memory : /\ told[k] # "absent" => told'[k] # "absent"
                          /\ told[k] = "closed" => told'[k] = "closed" \/ k \in lost'
                          /\ Supported(k) => Supported(k)'
                          /\ Unsupported(k) => Unsupported(k)'
    BY <1>6, <1>8
  <2>5. RowFits(d, r)'
    BY <2>2, <2>3, <2>4, RowKeeps
  <2> QED BY <1>1, <2>1, <2>5
<1>11. ItemsFit'
  BY <1>1, <1>6, ItemGet DEF ScannerInv, ItemsFit
<1>12. Scanner!AskedOnce'
  BY <1>1 DEF ScannerInv, Scanner!AskedOnce
<1>13. CallFits(Scanner!Idle)'
  BY DEF CallFits, ScanFits, ApplyFits, WithdrawFits, ReviewFits, Scanner!Idle
<1>14. \A t \in Thread : CallFits(serving[t])'
  BY <1>3, <1>13
<1>15. OneScan'
  BY <1>3, IdleCall DEF OneScan
<1> QED BY <1>5, <1>7, <1>9, <1>10, <1>11, <1>12, <1>14, <1>15 DEF ScannerInv

LEMMA ScannerStart == Scanner!Init => ScannerInv
<1> SUFFICES ASSUME Scanner!Init PROVE ScannerInv
  OBVIOUS
<1>1. /\ told = [c \in Memory |-> IF c \in Early THEN "open" ELSE "absent"] /\ disk = told
      /\ evidence \in [Memory -> UNION Scanner!Range(EvidenceOf)]
      /\ \A c \in Memory : evidence[c] \in EvidenceOf[c]
      /\ scans = <<>> /\ items = <<>> /\ serving = [t \in Thread |-> Scanner!Idle]
      /\ troubles = 0 /\ lost = {} /\ disturbed = {} /\ overlapped = FALSE
  BY DEF Scanner!Init
<1>2. /\ evidence \in [Memory -> UNION {EvidenceOf[c] : c \in Memory}]
      /\ told \in [Memory -> {"absent", "open", "closed"}]
      /\ disk \in [Memory -> {"absent", "open", "closed"}]
  <2>1. \A c \in Memory : evidence[c] \in UNION {EvidenceOf[d] : d \in Memory}
    BY <1>1
  <2> QED BY <1>1, <2>1
<1>3. scans \in Seq(ScanRecord) /\ items \in Seq(Item) /\ DOMAIN scans = {} /\ DOMAIN items = {}
  BY <1>1
<1>4. 0 \in 0..MaxTroubles
  BY ScannerAssumption
<1>5. ScannerTyped
  BY <1>1, <1>2, <1>3, <1>4, IdleCall DEF ScannerTyped
<1>6. DiskFits /\ ClosedRepeats /\ RowsFit /\ ItemsFit
  BY <1>1, <1>3 DEF DiskFits, ClosedRepeats, RowsFit, ItemsFit
<1>7. (\A t \in Thread : CallFits(serving[t])) /\ OneScan /\ Scanner!AskedOnce
  BY <1>1, <1>3, IdleCall DEF OneScan, Scanner!AskedOnce
<1> QED BY <1>5, <1>6, <1>7 DEF ScannerInv

LEMMA ScannerStays ==
  ASSUME ScannerInv, UNCHANGED scanning
  PROVE  ScannerInv'
<1>1. UNCHANGED <<told, disk, evidence, scans, items, serving, troubles, lost, disturbed, overlapped>>
  BY DEF scanning
<1>2. RowsFit' /\ ItemsFit' /\ OneScan' /\ Scanner!AskedOnce'
      /\ \A u \in Thread : CallFits(serving[u])'
  BY <1>1, NothingMoves, UnderCalls
<1>3. ScannerTyped' /\ DiskFits' /\ ClosedRepeats'
  BY <1>1 DEF ScannerInv, ScannerTyped, DiskFits, ClosedRepeats, Supported, Peers
<1> QED BY <1>2, <1>3 DEF ScannerInv

LEMMA ScannerStep ==
  ASSUME ScannerInv, [Scanner!Next]_(Scanner!vars)
  PROVE  ScannerInv'
<1>1. ASSUME NEW t \in Thread, Scanner!Step(t) PROVE ScannerInv'
  <2>1. ASSUME NEW recent \in BOOLEAN, Scanner!StartScan(t, recent) PROVE ScannerInv'
    BY <2>1, StartScanStep
  <2>2. ASSUME NEW s \in DOMAIN scans, Scanner!StartApply(t, s) PROVE ScannerInv'
    BY <2>2, StartApplyStep
  <2>3. ASSUME NEW i \in DOMAIN items, Scanner!Review(t, i) PROVE ScannerInv'
    BY <2>3, ReviewStep
  <2>4. ASSUME NEW c \in Memory, Scanner!Withdraw(t, c) PROVE ScannerInv'
    BY <2>4, WithdrawStep
  <2>5. CASE Scanner!PassOver(t) \/ Scanner!Examine(t)
    BY <2>5, PassOverStep, ExamineStep
  <2>6. CASE Scanner!Skip(t) \/ Scanner!Decide(t) \/ Scanner!Ask(t) \/ Scanner!Mark(t)
    BY <2>6, SkipStep, DecideStep, AskStep, MarkedStep
  <2>7. CASE Scanner!Close(t) \/ Scanner!Rejected(t) \/ Scanner!Log(t) \/ Scanner!Settle(t)
    BY <2>7, CloseStep, RejectedStep, LoggedStep, SettleStep
  <2> QED BY <1>1, <2>1, <2>2, <2>3, <2>4, <2>5, <2>6, <2>7 DEF Scanner!Step
<1>2. ASSUME NEW c \in Memory, Scanner!Say(c) PROVE ScannerInv'
  BY <1>2, SayStep
<1>3. ASSUME NEW c \in Memory, NEW f \in EvidenceOf[c], Scanner!SourceChanges(c, f) PROVE ScannerInv'
  BY <1>3, SourceChangesStep
<1>4. CASE Scanner!Crash
  BY <1>4, RestartStep
<1>5. CASE UNCHANGED Scanner!vars
  BY <1>5, ScannerStays DEF Scanner!vars, scanning
<1> QED BY <1>1, <1>2, <1>3, <1>4, <1>5 DEF Scanner!Next

(* The inductive invariant says what the runs check: a keeper that was     *)
(* retracted itself repeats an earlier claim.                              *)
LEMMA ScannerFits ==
  ASSUME ScannerInv
  PROVE  Scanner!TypeOK /\ Scanner!CorrectionsHold
<1>1. Scanner!TypeOK
  <2>1. /\ told \in [Memory -> {"absent", "open", "closed"}] /\ DOMAIN disk = Memory
        /\ \A c \in Memory : evidence[c] \in EvidenceOf[c]
    BY ScannerGet
  <2>2. \A s \in DOMAIN scans : /\ DOMAIN scans[s].rows \subseteq Memory
                                /\ \A c \in DOMAIN scans[s].rows :
                                     scans[s].rows[c].verdict \in Scanner!Verdicts
    BY ScanGet DEF ScanRow
  <2>3. \A i \in DOMAIN items :
          items[i].claim \in Memory /\ items[i].status \in {"pending", "approved", "rejectd"}
    BY ItemGet
  <2>4. \A t \in Thread : serving[t].left \subseteq Memory
    BY CallGet DEF Request
  <2> QED BY <2>1, <2>2, <2>3, <2>4 DEF Scanner!TypeOK
<1>2. Scanner!KeeperStays
  <2> SUFFICES ASSUME NEW s \in DOMAIN scans, NEW c \in DOMAIN scans[s].rows,
                      scans[s].rows[c].verdict = "DUPLICATE"
               PROVE  \E k \in Memory \ {c} :
                        BeliefOf[k] = BeliefOf[c] /\ k \in Scanner!Open \cup disturbed
    BY DEF Scanner!KeeperStays
  <2>1. RowFits(c, scans[s].rows[c]) /\ c \in Memory
    BY ScanGet
  <2>2. PICK k : k \in Peers(c) /\ Kept(k)
    BY <2>1 DEF RowFits
  <2>3. k \in Memory /\ k < c /\ BeliefOf[k] = BeliefOf[c] /\ Supported(k) /\ told[k] # "absent"
    BY <2>2 DEF Peers, Kept
  <2>4. k \in Nat /\ c \in Nat
    BY <2>1, <2>3, ScannerAssumption
  <2>5. CASE told[k] = "open" \/ k \in disturbed
    BY <2>3, <2>4, <2>5 DEF Scanner!Open
  <2>6. CASE told[k] = "closed" /\ k \notin disturbed
    <3>1. PICK j \in Peers(k) : Supported(j) /\ (told[j] = "open" \/ j \in disturbed)
      BY <2>3, <2>6 DEF ScannerInv, ClosedRepeats
    <3>2. j \in Memory /\ j < k /\ BeliefOf[j] = BeliefOf[k]
      BY <3>1 DEF Peers
    <3>3. j # c
      <4>1. j \in Nat
        BY <3>2, ScannerAssumption
      <4> QED BY <2>3, <2>4, <3>2, <4>1
    <3> QED BY <2>3, <3>1, <3>2, <3>3 DEF Scanner!Open
  <2> QED BY <2>3, <2>5, <2>6, ScannerGet
<1>3. Scanner!AppliedIsClosed
  <2>1. ASSUME NEW s \in DOMAIN scans, NEW c \in DOMAIN scans[s].rows,
               scans[s].rows[c].applied, Scanner!Action(scans[s].rows[c].verdict) = "retract"
        PROVE  c \notin Scanner!Open \/ c \in lost
    BY <2>1, ScanGet DEF RowFits, Scanner!Open
  <2>2. \A i \in DOMAIN items : items[i].status = "approved" => disk[items[i].claim] = "closed"
    BY DEF ScannerInv, ItemsFit
  <2> QED BY <2>1, <2>2 DEF Scanner!AppliedIsClosed
<1> QED BY <1>1, <1>2, <1>3 DEF Scanner!CorrectionsHold, ScannerInv

(* No belief is lost as a repetition of itself, what is marked as applied  *)
(* was done, and a reviewer is asked about a memory once at a time, in     *)
(* whatever order scans, applies, reviews and restarts meet (Scanner).     *)
THEOREM BeliefsOutlastScans ==
  Scanner!Spec => []Scanner!TypeOK /\ []Scanner!CorrectionsHold
<1>1. Scanner!Init => ScannerInv
  BY ScannerStart
<1>2. ScannerInv /\ [Scanner!Next]_(Scanner!vars) => ScannerInv'
  BY ScannerStep
<1>3. ScannerInv => Scanner!TypeOK /\ Scanner!CorrectionsHold
  BY ScannerFits
<1> QED BY <1>1, <1>2, <1>3, PTL DEF Scanner!Spec

(* The same of the model that the run memory checks. *)
THEOREM ScansCorrect ==
  MemorySpec => []CorrectionsHold
<1> DEFINE Fits == scenario = "scanner" => ScannerInv
<1>1. MemoryInit => Fits
  BY ScannerStart DEF MemoryInit
<1>2. Fits /\ [MemoryNext]_<<scenario, vars, scanning, indexing>> => Fits'
  <2> SUFFICES ASSUME Fits, [MemoryNext]_<<scenario, vars, scanning, indexing>>,
                      scenario' = "scanner"
               PROVE  ScannerInv'
    OBVIOUS
  <2>1. scenario = "scanner"
    BY DEF MemoryNext, IngestMoves, ScannerMoves, ProjectionsMove
  <2>2. ScannerInv
    BY <2>1
  <2>3. [Scanner!Next]_(Scanner!vars)
    BY <2>1 DEF MemoryNext, IngestMoves, ScannerMoves, ProjectionsMove, scanning, Scanner!vars
  <2> QED BY <2>2, <2>3, ScannerStep
<1>3. Fits => CorrectionsHold
  BY ScannerFits DEF CorrectionsHold
<1> HIDE DEF Fits
<1> QED BY <1>1, <1>2, <1>3, PTL DEF MemorySpec

------------------------------------------------------------------------------
(***************************************************************************)
(* II. Projections                                                         *)
(*                                                                         *)
(* A rebuild works with what it read, so the invariant says of every call  *)
(* what its copies can be by the time they are written: a claim that is    *)
(* missing from the index is about to be put back by somebody, a row that  *)
(* a rebuild will delete is of an erased claim, and one that it will write *)
(* is proved by its token or was written meanwhile.                        *)
(***************************************************************************)

Direction == {"fwd", "rev"}
Rows      == UNION {[D -> Direction] : D \in SUBSET Relational}

Serving == [does : {"nothing", "write", "index", "graph", "erase"},
            at : {"idle", "log", "index", "look", "edge", "form", "list", "fill", "read", "apply"},
            claim : SUBSET Projected, seen : Rows, left : SUBSET Projected, old : SUBSET Projected]

ProjectionsTyped ==
  /\ logged \subseteq engine /\ engine \subseteq Projected /\ erased \subseteq Projected \ engine
  /\ index \subseteq Projected /\ edges \in Rows
  /\ saved.edges \in Rows
  /\ writing \in [Thread -> Serving]
  /\ astray \subseteq erased /\ blurred \subseteq Projected /\ upsets \in 0..MaxUpsets

(* The engine a call works with. *)
EngineFor(x) == IF x.old = {} THEN engine ELSE x.old

InWrite == {"log", "index", "look", "edge", "form"}

(* A writer has one claim, which the engine has unless it was erased. *)
WriterFits(x) ==
  x.does = "write" =>
    /\ x.at \in InWrite /\ x.old = {}
    /\ \E c \in Projected : x.claim = {c} /\ (c \in engine \/ c \in astray)
    /\ x.at = "log" => x.claim \cap logged = {} /\ x.claim \subseteq engine
    /\ x.at # "log" => x.claim \subseteq logged \cup astray
    /\ x.at \in {"look", "edge", "form"} => x.claim \subseteq Relational
    /\ x.at = "edge" => \A c \in x.claim : c \in DOMAIN x.seen /\ (c \in Proved => x.seen[c] = FormedAs[c])
    /\ x.at = "form" => x.claim \subseteq DOMAIN edges \cup astray

(* A rebuild of the index fills in what some engine has. *)
FillFits(x) ==
  x.does \in {"index", "erase"} =>
    /\ x.at \in {"list", "fill", "read"} /\ x.claim = {}
    /\ x.does = "erase" => x.old = {} /\ erased # {}
    /\ x.old \subseteq engine \cup astray
    /\ x.left \subseteq engine \cup astray

(* A rebuild of the graph deletes only what was erased, and changes only   *)
(* what a token proves or what was written meanwhile.                      *)
GraphFits(x) ==
  x.does = "graph" =>
    /\ x.at \in {"list", "apply"} /\ x.claim = {}
    /\ x.old \subseteq engine \cup astray
    /\ x.at = "list" => /\ DOMAIN x.seen \subseteq EngineFor(x) \cup astray
                        /\ (EngineFor(x) \cap Relational) \ DOMAIN x.seen \subseteq blurred \cup astray
    /\ x.at = "apply" => /\ DOMAIN x.seen \subseteq engine \cup astray
                         /\ x.left \subseteq DOMAIN x.seen \cup astray
                         /\ \A c \in x.left \cap DOMAIN x.seen :
                              IF c \in Proved THEN x.seen[c] = FormedAs[c]
                              ELSE c \in blurred \cup astray

IdleFits(x) == x.does = "nothing" <=> x = Projections!Idle

Served(x) == WriterFits(x) /\ FillFits(x) /\ GraphFits(x) /\ IdleFits(x)

(* Who writes a claim, and how far. *)
Writes(t, c, P) == c \in writing[t].claim /\ writing[t].at \in P
WrittenAt(c, P) == \E t \in Thread : Writes(t, c, P)

(* A rebuild is about to put a claim back. *)
Puts(x, c) ==
  /\ x.does \in {"index", "erase"}
  /\ \/ x.at = "list" /\ c \in EngineFor(x)
     \/ x.at = "fill" /\ c \in x.left

OneWriter ==
  \A t, u \in Thread : writing[t].claim \cap writing[u].claim # {} => t = u

IndexFits ==
  /\ index \subseteq engine \cup astray
  /\ \A c \in engine : \/ c \in index \/ WrittenAt(c, {"log", "index"})
                       \/ \E t \in Thread : Puts(writing[t], c)

(* The direction an edge was written with, on disk as in memory. *)
Directs(rows, c) == c \in Proved \/ c \in Observed \ blurred => rows[c] = FormedAs[c]

EdgesFit ==
  /\ DOMAIN edges \subseteq engine \cup astray
  /\ \A c \in engine \cap Relational : c \in DOMAIN edges \/ WrittenAt(c, InWrite \ {"form"})
  /\ \A c \in DOMAIN edges : c \in Proved => edges[c] = FormedAs[c]
  /\ \A c \in DOMAIN edges \cap engine : WrittenAt(c, InWrite) \/ Directs(edges, c)
  /\ \A c \in (logged \cap Observed \cap Relational) \ blurred :
       WrittenAt(c, InWrite) \/ (c \in DOMAIN saved.edges /\ saved.edges[c] = FormedAs[c])

BeforeErasure ==
  erased = {} => \A t \in Thread : writing[t].old = {}

ProjectionsInv ==
  /\ ProjectionsTyped /\ BeforeErasure
  /\ \A t \in Thread : Served(writing[t])
  /\ OneWriter /\ IndexFits /\ EdgesFit

------------------------------------------------------------------------------
(* The rows of the graph. *)
LEMMA RowsGet ==
  ASSUME NEW f \in Rows
  PROVE  /\ DOMAIN f \subseteq Relational /\ f \in [DOMAIN f -> Direction]
         /\ \A c \in DOMAIN f : f[c] \in Direction
  BY DEF Rows

LEMMA RowsAre ==
  ASSUME NEW D \in SUBSET Relational, NEW f \in [D -> Direction]
  PROVE  f \in Rows
  BY DEF Rows

LEMMA NoRows == <<>> \in Rows /\ DOMAIN <<>> = {}
<1>1. <<>> \in Seq(Direction) /\ Len(<<>>) = 0
  BY EmptySeq
<1>2. <<>> \in [1..0 -> Direction] /\ 1..0 = {}
  BY <1>1, LenProperties
<1>3. <<>> \in [{} -> Direction] /\ {} \in SUBSET Relational
  BY <1>2
<1> QED BY <1>3, RowsAre

LEMMA PutRow ==
  ASSUME NEW f \in Rows, NEW c \in Relational, NEW d \in Direction
  PROVE  LET g == Projections!Put(c, d, f)
         IN  /\ g \in Rows /\ DOMAIN g = DOMAIN f \cup {c} /\ g[c] = d
             /\ \A e \in DOMAIN f \ {c} : g[e] = f[e]
<1> DEFINE g == Projections!Put(c, d, f)
           D == DOMAIN f \cup {c}
<1>1. D \in SUBSET Relational /\ \A e \in D : (IF e = c THEN d ELSE f[e]) \in Direction
  BY RowsGet
<1>2. g \in [D -> Direction] /\ g[c] = d /\ \A e \in DOMAIN f \ {c} : g[e] = f[e]
  BY <1>1 DEF Projections!Put
<1>3. g \in Rows
  BY <1>1, <1>2, RowsAre
<1> QED BY <1>2, <1>3

(* What a call reads in the direction of a claim is a direction. *)
LEMMA DirectedIs ==
  ASSUME NEW f \in Rows, NEW c \in Relational
  PROVE  /\ Projections!Directed(c, f) \in Direction
         /\ c \in Proved => Projections!Directed(c, f) = FormedAs[c]
         /\ c \in DOMAIN f \ Proved => Projections!Directed(c, f) = f[c]
<1>1. CASE c \in Proved
  BY <1>1, ProjectionsAssumption DEF Projections!Directed, Direction
<1>2. CASE c \notin Proved /\ c \in DOMAIN f
  BY <1>2, RowsGet DEF Projections!Directed
<1>3. CASE c \notin Proved /\ c \notin DOMAIN f
  BY <1>3 DEF Projections!Directed, Direction
<1> QED BY <1>1, <1>2, <1>3

LEMMA RebuiltIs ==
  ASSUME NEW f \in Rows, NEW S \in SUBSET Projected
  PROVE  LET g == Projections!Rebuilt(f, S)
         IN  /\ g \in Rows /\ DOMAIN g = S \cap Relational
             /\ \A c \in DOMAIN g : /\ c \in Proved => g[c] = FormedAs[c]
                                    /\ c \in DOMAIN f \ Proved => g[c] = f[c]
<1> DEFINE g == Projections!Rebuilt(f, S)
           D == S \cap Relational
<1>1. D \in SUBSET Relational /\ \A c \in D : Projections!Directed(c, f) \in Direction
  BY DirectedIs
<1>2. g = [c \in D |-> Projections!Directed(c, f)]
  BY DEF Projections!Rebuilt
<1>3. g \in [D -> Direction]
  BY <1>1, <1>2
<1>4. g \in Rows
  BY <1>1, <1>3, RowsAre
<1>5. \A c \in D : /\ c \in Proved => g[c] = FormedAs[c]
                   /\ c \in DOMAIN f \ Proved => g[c] = f[c]
  BY <1>2, DirectedIs
<1> HIDE DEF D
<1> QED BY <1>2, <1>4, <1>5 DEF D

LEMMA IdleServed ==
  /\ Projections!Idle \in Serving /\ Served(Projections!Idle)
  /\ Projections!Idle.claim = {} /\ Projections!Idle.old = {}
  /\ Projections!Idle.does = "nothing" /\ Projections!Idle.at = "idle"
  /\ Projections!Idle.left = {}
  BY NoRows DEF Projections!Idle, Serving, Served, WriterFits, FillFits, GraphFits, IdleFits

LEMMA ServingGet ==
  ASSUME ProjectionsInv, NEW t \in Thread
  PROVE  writing[t] \in Serving /\ Served(writing[t])
  BY DEF ProjectionsInv, ProjectionsTyped

(* What only grows leaves a call what it may be. *)
LEMMA KeepsServed ==
  ASSUME NEW x, Served(x),
         engine \subseteq engine', logged \subseteq logged', astray \subseteq astray',
         blurred \subseteq blurred', DOMAIN edges \subseteq DOMAIN edges' \cup astray',
         erased # {} => erased' # {},
         x.does = "graph" => engine' \ engine \subseteq blurred',
         x.does = "write" /\ x.at = "log" => x.claim \cap logged' = {}
  PROVE  Served(x)'
<1>1. WriterFits(x)'
  BY DEF Served, WriterFits
<1>2. FillFits(x)'
  BY DEF Served, FillFits
<1>3. GraphFits(x)'
  BY DEF Served, GraphFits, EngineFor
<1>4. IdleFits(x)'
  BY DEF Served, IdleFits
<1> QED BY <1>1, <1>2, <1>3, <1>4 DEF Served

(* One thread moves, and the others keep what they have. *)
LEMMA OthersStay ==
  ASSUME ProjectionsInv, NEW t \in Thread, NEW x \in Serving, Projections!Moves(t, x)
  PROVE  /\ writing' \in [Thread -> Serving] /\ writing'[t] = x
         /\ \A u \in Thread \ {t} : writing'[u] = writing[u]
  BY DEF ProjectionsInv, ProjectionsTyped, Projections!Moves

(* A step of a rebuild. *)
LEMMA RebuildStep ==
  ASSUME ProjectionsInv, NEW t \in Thread, NEW x \in Serving,
         Projections!Moves(t, x), writing[t].claim = {}, x.claim = {},
         UNCHANGED <<engine, logged, erased, astray>>, upsets' \in 0..MaxUpsets,
         blurred \subseteq blurred', blurred' \subseteq Projected,
         Served(x)', x.old \in {writing[t].old, {}},
         index' \subseteq engine \cup astray,
         \A c \in engine : c \in index \/ Puts(writing[t], c) => c \in index' \/ Puts(x, c)',
         edges' \in Rows, saved'.edges \in {edges', saved.edges},
         DOMAIN edges' \subseteq engine \cup astray,
         DOMAIN edges \subseteq DOMAIN edges' \cup astray,
         \A c \in DOMAIN edges' \cap Proved : edges'[c] = FormedAs[c],
         \A c \in (DOMAIN edges' \cap engine \cap Observed) \ (blurred' \cup Proved) :
           c \in DOMAIN edges /\ edges'[c] = edges[c]
  PROVE  ProjectionsInv'
<1>1. /\ writing' \in [Thread -> Serving] /\ writing'[t] = x
      /\ \A u \in Thread \ {t} : writing'[u] = writing[u]
  BY OthersStay
<1>2. ProjectionsTyped'
  BY <1>1 DEF ProjectionsInv, ProjectionsTyped
<1>3. BeforeErasure'
  BY <1>1 DEF ProjectionsInv, BeforeErasure
<1>4. \A u \in Thread : Served(writing[u])'
  <2>1. ASSUME NEW u \in Thread \ {t} PROVE Served(writing[u])'
    <3>1. Served(writing[u]) /\ writing'[u] = writing[u]
      BY <1>1, ServingGet
    <3>2. writing[u].does = "write" /\ writing[u].at = "log" => writing[u].claim \cap logged' = {}
      BY <3>1 DEF Served, WriterFits
    <3> QED BY <3>1, <3>2, KeepsServed
  <2>2. Served(writing[t])'
    BY <1>1
  <2> QED BY <2>1, <2>2
<1>5. OneWriter'
  BY <1>1 DEF ProjectionsInv, OneWriter
<1>6. \A c \in Projected, P \in SUBSET InWrite : WrittenAt(c, P)' <=> WrittenAt(c, P)
  BY <1>1 DEF WrittenAt, Writes
<1>7. IndexFits'
  <2>1. ASSUME NEW c \in engine
        PROVE  \/ c \in index' \/ WrittenAt(c, {"log", "index"})'
               \/ \E u \in Thread : Puts(writing[u], c)'
    <3>1. c \in Projected /\ {"log", "index"} \in SUBSET InWrite
      BY DEF ProjectionsInv, ProjectionsTyped, InWrite
    <3>2. CASE c \in index
      <4>1. c \in index' \/ Puts(x, c)'
        BY <3>2
      <4> QED BY <1>1, <4>1
    <3>3. CASE WrittenAt(c, {"log", "index"})
      BY <1>6, <3>1, <3>3
    <3>4. ASSUME NEW u \in Thread, Puts(writing[u], c)
          PROVE  c \in index' \/ \E v \in Thread : Puts(writing[v], c)'
      <4>1. CASE u = t
        <5>1. c \in index' \/ Puts(x, c)'
          BY <3>4, <4>1
        <5> QED BY <1>1, <5>1
      <4>2. CASE u # t
        <5>1. Puts(writing[u], c)'
          BY <1>1, <3>4, <4>2 DEF Puts, EngineFor
        <5> QED BY <5>1
      <4> QED BY <4>1, <4>2
    <3> QED BY <3>2, <3>3, <3>4 DEF ProjectionsInv, IndexFits
  <2> QED BY <2>1 DEF IndexFits
<1>8. EdgesFit'
  <2>1. \A c \in engine \cap Relational : c \in DOMAIN edges' \/ WrittenAt(c, InWrite \ {"form"})'
    <3> SUFFICES ASSUME NEW c \in engine \cap Relational
                 PROVE  c \in DOMAIN edges' \/ WrittenAt(c, InWrite \ {"form"})'
      OBVIOUS
    <3>1. c \in Projected /\ c \notin astray /\ InWrite \ {"form"} \in SUBSET InWrite
      BY DEF ProjectionsInv, ProjectionsTyped
    <3> QED BY <1>6, <3>1 DEF ProjectionsInv, EdgesFit
  <2>2. \A c \in DOMAIN edges' \cap engine : WrittenAt(c, InWrite)' \/ Directs(edges, c)'
    <3> SUFFICES ASSUME NEW c \in DOMAIN edges' \cap engine, ~ WrittenAt(c, InWrite)'
                 PROVE  Directs(edges, c)'
      OBVIOUS
    <3>1. c \in Projected /\ InWrite \in SUBSET InWrite
      BY DEF ProjectionsInv, ProjectionsTyped
    <3>2. ~ WrittenAt(c, InWrite)
      BY <1>6, <3>1
    <3> QED BY <3>2 DEF ProjectionsInv, EdgesFit, Directs
  <2>3. \A c \in (logged \cap Observed \cap Relational) \ blurred' :
          WrittenAt(c, InWrite)' \/ (c \in DOMAIN saved'.edges /\ saved'.edges[c] = FormedAs[c])
    <3> SUFFICES ASSUME NEW c \in (logged \cap Observed \cap Relational) \ blurred',
                        ~ WrittenAt(c, InWrite)'
                 PROVE  c \in DOMAIN saved'.edges /\ saved'.edges[c] = FormedAs[c]
      OBVIOUS
    <3>1. c \in Projected /\ c \in engine /\ InWrite \in SUBSET InWrite
      BY DEF ProjectionsInv, ProjectionsTyped
    <3>2. ~ WrittenAt(c, InWrite) /\ ~ WrittenAt(c, InWrite \ {"form"})'
      BY <1>6, <3>1 DEF WrittenAt, Writes
    <3>3. CASE saved'.edges = edges'
      BY <2>1, <2>2, <3>1, <3>2, <3>3 DEF Directs
    <3>4. CASE saved'.edges = saved.edges
      BY <3>2, <3>4 DEF ProjectionsInv, EdgesFit
    <3> QED BY <3>3, <3>4
  <2> QED BY <2>1, <2>2, <2>3 DEF EdgesFit
<1> QED BY <1>2, <1>3, <1>4, <1>5, <1>7, <1>8 DEF ProjectionsInv

(* A step of a rebuild that leaves the rows. *)
LEMMA ReadingStep ==
  ASSUME ProjectionsInv, NEW t \in Thread, NEW x \in Serving,
         Projections!Moves(t, x), writing[t].claim = {}, x.claim = {},
         UNCHANGED <<engine, logged, erased, astray, index, edges>>, upsets' \in 0..MaxUpsets,
         blurred \subseteq blurred', blurred' \subseteq Projected,
         Served(x)', x.old \in {writing[t].old, {}},
         \A c \in engine : Puts(writing[t], c) => c \in index \/ Puts(x, c)',
         saved'.edges \in {edges, saved.edges}
  PROVE  ProjectionsInv'
<1>1. /\ index' \subseteq engine \cup astray
      /\ \A c \in engine : c \in index \/ Puts(writing[t], c) => c \in index' \/ Puts(x, c)'
      /\ edges' \in Rows /\ saved'.edges \in {edges', saved.edges}
      /\ DOMAIN edges' \subseteq engine \cup astray
      /\ DOMAIN edges \subseteq DOMAIN edges' \cup astray
      /\ \A c \in DOMAIN edges' \cap Proved : edges'[c] = FormedAs[c]
      /\ \A c \in (DOMAIN edges' \cap engine \cap Observed) \ (blurred' \cup Proved) :
           c \in DOMAIN edges /\ edges'[c] = edges[c]
  BY DEF ProjectionsInv, ProjectionsTyped, IndexFits, EdgesFit
<1>2. UNCHANGED <<engine, logged, erased, astray>>
  OBVIOUS
<1> QED BY <1>1, <1>2, RebuildStep

(* A call that rebuilds writes nothing of its own. *)
LEMMA RebuildersWriteNothing ==
  ASSUME ProjectionsInv, NEW t \in Thread,
         writing[t] = Projections!Idle \/ writing[t].does \in {"index", "graph", "erase"}
  PROVE  writing[t].claim = {}
<1>1. Served(writing[t])
  BY ServingGet
<1>2. CASE writing[t] = Projections!Idle
  BY <1>2, IdleServed
<1>3. CASE writing[t].does \in {"index", "erase"}
  BY <1>1, <1>3 DEF Served, FillFits
<1>4. CASE writing[t].does = "graph"
  BY <1>1, <1>4 DEF Served, GraphFits
<1> QED BY <1>2, <1>3, <1>4

LEMMA TypedGet ==
  ASSUME ProjectionsInv
  PROVE  /\ logged \subseteq engine /\ engine \subseteq Projected /\ erased \subseteq Projected \ engine
         /\ index \subseteq Projected /\ edges \in Rows /\ saved.edges \in Rows
         /\ astray \subseteq erased /\ blurred \subseteq Projected /\ upsets \in 0..MaxUpsets
         /\ engine \cup astray \subseteq Projected
  BY DEF ProjectionsInv, ProjectionsTyped

(* The index is rebuilt. *)
LEMMA ClearStep ==
  ASSUME ProjectionsInv, NEW t \in Thread, Projections!Clear(t)
  PROVE  ProjectionsInv'
<1> DEFINE y == [Projections!Idle EXCEPT !.does = "index", !.at = "list"]
<1>1. y \in Serving
  BY NoRows DEF Projections!Idle, Serving
<1>2. PICK x \in Serving : x = y
  BY <1>1
<1>3. /\ x.does = "index" /\ x.at = "list" /\ x.claim = {} /\ x.old = {} /\ x.left = {}
  BY <1>2 DEF Projections!Idle
<1>4. /\ Projections!Moves(t, x) /\ writing[t] = Projections!Idle /\ index' = {}
      /\ UNCHANGED <<engine, logged, edges, saved, erased, blurred, astray>>
      /\ upsets < MaxUpsets /\ upsets' = upsets + 1
  BY <1>2 DEF Projections!Clear, Projections!Trouble
<1>5. upsets' \in 0..MaxUpsets
  BY <1>4, TypedGet, ProjectionsAssumption
<1>6. writing[t].claim = {} /\ x.old = writing[t].old
  BY <1>3, <1>4, IdleServed
<1>7. Served(x)'
  BY <1>3 DEF Served, WriterFits, FillFits, GraphFits, IdleFits, Projections!Idle
<1>8. \A c \in engine : c \in index \/ Puts(writing[t], c) => c \in index' \/ Puts(x, c)'
  BY <1>3, <1>4 DEF Puts, EngineFor
<1>9. index' \subseteq engine \cup astray /\ saved'.edges \in {edges', saved.edges}
  BY <1>4
<1>10. /\ edges' \in Rows
       /\ DOMAIN edges' \subseteq engine \cup astray
       /\ DOMAIN edges \subseteq DOMAIN edges' \cup astray
       /\ \A c \in DOMAIN edges' \cap Proved : edges'[c] = FormedAs[c]
       /\ \A c \in (DOMAIN edges' \cap engine \cap Observed) \ (blurred' \cup Proved) :
            c \in DOMAIN edges /\ edges'[c] = edges[c]
  BY <1>4 DEF ProjectionsInv, ProjectionsTyped, EdgesFit
<1>11. /\ UNCHANGED <<engine, logged, erased, astray>>
       /\ blurred \subseteq blurred' /\ blurred' \subseteq Projected
  BY <1>4, TypedGet
<1> HIDE DEF y
<1> QED BY <1>3, <1>4, <1>5, <1>6, <1>7, <1>8, <1>9, <1>10, <1>11, RebuildStep

LEMMA ListClaimsStep ==
  ASSUME ProjectionsInv, NEW t \in Thread, Projections!ListClaims(t)
  PROVE  ProjectionsInv'
<1> DEFINE y == [writing[t] EXCEPT !.at = "fill", !.left = EngineFor(writing[t])]
<1>1. /\ writing[t] \in Serving /\ Served(writing[t])
      /\ writing[t].does \in {"index", "erase"} /\ writing[t].at = "list"
      /\ UNCHANGED <<engine, logged, index, edges, saved, erased, upsets, blurred, astray>>
  BY ServingGet DEF Projections!ListClaims
<1>2. EngineFor(writing[t]) \subseteq engine \cup astray /\ writing[t].claim = {}
  BY <1>1 DEF Served, FillFits, EngineFor
<1>3. y \in Serving
  BY <1>1, <1>2, TypedGet DEF Serving
<1>4. PICK x \in Serving : x = y
  BY <1>3
<1>5. /\ x.does = writing[t].does /\ x.at = "fill" /\ x.claim = {} /\ x.old = writing[t].old
      /\ x.left = EngineFor(writing[t])
  BY <1>1, <1>2, <1>4 DEF Serving
<1>6. Projections!Moves(t, x)
  BY <1>4 DEF Projections!ListClaims, Projections!EngineOf, EngineFor
<1>7. Served(x)'
  <2>1. FillFits(x)'
    BY <1>1, <1>2, <1>5 DEF Served, FillFits
  <2> QED BY <1>1, <1>5, <2>1 DEF Served, WriterFits, GraphFits, IdleFits, Projections!Idle
<1>8. \A c \in engine : Puts(writing[t], c) => c \in index \/ Puts(x, c)'
  BY <1>1, <1>5 DEF Puts
<1>9. /\ UNCHANGED <<engine, logged, erased, astray, index, edges>> /\ upsets' \in 0..MaxUpsets
      /\ blurred \subseteq blurred' /\ blurred' \subseteq Projected
      /\ saved'.edges \in {edges, saved.edges}
  BY <1>1, TypedGet
<1> HIDE DEF y
<1> QED BY <1>2, <1>5, <1>6, <1>7, <1>8, <1>9, ReadingStep

LEMMA FillStep ==
  ASSUME ProjectionsInv, NEW t \in Thread, Projections!Fill(t)
  PROVE  ProjectionsInv'
<1>1. /\ writing[t] \in Serving /\ Served(writing[t]) /\ writing[t].at = "fill"
      /\ UNCHANGED <<engine, logged, edges, saved, erased, upsets, blurred, astray>>
  BY ServingGet DEF Projections!Fill
<1>2. PICK c \in writing[t].left :
        /\ index' = index \cup {c}
        /\ Projections!Moves(t, [writing[t] EXCEPT !.left = @ \ {c}])
  BY DEF Projections!Fill
<1> DEFINE y == [writing[t] EXCEPT !.left = @ \ {c}]
<1>3. writing[t].does \in {"index", "erase"}
  <2>1. writing[t].does # "nothing"
    BY <1>1, IdleServed DEF Served, IdleFits
  <2>2. writing[t].does \notin {"write", "graph"}
    BY <1>1 DEF Served, WriterFits, GraphFits, InWrite
  <2> QED BY <1>1, <2>1, <2>2 DEF Serving
<1>4. writing[t].left \subseteq engine \cup astray /\ writing[t].claim = {}
  BY <1>1, <1>3 DEF Served, FillFits
<1>5. y \in Serving
  BY <1>1 DEF Serving
<1>6. PICK x \in Serving : x = y
  BY <1>5
<1>7. /\ x.does = writing[t].does /\ x.at = "fill" /\ x.claim = {} /\ x.old = writing[t].old
      /\ x.left = writing[t].left \ {c}
  BY <1>1, <1>4, <1>6 DEF Serving
<1>8. Projections!Moves(t, x)
  BY <1>2, <1>6
<1>9. Served(x)'
  <2>1. FillFits(x)'
    BY <1>1, <1>3, <1>4, <1>7 DEF Served, FillFits
  <2> QED BY <1>3, <1>7, <2>1 DEF Served, WriterFits, GraphFits, IdleFits, Projections!Idle
<1>10. \A d \in engine : d \in index \/ Puts(writing[t], d) => d \in index' \/ Puts(x, d)'
  BY <1>1, <1>2, <1>3, <1>7 DEF Puts
<1>11. index' \subseteq engine \cup astray /\ saved'.edges \in {edges', saved.edges}
  BY <1>1, <1>2, <1>4 DEF ProjectionsInv, IndexFits
<1>12. /\ edges' \in Rows
       /\ DOMAIN edges' \subseteq engine \cup astray
       /\ DOMAIN edges \subseteq DOMAIN edges' \cup astray
       /\ \A d \in DOMAIN edges' \cap Proved : edges'[d] = FormedAs[d]
       /\ \A d \in (DOMAIN edges' \cap engine \cap Observed) \ (blurred' \cup Proved) :
            d \in DOMAIN edges /\ edges'[d] = edges[d]
  BY <1>1 DEF ProjectionsInv, ProjectionsTyped, EdgesFit
<1>13. /\ UNCHANGED <<engine, logged, erased, astray>> /\ upsets' \in 0..MaxUpsets
       /\ blurred \subseteq blurred' /\ blurred' \subseteq Projected
       /\ x.old \in {writing[t].old, {}}
  BY <1>1, <1>7, TypedGet
<1> HIDE DEF y
<1> QED BY <1>4, <1>7, <1>8, <1>9, <1>10, <1>11, <1>12, <1>13, RebuildStep

LEMMA FilledStep ==
  ASSUME ProjectionsInv, NEW t \in Thread, Projections!Filled(t)
  PROVE  ProjectionsInv'
<1>1. /\ writing[t] \in Serving /\ Served(writing[t]) /\ writing[t].at = "fill"
      /\ writing[t].left = {}
      /\ UNCHANGED <<engine, logged, index, edges, erased, upsets, blurred, astray>>
      /\ saved' = [index |-> index', edges |-> edges']
  BY ServingGet DEF Projections!Filled, Projections!Commit
<1>2. writing[t].does \in {"index", "erase"}
  <2>1. writing[t].does # "nothing"
    BY <1>1, IdleServed DEF Served, IdleFits
  <2>2. writing[t].does \notin {"write", "graph"}
    BY <1>1 DEF Served, WriterFits, GraphFits, InWrite
  <2> QED BY <1>1, <2>1, <2>2 DEF Serving
<1>3. writing[t].claim = {}
  BY <1>1, <1>2 DEF Served, FillFits
<1>4. /\ UNCHANGED <<engine, logged, erased, astray, index, edges>> /\ upsets' \in 0..MaxUpsets
      /\ blurred \subseteq blurred' /\ blurred' \subseteq Projected
      /\ saved'.edges \in {edges, saved.edges}
  BY <1>1, TypedGet
<1>5. \A c \in engine : ~ Puts(writing[t], c)
  BY <1>1 DEF Puts
<1>6. CASE writing[t].does = "erase"
  <2> DEFINE y == [writing[t] EXCEPT !.at = "read"]
  <2>1. y \in Serving
    BY <1>1 DEF Serving
  <2>2. PICK x \in Serving : x = y
    BY <2>1
  <2>3. /\ x.does = "erase" /\ x.at = "read" /\ x.claim = {} /\ x.old = writing[t].old
        /\ x.left = {}
    BY <1>1, <1>3, <1>6, <2>2 DEF Serving
  <2>4. Projections!Moves(t, x)
    BY <1>6, <2>2 DEF Projections!Filled, Projections!Goto
  <2>5. Served(x)'
    <3>1. FillFits(x)'
      BY <1>1, <1>6, <2>3 DEF Served, FillFits
    <3> QED BY <2>3, <3>1 DEF Served, WriterFits, GraphFits, IdleFits, Projections!Idle
  <2> HIDE DEF y
  <2> QED BY <1>3, <1>4, <1>5, <2>3, <2>4, <2>5, ReadingStep
<1>7. CASE writing[t].does = "index"
  <2>1. PICK x \in Serving : x = Projections!Idle
    BY IdleServed
  <2>2. Projections!Moves(t, x) /\ x.claim = {} /\ x.old = {}
    BY <1>7, <2>1, IdleServed DEF Projections!Filled
  <2>3. Served(x)'
    BY <2>1, IdleServed DEF Served, WriterFits, FillFits, GraphFits, IdleFits
  <2> QED BY <1>3, <1>4, <1>5, <2>2, <2>3, ReadingStep
<1> QED BY <1>2, <1>6, <1>7

(* The graph is rebuilt: a claim that has no row yet is being written. *)
LEMMA ReadsStep ==
  ASSUME ProjectionsInv, NEW t \in Thread,
         Projections!Reads(t), Projections!Blurs,
         \/ writing[t] = Projections!Idle
         \/ writing[t].does = "erase" /\ writing[t].at = "read",
         UNCHANGED <<engine, logged, index, edges, saved, erased, astray>>,
         upsets' \in 0..MaxUpsets
  PROVE  ProjectionsInv'
<1> DEFINE y == [writing[t] EXCEPT !.does = "graph", !.at = "list", !.seen = edges]
<1>1. writing[t] \in Serving /\ Served(writing[t]) /\ writing[t].claim = {} /\ writing[t].old = {}
  <2>1. writing[t] \in Serving /\ Served(writing[t])
    BY ServingGet
  <2>2. CASE writing[t] = Projections!Idle
    BY <2>1, <2>2, IdleServed
  <2>3. CASE writing[t].does = "erase" /\ writing[t].at = "read"
    BY <2>1, <2>3 DEF Served, FillFits
  <2> QED BY <2>1, <2>2, <2>3
<1>2. y \in Serving
  BY <1>1, TypedGet DEF Serving
<1>3. PICK x \in Serving : x = y
  BY <1>2
<1>4. /\ x.does = "graph" /\ x.at = "list" /\ x.claim = {} /\ x.old = {} /\ x.seen = edges
  BY <1>1, <1>3 DEF Serving
<1>5. Projections!Moves(t, x)
  BY <1>3 DEF Projections!Reads
<1>6. /\ blurred' = blurred \cup {c \in Projected : Projections!Writing(c)}
      /\ blurred \subseteq blurred' /\ blurred' \subseteq Projected
  BY TypedGet DEF Projections!Blurs
<1>7. (engine \cap Relational) \ DOMAIN edges \subseteq blurred'
  BY <1>6, TypedGet DEF ProjectionsInv, EdgesFit, WrittenAt, Writes, Projections!Writing
<1>8. Served(x)'
  <2>1. EngineFor(x)' = engine
    BY <1>4 DEF EngineFor
  <2>2. DOMAIN edges \subseteq engine \cup astray
    BY DEF ProjectionsInv, EdgesFit
  <2>3. GraphFits(x)'
    BY <1>4, <1>7, <2>1, <2>2 DEF GraphFits
  <2> QED BY <1>4, <2>3 DEF Served, WriterFits, FillFits, IdleFits, Projections!Idle
<1>9. \A c \in engine : Puts(writing[t], c) => c \in index \/ Puts(x, c)'
  BY IdleServed DEF Puts
<1>10. /\ UNCHANGED <<engine, logged, erased, astray, index, edges>>
       /\ saved'.edges \in {edges, saved.edges} /\ x.old \in {writing[t].old, {}}
  BY <1>4
<1> HIDE DEF y
<1> QED BY <1>1, <1>4, <1>5, <1>6, <1>8, <1>9, <1>10, ReadingStep

LEMMA ReadEdgesStep ==
  ASSUME ProjectionsInv, NEW t \in Thread, Projections!ReadEdges(t)
  PROVE  ProjectionsInv'
<1>1. upsets' \in 0..MaxUpsets
  BY TypedGet, ProjectionsAssumption DEF Projections!ReadEdges, Projections!Trouble
<1> QED BY <1>1, ReadsStep DEF Projections!ReadEdges

LEMMA ReadAgainStep ==
  ASSUME ProjectionsInv, NEW t \in Thread, Projections!ReadAgain(t)
  PROVE  ProjectionsInv'
<1>1. upsets' \in 0..MaxUpsets
  BY TypedGet DEF Projections!ReadAgain
<1> QED BY <1>1, ReadsStep DEF Projections!ReadAgain

LEMMA ListEdgesStep ==
  ASSUME ProjectionsInv, NEW t \in Thread, Projections!ListEdges(t)
  PROVE  ProjectionsInv'
<1> DEFINE rows == writing[t].seen
           E == EngineFor(writing[t])
           new == Projections!Rebuilt(rows, E)
           todo == (DOMAIN rows \cup DOMAIN new) \ Projections!Same(rows, new)
           y == [writing[t] EXCEPT !.at = "apply", !.seen = new, !.left = todo]
<1>1. /\ writing[t] \in Serving /\ Served(writing[t])
      /\ writing[t].does = "graph" /\ writing[t].at = "list"
      /\ UNCHANGED <<engine, logged, index, edges, saved, erased, upsets, blurred, astray>>
  BY ServingGet DEF Projections!ListEdges
<1>2. /\ writing[t].claim = {} /\ writing[t].old \subseteq engine \cup astray
      /\ DOMAIN rows \subseteq E \cup astray
      /\ (E \cap Relational) \ DOMAIN rows \subseteq blurred \cup astray
  BY <1>1 DEF Served, GraphFits
<1>3. E \subseteq engine \cup astray /\ E \in SUBSET Projected /\ rows \in Rows
  BY <1>1, <1>2, TypedGet DEF EngineFor, Serving
<1>4. Projections!Moves(t, y)
  BY DEF Projections!ListEdges, Projections!EngineOf, EngineFor
<1> HIDE DEF E, rows
<1>5. /\ new \in Rows /\ DOMAIN new = E \cap Relational
      /\ \A c \in DOMAIN new : /\ c \in Proved => new[c] = FormedAs[c]
                               /\ c \in DOMAIN rows \ Proved => new[c] = rows[c]
  BY <1>3, RebuiltIs
<1>6. todo = (DOMAIN rows \cup DOMAIN new)
               \ {c \in DOMAIN rows \cap DOMAIN new : rows[c] = new[c]}
  BY DEF Projections!Same
<1>7. DOMAIN rows \subseteq Relational
  BY <1>3, RowsGet
<1> HIDE DEF new, todo
<1>8. todo \subseteq Projected
  BY <1>3, <1>5, <1>6, <1>7, ProjectionsAssumption
<1>9. PICK x \in Serving : x = y
  BY <1>1, <1>5, <1>8 DEF Serving
<1>10. /\ x.does = "graph" /\ x.at = "apply" /\ x.claim = {} /\ x.old = writing[t].old
       /\ x.seen = new /\ x.left = todo
  BY <1>1, <1>2, <1>9 DEF Serving
<1>11. Projections!Moves(t, x)
  BY <1>4, <1>9
<1>12. Served(x)'
  <2>1. DOMAIN new \subseteq engine \cup astray
    BY <1>3, <1>5
  <2>2. todo \subseteq DOMAIN new \cup astray
    BY <1>2, <1>5, <1>6, <1>7
  <2>3. \A c \in todo \cap DOMAIN new :
          IF c \in Proved THEN new[c] = FormedAs[c] ELSE c \in blurred \cup astray
    BY <1>2, <1>5, <1>6
  <2>4. GraphFits(x)'
    BY <1>1, <1>2, <1>10, <2>1, <2>2, <2>3 DEF GraphFits
  <2> QED BY <1>10, <2>4 DEF Served, WriterFits, FillFits, IdleFits, Projections!Idle
<1>13. \A c \in engine : Puts(writing[t], c) => c \in index \/ Puts(x, c)'
  BY <1>1 DEF Puts
<1>14. /\ UNCHANGED <<engine, logged, erased, astray, index, edges>> /\ upsets' \in 0..MaxUpsets
       /\ blurred \subseteq blurred' /\ blurred' \subseteq Projected
       /\ saved'.edges \in {edges, saved.edges} /\ x.old \in {writing[t].old, {}}
  BY <1>1, <1>10, TypedGet
<1> HIDE DEF y
<1> QED BY <1>2, <1>10, <1>11, <1>12, <1>13, <1>14, ReadingStep

(* What a rebuild of the graph does is one of two things. *)
LEMMA ApplyingIsGraph ==
  ASSUME ProjectionsInv, NEW t \in Thread, writing[t].at = "apply"
  PROVE  /\ writing[t] \in Serving /\ Served(writing[t])
         /\ writing[t].does = "graph" /\ writing[t].claim = {}
         /\ writing[t].old \subseteq engine \cup astray
         /\ DOMAIN writing[t].seen \subseteq engine \cup astray
         /\ writing[t].left \subseteq DOMAIN writing[t].seen \cup astray
         /\ \A c \in writing[t].left \cap DOMAIN writing[t].seen :
              IF c \in Proved THEN writing[t].seen[c] = FormedAs[c]
              ELSE c \in blurred \cup astray
<1>1. writing[t] \in Serving /\ Served(writing[t])
  BY ServingGet
<1>2. writing[t].does # "nothing"
  BY <1>1, IdleServed DEF Served, IdleFits
<1>3. writing[t].does \notin {"write", "index", "erase"}
  BY <1>1 DEF Served, WriterFits, FillFits, InWrite
<1>4. writing[t].does = "graph"
  BY <1>1, <1>2, <1>3 DEF Serving
<1>5. GraphFits(writing[t])
  BY <1>1 DEF Served
<1> QED BY <1>1, <1>4, <1>5 DEF GraphFits

LEMMA ApplyEdgeStep ==
  ASSUME ProjectionsInv, NEW t \in Thread, Projections!ApplyEdge(t)
  PROVE  ProjectionsInv'
<1>1. /\ writing[t].at = "apply"
      /\ UNCHANGED <<engine, logged, index, saved, erased, upsets, blurred, astray>>
  BY DEF Projections!ApplyEdge
<1>2. PICK c \in writing[t].left :
        /\ edges' = IF c \in DOMAIN writing[t].seen
                    THEN Projections!Put(c, writing[t].seen[c], edges)
                    ELSE [d \in DOMAIN edges \ {c} |-> edges[d]]
        /\ Projections!Moves(t, [writing[t] EXCEPT !.left = @ \ {c}])
  BY DEF Projections!ApplyEdge
<1>3. /\ writing[t] \in Serving /\ Served(writing[t])
      /\ writing[t].does = "graph" /\ writing[t].claim = {}
      /\ writing[t].old \subseteq engine \cup astray
      /\ DOMAIN writing[t].seen \subseteq engine \cup astray
      /\ writing[t].left \subseteq DOMAIN writing[t].seen \cup astray
      /\ \A d \in writing[t].left \cap DOMAIN writing[t].seen :
           IF d \in Proved THEN writing[t].seen[d] = FormedAs[d] ELSE d \in blurred \cup astray
  BY <1>1, ApplyingIsGraph
<1> DEFINE y == [writing[t] EXCEPT !.left = @ \ {c}]
<1>4. y \in Serving
  BY <1>3 DEF Serving
<1>5. PICK x \in Serving : x = y
  BY <1>4
<1>6. /\ x.does = "graph" /\ x.at = "apply" /\ x.claim = {} /\ x.old = writing[t].old
      /\ x.left = writing[t].left \ {c} /\ x.seen = writing[t].seen
  BY <1>1, <1>3, <1>5 DEF Serving
<1>7. Projections!Moves(t, x)
  BY <1>2, <1>5
<1> HIDE DEF y
<1>8. /\ edges \in Rows /\ DOMAIN edges \subseteq engine \cup astray
      /\ \A d \in DOMAIN edges : d \in Proved => edges[d] = FormedAs[d]
      /\ engine \cap astray = {}
  BY TypedGet DEF ProjectionsInv, EdgesFit
<1>9. writing[t].seen \in Rows
  BY <1>3 DEF Serving
<1>10. /\ edges' \in Rows
       /\ DOMAIN edges' \subseteq engine \cup astray
       /\ DOMAIN edges \subseteq DOMAIN edges' \cup astray
       /\ \A d \in DOMAIN edges' \cap Proved : edges'[d] = FormedAs[d]
       /\ \A d \in (DOMAIN edges' \cap engine \cap Observed) \ (blurred' \cup Proved) :
            d \in DOMAIN edges /\ edges'[d] = edges[d]
  <2>1. CASE c \in DOMAIN writing[t].seen
    <3>1. c \in Relational /\ writing[t].seen[c] \in Direction
      BY <1>9, <2>1, RowsGet
    <3>2. /\ edges' \in Rows /\ DOMAIN edges' = DOMAIN edges \cup {c}
          /\ edges'[c] = writing[t].seen[c] /\ \A e \in DOMAIN edges \ {c} : edges'[e] = edges[e]
      BY SMTT(30), <1>2, <1>8, <2>1, <3>1, PutRow
    <3>3. c \in Proved => writing[t].seen[c] = FormedAs[c]
      BY <1>3, <2>1
    <3>4. c \notin Proved => c \in blurred' \cup astray
      BY <1>1, <1>3, <2>1
    <3> QED BY <1>3, <1>8, <2>1, <3>2, <3>3, <3>4
  <2>2. CASE c \notin DOMAIN writing[t].seen
    <3>1. c \in astray
      BY <1>3, <2>2
    <3>2. DOMAIN edges \ {c} \in SUBSET Relational /\ edges \in [DOMAIN edges -> Direction]
      BY <1>8, RowsGet
    <3>3. /\ edges' = [d \in DOMAIN edges \ {c} |-> edges[d]]
          /\ edges' \in [DOMAIN edges \ {c} -> Direction]
      BY <1>2, <2>2, <3>2
    <3>4. edges' \in Rows
      BY <3>2, <3>3, RowsAre
    <3> QED BY <1>8, <3>1, <3>3, <3>4
  <2> QED BY <2>1, <2>2
<1>11. Served(x)'
  <2>1. GraphFits(x)'
    BY <1>1, <1>3, <1>6 DEF GraphFits
  <2> QED BY <1>6, <2>1 DEF Served, WriterFits, FillFits, IdleFits, Projections!Idle
<1>12. \A d \in engine : d \in index \/ Puts(writing[t], d) => d \in index' \/ Puts(x, d)'
  BY <1>1, <1>3 DEF Puts
<1>13. index' \subseteq engine \cup astray /\ saved'.edges \in {edges', saved.edges}
  BY <1>1 DEF ProjectionsInv, IndexFits
<1>14. /\ UNCHANGED <<engine, logged, erased, astray>> /\ upsets' \in 0..MaxUpsets
       /\ blurred \subseteq blurred' /\ blurred' \subseteq Projected
       /\ x.old \in {writing[t].old, {}}
  BY <1>1, <1>6, TypedGet
<1> QED BY <1>3, <1>6, <1>7, <1>10, <1>11, <1>12, <1>13, <1>14, RebuildStep

LEMMA AppliedStep ==
  ASSUME ProjectionsInv, NEW t \in Thread, Projections!Applied(t)
  PROVE  ProjectionsInv'
<1>1. /\ writing[t].at = "apply" /\ Projections!Moves(t, Projections!Idle)
      /\ UNCHANGED <<engine, logged, index, edges, erased, upsets, blurred, astray>>
      /\ saved' = [index |-> index', edges |-> edges']
  BY DEF Projections!Applied, Projections!Commit
<1>2. writing[t].claim = {} /\ writing[t].does = "graph"
  BY <1>1, ApplyingIsGraph
<1>3. PICK x \in Serving : x = Projections!Idle
  BY IdleServed
<1>4. Projections!Moves(t, x) /\ x.claim = {} /\ x.old \in {writing[t].old, {}}
  BY <1>1, <1>3, IdleServed
<1>5. Served(x)'
  BY <1>3, IdleServed DEF Served, WriterFits, FillFits, GraphFits, IdleFits
<1>6. \A c \in engine : Puts(writing[t], c) => c \in index \/ Puts(x, c)'
  BY <1>2 DEF Puts
<1>7. /\ UNCHANGED <<engine, logged, erased, astray, index, edges>> /\ upsets' \in 0..MaxUpsets
      /\ blurred \subseteq blurred' /\ blurred' \subseteq Projected
      /\ saved'.edges \in {edges, saved.edges}
  BY <1>1, TypedGet
<1> QED BY <1>2, <1>4, <1>5, <1>6, <1>7, ReadingStep

(* A step of a write, past the one that applies its claim: it moves what   *)
(* is known of its own claim and of no other.                              *)
LEMMA WriteStep ==
  ASSUME ProjectionsInv, NEW t \in Thread, NEW c \in Projected,
         NEW x \in Serving, Projections!Moves(t, x),
         writing[t].does = "write", writing[t].claim = {c}, x.old = {},
         x.claim = {} \/ (x.claim = {c} /\ x.at \in InWrite),
         UNCHANGED <<engine, erased, astray, blurred, upsets>>,
         Served(x)',
         logged \subseteq logged', logged' \subseteq logged \cup {c}, logged' \subseteq engine,
         index \subseteq index', index' \subseteq index \cup {c}, index' \subseteq engine \cup astray,
         edges' \in Rows, saved'.edges \in {edges', saved.edges},
         DOMAIN edges \subseteq DOMAIN edges', DOMAIN edges' \subseteq DOMAIN edges \cup {c},
         DOMAIN edges' \subseteq engine \cup astray,
         \A d \in DOMAIN edges \ {c} : edges'[d] = edges[d],
         c \in DOMAIN edges' \cap Proved => edges'[c] = FormedAs[c],
         c \in engine => \/ c \in index' \/ (x.claim = {c} /\ x.at \in {"log", "index"})
                        \/ \E u \in Thread : Puts(writing[u], c),
         c \in engine \cap Relational =>
           c \in DOMAIN edges' \/ (x.claim = {c} /\ x.at \in InWrite \ {"form"}),
         c \in DOMAIN edges' \cap engine => x.claim = {c} \/ Directs(edges, c)',
         c \in logged' \cap Relational => x.claim = {c} \/ saved'.edges = edges'
  PROVE  ProjectionsInv'
<1>1. /\ writing' \in [Thread -> Serving] /\ writing'[t] = x
      /\ \A u \in Thread \ {t} : writing'[u] = writing[u]
  BY OthersStay
<1>2. ProjectionsTyped'
  BY <1>1, TypedGet DEF ProjectionsTyped
<1>3. BeforeErasure'
  BY <1>1 DEF ProjectionsInv, BeforeErasure
<1>4. \A u \in Thread \ {t} : c \notin writing[u].claim
  BY DEF ProjectionsInv, OneWriter
<1>5. \A u \in Thread : Served(writing[u])'
  <2>1. ASSUME NEW u \in Thread \ {t} PROVE Served(writing[u])'
    <3>1. Served(writing[u]) /\ writing'[u] = writing[u]
      BY <1>1, ServingGet
    <3>2. writing[u].does = "write" /\ writing[u].at = "log" => writing[u].claim \cap logged' = {}
      BY <1>4, <3>1 DEF Served, WriterFits
    <3> QED BY <3>1, <3>2, KeepsServed
  <2>2. Served(writing[t])'
    BY <1>1
  <2> QED BY <2>1, <2>2
<1>6. OneWriter'
  BY <1>1, <1>4 DEF ProjectionsInv, OneWriter
<1>7. \A d \in Projected \ {c}, P \in SUBSET InWrite : WrittenAt(d, P)' <=> WrittenAt(d, P)
  BY <1>1 DEF WrittenAt, Writes
<1>8. \A P \in SUBSET InWrite : WrittenAt(c, P)' <=> (x.claim = {c} /\ x.at \in P)
  BY <1>1, <1>4 DEF WrittenAt, Writes
<1>9. {"log", "index"} \in SUBSET InWrite /\ InWrite \ {"form"} \in SUBSET InWrite
      /\ InWrite \in SUBSET InWrite /\ engine \subseteq Projected
  BY TypedGet DEF InWrite
<1>10. IndexFits'
  <2>1. ASSUME NEW d \in engine
        PROVE  \/ d \in index' \/ WrittenAt(d, {"log", "index"})'
               \/ \E u \in Thread : Puts(writing[u], d)'
    <3>1. ASSUME NEW u \in Thread, Puts(writing[u], d)
          PROVE  Puts(writing[u], d)'
      BY <1>1, <3>1 DEF Puts, EngineFor
    <3>2. CASE d = c
      BY <1>8, <1>9, <3>1, <3>2
    <3>3. CASE d # c
      <4>1. CASE d \in index \/ WrittenAt(d, {"log", "index"})
        BY <1>7, <1>9, <3>3, <4>1
      <4> QED BY <3>1, <4>1 DEF ProjectionsInv, IndexFits
    <3> QED BY <3>2, <3>3
  <2> QED BY <2>1 DEF IndexFits
<1>11. EdgesFit'
  <2>1. \A d \in engine \cap Relational : d \in DOMAIN edges' \/ WrittenAt(d, InWrite \ {"form"})'
    BY <1>7, <1>8, <1>9 DEF ProjectionsInv, EdgesFit
  <2>2. \A d \in DOMAIN edges' : d \in Proved => edges'[d] = FormedAs[d]
    BY DEF ProjectionsInv, EdgesFit
  <2>3. \A d \in DOMAIN edges' \cap engine : WrittenAt(d, InWrite)' \/ Directs(edges, d)'
    <3> SUFFICES ASSUME NEW d \in DOMAIN edges' \cap engine, ~ WrittenAt(d, InWrite)'
                 PROVE  Directs(edges, d)'
      OBVIOUS
    <3>1. CASE d = c
      BY <1>8, <1>9, <3>1
    <3>2. CASE d # c
      <4>1. Directs(edges, d) /\ edges'[d] = edges[d]
        BY <1>7, <1>9, <3>2 DEF ProjectionsInv, EdgesFit
      <4> QED BY <4>1 DEF Directs
    <3> QED BY <3>1, <3>2
  <2>4. \A d \in (logged' \cap Observed \cap Relational) \ blurred' :
          WrittenAt(d, InWrite)' \/ (d \in DOMAIN saved'.edges /\ saved'.edges[d] = FormedAs[d])
    <3> SUFFICES ASSUME NEW d \in (logged' \cap Observed \cap Relational) \ blurred',
                        ~ WrittenAt(d, InWrite)'
                 PROVE  d \in DOMAIN saved'.edges /\ saved'.edges[d] = FormedAs[d]
      OBVIOUS
    <3>1. d \in Projected /\ d \in engine
      BY <1>9
    <3>2. ~ WrittenAt(d, InWrite \ {"form"})'
      BY DEF WrittenAt, Writes
    <3>3. CASE saved'.edges = edges'
      BY <2>1, <2>3, <3>1, <3>2, <3>3 DEF Directs
    <3>4. CASE saved'.edges = saved.edges /\ d # c
      <4>1. ~ WrittenAt(d, InWrite) /\ d \in logged
        BY <1>7, <1>9, <3>1, <3>4
      <4> QED BY <3>4, <4>1 DEF ProjectionsInv, EdgesFit
    <3>5. CASE d = c
      <4>1. saved'.edges = edges'
        BY <1>8, <1>9, <3>5
      <4> QED BY <3>3, <4>1
    <3> QED BY <3>3, <3>4, <3>5
  <2> QED BY <2>1, <2>2, <2>3, <2>4 DEF EdgesFit
<1> QED BY <1>2, <1>3, <1>5, <1>6, <1>10, <1>11 DEF ProjectionsInv

(* Where a write stands. *)
LEMMA WritingGet ==
  ASSUME ProjectionsInv, NEW t \in Thread, writing[t].at \in InWrite
  PROVE  /\ writing[t] \in Serving /\ WriterFits(writing[t])
         /\ writing[t].does = "write" /\ writing[t].old = {}
         /\ \E c \in Projected : writing[t].claim = {c} /\ (c \in engine \/ c \in astray)
<1>1. writing[t] \in Serving /\ Served(writing[t])
  BY ServingGet
<1>2. writing[t].does # "nothing"
  BY <1>1, IdleServed DEF Served, IdleFits, InWrite
<1>3. writing[t].does \notin {"index", "erase", "graph"}
  BY <1>1 DEF Served, FillFits, GraphFits, InWrite
<1>4. writing[t].does = "write"
  BY <1>1, <1>2, <1>3 DEF Serving
<1> QED BY <1>1, <1>4 DEF Served, WriterFits

LEMMA LogStep ==
  ASSUME ProjectionsInv, NEW t \in Thread, Projections!Log(t)
  PROVE  ProjectionsInv'
<1>1. /\ writing[t].at = "log" /\ logged' = logged \cup writing[t].claim
      /\ saved' = [index |-> index', edges |-> edges']
      /\ UNCHANGED <<engine, index, edges, erased, upsets, blurred, astray>>
      /\ Projections!Moves(t, [writing[t] EXCEPT !.at = "index"])
  BY DEF Projections!Log, Projections!Goto, Projections!Commit
<1>2. /\ writing[t] \in Serving /\ WriterFits(writing[t])
      /\ writing[t].does = "write" /\ writing[t].old = {}
  BY <1>1, WritingGet DEF InWrite
<1>3. PICK c \in Projected : writing[t].claim = {c} /\ (c \in engine \/ c \in astray)
  BY <1>1, WritingGet DEF InWrite
<1> DEFINE y == [writing[t] EXCEPT !.at = "index"]
<1>4. y \in Serving
  BY <1>2 DEF Serving
<1>5. PICK x \in Serving : x = y
  BY <1>4
<1>6. /\ x.does = "write" /\ x.at = "index" /\ x.claim = {c} /\ x.old = {}
  BY <1>2, <1>3, <1>5 DEF Serving
<1>7. Projections!Moves(t, x)
  BY <1>1, <1>5
<1> HIDE DEF y
<1>8. c \in engine /\ logged' = logged \cup {c}
  BY <1>1, <1>2, <1>3 DEF WriterFits
<1>9. Served(x)'
  <2>1. WriterFits(x)'
    BY <1>1, <1>6, <1>8 DEF WriterFits, InWrite
  <2> QED BY <1>6, <2>1 DEF Served, FillFits, GraphFits, IdleFits, Projections!Idle
<1>10. /\ logged \subseteq logged' /\ logged' \subseteq logged \cup {c} /\ logged' \subseteq engine
       /\ index \subseteq index' /\ index' \subseteq index \cup {c} /\ index' \subseteq engine \cup astray
       /\ edges' \in Rows /\ saved'.edges \in {edges', saved.edges}
       /\ DOMAIN edges \subseteq DOMAIN edges' /\ DOMAIN edges' \subseteq DOMAIN edges \cup {c}
       /\ DOMAIN edges' \subseteq engine \cup astray
       /\ \A d \in DOMAIN edges \ {c} : edges'[d] = edges[d]
       /\ c \in DOMAIN edges' \cap Proved => edges'[c] = FormedAs[c]
  BY <1>1, <1>8, TypedGet DEF ProjectionsInv, IndexFits, EdgesFit
<1>11. x.claim = {c} /\ x.at \in InWrite /\ x.at \in {"log", "index"} /\ x.at \in InWrite \ {"form"}
  BY <1>6 DEF InWrite
<1> QED BY <1>1, <1>2, <1>3, <1>6, <1>7, <1>9, <1>10, <1>11, WriteStep

LEMMA IndexStep ==
  ASSUME ProjectionsInv, NEW t \in Thread, Projections!Index(t)
  PROVE  ProjectionsInv'
<1>1. /\ writing[t].at = "index" /\ index' = index \cup writing[t].claim
      /\ UNCHANGED <<engine, logged, edges, saved, erased, upsets, blurred, astray>>
  BY DEF Projections!Index
<1>2. /\ writing[t] \in Serving /\ WriterFits(writing[t])
      /\ writing[t].does = "write" /\ writing[t].old = {}
  BY <1>1, WritingGet DEF InWrite
<1>3. PICK c \in Projected : writing[t].claim = {c} /\ (c \in engine \/ c \in astray)
  BY <1>1, WritingGet DEF InWrite
<1>4. writing[t].claim \subseteq logged \cup astray
  BY <1>1, <1>2 DEF WriterFits
<1>5. /\ logged \subseteq logged' /\ logged' \subseteq logged \cup {c} /\ logged' \subseteq engine
      /\ index \subseteq index' /\ index' \subseteq index \cup {c} /\ index' \subseteq engine \cup astray
      /\ edges' \in Rows /\ saved'.edges \in {edges', saved.edges}
      /\ DOMAIN edges \subseteq DOMAIN edges' /\ DOMAIN edges' \subseteq DOMAIN edges \cup {c}
      /\ DOMAIN edges' \subseteq engine \cup astray
      /\ \A d \in DOMAIN edges \ {c} : edges'[d] = edges[d]
      /\ c \in DOMAIN edges' \cap Proved => edges'[c] = FormedAs[c]
      /\ c \in index'
  BY <1>1, <1>3, TypedGet DEF ProjectionsInv, IndexFits, EdgesFit
<1>6. CASE c \in Relational
  <2> DEFINE y == [writing[t] EXCEPT !.at = "look"]
  <2>1. y \in Serving
    BY <1>2 DEF Serving
  <2>2. PICK x \in Serving : x = y
    BY <2>1
  <2>3. /\ x.does = "write" /\ x.at = "look" /\ x.claim = {c} /\ x.old = {}
    BY <1>2, <1>3, <2>2 DEF Serving
  <2>4. Projections!Moves(t, x)
    BY <1>3, <1>6, <2>2 DEF Projections!Index, Projections!Goto
  <2> HIDE DEF y
  <2>5. Served(x)'
    <3>1. WriterFits(x)'
      BY <1>1, <1>3, <1>4, <1>6, <2>3 DEF WriterFits, InWrite
    <3> QED BY <2>3, <3>1 DEF Served, FillFits, GraphFits, IdleFits, Projections!Idle
  <2>6. x.claim = {c} /\ x.at \in InWrite /\ x.at \in InWrite \ {"form"}
    BY <2>3 DEF InWrite
  <2> QED BY <1>1, <1>2, <1>3, <1>5, <2>3, <2>4, <2>5, <2>6, WriteStep
<1>7. CASE c \notin Relational
  <2>1. PICK x \in Serving : x = Projections!Idle
    BY IdleServed
  <2>2. Projections!Moves(t, x) /\ x.claim = {} /\ x.old = {}
    BY <1>3, <1>7, <2>1, IdleServed DEF Projections!Index
  <2>3. Served(x)'
    BY <2>1, IdleServed DEF Served, WriterFits, FillFits, GraphFits, IdleFits
  <2>4. c \notin DOMAIN edges'
    BY <1>5, <1>7, RowsGet
  <2> QED BY <1>1, <1>2, <1>3, <1>5, <1>7, <2>2, <2>3, <2>4, WriteStep
<1> QED BY <1>6, <1>7

LEMMA LookStep ==
  ASSUME ProjectionsInv, NEW t \in Thread, Projections!Look(t)
  PROVE  ProjectionsInv'
<1>1. /\ writing[t].at = "look"
      /\ UNCHANGED <<engine, logged, index, edges, saved, erased, upsets, blurred, astray>>
  BY DEF Projections!Look
<1>2. /\ writing[t] \in Serving /\ WriterFits(writing[t])
      /\ writing[t].does = "write" /\ writing[t].old = {}
  BY <1>1, WritingGet DEF InWrite
<1>3. PICK c \in Projected : writing[t].claim = {c} /\ (c \in engine \/ c \in astray)
  BY <1>1, WritingGet DEF InWrite
<1>4. c \in Relational /\ c \in logged \cup astray
  BY <1>1, <1>2, <1>3 DEF WriterFits
<1> DEFINE row == [e \in {c} |-> Projections!Directed(c, edges)]
           y == [writing[t] EXCEPT !.at = "edge", !.seen = row]
<1>5. Projections!Moves(t, y)
  BY <1>3 DEF Projections!Look
<1>6. row \in Rows /\ DOMAIN row = {c} /\ row[c] = Projections!Directed(c, edges)
  <2>1. Projections!Directed(c, edges) \in Direction
    BY <1>4, TypedGet, DirectedIs
  <2>2. row \in [{c} -> Direction] /\ {c} \in SUBSET Relational
    BY <1>4, <2>1
  <2> QED BY <2>2, RowsAre
<1> HIDE DEF row
<1>7. PICK x \in Serving : x = y
  BY <1>2, <1>6 DEF Serving
<1>8. /\ x.does = "write" /\ x.at = "edge" /\ x.claim = {c} /\ x.old = {} /\ x.seen = row
  BY <1>2, <1>3, <1>7 DEF Serving
<1>9. Projections!Moves(t, x)
  BY <1>5, <1>7
<1> HIDE DEF y
<1>10. c \in Proved => row[c] = FormedAs[c]
  BY <1>4, <1>6, TypedGet, DirectedIs
<1>11. Served(x)'
  <2>1. WriterFits(x)'
    BY <1>1, <1>3, <1>4, <1>6, <1>8, <1>10 DEF WriterFits, InWrite
  <2> QED BY <1>8, <2>1 DEF Served, FillFits, GraphFits, IdleFits, Projections!Idle
<1>12. c \in engine => c \in index \/ \E u \in Thread : Puts(writing[u], c)
  <2> SUFFICES ASSUME c \in engine PROVE c \in index \/ \E u \in Thread : Puts(writing[u], c)
    OBVIOUS
  <2>1. ~ WrittenAt(c, {"log", "index"})
    BY <1>1, <1>3 DEF ProjectionsInv, OneWriter, WrittenAt, Writes
  <2> QED BY <2>1 DEF ProjectionsInv, IndexFits
<1>13. /\ logged \subseteq logged' /\ logged' \subseteq logged \cup {c} /\ logged' \subseteq engine
       /\ index \subseteq index' /\ index' \subseteq index \cup {c} /\ index' \subseteq engine \cup astray
       /\ edges' \in Rows /\ saved'.edges \in {edges', saved.edges}
       /\ DOMAIN edges \subseteq DOMAIN edges' /\ DOMAIN edges' \subseteq DOMAIN edges \cup {c}
       /\ DOMAIN edges' \subseteq engine \cup astray
       /\ \A d \in DOMAIN edges \ {c} : edges'[d] = edges[d]
       /\ c \in DOMAIN edges' \cap Proved => edges'[c] = FormedAs[c]
  BY <1>1, <1>3, TypedGet DEF ProjectionsInv, IndexFits, EdgesFit
<1>14. x.claim = {c} /\ x.at \in InWrite /\ x.at \in InWrite \ {"form"}
  BY <1>8 DEF InWrite
<1> QED BY <1>1, <1>2, <1>3, <1>8, <1>9, <1>11, <1>12, <1>13, <1>14, WriteStep

(* A write puts the row of its claim in the graph. *)
LEMMA RowStep ==
  ASSUME ProjectionsInv, NEW t \in Thread, NEW c \in Relational,
         NEW d \in Direction, NEW x \in Serving, Projections!Moves(t, x),
         writing[t].does = "write", writing[t].claim = {c}, writing[t].at \in {"edge", "form"},
         c \in engine \cup astray, x.old = {},
         x.claim = {} \/ (x.claim = {c} /\ x.at \in InWrite), Served(x)',
         UNCHANGED <<engine, logged, index, erased, astray, blurred, upsets>>,
         edges' = Projections!Put(c, d, edges), saved' = [index |-> index', edges |-> edges'],
         c \in Proved => d = FormedAs[c],
         x.claim = {c} \/ c \notin Observed \/ d = FormedAs[c]
  PROVE  ProjectionsInv'
<1>1. c \in Projected
  BY ProjectionsAssumption
<1>2. /\ edges' \in Rows /\ DOMAIN edges' = DOMAIN edges \cup {c} /\ edges'[c] = d
      /\ \A e \in DOMAIN edges \ {c} : edges'[e] = edges[e]
  <2>1. edges \in Rows /\ edges' = Projections!Put(c, d, edges)
    BY TypedGet
  <2> DEFINE g == Projections!Put(c, d, edges)
  <2>2. /\ g \in Rows /\ DOMAIN g = DOMAIN edges \cup {c} /\ g[c] = d
        /\ \A e \in DOMAIN edges \ {c} : g[e] = edges[e]
    <3>1. c \in Relational /\ d \in Direction /\ edges \in Rows
      BY <2>1
    <3> QED BY ONLY ZenonT(40), <3>1, PutRow
  <2>3. edges' = g
    BY <2>1
  <2> HIDE DEF g
  <2> QED BY <2>2, <2>3
<1>3. c \in engine => c \in index \/ \E u \in Thread : Puts(writing[u], c)
  <2> SUFFICES ASSUME c \in engine PROVE c \in index \/ \E u \in Thread : Puts(writing[u], c)
    OBVIOUS
  <2>1. ~ WrittenAt(c, {"log", "index"})
    BY DEF ProjectionsInv, OneWriter, WrittenAt, Writes
  <2> QED BY <2>1 DEF ProjectionsInv, IndexFits
<1>4. /\ logged \subseteq logged' /\ logged' \subseteq logged \cup {c} /\ logged' \subseteq engine
      /\ index \subseteq index' /\ index' \subseteq index \cup {c} /\ index' \subseteq engine \cup astray
      /\ saved'.edges = edges'
      /\ DOMAIN edges' \subseteq engine \cup astray
  BY <1>2, TypedGet DEF ProjectionsInv, IndexFits, EdgesFit
<1>5. x.claim = {c} \/ Directs(edges, c)'
  BY <1>2 DEF Directs
<1>6. UNCHANGED <<engine, erased, astray, blurred, upsets>>
  OBVIOUS
<1> QED BY <1>1, <1>2, <1>3, <1>4, <1>5, <1>6, WriteStep

LEMMA ProjectStep ==
  ASSUME ProjectionsInv, NEW t \in Thread, Projections!Project(t)
  PROVE  ProjectionsInv'
<1>1. /\ writing[t].at = "edge"
      /\ UNCHANGED <<engine, logged, index, erased, upsets, blurred, astray>>
      /\ saved' = [index |-> index', edges |-> edges']
  BY DEF Projections!Project, Projections!Commit
<1>2. /\ writing[t] \in Serving /\ WriterFits(writing[t])
      /\ writing[t].does = "write" /\ writing[t].old = {}
  BY <1>1, WritingGet DEF InWrite
<1>3. PICK c \in Projected : writing[t].claim = {c} /\ (c \in engine \/ c \in astray)
  BY <1>1, WritingGet DEF InWrite
<1>4. /\ c \in Relational /\ c \in logged \cup astray /\ c \in DOMAIN writing[t].seen
      /\ c \in Proved => writing[t].seen[c] = FormedAs[c]
  BY <1>1, <1>2, <1>3 DEF WriterFits
<1>5. writing[t].seen \in Rows
  BY <1>2 DEF Serving
<1>6. PICK d \in Direction : d = writing[t].seen[c]
  BY <1>4, <1>5, RowsGet
<1>7. edges' = Projections!Put(c, d, edges) /\ (c \in Proved => d = FormedAs[c])
  BY <1>3, <1>4, <1>6 DEF Projections!Project
<1>8. DOMAIN edges' = DOMAIN edges \cup {c}
  BY <1>4, <1>7, TypedGet, PutRow
<1>9. CASE c \in Observed
  <2> DEFINE y == [writing[t] EXCEPT !.at = "form"]
  <2>1. y \in Serving
    BY <1>2 DEF Serving
  <2>2. PICK x \in Serving : x = y
    BY <2>1
  <2>3. /\ x.does = "write" /\ x.at = "form" /\ x.claim = {c} /\ x.old = {}
    BY <1>2, <1>3, <2>2 DEF Serving
  <2>4. Projections!Moves(t, x)
    BY <1>3, <1>9, <2>2 DEF Projections!Project, Projections!Goto
  <2> HIDE DEF y
  <2>5. Served(x)'
    <3>1. WriterFits(x)'
      BY <1>1, <1>3, <1>4, <1>8, <2>3 DEF WriterFits, InWrite
    <3> QED BY <2>3, <3>1 DEF Served, FillFits, GraphFits, IdleFits, Projections!Idle
  <2>6. x.claim = {c} /\ x.at \in InWrite
    BY <2>3 DEF InWrite
  <2> QED BY <1>1, <1>2, <1>3, <1>4, <1>7, <2>3, <2>4, <2>5, <2>6, RowStep
<1>10. CASE c \notin Observed
  <2>1. PICK x \in Serving : x = Projections!Idle
    BY IdleServed
  <2>2. Projections!Moves(t, x) /\ x.claim = {} /\ x.old = {}
    BY <1>3, <1>10, <2>1, IdleServed DEF Projections!Project
  <2>3. Served(x)'
    BY <2>1, IdleServed DEF Served, WriterFits, FillFits, GraphFits, IdleFits
  <2> QED BY <1>1, <1>2, <1>3, <1>4, <1>7, <1>10, <2>2, <2>3, RowStep
<1> QED BY <1>9, <1>10

LEMMA RecordEdgeStep ==
  ASSUME ProjectionsInv, NEW t \in Thread, Projections!RecordEdge(t)
  PROVE  ProjectionsInv'
<1>1. /\ writing[t].at = "form" /\ Projections!Moves(t, Projections!Idle)
      /\ UNCHANGED <<engine, logged, index, erased, upsets, blurred, astray>>
      /\ saved' = [index |-> index', edges |-> edges']
  BY DEF Projections!RecordEdge, Projections!Commit
<1>2. /\ writing[t] \in Serving /\ WriterFits(writing[t]) /\ writing[t].does = "write"
  BY <1>1, WritingGet DEF InWrite
<1>3. PICK c \in Projected : writing[t].claim = {c} /\ (c \in engine \/ c \in astray)
  BY <1>1, WritingGet DEF InWrite
<1>4. c \in Relational /\ FormedAs[c] \in Direction
  BY <1>1, <1>2, <1>3, ProjectionsAssumption DEF WriterFits, Direction
<1>5. edges' = Projections!Put(c, FormedAs[c], edges)
  BY <1>3 DEF Projections!RecordEdge
<1>6. PICK x \in Serving : x = Projections!Idle
  BY IdleServed
<1>7. Projections!Moves(t, x) /\ x.claim = {} /\ x.old = {}
  BY <1>1, <1>6, IdleServed
<1>8. Served(x)'
  BY <1>6, IdleServed DEF Served, WriterFits, FillFits, GraphFits, IdleFits
<1> QED BY <1>1, <1>2, <1>3, <1>4, <1>5, <1>7, <1>8, RowStep

(* Nobody writes a claim that the engine does not have and nobody erased. *)
LEMMA ClaimsKnown ==
  ASSUME ProjectionsInv, NEW t \in Thread
  PROVE  writing[t].claim \subseteq engine \cup astray
<1>1. writing[t] \in Serving /\ Served(writing[t])
  BY ServingGet
<1>2. CASE writing[t].does = "write"
  BY <1>1, <1>2 DEF Served, WriterFits
<1>3. CASE writing[t].does = "nothing"
  BY <1>1, <1>3, IdleServed DEF Served, IdleFits
<1>4. CASE writing[t].does \in {"index", "graph", "erase"}
  BY <1>4, RebuildersWriteNothing
<1> QED BY <1>1, <1>2, <1>3, <1>4 DEF Serving

LEMMA ApplyStep ==
  ASSUME ProjectionsInv, NEW t \in Thread, NEW c \in Projected,
         Projections!Apply(t, c)
  PROVE  ProjectionsInv'
<1> DEFINE y == [Projections!Idle EXCEPT !.does = "write", !.at = "log", !.claim = {c}]
<1>1. y \in Serving
  BY NoRows DEF Projections!Idle, Serving
<1>2. PICK x \in Serving : x = y
  BY <1>1
<1>3. /\ x.does = "write" /\ x.at = "log" /\ x.claim = {c} /\ x.old = {}
  BY <1>2 DEF Projections!Idle
<1>4. /\ Projections!Moves(t, x) /\ writing[t] = Projections!Idle
      /\ c \notin engine \cup erased /\ engine' = engine \cup {c}
      /\ blurred' = IF \E u \in Thread : writing[u].does = "graph" THEN blurred \cup {c} ELSE blurred
      /\ UNCHANGED <<logged, index, edges, saved, erased, upsets, astray>>
  BY <1>2 DEF Projections!Apply
<1> HIDE DEF y
<1>5. /\ writing' \in [Thread -> Serving] /\ writing'[t] = x
      /\ \A u \in Thread \ {t} : writing'[u] = writing[u]
  BY <1>4, OthersStay
<1>6. blurred \subseteq blurred' /\ blurred' \subseteq Projected
  BY <1>4, TypedGet
<1>7. ProjectionsTyped'
  BY <1>4, <1>5, <1>6, TypedGet DEF ProjectionsTyped
<1>8. BeforeErasure'
  BY <1>3, <1>4, <1>5 DEF ProjectionsInv, BeforeErasure
<1>9. \A u \in Thread : Served(writing[u])'
  <2>1. ASSUME NEW u \in Thread \ {t} PROVE Served(writing[u])'
    <3>1. Served(writing[u]) /\ writing'[u] = writing[u]
      BY <1>5, ServingGet
    <3>2. writing[u].does = "write" /\ writing[u].at = "log" => writing[u].claim \cap logged' = {}
      BY <1>4, <3>1 DEF Served, WriterFits
    <3>3. writing[u].does = "graph" => engine' \ engine \subseteq blurred'
      BY <1>4
    <3>4. /\ engine \subseteq engine' /\ logged \subseteq logged' /\ astray \subseteq astray'
          /\ DOMAIN edges \subseteq DOMAIN edges' \cup astray /\ (erased # {} => erased' # {})
      BY <1>4
    <3> QED BY <1>6, <3>1, <3>2, <3>3, <3>4, KeepsServed
  <2>2. WriterFits(x)'
    BY <1>3, <1>4, TypedGet DEF WriterFits, InWrite
  <2>3. Served(x)'
    BY <1>3, <2>2 DEF Served, FillFits, GraphFits, IdleFits, Projections!Idle
  <2> QED BY <1>5, <2>1, <2>3
<1>10. \A u \in Thread : c \notin writing[u].claim
  BY <1>4, ClaimsKnown, TypedGet
<1>11. OneWriter'
  BY <1>3, <1>5, <1>10 DEF ProjectionsInv, OneWriter
<1>12. \A d \in Projected \ {c}, P \in SUBSET InWrite : WrittenAt(d, P)' <=> WrittenAt(d, P)
  <2>1. writing[t].claim = {} /\ x.claim = {c}
    BY <1>3, <1>4, IdleServed
  <2> QED BY <1>5, <2>1 DEF WrittenAt, Writes
<1>13. \A P \in SUBSET InWrite : "log" \in P => WrittenAt(c, P)'
  BY <1>3, <1>5 DEF WrittenAt, Writes
<1>14. {"log", "index"} \in SUBSET InWrite /\ InWrite \ {"form"} \in SUBSET InWrite
       /\ InWrite \in SUBSET InWrite /\ engine' \subseteq Projected /\ engine \subseteq Projected
       /\ "log" \in InWrite \ {"form"}
  BY <1>4, TypedGet DEF InWrite
<1>15. IndexFits'
  <2>1. index' \subseteq engine' \cup astray'
    BY <1>4 DEF ProjectionsInv, IndexFits
  <2>2. ASSUME NEW d \in engine'
        PROVE  \/ d \in index' \/ WrittenAt(d, {"log", "index"})'
               \/ \E u \in Thread : Puts(writing[u], d)'
    <3>1. CASE d = c
      BY <1>13, <1>14, <3>1
    <3>2. CASE d # c
      <4>1. ASSUME NEW u \in Thread, Puts(writing[u], d)
            PROVE  Puts(writing[u], d)'
        <5>1. u # t
          BY <1>4, <4>1, IdleServed DEF Puts
        <5> QED BY <1>4, <1>5, <4>1, <5>1 DEF Puts, EngineFor
      <4>2. d \in engine
        BY <1>4, <3>2
      <4>3. CASE d \in index \/ WrittenAt(d, {"log", "index"})
        BY <1>4, <1>12, <1>14, <3>2, <4>2, <4>3
      <4> QED BY <4>1, <4>2, <4>3 DEF ProjectionsInv, IndexFits
    <3> QED BY <3>1, <3>2
  <2> QED BY <2>1, <2>2 DEF IndexFits
<1>16. EdgesFit'
  <2>1. DOMAIN edges' \subseteq engine' \cup astray'
    BY <1>4 DEF ProjectionsInv, EdgesFit
  <2>2. \A d \in engine' \cap Relational : d \in DOMAIN edges' \/ WrittenAt(d, InWrite \ {"form"})'
    BY <1>4, <1>12, <1>13, <1>14 DEF ProjectionsInv, EdgesFit
  <2>3. \A d \in DOMAIN edges' : d \in Proved => edges'[d] = FormedAs[d]
    BY <1>4 DEF ProjectionsInv, EdgesFit
  <2>4. \A d \in DOMAIN edges' \cap engine' : WrittenAt(d, InWrite)' \/ Directs(edges, d)'
    <3> SUFFICES ASSUME NEW d \in DOMAIN edges' \cap engine', ~ WrittenAt(d, InWrite)'
                 PROVE  Directs(edges, d)'
      OBVIOUS
    <3>1. d # c /\ d \in engine
      BY <1>4, <1>13, <1>14
    <3>2. Directs(edges, d)
      BY <1>4, <1>12, <1>14, <3>1 DEF ProjectionsInv, EdgesFit
    <3> QED BY <1>4, <1>6, <3>2 DEF Directs
  <2>5. \A d \in (logged' \cap Observed \cap Relational) \ blurred' :
          WrittenAt(d, InWrite)' \/ (d \in DOMAIN saved'.edges /\ saved'.edges[d] = FormedAs[d])
    <3> SUFFICES ASSUME NEW d \in (logged' \cap Observed \cap Relational) \ blurred',
                        ~ WrittenAt(d, InWrite)'
                 PROVE  d \in DOMAIN saved'.edges /\ saved'.edges[d] = FormedAs[d]
      OBVIOUS
    <3>1. d # c /\ d \in engine /\ d \in logged /\ d \notin blurred
      BY <1>4, <1>6, TypedGet
    <3>2. ~ WrittenAt(d, InWrite)
      BY <1>12, <1>14, <3>1
    <3> QED BY <1>4, <3>1, <3>2 DEF ProjectionsInv, EdgesFit
  <2> QED BY <2>1, <2>2, <2>3, <2>4, <2>5 DEF EdgesFit
<1> QED BY <1>7, <1>8, <1>9, <1>11, <1>15, <1>16 DEF ProjectionsInv

(* A crash: the disk has the direction of what was not being written. *)
LEMMA CrashStep ==
  ASSUME ProjectionsInv, Projections!Crash
  PROVE  ProjectionsInv'
<1>1. /\ upsets < MaxUpsets /\ upsets' = upsets + 1
      /\ engine' = logged /\ index' = logged
      /\ edges' = Projections!Rebuilt(saved.edges, logged)
      /\ saved' = [index |-> index', edges |-> edges']
      /\ writing' = [t \in Thread |-> Projections!Idle]
      /\ blurred' = blurred \cup {c \in Projected : Projections!Writing(c)} /\ astray' = {}
      /\ logged' = logged /\ erased' = erased
  BY DEF Projections!Crash, Projections!Trouble, Projections!Commit
<1>2. saved.edges \in Rows /\ logged \in SUBSET Projected /\ logged \subseteq engine
  BY TypedGet
<1>3. /\ edges' \in Rows /\ DOMAIN edges' = logged \cap Relational
      /\ \A c \in DOMAIN edges' : /\ c \in Proved => edges'[c] = FormedAs[c]
                                  /\ c \in DOMAIN saved.edges \ Proved => edges'[c] = saved.edges[c]
  BY <1>1, <1>2, RebuiltIs
<1>4. blurred \subseteq blurred' /\ blurred' \subseteq Projected
  BY <1>1, TypedGet
<1>5. writing' \in [Thread -> Serving]
  BY <1>1, IdleServed
<1>6. ProjectionsTyped'
  BY <1>1, <1>2, <1>3, <1>4, <1>5, TypedGet, ProjectionsAssumption DEF ProjectionsTyped
<1>7. BeforeErasure'
  BY <1>1, IdleServed DEF BeforeErasure
<1>8. ASSUME NEW t \in Thread PROVE Served(writing[t])'
  <2>1. PICK x \in Serving : x = Projections!Idle
    BY IdleServed
  <2>2. Served(x)'
    BY <2>1, IdleServed DEF Served, WriterFits, FillFits, GraphFits, IdleFits
  <2>3. writing'[t] = x
    BY <1>1, <2>1
  <2> QED BY <2>2, <2>3
<1>9. OneWriter'
  BY <1>1, IdleServed DEF OneWriter
<1>10. IndexFits'
  BY <1>1 DEF IndexFits
<1>11. EdgesFit'
  <2>1. \A c \in (logged \cap Observed \cap Relational) \ blurred' :
          c \in DOMAIN saved.edges /\ saved.edges[c] = FormedAs[c]
    <3> SUFFICES ASSUME NEW c \in (logged \cap Observed \cap Relational) \ blurred'
                 PROVE  c \in DOMAIN saved.edges /\ saved.edges[c] = FormedAs[c]
      OBVIOUS
    <3>1. ~ WrittenAt(c, InWrite)
      BY <1>1, <1>2 DEF WrittenAt, Writes, Projections!Writing
    <3>2. c \notin blurred
      BY <1>4
    <3> QED BY <3>1, <3>2 DEF ProjectionsInv, EdgesFit
  <2>2. \A c \in DOMAIN edges' : Directs(edges, c)'
    BY <1>3, <2>1 DEF Directs
  <2>3. \A c \in (logged \cap Observed \cap Relational) \ blurred' :
          c \in DOMAIN saved'.edges /\ saved'.edges[c] = FormedAs[c]
    BY <1>1, <1>3, <2>2 DEF Directs
  <2> QED BY <1>1, <1>3, <2>2, <2>3 DEF EdgesFit
<1> QED BY <1>6, <1>7, <1>8, <1>9, <1>10, <1>11 DEF ProjectionsInv

(* Before the erasure nothing is astray, and nobody stands before the log. *)
LEMMA NobodyLogs ==
  ASSUME ProjectionsInv, erased = {}, engine = logged, NEW t \in Thread
  PROVE  /\ writing[t].at # "log" /\ astray = {} /\ writing[t].old = {}
         /\ writing[t].does # "erase"
<1>1. writing[t] \in Serving /\ Served(writing[t])
  BY ServingGet
<1>2. astray = {} /\ writing[t].old = {}
  BY TypedGet DEF ProjectionsInv, BeforeErasure
<1>3. writing[t].does # "erase"
  BY <1>1 DEF Served, FillFits
<1>4. writing[t].at # "log"
  <2> SUFFICES ASSUME writing[t].at = "log" PROVE FALSE
    OBVIOUS
  <2>1. WriterFits(writing[t]) /\ writing[t].does = "write"
    BY WritingGet DEF InWrite
  <2> QED BY <2>1 DEF WriterFits
<1> QED BY <1>2, <1>3, <1>4

LEMMA EraseStep ==
  ASSUME ProjectionsInv, NEW t \in Thread, NEW c \in Projected,
         Projections!Erase(t, c)
  PROVE  ProjectionsInv'
<1> DEFINE y == [Projections!Idle EXCEPT !.does = "erase", !.at = "list"]
<1>1. y \in Serving
  BY NoRows DEF Projections!Idle, Serving
<1>2. PICK x \in Serving : x = y
  BY <1>1
<1>3. /\ x.does = "erase" /\ x.at = "list" /\ x.claim = {} /\ x.old = {} /\ x.left = {}
  BY <1>2 DEF Projections!Idle
<1>4. /\ writing[t] = Projections!Idle /\ c \in logged /\ engine = logged /\ erased = {}
      /\ upsets < MaxUpsets /\ upsets' = upsets + 1
      /\ engine' = engine \ {c} /\ logged' = logged \ {c} /\ erased' = {c}
      /\ edges' = [d \in DOMAIN edges \ {c} |-> edges[d]]
      /\ saved'.edges = edges' /\ index' = {} /\ blurred' = blurred
  BY DEF Projections!Erase, Projections!Trouble
<1>5. /\ writing' = [u \in Thread |->
           CASE u = t -> x
             [] u # t /\ Projections!Rebuilds(u) ->
                  [writing[u] EXCEPT !.old = Projections!EngineOf(u)]
             [] OTHER -> writing[u]]
      /\ astray' = IF Projections!Writing(c) \/ \E u \in Thread : Projections!Rebuilds(u)
                   THEN astray \cup {c} ELSE astray
  BY <1>2 DEF Projections!Erase
<1> HIDE DEF y
<1>6. \A u \in Thread : /\ writing[u].at # "log" /\ writing[u].old = {} /\ writing[u].does # "erase"
                        /\ writing[u] \in Serving /\ Served(writing[u])
  BY <1>4, NobodyLogs, ServingGet
<1>7. astray = {} /\ astray' \subseteq {c}
  BY <1>4, <1>5, TypedGet
<1>8. ASSUME NEW u \in Thread \ {t}
      PROVE  \/ /\ writing[u].does \in {"index", "graph"} /\ astray' = {c}
                /\ writing'[u] = [writing[u] EXCEPT !.old = engine]
             \/ writing[u].does \in {"nothing", "write"} /\ writing'[u] = writing[u]
  <2>1. Projections!Rebuilds(u) <=> writing[u].does \in {"index", "graph", "erase"}
    BY DEF Projections!Rebuilds
  <2>2. Projections!EngineOf(u) = engine
    BY <1>6 DEF Projections!EngineOf
  <2>3. CASE Projections!Rebuilds(u)
    BY <1>5, <1>6, <1>7, <2>1, <2>2, <2>3
  <2>4. CASE ~ Projections!Rebuilds(u)
    <3>1. writing'[u] = writing[u]
      BY <1>5, <2>4
    <3>2. writing[u].does \in {"nothing", "write"}
      BY <1>6, <2>1, <2>4 DEF Serving
    <3> QED BY <3>1, <3>2
  <2> QED BY <2>3, <2>4
<1>9. writing'[t] = x
  BY <1>5
<1>10. \A u \in Thread : writing'[u] \in Serving
  <2>1. ASSUME NEW u \in Thread \ {t} PROVE writing'[u] \in Serving
    <3>1. writing[u] \in Serving /\ engine \in SUBSET Projected
      BY <1>6, TypedGet
    <3>2. [writing[u] EXCEPT !.old = engine] \in Serving
      BY <3>1 DEF Serving
    <3> QED BY <1>8, <3>1, <3>2
  <2> QED BY <1>9, <2>1
<1>11. engine \ {c} \subseteq engine' /\ engine \subseteq engine' \cup {c} /\ c \in engine
       /\ engine \subseteq Projected /\ logged' = engine'
  BY <1>4, TypedGet
<1>12. /\ edges' \in Rows /\ DOMAIN edges' = DOMAIN edges \ {c}
       /\ \A d \in DOMAIN edges' : edges'[d] = edges[d]
  <2>1. edges \in [DOMAIN edges -> Direction] /\ DOMAIN edges \ {c} \in SUBSET Relational
    BY TypedGet, RowsGet
  <2>2. edges' \in [DOMAIN edges \ {c} -> Direction]
    BY <1>4, <2>1
  <2> QED BY <1>4, <2>1, <2>2, RowsAre
<1>13. ProjectionsTyped'
  <2>1. writing' \in [Thread -> Serving]
    BY <1>5, <1>10
  <2> QED BY <1>4, <1>7, <1>11, <1>12, <2>1, TypedGet, ProjectionsAssumption DEF ProjectionsTyped
<1>14. BeforeErasure'
  BY <1>4 DEF BeforeErasure
<1>15. \A u \in Thread : Served(writing[u])'
  <2>1. ASSUME NEW u \in Thread \ {t}, writing[u].does \in {"nothing", "write"},
               writing'[u] = writing[u]
        PROVE  Served(writing[u])'
    <3>1. CASE writing[u].does = "nothing"
      <4>1. PICK z \in Serving : z = Projections!Idle
        BY IdleServed
      <4>2. Served(z)'
        BY <4>1, IdleServed DEF Served, WriterFits, FillFits, GraphFits, IdleFits
      <4>3. writing'[u] = z
        BY <1>6, <2>1, <3>1, <4>1 DEF Served, IdleFits
      <4> QED BY <4>2, <4>3
    <3>2. CASE writing[u].does = "write"
      <4>1. PICK z \in Serving : z = writing[u]
        BY <1>6
      <4>2. WriterFits(z) /\ z.does = "write" /\ z.at # "log" /\ Served(z)
        BY <1>6, <3>2, <4>1 DEF Served
      <4>3. c \in z.claim => astray' = {c}
        BY <1>5, <1>7, <4>1 DEF Projections!Writing
      <4>4. z.claim \subseteq engine' \cup astray' /\ z.claim \subseteq engine
        BY <1>7, <1>11, <4>2, <4>3 DEF WriterFits
      <4>5. WriterFits(z)'
        BY <1>4, <1>7, <1>11, <1>12, <4>2, <4>3, <4>4 DEF WriterFits
      <4>6. Served(z)'
        BY <4>2, <4>5 DEF Served, FillFits, GraphFits, IdleFits
      <4> QED BY <2>1, <4>1, <4>6
    <3> QED BY <2>1, <3>1, <3>2
  <2>2. ASSUME NEW u \in Thread \ {t}, writing[u].does \in {"index", "graph"}, astray' = {c},
               writing'[u] = [writing[u] EXCEPT !.old = engine]
        PROVE  Served(writing[u])'
    <3>1. PICK z \in Serving : z = writing'[u]
      BY <1>10
    <3>2. PICK w \in Serving : w = writing[u]
      BY <1>6
    <3>3. /\ z.does = w.does /\ z.at = w.at /\ z.claim = w.claim /\ z.seen = w.seen
          /\ z.left = w.left /\ z.old = engine
      BY <2>2, <3>1, <3>2 DEF Serving
    <3>4. Served(w) /\ w.does \in {"index", "graph"} /\ w.old = {}
      BY <1>6, <2>2, <3>2
    <3>5. engine \subseteq engine' \cup astray' /\ engine # {}
      BY <1>11, <2>2
    <3>6. FillFits(z)'
      BY <1>7, <3>3, <3>4, <3>5 DEF Served, FillFits
    <3>7. EngineFor(z)' = engine /\ EngineFor(w) = engine
      BY <3>3, <3>4, <3>5 DEF EngineFor
    <3>8. GraphFits(z)'
      BY <1>4, <1>7, <3>3, <3>4, <3>5, <3>7 DEF Served, GraphFits
    <3>9. Served(z)'
      BY <3>3, <3>4, <3>6, <3>8 DEF Served, WriterFits, IdleFits, Projections!Idle
    <3> QED BY <3>1, <3>9
  <2>3. Served(x)'
    <3>1. FillFits(x)'
      BY <1>3, <1>4 DEF FillFits
    <3> QED BY <1>3, <3>1 DEF Served, WriterFits, GraphFits, IdleFits, Projections!Idle
  <2>4. Served(writing[t])'
    BY <1>9, <2>3
  <2>5. ASSUME NEW u \in Thread \ {t} PROVE Served(writing[u])'
    BY <1>8, <2>1, <2>2
  <2> QED BY <2>4, <2>5
<1>16. \A u \in Thread : writing'[u].claim = writing[u].claim
  <2>1. ASSUME NEW u \in Thread \ {t} PROVE writing'[u].claim = writing[u].claim
    BY <1>6, <1>8 DEF Serving
  <2> QED BY <1>3, <1>4, <1>9, <2>1, IdleServed
<1>17. OneWriter'
  BY <1>16 DEF ProjectionsInv, OneWriter
<1>18. \A d \in Projected, P \in SUBSET InWrite : WrittenAt(d, P)' <=> WrittenAt(d, P)
  <2>1. \A u \in Thread : writing[u].claim # {} => writing'[u].at = writing[u].at
    <3>1. ASSUME NEW u \in Thread \ {t} PROVE writing'[u].at = writing[u].at
      BY <1>6, <1>8 DEF Serving
    <3> QED BY <1>4, <3>1, IdleServed
  <2> QED BY <1>16, <2>1 DEF WrittenAt, Writes
<1>19. IndexFits'
  <2>1. ASSUME NEW d \in engine' PROVE Puts(writing[t], d)'
    BY <1>3, <1>9 DEF Puts, EngineFor
  <2> QED BY <1>4, <2>1 DEF IndexFits
<1>20. InWrite \ {"form"} \in SUBSET InWrite /\ InWrite \in SUBSET InWrite
  OBVIOUS
<1>21. EdgesFit'
  <2>1. DOMAIN edges' \subseteq engine' \cup astray'
    BY <1>7, <1>11, <1>12 DEF ProjectionsInv, EdgesFit
  <2>2. \A d \in engine' \cap Relational : d \in DOMAIN edges' \/ WrittenAt(d, InWrite \ {"form"})'
    BY <1>4, <1>11, <1>12, <1>18, <1>20 DEF ProjectionsInv, EdgesFit
  <2>3. \A d \in DOMAIN edges' : d \in Proved => edges'[d] = FormedAs[d]
    BY <1>12 DEF ProjectionsInv, EdgesFit
  <2>4. \A d \in DOMAIN edges' \cap engine' : WrittenAt(d, InWrite)' \/ Directs(edges, d)'
    <3> SUFFICES ASSUME NEW d \in DOMAIN edges' \cap engine', ~ WrittenAt(d, InWrite)'
                 PROVE  Directs(edges, d)'
      OBVIOUS
    <3>1. d \in Projected /\ d \in DOMAIN edges /\ d \in engine
      BY <1>4, <1>11, <1>12
    <3>2. Directs(edges, d)
      BY <1>18, <1>20, <3>1 DEF ProjectionsInv, EdgesFit
    <3> QED BY <1>4, <1>12, <3>2 DEF Directs
  <2>5. \A d \in (logged' \cap Observed \cap Relational) \ blurred' :
          WrittenAt(d, InWrite)' \/ (d \in DOMAIN saved'.edges /\ saved'.edges[d] = FormedAs[d])
    <3> SUFFICES ASSUME NEW d \in (logged' \cap Observed \cap Relational) \ blurred',
                        ~ WrittenAt(d, InWrite)'
                 PROVE  d \in DOMAIN saved'.edges /\ saved'.edges[d] = FormedAs[d]
      OBVIOUS
    <3>1. d \in engine' /\ ~ WrittenAt(d, InWrite \ {"form"})'
      BY <1>11 DEF WrittenAt, Writes
    <3>2. d \in DOMAIN edges' /\ Directs(edges, d)'
      BY <2>2, <2>4, <3>1
    <3> QED BY <1>4, <3>2 DEF Directs
  <2> QED BY <2>1, <2>2, <2>3, <2>4, <2>5 DEF EdgesFit
<1> QED BY <1>13, <1>14, <1>15, <1>17, <1>19, <1>21 DEF ProjectionsInv

LEMMA ProjectionsStart ==
  ASSUME Projections!Init
  PROVE  ProjectionsInv
<1>1. /\ engine = {} /\ logged = {} /\ index = {} /\ edges = <<>> /\ saved.edges = <<>>
      /\ writing = [t \in Thread |-> Projections!Idle]
      /\ erased = {} /\ upsets = 0 /\ blurred = {} /\ astray = {}
  BY DEF Projections!Init
<1>2. ProjectionsTyped
  BY <1>1, NoRows, IdleServed, ProjectionsAssumption DEF ProjectionsTyped
<1>3. \A t \in Thread : Served(writing[t])
  BY <1>1, IdleServed
<1>4. BeforeErasure /\ OneWriter
  BY <1>1, IdleServed DEF BeforeErasure, OneWriter
<1>5. IndexFits /\ EdgesFit
  BY <1>1, NoRows DEF IndexFits, EdgesFit
<1> QED BY <1>2, <1>3, <1>4, <1>5 DEF ProjectionsInv

LEMMA ProjectionsStay ==
  ASSUME ProjectionsInv,
         UNCHANGED <<engine, logged, index, edges, saved, writing, erased, upsets, blurred, astray>>
  PROVE  ProjectionsInv'
  BY DEF ProjectionsInv, ProjectionsTyped, BeforeErasure, Served, WriterFits, FillFits, GraphFits,
     IdleFits, EngineFor, OneWriter, IndexFits, EdgesFit, WrittenAt, Writes, Puts, Directs

LEMMA ProjectionsStep ==
  ASSUME ProjectionsInv, [Projections!Next]_(Projections!vars)
  PROVE  ProjectionsInv'
<1>1. ASSUME NEW t \in Thread, NEW c \in Projected, Projections!Apply(t, c) \/ Projections!Erase(t, c)
      PROVE  ProjectionsInv'
  BY <1>1, ApplyStep, EraseStep
<1>2. ASSUME NEW t \in Thread,
             \/ Projections!Log(t) \/ Projections!Index(t) \/ Projections!Look(t)
             \/ Projections!Project(t) \/ Projections!RecordEdge(t)
      PROVE  ProjectionsInv'
  BY <1>2, LogStep, IndexStep, LookStep, ProjectStep, RecordEdgeStep
<1>3. ASSUME NEW t \in Thread,
             \/ Projections!Clear(t) \/ Projections!ListClaims(t) \/ Projections!Fill(t)
             \/ Projections!Filled(t)
      PROVE  ProjectionsInv'
  BY <1>3, ClearStep, ListClaimsStep, FillStep, FilledStep
<1>4. ASSUME NEW t \in Thread,
             \/ Projections!ReadEdges(t) \/ Projections!ListEdges(t) \/ Projections!ApplyEdge(t)
             \/ Projections!Applied(t) \/ Projections!ReadAgain(t)
      PROVE  ProjectionsInv'
  BY <1>4, ReadEdgesStep, ListEdgesStep, ApplyEdgeStep, AppliedStep, ReadAgainStep
<1>5. CASE Projections!Crash
  BY <1>5, CrashStep
<1>6. CASE UNCHANGED Projections!vars
  BY <1>6, ProjectionsStay DEF Projections!vars
<1> QED BY <1>1, <1>2, <1>3, <1>4, <1>5, <1>6 DEF Projections!Next

(* The inductive invariant says what the runs check: where nobody writes   *)
(* a claim and no index is being filled, nothing is about to be put back.  *)
LEMMA ProjectionsFit ==
  ASSUME ProjectionsInv
  PROVE  Projections!TypeOK /\ Projections!ProjectionsHold
<1>1. Projections!TypeOK
  BY TypedGet, RowsGet DEF Projections!TypeOK, Projections!Direction, Direction
<1>2. \A c \in Projected, P \in SUBSET InWrite : WrittenAt(c, P) => Projections!Writing(c)
  BY DEF WrittenAt, Writes, Projections!Writing
<1>3. {"log", "index"} \in SUBSET InWrite /\ InWrite \ {"form"} \in SUBSET InWrite
      /\ InWrite \in SUBSET InWrite
  BY DEF InWrite
<1>4. Projections!IndexWhole
  <2> SUFFICES ASSUME \A t \in Thread : writing[t].at \notin {"list", "fill"} \/ writing[t].does = "graph",
                      NEW c \in Projected \ astray, ~ Projections!Writing(c)
               PROVE  c \in index <=> c \in engine
    BY DEF Projections!IndexWhole
  <2>1. \A t \in Thread : ~ Puts(writing[t], c)
    BY DEF Puts
  <2> QED BY <1>2, <1>3, <2>1 DEF ProjectionsInv, IndexFits
<1>5. Projections!EdgesTrue
  <2> SUFFICES ASSUME NEW c \in Projected \ astray, ~ Projections!Writing(c)
               PROVE  /\ c \in DOMAIN edges <=> c \in engine \cap Relational
                      /\ c \in DOMAIN edges /\ (c \in Proved \/ (c \in Observed \ blurred))
                           => edges[c] = FormedAs[c]
    BY DEF Projections!EdgesTrue
  <2>1. DOMAIN edges \subseteq Relational
    BY TypedGet, RowsGet
  <2>2. ~ WrittenAt(c, InWrite) /\ ~ WrittenAt(c, InWrite \ {"form"})
    BY <1>2, <1>3
  <2>3. c \in DOMAIN edges <=> c \in engine \cap Relational
    BY <2>1, <2>2 DEF ProjectionsInv, EdgesFit
  <2>4. c \in DOMAIN edges => Directs(edges, c)
    BY <2>2, <2>3 DEF ProjectionsInv, EdgesFit
  <2> QED BY <2>3, <2>4 DEF Directs
<1> QED BY <1>1, <1>4, <1>5 DEF Projections!ProjectionsHold

(* Outside a write of its own and a rebuild, the index has exactly the     *)
(* claims of the engine and the graph exactly its relations, in the        *)
(* direction they were formed with (Projections).                          *)
THEOREM IndexAndGraphFollow ==
  Projections!Spec => []Projections!TypeOK /\ []Projections!ProjectionsHold
<1>1. Projections!Init => ProjectionsInv
  BY ProjectionsStart
<1>2. ProjectionsInv /\ [Projections!Next]_(Projections!vars) => ProjectionsInv'
  BY ProjectionsStep
<1>3. ProjectionsInv => Projections!TypeOK /\ Projections!ProjectionsHold
  BY ProjectionsFit
<1> QED BY <1>1, <1>2, <1>3, PTL DEF Projections!Spec

(* The same of the model that the run memory checks. *)
THEOREM ProjectionsFollow ==
  MemorySpec => []ProjectionsHold
<1> DEFINE Fits == scenario = "projections" => ProjectionsInv
<1>1. MemoryInit => Fits
  BY ProjectionsStart DEF MemoryInit
<1>2. Fits /\ [MemoryNext]_<<scenario, vars, scanning, indexing>> => Fits'
  <2> SUFFICES ASSUME Fits, [MemoryNext]_<<scenario, vars, scanning, indexing>>,
                      scenario' = "projections"
               PROVE  ProjectionsInv'
    OBVIOUS
  <2>1. scenario = "projections"
    BY DEF MemoryNext, IngestMoves, ScannerMoves, ProjectionsMove
  <2>2. ProjectionsInv
    BY <2>1
  <2>3. [Projections!Next]_(Projections!vars)
    BY <2>1 DEF MemoryNext, IngestMoves, ScannerMoves, ProjectionsMove, indexing, Projections!vars
  <2> QED BY <2>2, <2>3, ProjectionsStep
<1>3. Fits => ProjectionsHold
  BY ProjectionsFit DEF ProjectionsHold
<1> HIDE DEF Fits
<1> QED BY <1>1, <1>2, <1>3, PTL DEF MemorySpec
=================================================================================
