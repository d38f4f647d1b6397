-------------------------------- MODULE MCMemory --------------------------------
(***************************************************************************)
(* How a memory is formed, corrected and found, in one model: two mails    *)
(* that an ingest job works off, the corrections of a memory scan, and the *)
(* rows of the projections.  They share no state but the names of the      *)
(* threads, so a scenario says which of them moves while the others keep   *)
(* still: the states are those of each alone.                              *)
(***************************************************************************)
EXTENDS MCIngestJobs

CONSTANTS
  Thread,
  Memory, BeliefOf, Opposed, EvidenceOf, Early, MaxScans, MaxItems, MaxTroubles,
  Projected, Relational, Proved, FormedAs, Observed, MaxUpsets

VARIABLES scenario,
          told, disk, evidence, scans, items, serving, troubles, lost, disturbed, overlapped,
          engine, logged, index, edges, saved, writing, erased, upsets, blurred, astray

scanning == <<told, disk, evidence, scans, items, serving, troubles, lost, disturbed, overlapped>>
indexing == <<engine, logged, index, edges, saved, writing, erased, upsets, blurred, astray>>

(* For TLC: a belief told three times, whose first telling may have lost    *)
(* its mail and the third may be of little worth, and later somebody says   *)
(* the opposite.  With three, the claim that another repeats can itself be  *)
(* found to repeat an earlier one.                                          *)
Sound  == [quoted |-> TRUE, derived |-> TRUE, grounded |-> TRUE, source |-> TRUE, old |-> FALSE,
           reads |-> "well"]
Gone   == [Sound EXCEPT !.source = FALSE]
Slight == [Sound EXCEPT !.reads = "slight", !.old = TRUE]

Tellings == <<"p", "p", "p", "np">>
Findings == <<{Sound, Gone}, {Sound}, {Sound, Slight}, {Sound}>>

Scanner == INSTANCE Scanner WITH
  Claim <- Memory, FactsOf <- EvidenceOf, claims <- told, facts <- evidence, run <- serving

(* For TLC: a relation whose token names its target, one that names none,   *)
(* and a claim about one thing; the relations go against sorted order.      *)
AgainstOrder == [c \in Relational |-> "rev"]

Projections == INSTANCE Projections WITH
  Claim <- Projected, MaxTroubles <- MaxUpsets, run <- writing, troubles <- upsets

ASSUME ScannerAssumption ==
  /\ Memory \subseteq Nat /\ Early \subseteq Memory
  /\ MaxTroubles \in Nat
  /\ \A m \in Memory :
       EvidenceOf[m] \subseteq [quoted : BOOLEAN, derived : BOOLEAN, grounded : BOOLEAN,
                                source : BOOLEAN, old : BOOLEAN, reads : DOMAIN Scanner!Shows]

ASSUME ProjectionsAssumption ==
  /\ Relational \subseteq Projected /\ Proved \subseteq Relational /\ Observed \subseteq Projected
  /\ FormedAs \in [Relational -> {"fwd", "rev"}]
  /\ MaxUpsets \in Nat

MemoryInit ==
  /\ Init /\ Scanner!Init /\ Projections!Init
  /\ scenario \in {"ingest", "scanner", "projections"}
  /\ scenario = "scanner" \/ evidence = [m \in Memory |-> CHOOSE f \in EvidenceOf[m] : TRUE]

IngestMoves ==
  /\ scenario = "ingest" /\ Next /\ UNCHANGED <<scenario, scanning, indexing>>
ScannerMoves ==
  /\ scenario = "scanner" /\ Scanner!Next /\ UNCHANGED <<scenario, vars, indexing>>
ProjectionsMove ==
  /\ scenario = "projections" /\ Projections!Next /\ UNCHANGED <<scenario, vars, scanning>>

MemoryNext == IngestMoves \/ ScannerMoves \/ ProjectionsMove

MemorySpec == MemoryInit /\ [][MemoryNext]_<<scenario, vars, scanning, indexing>>

------------------------------------------------------------------------------
(* What a scan corrects stays corrected, and loses no belief (Scanner). *)
CorrectionsHold ==
  scenario = "scanner" => Scanner!TypeOK /\ Scanner!CorrectionsHold

(* The index and the graph say what the engine does (Projections). *)
ProjectionsHold ==
  scenario = "projections" => Projections!TypeOK /\ Projections!ProjectionsHold
=================================================================================
