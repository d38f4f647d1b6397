----------------------------- MODULE BeliefLedger -----------------------------
(***************************************************************************)
(* What the engine promises about beliefs, with nothing of how: a claim,   *)
(* once on record, is there for ever with the same content; it is believed *)
(* on a half-open interval [start, end); an interval is ended at most      *)
(* once, later than it began, and only by recording a new claim that       *)
(* begins where it ends.  OmemEngine implements this specification.        *)
(***************************************************************************)
EXTENDS Integers

CONSTANTS Claim,        \* claim ids
          Content         \* what a claim says: records with the time it begins

VARIABLES content,      \* claim id -> content, for the claims on record
          end           \* claim id -> the end of its interval, once ended

ledger == <<content, end>>

LedgerInit == content = [c \in {} |-> c] /\ end = [c \in {} |-> c]

(* A new claim c, whatever it says, and every other claim as it was. *)
Record(c) ==
  /\ c \notin DOMAIN content
  /\ c \in DOMAIN content'
  /\ content'[c] \in Content
  /\ content' = [o \in DOMAIN content \cup {c} |-> IF o = c THEN content'[c] ELSE content[o]]

(* The open intervals of S end at time t. *)
EndAll(S, t) ==
  /\ S \subseteq DOMAIN content \ DOMAIN end
  /\ \A o \in S : content[o].time < t
  /\ end' = [o \in DOMAIN end \cup S |-> IF o \in S THEN t ELSE end[o]]

(* Believe c, ending the intervals of some claims where it begins. *)
LedgerNext ==
  \E c \in Claim :
     Record(c) /\ \E S \in SUBSET Claim : EndAll(S, content'[c].time)

LedgerSpec == LedgerInit /\ [][LedgerNext]_ledger
==============================================================================
