------------------------------ MODULE MCErasure ------------------------------
(* Instances of Erasure for TLC. *)
EXTENDS Erasure, TLC

CONSTANTS alice, acme, g1, v1, v2, a1, a2, a3, d1, d2, d3, pays, unpaid, quits, stays

MCTime == 0..6
MCNeg  == (pays :> unpaid) @@ (unpaid :> pays) @@ (quits :> stays) @@ (stays :> quits)

(* quits replaces pays. *)
MCWeaker == [t \in Prop |-> IF t = quits THEN {pays} ELSE {}]

About(s, t)      == [subject |-> s, others |-> {}, prop |-> t]
Relates(s, o, t) == [subject |-> s, others |-> {o}, prop |-> t]

(* What she says of herself, of herself and the company, of both at once, and *)
(* what takes itself back.                                                   *)
OwnWords    == [from |-> alice, facts |-> <<About(alice, pays)>>]
ChangedMind == [from |-> alice, facts |-> <<About(alice, quits)>>]
SharedWords == [from |-> alice, facts |-> <<About(alice, pays), About(acme, pays)>>]
Relation    == [from |-> alice, facts |-> <<Relates(alice, acme, quits)>>]
Reversal    == [from |-> alice, facts |-> <<About(alice, pays), About(alice, quits)>>]

MCMessages    == {SharedWords, Relation, Reversal}
WordsMessages == {OwnWords, ChangedMind}
==============================================================================
