------------------------------- MODULE MCOpLog -------------------------------
(* Instances of OpLog for TLC. *)
EXTENDS OpLog, TLC

CONSTANTS e1, v1, g1, a1, a2, a3, d1, d2, d3, p, np, h1, h2

MCTime == 0..(MaxClock + 2)
MCNeg  == (p :> np) @@ (np :> p)

ClaimSupport  == {{a} : a \in AssertionId}
SomeEvidence  == {{v1}} \cup {{v1, a} : a \in AssertionId}

(* Claims and derivations are named by clients or minted: nothing tells two *)
(* of them apart, nor two handlers.                                         *)
ServerSymmetry ==
  Permutations(AssertionId) \cup Permutations(DerivationId) \cup Permutations(Handler)
=============================================================================
