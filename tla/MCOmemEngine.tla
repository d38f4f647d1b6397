---------------------------- MODULE MCOmemEngine ----------------------------
(* Instances of OmemEngine for TLC. *)
EXTENDS OmemEngine, FiniteSets, TLC

CONSTANTS e1, e2, v1, g1, a1, a2, a3, d1, d2, p, np, MaxTime

MCTime == 0..MaxTime
MCNeg  == (p :> np) @@ (np :> p)

MCSubjectSets == {{x} : x \in EntityId}

(* Targets of a supersede: none, one, two, or one twice. *)
OneOldLists  == {<<a>> : a \in AssertionId}
MCOldLists   == {<<>>} \cup OneOldLists \cup (AssertionId \X AssertionId)
PairOldLists == {o \in MCOldLists : Len(o) = 2 => o[1] # o[2]}

SingleAntecedents == {{x} : x \in AssertionId \cup EventId}

(* Interchangeable ids: nothing tells two claims, or two derivations, apart. *)
IdSymmetry ==
  Permutations(AssertionId \ DerivationId) \cup Permutations(DerivationId \ AssertionId)

(* Nor two names of one person, nor a token and its opposite. *)
BeliefSymmetry == IdSymmetry \cup Permutations(EntityId) \cup Permutations(ClaimProps)
=============================================================================
