----------------------------- MODULE MCWriterLock -----------------------------
(* Instances of WriterLock for TLC: p1 and p2 share a host, p3 has its own. *)
EXTENDS WriterLock, TLC

CONSTANTS p1, p2, p3, near, far

MCHost == [x \in Proc |-> IF x = p3 THEN far ELSE near]
=============================================================================
