--------------------------- MODULE MCApprovalQueue ---------------------------
(* Instances of ApprovalQueue for TLC: two actions proposed by an agent,    *)
(* and people who may approve them.                                         *)
EXTENDS ApprovalQueue, TLC

CONSTANTS q1, q2, bot, ann, bob, h1

ByBot  == [i \in Item |-> bot]
ByAnn  == [i \in Item |-> IF i = q1 THEN ann ELSE bot]
TwoEyes == [i \in Item |-> IF i = q1 THEN 1 ELSE 2]
==============================================================================
