------------------------------ MODULE MCErasures ------------------------------
(***************************************************************************)
(* The two erasures of the server, in one model: a person out of a project *)
(* and a project out of an organization.  They share no state here, so a   *)
(* scenario says which of them moves while the other keeps still: the      *)
(* states are those of each alone.                                         *)
(***************************************************************************)
EXTENDS MCErasure

CONSTANTS
  Project, Hand, Grant,      \* the projects, threads of the server, runs of grant.py
  MaxRows, MaxBoots          \* bounds of the instance

ASSUME TenantsAssumption == Hand \cap Grant = {} /\ "none" \notin Project

VARIABLES scenario,
          tables, durable, served, tending, rows, boots, gone, late, amid, orphaned, cut

letting == <<tables, durable, served, tending, rows, boots, gone, late, amid, orphaned, cut>>

Tenants == INSTANCE Tenants WITH
  Thread <- Hand, Outside <- Grant, MaxCrashes <- MaxBoots,
  db <- tables, disk <- durable, run <- tending, crashes <- boots, erased <- gone, mixed <- amid

ErasuresInit == Init /\ Tenants!Init /\ scenario \in {"person", "project"}

PersonMoves  == scenario = "person" /\ Next /\ UNCHANGED <<scenario, letting>>
ProjectMoves == scenario = "project" /\ Tenants!Next /\ UNCHANGED <<scenario, vars>>

ErasuresSpec == ErasuresInit /\ [][PersonMoves \/ ProjectMoves]_<<scenario, vars, letting>>

------------------------------------------------------------------------------
(* The audit chain verifies, and an erased project is gone (Tenants). *)
TenantsHold == scenario = "project" => Tenants!TenantsHold
===============================================================================
