-------------------------- MODULE MCAdminDirectory --------------------------
(***************************************************************************)
(* A small instance of AdminDirectory for TLC: two users, a division a     *)
(* role belongs to, and two units that may become divisions or teams.      *)
(***************************************************************************)
EXTENDS AdminDirectory, TLC

CONSTANTS Staff, Sales

MCDivisiAsal == [r \in Roles |-> IF r = Staff THEN Sales ELSE TIADA]

Interchangeable ==
  UNION {Permutations(S) : S \in {Users, Removers, Units \ FirstDivisi}}
=============================================================================
