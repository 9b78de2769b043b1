---------------------------- MODULE MCEquipment -----------------------------
(***************************************************************************)
(* A small instance of EquipmentDesk for TLC: one item, handed to          *)
(* everybody or to women only, and pax of either sex.                      *)
(***************************************************************************)
EXTENDS EquipmentDesk, TLC

CONSTANTS Mukena, Pria

MCGender == [p \in PaxIds |-> IF p = Pria THEN "L" ELSE "P"]

MCBrandOf == [s \in Schedules |-> CHOOSE br \in Brands : TRUE]

MCSets == {{}} \cup {{[item |-> Mukena, qty |-> 1, untuk |-> u]} : u \in {"semua", "wanita"}}

SameAdmins == Permutations(Admins)
=============================================================================
