---------------------------- MODULE MCBackOffice ----------------------------
(***************************************************************************)
(* Small instances, for TLC, of two components the staff works with: the   *)
(* directory of users and units, and the equipment desk. They share no     *)
(* table, so every behaviour is one of a single component, chosen at the   *)
(* start (part): their interleavings could show nothing more.              *)
(***************************************************************************)
EXTENDS MCAdminDirectory, MCEquipment

VARIABLE part

BackOfficeInit == part \in {"directory", "equipment"} /\ DirectoryInit /\ EquipmentInit

BackOfficeNext ==
  \/ part = "directory" /\ DirectoryNext /\ UNCHANGED <<part, equipmentVars>>
  \/ part = "equipment" /\ EquipmentNext /\ UNCHANGED <<part, directoryVars>>

BackOfficeSpec == BackOfficeInit /\ [][BackOfficeNext]_<<part, directoryVars, equipmentVars>>

Alike == Interchangeable \cup SameAdmins
=============================================================================
