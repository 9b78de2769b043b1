-------------------------- MODULE EquipmentClaims --------------------------
(***************************************************************************)
(* A statement the repository makes about equipment, as it is written      *)
(* there, that an order of its operations breaks.                          *)
(***************************************************************************)
EXTENDS MCEquipment

(* internal/perlengkapan/repository.go:16 and handler.go:151, the answer to  *)
(* DeleteItem: "tidak bisa dihapus, item masih dipakai di template set atau  *)
(* masih memiliki stok" - no item is deleted that has stock. But the stock   *)
(* is looked at before the DELETE, which takes what is there by then along.  *)
StockedItemsStay ==
  [][\A i \in Items, br \in Brands :
       items[i] = "listed" /\ items'[i] = "deleted" => stok[br][i] = 0]_equipmentVars
=============================================================================
