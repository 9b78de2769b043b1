------------------------- MODULE MCPackageCatalogue -------------------------
(***************************************************************************)
(* A small instance of PackageCatalogue for TLC. A behaviour has either    *)
(* what packages cost and what is paid for them, or one row that packages  *)
(* name, of any kind (part): no action reads both, or two rows but to ask  *)
(* of each the same. Bounds: one payment, with a row one package at a time *)
(* whose brand asks 1, and edits that leave the destination as it is only  *)
(* where there is one.                                                     *)
(***************************************************************************)
EXTENDS PackageCatalogue, TLC

CONSTANTS b1, b2

VARIABLE part

Form(b, acuan, dp, harga) ==
  [merek |-> b, nama |-> "n1", acuan |-> acuan, dp |-> dp, harga |-> harga]

(* A cheap package that follows its brand's down payment, and a dear one     *)
(* with its own, of each brand; and one that names a row of each kind.       *)
MCFormulir ==
  UNION {{Form(b, {}, -1, 1), Form(b, {}, 1, 2)} \cup {Form(b, {r}, 1, 2) : r \in Acuan} :
           b \in {b1, b2}}

MCInit == CatalogueInit /\ part \in {"harga"} \cup Acuan

MCSpec ==
  /\ MCInit
  /\ [][/\ CatalogueNext
        /\ part = "harga" => UNCHANGED baris /\ Cardinality(setoran') <= 1
        /\ part \in Acuan =>
             /\ UNCHANGED <<rekening, dipesan>>
             /\ \A r \in Acuan \ {part} : baris'[r] = baris[r]
             /\ Cardinality(Packages') <= 1
             /\ \A b \in Merek : merek'[b] \in {-1, 1}
        /\ part \notin Destinasi =>
             \A m \in Meja : kerja'[m].tugas = "simpan" => ~ kerja'[m].tetap
        /\ UNCHANGED part]_<<catalogueVars, part>>

Alike == Permutations(Merek) \cup Permutations(Paket) \cup Permutations(Meja)
=============================================================================
