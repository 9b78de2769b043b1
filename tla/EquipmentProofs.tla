-------------------------- MODULE EquipmentProofs ---------------------------
(***************************************************************************)
(* Theorems about EquipmentDesk, for any items, brands, packages, bookings *)
(* and pilgrims: the stock ledger adds up, the log of a pax is what left   *)
(* the stock for it, and what is handed out, written off and deleted.      *)
(*                                                                         *)
(* That the log of a supplied pax is what its brand's ledger says is not   *)
(* inductive: handing out adds to what the ledger already has, so a pax    *)
(* that travels and was given nothing must have nothing in any ledger; a   *)
(* pax row must belong to a booking with a package, whose brand the return *)
(* goes to; and a row that is not used must be empty. EInv says so of each *)
(* pax by itself (PaxFine), so that a step is a change of a pax's row, of  *)
(* the bookings or of what left the stock for it.                          *)
(***************************************************************************)
EXTENDS EquipmentDesk, SumProofs

PaxRow == [booking : Bookings \cup {NULL}, given : BOOLEAN, logs : [Items -> Nat],
           status : {"none", "aktif", "batal", "gone"}]

OrderRow == [schedule : Schedules \cup {NULL},
             status : {"absent", "draft", "baru", "paid", "batal", "deleted"}]

Request == [pax : PaxIds \cup {NULL}, rows : SUBSET Rows]

Package == [custom : BOOLEAN, rows : SUBSET Rows]

NothingOut == [br \in Brands |-> Nothing]

OnlyOut(brand, goods) == [br \in Brands |-> IF br = brand THEN goods ELSE Nothing]

(* What is written of a pax, the bookings and what left the stock for it,    *)
(* agrees.                                                                   *)
PaxFine(row, booked, out) ==
  /\ row \in PaxRow
  /\ row.status = "none" => row = NoPax
  /\ row.status # "none" =>
       row.booking \in Bookings /\ booked[row.booking].status # "absent"
  /\ row.status = "aktif" => booked[row.booking].status # "deleted"
  /\ row.given => /\ row.status \in {"aktif", "batal"}
                  /\ row.logs # Nothing
                  /\ out = OnlyOut(BrandOf[booked[row.booking].schedule], row.logs)
  /\ ~row.given => row.logs = Nothing
  /\ row.status \in {"none", "aktif"} /\ ~row.given => out = NothingOut

(* What left the stock of every brand for pax p. *)
Out(p) == [br \in Brands |-> keluar[br][p]]

CatalogueTyped ==
  /\ items \in [Items -> {"absent", "listed", "deleted"}]
  /\ deleting \subseteq Listed
  /\ template \subseteq Rows /\ kategori \subseteq Rows
  /\ paket \in [Schedules -> Package]

StockTyped ==
  /\ stok \in [Brands -> [Items -> Nat]]
  /\ masuk \in [Brands -> [Items -> Int]]
  /\ keluar \in [Brands -> [PaxIds -> [Items -> Nat]]]

BookingsTyped ==
  /\ orders \in [Bookings -> OrderRow]
  /\ \A b \in Bookings : orders[b].status # "absent" => orders[b].schedule \in Schedules
  /\ pax \in [PaxIds -> PaxRow]
  /\ handing \in [Admins -> Request]

PaxInv == \A p \in PaxIds : PaxFine(pax[p], orders, Out(p))

EInv == CatalogueTyped /\ StockTyped /\ BookingsTyped /\ PaxInv /\ LedgerExplainsStock

-----------------------------------------------------------------------------
(* The invariant says what it is for. *)

LEMMA SetsAreRows ==
  \A S \in Sets : S \subseteq Rows
BY EquipmentAssumption

LEMMA EInvSays ==
  ASSUME EInv
  PROVE  EquipmentInvariant
<1>1. EquipmentTypeOK
  <2>1. keluar \in [Brands -> [PaxIds -> [Items -> Int]]]
    BY DEF EInv, StockTyped
  <2>2. \A a \in Admins : handing[a].pax \in PaxIds \cup {NULL} /\ handing[a].rows \subseteq Rows
    BY DEF EInv, BookingsTyped, Request
  <2> QED
    BY <2>1, <2>2 DEF EInv, CatalogueTyped, StockTyped, BookingsTyped, EquipmentTypeOK,
      PaxRow, OrderRow, Package
<1>2. LogsAreWhatIsOut
  <2>1. ASSUME NEW p \in PaxIds
        PROVE  /\ pax[p].given => pax[p].logs # Nothing /\ pax[p].logs = keluar[BrandOfPax(p)][p]
               /\ ~pax[p].given => pax[p].logs = Nothing
    <3>1. PaxFine(pax[p], orders, Out(p))
      BY DEF EInv, PaxInv
    <3>2. pax[p].given => BrandOfPax(p) \in Brands
      BY <3>1, EquipmentAssumption DEF PaxFine, EInv, BookingsTyped, BrandOfPax, OrderOf
    <3> QED
      BY <3>1, <3>2 DEF PaxFine, Out, OnlyOut, BrandOfPax, OrderOf
  <2>2. \A p \in PaxIds, br \in Brands, i \in Items : keluar[br][p][i] >= 0
    BY DEF EInv, StockTyped
  <2> QED
    BY <2>1, <2>2 DEF LogsAreWhatIsOut
<1> QED
  BY <1>1, <1>2 DEF EInv, EquipmentInvariant

LEMMA EInvBegins ==
  ASSUME EquipmentInit
  PROVE  EInv
<1>1. Nothing \in [Items -> Nat]
  BY DEF Nothing
<1>2. NoPax \in PaxRow /\ NoRequest \in Request
  BY <1>1 DEF NoPax, PaxRow, NoRequest, Request
<1>3. CatalogueTyped
  BY EquipmentAssumption DEF EquipmentInit, CatalogueTyped, Listed, Package
<1>4. StockTyped
  BY <1>1 DEF EquipmentInit, StockTyped
<1>5. BookingsTyped
  BY <1>2 DEF EquipmentInit, BookingsTyped, OrderRow
<1>6. PaxInv
  <2>1. \A p \in PaxIds : Out(p) = NothingOut
    BY DEF EquipmentInit, Out, NothingOut
  <2>2. NoPax.status = "none" /\ ~NoPax.given /\ NoPax.logs = Nothing
    BY DEF NoPax
  <2> QED
    BY <1>2, <2>1, <2>2 DEF EquipmentInit, PaxInv, PaxFine
<1>7. LedgerExplainsStock
  <2>1. ASSUME NEW br \in Brands, NEW i \in Items
        PROVE  stok[br][i] = masuk[br][i] -
                 SumFunctionOnSet([p \in PaxIds |-> keluar[br][p][i]], PaxIds)
    <3>1. \A p \in PaxIds : [q \in PaxIds |-> keluar[br][q][i]][p] = 0
      BY DEF EquipmentInit, Nothing
    <3>2. SumFunctionOnSet([p \in PaxIds |-> keluar[br][p][i]], PaxIds) = 0
      BY <3>1, SumOfZeros, EquipmentAssumption
    <3> QED
      BY <3>2 DEF EquipmentInit, Nothing
  <2> QED
    BY <2>1 DEF LedgerExplainsStock
<1> QED
  BY <1>3, <1>4, <1>5, <1>6, <1>7 DEF EInv

-----------------------------------------------------------------------------
(* What becomes of one pax *)

(* The bookings changed, but the one of this pax is there as it was.         *)
BookingStays(row, booked, booked2) ==
  row.status # "none" =>
    /\ booked2[row.booking].schedule = booked[row.booking].schedule
    /\ booked2[row.booking].status # "absent"
    /\ row.status = "aktif" => booked2[row.booking].status # "deleted"

LEMMA FineStays ==
  ASSUME NEW row, NEW booked, NEW booked2, NEW out, PaxFine(row, booked, out),
         BookingStays(row, booked, booked2)
  PROVE  PaxFine(row, booked2, out)
BY DEF PaxFine, BookingStays

(* Rows the operations write: a new pax, and one that left. *)
NewPax(b) == [NoPax EXCEPT !.booking = b, !.status = "aktif"]

Left(row, status) == [TakenBack(row) EXCEPT !.status = status]

(* A row of a pax with these columns. *)
Reads(row, booking, status, given, logs) ==
  /\ row \in PaxRow
  /\ row.booking = booking /\ row.status = status /\ row.given = given /\ row.logs = logs

LEMMA RowIs ==
  ASSUME NEW row \in PaxRow
  PROVE  /\ Reads(TakenBack(row), row.booking, row.status, FALSE, Nothing)
         /\ \A status \in {"batal", "gone"} :
              /\ Reads([row EXCEPT !.status = status], row.booking, status, row.given, row.logs)
              /\ Reads([TakenBack(row) EXCEPT !.status = status],
                       row.booking, status, FALSE, Nothing)
<1>1. Nothing \in [Items -> Nat]
  BY DEF Nothing
<1>2. Reads(TakenBack(row), row.booking, row.status, FALSE, Nothing)
  BY <1>1 DEF TakenBack, PaxRow, Reads
<1>3. ASSUME NEW r \in PaxRow, NEW status \in {"batal", "gone"}
      PROVE  Reads([r EXCEPT !.status = status], r.booking, status, r.given, r.logs)
  BY DEF PaxRow, Reads
<1>4. TakenBack(row) \in PaxRow
  BY <1>2 DEF Reads
<1>5. ASSUME NEW status \in {"batal", "gone"}
      PROVE  Reads([TakenBack(row) EXCEPT !.status = status], row.booking, status, FALSE, Nothing)
  BY <1>2, <1>3, <1>4 DEF Reads
<1> QED
  BY <1>2, <1>3, <1>5

LEMMA LeftReads ==
  ASSUME NEW row \in PaxRow, NEW status \in {"batal", "gone"}
  PROVE  Reads(Left(row, status), row.booking, status, FALSE, Nothing)
BY RowIs DEF Left

LEMMA NothingIsNone ==
  Nothing \in [Items -> Nat] /\ \A i \in Items : Nothing[i] = 0
BY DEF Nothing

(* A pax that leaves has nothing on its log, whatever is out for it.         *)
LEMMA FineWhenGone ==
  ASSUME NEW row, NEW booked, NEW booked2, NEW out, NEW out2, PaxFine(row, booked, out),
         row.status # "none", booked2[row.booking].status # "absent",
         NEW status \in {"batal", "gone"}
  PROVE  PaxFine(Left(row, status), booked2, out2)
<1> DEFINE new == Left(row, status)
<1>1. row \in PaxRow /\ row.booking \in Bookings
  BY DEF PaxFine
<1>2. Reads(new, row.booking, status, FALSE, Nothing)
  BY <1>1, RowIs DEF Left
<1> HIDE DEF new
<1>3. PaxFine(new, booked2, out2)
  BY <1>1, <1>2 DEF PaxFine, Reads
<1> QED
  BY <1>3 DEF new

(* A pax cancelled with its booking keeps what it was given.                 *)
LEMMA FineWhenCancelled ==
  ASSUME NEW row, NEW booked, NEW booked2, NEW out, PaxFine(row, booked, out),
         row.status = "aktif", BookingStays(row, booked, booked2)
  PROVE  PaxFine([row EXCEPT !.status = "batal"], booked2, out)
<1> DEFINE new == [row EXCEPT !.status = "batal"]
<1>1. row \in PaxRow /\ row.booking \in Bookings
  BY DEF PaxFine
<1>2. Reads(new, row.booking, "batal", row.given, row.logs)
  BY <1>1, RowIs
<1> HIDE DEF new
<1>3. PaxFine(new, booked2, out)
  BY <1>1, <1>2 DEF PaxFine, Reads, BookingStays
<1> QED
  BY <1>3 DEF new

LEMMA FineWhenNew ==
  ASSUME NEW row, NEW booked, NEW booked2, NEW out, PaxFine(row, booked, out),
         row.status = "none", NEW b \in Bookings,
         booked2[b].status \notin {"absent", "deleted"}
  PROVE  PaxFine(NewPax(b), booked2, out)
<1> DEFINE new == NewPax(b)
<1>1. Reads(new, b, "aktif", FALSE, Nothing)
  BY NothingIsNone DEF Reads, NoPax, PaxRow, NewPax
<1>2. out = NothingOut
  BY DEF PaxFine, NoPax
<1> HIDE DEF new
<1>3. PaxFine(new, booked2, out)
  BY <1>1, <1>2 DEF PaxFine, Reads
<1> QED
  BY <1>3 DEF new

(* A pax that travels and has nothing is given something by its brand.       *)
LEMMA FineWhenGiven ==
  ASSUME NEW row, NEW booked, NEW out, PaxFine(row, booked, out),
         row.status = "aktif", NEW goods \in [Items -> Nat], goods # Nothing,
         NEW new, Reads(new, row.booking, row.status, TRUE, goods)
  PROVE  PaxFine(new, booked, OnlyOut(BrandOf[booked[row.booking].schedule], goods))
BY DEF PaxFine, Reads

(* What a pax was given is taken back.                                       *)
LEMMA FineWhenTakenBack ==
  ASSUME NEW row, NEW booked, NEW out, PaxFine(row, booked, out), row.given
  PROVE  PaxFine(TakenBack(row), booked, NothingOut)
<1> DEFINE new == TakenBack(row)
<1>1. Reads(new, row.booking, row.status, FALSE, Nothing)
  BY RowIs DEF PaxFine
<1> HIDE DEF new
<1>2. PaxFine(new, booked, NothingOut)
  BY <1>1 DEF PaxFine, Reads
<1> QED
  BY <1>2 DEF new

LEMMA FineBooking ==
  ASSUME EInv, NEW p \in PaxIds, pax[p].status # "none"
  PROVE  /\ PaxFine(pax[p], orders, Out(p)) /\ pax[p] \in PaxRow
         /\ pax[p].booking \in Bookings /\ orders[pax[p].booking] \in OrderRow
         /\ orders[pax[p].booking].status # "absent"
         /\ orders[pax[p].booking].schedule \in Schedules /\ BrandOfPax(p) \in Brands
<1>1. PaxFine(pax[p], orders, Out(p))
  BY DEF EInv, PaxInv
<1> QED
  BY <1>1, EquipmentAssumption DEF PaxFine, EInv, BookingsTyped, BrandOfPax, OrderOf

-----------------------------------------------------------------------------
(* What becomes of the stock *)

(* Handing out or taking back for one pax keeps the ledger in balance.       *)
LEMMA DeltaBalances ==
  ASSUME EInv, NEW br \in Brands, NEW p \in PaxIds, NEW out \in [Items -> Int],
         ApplyBrandDelta(br, p, out), UNCHANGED masuk,
         \A i \in Items : keluar[br][p][i] + out[i] >= 0
  PROVE  /\ StockTyped' /\ LedgerExplainsStock'
         /\ \A c \in Brands : keluar'[c][p] = IF c = br
              THEN [i \in Items |-> keluar[br][p][i] + out[i]] ELSE keluar[c][p]
         /\ \A q \in PaxIds \ {p} : Out(q)' = Out(q)
<1>1. /\ stok \in [Brands -> [Items -> Nat]] /\ masuk \in [Brands -> [Items -> Int]]
      /\ keluar \in [Brands -> [PaxIds -> [Items -> Nat]]]
  BY DEF EInv, StockTyped
<1>2. /\ \A i \in Items : stok[br][i] >= out[i]
      /\ stok' = [stok EXCEPT ![br] = [i \in Items |-> stok[br][i] - out[i]]]
      /\ keluar' = [keluar EXCEPT ![br][p] = [i \in Items |-> keluar[br][p][i] + out[i]]]
  BY DEF ApplyBrandDelta
<1>3. /\ [i \in Items |-> stok[br][i] - out[i]] \in [Items -> Nat]
      /\ [i \in Items |-> keluar[br][p][i] + out[i]] \in [Items -> Nat]
  <2>1. \A i \in Items : stok[br][i] \in Nat /\ keluar[br][p][i] \in Nat /\ out[i] \in Int
    BY <1>1
  <2>2. \A i \in Items : stok[br][i] - out[i] \in Nat /\ keluar[br][p][i] + out[i] \in Nat
    BY <1>2, <2>1
  <2> QED
    BY <2>2
<1> DEFINE goods == [i \in Items |-> keluar[br][p][i] + out[i]]
           rest == [i \in Items |-> stok[br][i] - out[i]]
<1>4. /\ \A i \in Items : goods[i] = keluar[br][p][i] + out[i]
      /\ \A i \in Items : rest[i] = stok[br][i] - out[i]
      /\ goods \in [Items -> Nat] /\ rest \in [Items -> Nat]
  BY <1>3
<1>5. stok' = [stok EXCEPT ![br] = rest] /\ keluar' = [keluar EXCEPT ![br][p] = goods]
  BY <1>2
<1> HIDE DEF goods, rest
<1>6. StockTyped'
  <2>1. stok' \in [Brands -> [Items -> Nat]]
    BY <1>1, <1>4, <1>5
  <2>2. keluar' \in [Brands -> [PaxIds -> [Items -> Nat]]]
    BY <1>1, <1>4, <1>5
  <2> QED
    BY <1>1, <2>1, <2>2 DEF StockTyped
<1>7. \A c \in Brands : keluar'[c][p] = IF c = br THEN goods ELSE keluar[c][p]
  BY <1>1, <1>5
<1>8. \A c \in Brands : \A q \in PaxIds \ {p} : keluar'[c][q] = keluar[c][q]
  BY <1>1, <1>5
<1>9. ASSUME NEW c \in Brands, NEW i \in Items
      PROVE  stok'[c][i] = masuk'[c][i] -
               SumFunctionOnSet([q \in PaxIds |-> keluar'[c][q][i]], PaxIds)
  <2> DEFINE f == [q \in PaxIds |-> keluar[c][q][i]]
             g == [q \in PaxIds |-> keluar'[c][q][i]]
  <2>1. stok[c][i] = masuk[c][i] - SumFunctionOnSet(f, PaxIds)
    BY DEF EInv, LedgerExplainsStock
  <2>2. \A q \in PaxIds : f[q] \in Int
    BY <1>1
  <2>3. SumFunctionOnSet(f, PaxIds) \in Int
    BY <2>2, SumIsInt, EquipmentAssumption
  <2>4. CASE c = br
    <3>1. stok'[c][i] = stok[c][i] - out[i]
      BY <1>1, <1>4, <1>5, <2>4
    <3>2. g[p] = f[p] + out[i] /\ \A q \in PaxIds \ {p} : g[q] = f[q]
      BY <1>4, <1>7, <1>8, <2>4
    <3>3. out[i] \in Int
      OBVIOUS
    <3> HIDE DEF f, g
    <3>4. SumFunctionOnSet(g, PaxIds) = SumFunctionOnSet(f, PaxIds) + out[i]
      BY <2>2, <3>2, <3>3, SumUpdate, EquipmentAssumption
    <3>5. masuk'[c][i] = masuk[c][i] /\ masuk[c][i] \in Int
      BY <1>1
    <3>6. stok'[c][i] = masuk'[c][i] - SumFunctionOnSet(g, PaxIds)
      BY <2>1, <2>3, <3>1, <3>3, <3>4, <3>5
    <3> QED
      BY <3>6 DEF g
  <2>5. CASE c # br
    <3>1. \A q \in PaxIds : keluar'[c][q] = keluar[c][q]
      BY <1>7, <1>8, <2>5
    <3>2. g = f
      BY <3>1
    <3>3. stok'[c] = stok[c]
      BY <1>1, <1>5, <2>5
    <3> QED
      BY <2>1, <3>2, <3>3
  <2> QED
    BY <2>4, <2>5
<1>10. LedgerExplainsStock'
  BY <1>9 DEF LedgerExplainsStock
<1> QED
  BY <1>6, <1>7, <1>8, <1>10 DEF Out, goods

-----------------------------------------------------------------------------
(* The catalogue of items and its sets *)

LEMMA TemplateTyped ==
  ASSUME EInv, NEW i \in Items, NEW qty \in Nat
  PROVE  TemplateWith(i, qty) \subseteq Rows
BY DEF EInv, CatalogueTyped, TemplateWith, Rows

LEMMA CatalogueKeeps ==
  ASSUME EInv, CatalogueTyped', StockUnchanged, BookingsUnchanged
  PROVE  EInv'
<1>1. StockTyped' /\ LedgerExplainsStock'
  BY DEF EInv, StockTyped, LedgerExplainsStock, StockUnchanged
<1>2. BookingsTyped'
  BY DEF EInv, BookingsTyped, StockUnchanged, BookingsUnchanged
<1>3. PaxInv'
  BY DEF EInv, PaxInv, Out, StockUnchanged, BookingsUnchanged
<1> QED
  BY <1>1, <1>2, <1>3 DEF EInv

LEMMA CreateItemKeeps ==
  ASSUME EInv, NEW i \in Items, NEW qty \in {0, 1}, CreateItem(i, qty)
  PROVE  EInv'
<1>1. template' \subseteq Rows
  BY TemplateTyped DEF CreateItem
<1>2. CatalogueTyped'
  BY <1>1 DEF EInv, CatalogueTyped, Listed, CreateItem
<1> QED
  BY <1>2, CatalogueKeeps DEF CreateItem

LEMMA UpdateItemKeeps ==
  ASSUME EInv, NEW i \in Items, NEW qty \in {0, 1}, UpdateItem(i, qty)
  PROVE  EInv'
<1>1. template' \subseteq Rows
  BY TemplateTyped DEF UpdateItem
<1>2. CatalogueTyped'
  BY <1>1 DEF EInv, CatalogueTyped, Listed, UpdateItem
<1> QED
  BY <1>2, CatalogueKeeps DEF UpdateItem

LEMMA DeletingKeeps ==
  ASSUME EInv, NEW i \in Items, DeleteItemCheck(i) \/ DeleteItemFails(i)
  PROVE  EInv'
<1>1. CatalogueTyped'
  BY DEF EInv, CatalogueTyped, Listed, DeleteItemCheck, DeleteItemFails
<1>2. StockUnchanged /\ BookingsUnchanged
  BY DEF DeleteItemCheck, DeleteItemFails
<1> QED
  BY <1>1, <1>2, CatalogueKeeps

LEMMA TemplateSetsKeep ==
  ASSUME EInv, NEW S \in Sets, UpdateSetTemplate(S) \/ PutCategorySet(S)
  PROVE  EInv'
<1>1. S \subseteq Rows
  BY SetsAreRows
<1>2. ASSUME UpdateSetTemplate(S)
      PROVE  CatalogueTyped'
  <2>1. \A row \in Rows : [row EXCEPT !.untuk = "semua"] \in Rows
    BY DEF Rows
  <2>2. template' \subseteq Rows
    BY <1>1, <1>2, <2>1 DEF UpdateSetTemplate
  <2> QED
    BY <1>2, <2>2 DEF EInv, CatalogueTyped, Listed, UpdateSetTemplate
<1>3. ASSUME PutCategorySet(S)
      PROVE  CatalogueTyped'
  BY <1>1, <1>3 DEF EInv, CatalogueTyped, Listed, PutCategorySet
<1>4. StockUnchanged /\ BookingsUnchanged
  BY DEF UpdateSetTemplate, PutCategorySet
<1> QED
  BY <1>2, <1>3, <1>4, CatalogueKeeps

LEMMA PutScheduleSetKeeps ==
  ASSUME EInv, NEW S \in Sets, NEW s \in Schedules, NEW custom \in BOOLEAN,
         PutScheduleSet(s, custom, S)
  PROVE  EInv'
<1>1. [custom |-> custom, rows |-> IF custom THEN S ELSE {}] \in Package
  BY SetsAreRows DEF Package
<1>2. CatalogueTyped'
  BY <1>1 DEF EInv, CatalogueTyped, Listed, PutScheduleSet
<1>3. StockUnchanged /\ BookingsUnchanged
  BY DEF PutScheduleSet
<1> QED
  BY <1>2, <1>3, CatalogueKeeps

-----------------------------------------------------------------------------
(* Stock and ledger *)

(* Purchases and corrections change stock and ledger alike.                  *)
LEMMA RestockingKeeps ==
  ASSUME EInv, NEW br \in Brands, NEW i \in Items, NEW n \in Int,
         stok[br][i] + n >= 0,
         stok' = [stok EXCEPT ![br][i] = stok[br][i] + n],
         masuk' = [masuk EXCEPT ![br][i] = masuk[br][i] + n],
         UNCHANGED <<catalogue, pax, keluar>>, BookingsUnchanged
  PROVE  EInv'
<1>1. /\ stok \in [Brands -> [Items -> Nat]] /\ masuk \in [Brands -> [Items -> Int]]
      /\ keluar \in [Brands -> [PaxIds -> [Items -> Nat]]]
  BY DEF EInv, StockTyped
<1>2. stok[br][i] + n \in Nat /\ masuk[br][i] + n \in Int
  BY <1>1
<1>3. StockTyped'
  BY <1>1, <1>2 DEF StockTyped
<1>4. ASSUME NEW c \in Brands, NEW j \in Items
      PROVE  stok'[c][j] = masuk'[c][j] -
               SumFunctionOnSet([q \in PaxIds |-> keluar'[c][q][j]], PaxIds)
  <2> DEFINE f == [q \in PaxIds |-> keluar[c][q][j]]
  <2>1. stok[c][j] = masuk[c][j] - SumFunctionOnSet(f, PaxIds)
    BY DEF EInv, LedgerExplainsStock
  <2>2. SumFunctionOnSet(f, PaxIds) \in Int
    BY <1>1, SumIsInt, EquipmentAssumption
  <2> HIDE DEF f
  <2>3. stok'[c][j] = masuk'[c][j] - SumFunctionOnSet(f, PaxIds)
    <3>1. CASE c = br /\ j = i
      <4>1. stok'[c][j] = stok[c][j] + n /\ masuk'[c][j] = masuk[c][j] + n
        BY <1>1, <3>1
      <4>2. masuk[c][j] \in Int
        BY <1>1
      <4> QED
        BY <2>1, <2>2, <4>1, <4>2
    <3>2. CASE ~(c = br /\ j = i)
      <4>1. stok'[c][j] = stok[c][j] /\ masuk'[c][j] = masuk[c][j]
        BY <1>1, <3>2
      <4> QED
        BY <2>1, <4>1
    <3> QED
      BY <3>1, <3>2
  <2>4. keluar' = keluar
    OBVIOUS
  <2> QED
    BY <2>3, <2>4 DEF f
<1>5. LedgerExplainsStock'
  BY <1>4 DEF LedgerExplainsStock
<1>6. CatalogueTyped' /\ BookingsTyped'
  BY DEF EInv, CatalogueTyped, BookingsTyped, catalogue, Listed, BookingsUnchanged
<1>7. PaxInv'
  BY DEF EInv, PaxInv, Out, BookingsUnchanged
<1> QED
  BY <1>3, <1>5, <1>6, <1>7 DEF EInv

LEMMA PembelianKeeps ==
  ASSUME EInv, NEW br \in Brands, NEW i \in Items, NEW qty \in Nat, Pembelian(br, i, qty)
  PROVE  EInv'
<1>1. stok[br][i] \in Nat /\ qty \in Int
  BY DEF EInv, StockTyped
<1>2. stok[br][i] + qty >= 0
  BY <1>1
<1>3. /\ stok' = [stok EXCEPT ![br][i] = stok[br][i] + qty]
      /\ masuk' = [masuk EXCEPT ![br][i] = masuk[br][i] + qty]
      /\ UNCHANGED <<catalogue, pax, keluar>> /\ BookingsUnchanged
  BY DEF Pembelian
<1> QED
  BY <1>1, <1>2, <1>3, RestockingKeeps

LEMMA KoreksiKeeps ==
  ASSUME EInv, NEW br \in Brands, NEW i \in Items, NEW baru \in Nat, Koreksi(br, i, baru)
  PROVE  EInv'
<1>1. stok[br][i] \in Nat /\ masuk[br][i] \in Int
  BY DEF EInv, StockTyped
<1>2. PICK n \in Int : n = baru - stok[br][i]
  BY <1>1
<1>3. stok[br][i] + n = baru /\ masuk[br][i] + baru - stok[br][i] = masuk[br][i] + n
  BY <1>1, <1>2
<1>4. /\ stok' = [stok EXCEPT ![br][i] = stok[br][i] + n]
      /\ masuk' = [masuk EXCEPT ![br][i] = masuk[br][i] + n]
  BY <1>3 DEF Koreksi
<1>5. UNCHANGED <<catalogue, pax, keluar>> /\ BookingsUnchanged
  BY DEF Koreksi
<1>6. stok[br][i] + n >= 0
  BY <1>3
<1> QED
  BY <1>4, <1>5, <1>6, RestockingKeeps

(* An item nobody holds takes its stock and its ledger along.                *)
LEMMA DeleteItemKeeps ==
  ASSUME EInv, NEW i \in Items, DeleteItem(i)
  PROVE  EInv'
<1>1. /\ stok \in [Brands -> [Items -> Nat]] /\ masuk \in [Brands -> [Items -> Int]]
      /\ keluar \in [Brands -> [PaxIds -> [Items -> Nat]]]
  BY DEF EInv, StockTyped
<1>2. template' \subseteq Rows
  BY TemplateTyped DEF DeleteItem
<1>3. CatalogueTyped'
  BY <1>2 DEF EInv, CatalogueTyped, Listed, DeleteItem
<1>4. \A br \in Brands :
        /\ \A j \in Items : /\ stok'[br][j] = IF j = i THEN 0 ELSE stok[br][j]
                            /\ masuk'[br][j] = IF j = i THEN 0 ELSE masuk[br][j]
        /\ stok'[br] \in [Items -> Nat] /\ masuk'[br] \in [Items -> Int]
  BY <1>1 DEF DeleteItem, Without
<1>5. \A br \in Brands, p \in PaxIds :
        /\ keluar'[br][p] = Without(keluar[br][p], i)
        /\ keluar'[br][p] \in [Items -> Nat]
        /\ \A j \in Items : keluar'[br][p][j] = IF j = i THEN 0 ELSE keluar[br][p][j]
  BY <1>1 DEF DeleteItem, Without
<1>6. StockTyped'
  <2>1. keluar' \in [Brands -> [PaxIds -> [Items -> Nat]]]
    BY <1>5 DEF DeleteItem
  <2>2. stok' \in [Brands -> [Items -> Nat]] /\ masuk' \in [Brands -> [Items -> Int]]
    BY <1>4 DEF DeleteItem
  <2> QED
    BY <2>1, <2>2 DEF StockTyped
<1>7. ASSUME NEW c \in Brands, NEW j \in Items
      PROVE  stok'[c][j] = masuk'[c][j] -
               SumFunctionOnSet([q \in PaxIds |-> keluar'[c][q][j]], PaxIds)
  <2> DEFINE f == [q \in PaxIds |-> keluar[c][q][j]]
             g == [q \in PaxIds |-> keluar'[c][q][j]]
  <2>1. stok[c][j] = masuk[c][j] - SumFunctionOnSet(f, PaxIds)
    BY DEF EInv, LedgerExplainsStock
  <2>2. CASE j = i
    <3>1. \A q \in PaxIds : g[q] = 0
      BY <1>5, <2>2
    <3>2. SumFunctionOnSet(g, PaxIds) = 0
      BY <3>1, SumOfZeros, EquipmentAssumption
    <3> QED
      BY <1>4, <2>2, <3>2
  <2>3. CASE j # i
    <3>1. g = f
      BY <1>5, <2>3
    <3>2. stok'[c][j] = stok[c][j] /\ masuk'[c][j] = masuk[c][j]
      BY <1>4, <2>3
    <3> QED
      BY <2>1, <3>1, <3>2
  <2> QED
    BY <2>2, <2>3
<1>8. LedgerExplainsStock'
  BY <1>7 DEF LedgerExplainsStock
<1>9. BookingsTyped'
  BY DEF EInv, BookingsTyped, BookingsUnchanged, DeleteItem
<1>10. ASSUME NEW p \in PaxIds
       PROVE  \/ Out(p)' = Out(p)
              \/ pax[p].status \notin {"none", "aktif"} /\ ~pax[p].given
  <2>1. PaxFine(pax[p], orders, Out(p))
    BY DEF EInv, PaxInv
  <2>2. pax[p].logs \in [Items -> Nat] /\ ~(pax[p].logs[i] > 0)
    BY <2>1 DEF PaxFine, PaxRow, DeleteItem, Referenced
  <2>3. pax[p].logs[i] = 0
    BY <2>2
  <2>4. CASE \A br \in Brands : keluar[br][p][i] = 0
    <3>1. ASSUME NEW br \in Brands
          PROVE  keluar'[br][p] = keluar[br][p]
      <4> DEFINE old == keluar[br][p]
                 new == keluar'[br][p]
      <4>1. /\ old \in [Items -> Nat] /\ new \in [Items -> Nat]
            /\ \A j \in Items : new[j] = IF j = i THEN 0 ELSE old[j]
            /\ old[i] = 0
        BY <1>1, <1>5, <2>4
      <4> HIDE DEF old, new
      <4>2. \A j \in Items : new[j] = old[j]
        BY <4>1
      <4>3. new = old
        BY <4>1, <4>2
      <4> QED
        BY <4>3 DEF old, new
    <3>2. Out(p)' = Out(p)
      BY <3>1 DEF Out
    <3> QED
      BY <3>2
  <2>5. CASE pax[p].given
    <3>1. \A br \in Brands : keluar[br][p] = pax[p].logs \/ keluar[br][p] = Nothing
      BY <2>1, <2>5 DEF PaxFine, Out, OnlyOut
    <3> QED
      BY <2>3, <2>4, <3>1, NothingIsNone
  <2>6. CASE ~pax[p].given /\ pax[p].status \in {"none", "aktif"}
    <3>1. \A br \in Brands : keluar[br][p] = Nothing
      BY <2>1, <2>6 DEF PaxFine, Out, NothingOut
    <3> QED
      BY <2>4, <3>1, NothingIsNone
  <2> QED
    BY <2>5, <2>6
<1>11. PaxInv'
  <2>1. ASSUME NEW p \in PaxIds
        PROVE  PaxFine(pax[p], orders, Out(p)')
    <3>1. PaxFine(pax[p], orders, Out(p))
      BY DEF EInv, PaxInv
    <3> QED
      BY <1>10, <3>1 DEF PaxFine
  <2>2. pax' = pax /\ orders' = orders
    BY DEF DeleteItem, BookingsUnchanged
  <2> QED
    BY <2>1, <2>2 DEF PaxInv
<1> QED
  BY <1>3, <1>6, <1>8, <1>9, <1>11 DEF EInv

-----------------------------------------------------------------------------
(* Handing out and taking back *)

(* A step that changes the row of one pax and what left a stock for it.      *)
LEMMA OnePaxKeeps ==
  ASSUME EInv, UNCHANGED catalogue, StockTyped', LedgerExplainsStock', BookingsTyped',
         NEW p \in PaxIds, PaxFine(pax'[p], orders', Out(p)'),
         \A q \in PaxIds \ {p} : /\ pax'[q] = pax[q] /\ Out(q)' = Out(q)
                                 /\ BookingStays(pax[q], orders, orders')
  PROVE  EInv'
<1>1. CatalogueTyped'
  BY DEF EInv, CatalogueTyped, catalogue, Listed
<1>2. PaxInv'
  <2>1. ASSUME NEW q \in PaxIds
        PROVE  PaxFine(pax'[q], orders', Out(q)')
    <3>1. CASE q = p
      BY <3>1
    <3>2. CASE q # p
      <4>1. PaxFine(pax[q], orders, Out(q))
        BY DEF EInv, PaxInv
      <4>2. pax'[q] = pax[q] /\ Out(q)' = Out(q) /\ BookingStays(pax[q], orders, orders')
        BY <3>2
      <4> QED
        BY <4>1, <4>2, FineStays
    <3> QED
      BY <3>1, <3>2
  <2> QED
    BY <2>1 DEF PaxInv
<1> QED
  BY <1>1, <1>2 DEF EInv

(* Bookings that stay as they are. *)
LEMMA BookingsStay ==
  ASSUME EInv, NEW q \in PaxIds
  PROVE  BookingStays(pax[q], orders, orders)
BY DEF EInv, PaxInv, PaxFine, BookingStays

LEMMA ShareIsGoods ==
  ASSUME NEW p, NEW S \in SUBSET Rows
  PROVE  Share(p, S) \in [Items -> Nat]
<1>1. ASSUME NEW i \in Items, \E row \in S : row.item = i /\ Fits(p, row.untuk)
      PROVE  (CHOOSE row \in S : row.item = i).qty \in Nat
  BY <1>1 DEF Rows
<1> QED
  BY <1>1 DEF Share

LEMMA RequestsKeep ==
  ASSUME EInv, UNCHANGED <<catalogue, orders>>, StockUnchanged, handing' \in [Admins -> Request]
  PROVE  EInv'
<1>1. UNCHANGED <<catalogue, stok, masuk, keluar, orders, pax>>
  BY DEF StockUnchanged
<1>2. CatalogueTyped' /\ StockTyped' /\ LedgerExplainsStock'
  BY <1>1 DEF EInv, CatalogueTyped, catalogue, Listed, StockTyped, LedgerExplainsStock
<1>3. BookingsTyped' /\ PaxInv'
  BY <1>1 DEF EInv, BookingsTyped, PaxInv, Out
<1> QED
  BY <1>2, <1>3 DEF EInv

LEMMA MarkBeginKeeps ==
  ASSUME EInv, NEW a \in Admins, NEW p \in PaxIds, MarkBegin(a, p)
  PROVE  EInv'
<1>1. [pax |-> p, rows |-> ScheduleSet(OrderOf(p).schedule)] \in Request
  <2>1. OrderOf(p).schedule \in Schedules
    BY FineBooking DEF MarkBegin, OrderOf
  <2>2. ScheduleSet(OrderOf(p).schedule) \subseteq Rows
    BY <2>1 DEF ScheduleSet, InheritedSet, EInv, CatalogueTyped, Package
  <2> QED
    BY <2>2 DEF Request
<1>2. handing' \in [Admins -> Request]
  BY <1>1 DEF MarkBegin, EInv, BookingsTyped
<1> QED
  BY <1>2, RequestsKeep DEF MarkBegin

LEMMA MarkFailsKeeps ==
  ASSUME EInv, NEW a \in Admins, MarkFails(a)
  PROVE  EInv'
<1>1. handing' \in [Admins -> Request]
  BY DEF MarkFails, EInv, BookingsTyped, NoRequest, Request
<1> QED
  BY <1>1, RequestsKeep DEF MarkFails

(* A pax that travels gets what its request found, once.                     *)
LEMMA MarkCommitKeeps ==
  ASSUME EInv, NEW a \in Admins, MarkCommit(a)
  PROVE  EInv'
<1>1. PICK p \in PaxIds : p = handing[a].pax
  BY DEF MarkCommit, EInv, BookingsTyped, Request
<1>2. PICK share \in [Items -> Nat] : share = Share(p, handing[a].rows)
  BY <1>1, ShareIsGoods DEF EInv, BookingsTyped, Request
<1>3. /\ pax[p].status = "aktif" /\ ~pax[p].given /\ share # Nothing
      /\ ApplyBrandDelta(BrandOfPax(p), p, share)
      /\ pax' = [pax EXCEPT ![p].given = TRUE,
                            ![p].logs = [i \in Items |-> @[i] + share[i]]]
      /\ handing' = [handing EXCEPT ![a] = NoRequest]
      /\ UNCHANGED <<catalogue, masuk, orders>>
  BY <1>1, <1>2 DEF MarkCommit, Entitled
<1>4. /\ PaxFine(pax[p], orders, Out(p)) /\ pax[p] \in PaxRow
      /\ BrandOfPax(p) \in Brands /\ pax[p].booking \in Bookings
  BY <1>3, FineBooking
<1>5. PICK br \in Brands : br = BrandOfPax(p)
  BY <1>4
<1>6. pax[p].logs = Nothing /\ \A c \in Brands : keluar[c][p] = Nothing
  BY <1>3, <1>4 DEF PaxFine, Out, NothingOut
<1>7. [i \in Items |-> Nothing[i] + share[i]] = share
  BY NothingIsNone
<1>8. share \in [Items -> Int] /\ \A i \in Items : keluar[br][p][i] + share[i] >= 0
  <2>1. \A i \in Items : share[i] \in Nat /\ Nothing[i] = 0
    BY NothingIsNone
  <2> QED
    BY <1>6, <2>1
<1>9. /\ StockTyped' /\ LedgerExplainsStock'
      /\ \A c \in Brands : keluar'[c][p] = IF c = br
           THEN [i \in Items |-> keluar[br][p][i] + share[i]] ELSE keluar[c][p]
      /\ \A q \in PaxIds \ {p} : Out(q)' = Out(q)
  BY <1>3, <1>5, <1>8, DeltaBalances
<1>10. Out(p)' = OnlyOut(br, share)
  BY <1>6, <1>7, <1>9 DEF Out, OnlyOut
<1>11. pax \in [PaxIds -> PaxRow]
  BY DEF EInv, BookingsTyped
<1>12. /\ Reads(pax'[p], pax[p].booking, pax[p].status, TRUE, share)
       /\ \A q \in PaxIds \ {p} : pax'[q] = pax[q]
  <2>1. pax' = [pax EXCEPT ![p].given = TRUE, ![p].logs = share]
    BY <1>3, <1>6, <1>7
  <2>2. \A q \in PaxIds \ {p} : pax'[q] = pax[q]
    BY <1>11, <2>1
  <2>3. Reads(pax'[p], pax[p].booking, pax[p].status, TRUE, share)
    BY <1>11, <2>1 DEF Reads, PaxRow
  <2> QED
    BY <2>2, <2>3
<1>13. PaxFine(pax'[p], orders, Out(p)')
  <2>1. Out(p)' = OnlyOut(BrandOf[orders[pax[p].booking].schedule], share)
    BY <1>5, <1>10 DEF BrandOfPax, OrderOf
  <2>2. PICK new : new = pax'[p]
    OBVIOUS
  <2>3. PICK after : after = OnlyOut(BrandOf[orders[pax[p].booking].schedule], share)
    OBVIOUS
  <2>4. Reads(new, pax[p].booking, pax[p].status, TRUE, share)
    BY <1>12, <2>2
  <2>5. PaxFine(new, orders, after)
    BY <1>3, <1>4, <2>3, <2>4, FineWhenGiven
  <2> QED
    BY <2>1, <2>2, <2>3, <2>5
<1>14. BookingsTyped'
  <2>1. pax' \in [PaxIds -> PaxRow]
    <3>1. pax'[p] \in PaxRow
      BY <1>13 DEF PaxFine
    <3>2. pax' = [pax EXCEPT ![p] = pax'[p]]
      BY <1>3, <1>11
    <3> QED
      BY <1>11, <3>1, <3>2
  <2>2. handing' \in [Admins -> Request]
    BY <1>3 DEF EInv, BookingsTyped, NoRequest, Request
  <2> QED
    BY <1>3, <2>1, <2>2 DEF EInv, BookingsTyped
<1> QED
  BY <1>3, <1>9, <1>12, <1>13, <1>14, BookingsStay, OnePaxKeeps

LEMMA BatalkanKeeps ==
  ASSUME EInv, NEW p \in PaxIds, BatalkanPerlengkapan(p)
  PROVE  EInv'
<1>1. /\ pax[p].given
      /\ ApplyBrandDelta(BrandOfPax(p), p, Back(pax[p].logs))
      /\ pax' = [pax EXCEPT ![p] = TakenBack(pax[p])]
      /\ UNCHANGED <<catalogue, masuk, orders, handing>>
  BY DEF BatalkanPerlengkapan, BookingsUnchanged
<1>2. /\ PaxFine(pax[p], orders, Out(p)) /\ pax[p] \in PaxRow
      /\ BrandOfPax(p) \in Brands
  <2>1. pax[p].status # "none"
    BY <1>1 DEF EInv, PaxInv, PaxFine
  <2> QED
    BY <2>1, FineBooking
<1>3. PICK br \in Brands : br = BrandOfPax(p)
  BY <1>2
<1>4. PICK goods \in [Items -> Nat] : goods = pax[p].logs
  BY <1>2 DEF PaxRow
<1>5. \A c \in Brands : keluar[c][p] = IF c = br THEN goods ELSE Nothing
  <2>1. Out(p) = OnlyOut(br, goods)
    BY <1>1, <1>2, <1>3, <1>4 DEF PaxFine, BrandOfPax, OrderOf
  <2>2. \A c \in Brands : Out(p)[c] = keluar[c][p]
    BY DEF Out
  <2>3. \A c \in Brands : OnlyOut(br, goods)[c] = IF c = br THEN goods ELSE Nothing
    BY DEF OnlyOut
  <2> QED
    BY <2>1, <2>2, <2>3
<1>6. PICK out \in [Items -> Int] : out = Back(goods) /\ \A i \in Items : out[i] = 0 - goods[i]
  <2>1. \A i \in Items : goods[i] \in Nat /\ 0 - goods[i] \in Int
    BY <1>4
  <2>2. Back(goods) \in [Items -> Int] /\ \A i \in Items : Back(goods)[i] = 0 - goods[i]
    BY <2>1 DEF Back
  <2> QED
    BY <2>2
<1>7. \A i \in Items : keluar[br][p][i] + out[i] = 0
  BY <1>5, <1>6
<1>8. /\ StockTyped' /\ LedgerExplainsStock'
      /\ \A c \in Brands : keluar'[c][p] = IF c = br
           THEN [i \in Items |-> keluar[br][p][i] + out[i]] ELSE keluar[c][p]
      /\ \A q \in PaxIds \ {p} : Out(q)' = Out(q)
  <2>1. \A i \in Items : keluar[br][p][i] + out[i] >= 0
    BY <1>7
  <2> QED
    BY <1>1, <1>3, <1>4, <1>6, <2>1, DeltaBalances
<1>9. Out(p)' = NothingOut
  BY <1>5, <1>7, <1>8 DEF Out, NothingOut, Nothing
<1>10. pax \in [PaxIds -> PaxRow]
  BY DEF EInv, BookingsTyped
<1>11. pax'[p] = TakenBack(pax[p]) /\ \A q \in PaxIds \ {p} : pax'[q] = pax[q]
  BY <1>1, <1>10
<1>12. PaxFine(pax'[p], orders, Out(p)')
  BY <1>1, <1>2, <1>9, <1>11, FineWhenTakenBack
<1>13. BookingsTyped'
  <2>1. pax' \in [PaxIds -> PaxRow]
    BY <1>1, <1>10, <1>11, <1>12 DEF PaxFine
  <2> QED
    BY <1>1, <2>1 DEF EInv, BookingsTyped
<1> QED
  BY <1>1, <1>8, <1>11, <1>12, <1>13, BookingsStay, OnePaxKeeps

-----------------------------------------------------------------------------
(* What happens to bookings meanwhile *)

(* A step that rewrites bookings and pax and leaves stock and ledger alone.  *)
LEMMA RewritingKeeps ==
  ASSUME EInv, UNCHANGED <<catalogue, stok, masuk, keluar, handing>>,
         orders' \in [Bookings -> OrderRow],
         \A b \in Bookings : orders'[b].status # "absent" => orders'[b].schedule \in Schedules,
         pax' = [p \in PaxIds |-> pax'[p]],
         \A p \in PaxIds : PaxFine(pax'[p], orders', Out(p))
  PROVE  EInv'
<1>1. CatalogueTyped' /\ StockTyped' /\ LedgerExplainsStock'
  BY DEF EInv, CatalogueTyped, catalogue, Listed, StockTyped, LedgerExplainsStock
<1>2. pax' \in [PaxIds -> PaxRow]
  <2>1. \A p \in PaxIds : pax'[p] \in PaxRow
    BY DEF PaxFine
  <2> QED
    BY <2>1
<1>3. BookingsTyped'
  BY <1>2 DEF EInv, BookingsTyped
<1>4. PaxInv'
  BY DEF PaxInv, Out
<1> QED
  BY <1>1, <1>3, <1>4 DEF EInv

(* One booking gets another status or schedule. *)
LEMMA OrderPlaced ==
  ASSUME EInv, NEW b \in Bookings, NEW order \in OrderRow,
         order.schedule \in Schedules,
         orders' = [orders EXCEPT ![b] = order]
  PROVE  /\ orders' \in [Bookings -> OrderRow] /\ orders'[b] = order
         /\ \A c \in Bookings : orders'[c].status # "absent" => orders'[c].schedule \in Schedules
         /\ \A c \in Bookings \ {b} : orders'[c] = orders[c]
<1>1. /\ orders \in [Bookings -> OrderRow]
      /\ \A c \in Bookings : orders[c].status # "absent" => orders[c].schedule \in Schedules
  BY DEF EInv, BookingsTyped
<1>2. \A c \in Bookings : orders'[c] = IF c = b THEN order ELSE orders[c]
  BY <1>1
<1>3. orders' \in [Bookings -> OrderRow]
  BY <1>1
<1> QED
  BY <1>1, <1>2, <1>3

(* The status of a booking moves on, its schedule stays. *)
LEMMA StatusPlaced ==
  ASSUME EInv, NEW b \in Bookings, orders[b].status # "absent",
         NEW status \in {"draft", "baru", "paid", "batal", "deleted"},
         orders' = [orders EXCEPT ![b].status = status]
  PROVE  /\ orders' \in [Bookings -> OrderRow]
         /\ orders'[b].status = status /\ orders'[b].schedule = orders[b].schedule
         /\ \A c \in Bookings : orders'[c].status # "absent" => orders'[c].schedule \in Schedules
         /\ \A c \in Bookings \ {b} : orders'[c] = orders[c]
<1>1. /\ orders \in [Bookings -> OrderRow] /\ orders[b].schedule \in Schedules
  BY DEF EInv, BookingsTyped
<1>2. orders' \in [Bookings -> OrderRow]
  BY <1>1 DEF OrderRow
<1>3. orders'[b].status = status /\ orders'[b].schedule = orders[b].schedule
  BY <1>1 DEF OrderRow
<1>4. \A c \in Bookings \ {b} : orders'[c] = orders[c]
  BY <1>1
<1> QED
  BY <1>1, <1>2, <1>3, <1>4 DEF EInv, BookingsTyped

LEMMA OthersStay ==
  ASSUME EInv, NEW b \in Bookings, orders[b].status # "absent" => orders'[b].status # "absent",
         \A c \in Bookings \ {b} : orders'[c] = orders[c],
         NEW q \in PaxIds,
         pax[q].booking # b \/ (/\ orders'[b].schedule = orders[b].schedule
                                /\ orders'[b].status # "deleted")
  PROVE  BookingStays(pax[q], orders, orders')
BY DEF EInv, PaxInv, PaxFine, BookingStays

LEMMA StatusMovesKeeps ==
  ASSUME EInv, NEW b \in Bookings, NEW status \in {"baru", "paid"}, StatusMoves(b, status)
  PROVE  EInv'
<1>1. /\ orders[b].status # "absent" /\ orders' = [orders EXCEPT ![b].status = status]
      /\ UNCHANGED <<catalogue, stok, masuk, keluar, handing, pax>>
  BY DEF StatusMoves, StockUnchanged
<1>2. /\ orders' \in [Bookings -> OrderRow]
      /\ orders'[b].status = status /\ orders'[b].schedule = orders[b].schedule
      /\ \A c \in Bookings : orders'[c].status # "absent" => orders'[c].schedule \in Schedules
      /\ \A c \in Bookings \ {b} : orders'[c] = orders[c]
  BY <1>1, StatusPlaced
<1>3. \A p \in PaxIds : PaxFine(pax'[p], orders', Out(p))
  BY <1>1, <1>2, OthersStay, FineStays DEF EInv, PaxInv
<1>4. pax' = [p \in PaxIds |-> pax'[p]]
  BY <1>1 DEF EInv, BookingsTyped
<1> QED
  BY <1>1, <1>2, <1>3, <1>4, RewritingKeeps

LEMMA BookingCancelledKeeps ==
  ASSUME EInv, NEW b \in Bookings, NEW blocked \in BOOLEAN, BookingCancelled(b, blocked)
  PROVE  EInv'
<1>1. /\ orders[b].status # "absent" /\ orders' = [orders EXCEPT ![b].status = "batal"]
      /\ pax' = [p \in PaxIds |-> IF blocked /\ p \in On(b) THEN [pax[p] EXCEPT !.status = "batal"]
                                  ELSE pax[p]]
      /\ UNCHANGED <<catalogue, stok, masuk, keluar, handing>>
  BY DEF BookingCancelled
<1>2. /\ orders' \in [Bookings -> OrderRow]
      /\ orders'[b].status = "batal" /\ orders'[b].schedule = orders[b].schedule
      /\ \A c \in Bookings : orders'[c].status # "absent" => orders'[c].schedule \in Schedules
      /\ \A c \in Bookings \ {b} : orders'[c] = orders[c]
  BY <1>1, StatusPlaced
<1>3. ASSUME NEW p \in PaxIds
      PROVE  PaxFine(pax'[p], orders', Out(p))
  <2>1. PaxFine(pax[p], orders, Out(p)) /\ BookingStays(pax[p], orders, orders')
    BY <1>2, OthersStay DEF EInv, PaxInv
  <2>2. CASE blocked /\ p \in On(b)
    BY <1>1, <2>1, <2>2, FineWhenCancelled DEF On
  <2>3. CASE ~(blocked /\ p \in On(b))
    BY <1>1, <2>1, <2>3, FineStays
  <2> QED
    BY <2>2, <2>3
<1>4. pax' = [p \in PaxIds |-> pax'[p]]
  BY <1>1
<1> QED
  BY <1>1, <1>2, <1>3, <1>4, RewritingKeeps

LEMMA InsertIs ==
  ASSUME NEW b, NEW P \in SUBSET PaxIds, NEW p \in PaxIds
  PROVE  Insert(b, P)[p] = IF p \in P THEN NewPax(b) ELSE pax[p]
BY DEF Insert, NewPax

LEMMA BookingMadeKeeps ==
  ASSUME EInv, NEW b \in Bookings, NEW s \in Schedules, NEW status \in {"draft", "baru"},
         NEW P \in SUBSET PaxIds, BookingMade(b, s, status, P)
  PROVE  EInv'
<1>1. /\ orders[b].status = "absent" /\ P \subseteq Unused
      /\ orders' = [orders EXCEPT ![b] = [schedule |-> s, status |-> status]]
      /\ pax' = Insert(b, P)
      /\ UNCHANGED <<catalogue, stok, masuk, keluar, handing>>
  BY DEF BookingMade
<1>2. [schedule |-> s, status |-> status] \in OrderRow
  BY DEF OrderRow
<1>3. /\ orders' \in [Bookings -> OrderRow] /\ orders'[b].status = status
      /\ \A c \in Bookings : orders'[c].status # "absent" => orders'[c].schedule \in Schedules
      /\ \A c \in Bookings \ {b} : orders'[c] = orders[c]
  BY <1>1, <1>2, OrderPlaced
<1>4. ASSUME NEW p \in PaxIds
      PROVE  PaxFine(pax'[p], orders', Out(p))
  <2>1. PaxFine(pax[p], orders, Out(p))
    BY DEF EInv, PaxInv
  <2>2. CASE p \in P
    <3>1. pax[p].status = "none" /\ pax'[p] = NewPax(b)
      BY <1>1, <2>2, InsertIs DEF Unused
    <3> QED
      BY <1>3, <2>1, <3>1, FineWhenNew
  <2>3. CASE p \notin P
    <3>1. pax'[p] = pax[p]
      BY <1>1, <2>3, InsertIs
    <3>2. pax[p].status # "none" => pax[p].booking # b
      BY <1>1, <2>1 DEF PaxFine
    <3>3. BookingStays(pax[p], orders, orders')
      BY <1>3, <2>1, <3>2 DEF PaxFine, BookingStays
    <3> QED
      BY <2>1, <3>1, <3>3, FineStays
  <2> QED
    BY <2>2, <2>3
<1>5. pax' = [p \in PaxIds |-> pax'[p]]
  BY <1>1 DEF Insert
<1> QED
  BY <1>1, <1>3, <1>4, <1>5, RewritingKeeps

(* The pax of a draft that is rewritten or deleted leave it for good.        *)
LEMMA GoneFromDraft ==
  ASSUME EInv, NEW b \in Bookings, orders[b].status # "absent", orders'[b].status # "absent",
         \A c \in Bookings \ {b} : orders'[c] = orders[c], NEW p \in PaxIds
  PROVE  PaxFine(Gone(pax[p], b), orders', Out(p))
<1>1. PaxFine(pax[p], orders, Out(p))
  BY DEF EInv, PaxInv
<1>2. CASE pax[p].booking = b
  <2>1. pax[p].status # "none"
    BY <1>1, <1>2, EquipmentAssumption DEF PaxFine, NoPax
  <2>2. PaxFine(Left(pax[p], "gone"), orders', Out(p))
    BY <1>1, <1>2, <2>1, FineWhenGone
  <2> QED
    BY <1>2, <2>2 DEF Gone, Left
<1>3. CASE pax[p].booking # b
  <2>1. BookingStays(pax[p], orders, orders')
    BY <1>3, OthersStay
  <2> QED
    BY <1>1, <1>3, <2>1, FineStays DEF Gone
<1> QED
  BY <1>2, <1>3

LEMMA DraftDeletedKeeps ==
  ASSUME EInv, NEW b \in Bookings, DraftDeleted(b)
  PROVE  EInv'
<1>1. /\ orders[b].status = "draft"
      /\ orders' = [orders EXCEPT ![b].status = "deleted"]
      /\ pax' = [p \in PaxIds |-> Gone(pax[p], b)]
      /\ UNCHANGED <<catalogue, stok, masuk, keluar, handing>>
  BY DEF DraftDeleted
<1>2. /\ orders' \in [Bookings -> OrderRow] /\ orders'[b].status = "deleted"
      /\ \A c \in Bookings : orders'[c].status # "absent" => orders'[c].schedule \in Schedules
      /\ \A c \in Bookings \ {b} : orders'[c] = orders[c]
  BY <1>1, StatusPlaced
<1>3. \A p \in PaxIds : PaxFine(pax'[p], orders', Out(p))
  BY <1>1, <1>2, GoneFromDraft
<1>4. pax' = [p \in PaxIds |-> pax'[p]]
  BY <1>1
<1> QED
  BY <1>1, <1>2, <1>3, <1>4, RewritingKeeps

LEMMA DraftRewrittenKeeps ==
  ASSUME EInv, NEW b \in Bookings, NEW s \in Schedules, NEW P \in SUBSET PaxIds,
         DraftRewritten(b, s, P)
  PROVE  EInv'
<1>1. /\ orders[b].status = "draft" /\ P \subseteq Unused
      /\ orders' = [orders EXCEPT ![b].schedule = s]
      /\ pax' = [p \in PaxIds |-> Gone(Insert(b, P)[p], IF p \in P THEN NULL ELSE b)]
      /\ UNCHANGED <<catalogue, stok, masuk, keluar, handing>>
  BY DEF DraftRewritten
<1>2. /\ orders' \in [Bookings -> OrderRow]
      /\ orders'[b].status = "draft" /\ orders'[b].schedule = s
      /\ \A c \in Bookings \ {b} : orders'[c] = orders[c]
  BY <1>1 DEF EInv, BookingsTyped, OrderRow
<1>3. \A c \in Bookings : orders'[c].status # "absent" => orders'[c].schedule \in Schedules
  BY <1>2 DEF EInv, BookingsTyped
<1>4. ASSUME NEW p \in PaxIds
      PROVE  PaxFine(pax'[p], orders', Out(p))
  <2>1. PaxFine(pax[p], orders, Out(p))
    BY DEF EInv, PaxInv
  <2>2. CASE p \in P
    <3> DEFINE new == NewPax(b)
    <3>1. pax[p].status = "none" /\ pax'[p] = Gone(new, NULL)
      BY <1>1, <2>2, InsertIs DEF Unused
    <3>2. new.booking = b
      BY DEF NoPax, NewPax
    <3> HIDE DEF new
    <3>3. Gone(new, NULL) = new
      BY <3>2, EquipmentAssumption DEF Gone
    <3>4. PaxFine(new, orders', Out(p))
      BY <1>2, <2>1, <3>1, FineWhenNew DEF new
    <3> QED
      BY <3>1, <3>3, <3>4
  <2>3. CASE p \notin P
    <3>1. pax'[p] = Gone(pax[p], b)
      BY <1>1, <2>3, InsertIs
    <3> QED
      BY <1>1, <1>2, <3>1, GoneFromDraft
  <2> QED
    BY <2>2, <2>3
<1>5. pax' = [p \in PaxIds |-> pax'[p]]
  BY <1>1
<1> QED
  BY <1>1, <1>2, <1>3, <1>4, <1>5, RewritingKeeps

(* A pax that leaves an unpaid booking brings back what it was given.        *)
LEMMA CancelPaxKeeps ==
  ASSUME EInv, NEW p \in PaxIds, CancelPax(p)
  PROVE  EInv'
<1>1. /\ pax[p].status = "aktif"
      /\ pax' = [pax EXCEPT ![p] = Left(pax[p], "batal")]
      /\ UNCHANGED <<catalogue, masuk, handing>>
  BY DEF CancelPax, Left
<1>2. /\ PaxFine(pax[p], orders, Out(p)) /\ pax[p] \in PaxRow
      /\ BrandOfPax(p) \in Brands
      /\ orders[pax[p].booking].status \notin {"absent", "deleted"}
      /\ orders \in [Bookings -> OrderRow]
  <2>1. PaxFine(pax[p], orders, Out(p)) /\ BrandOfPax(p) \in Brands /\ pax[p] \in PaxRow
    BY <1>1, FineBooking
  <2> QED
    BY <1>1, <2>1 DEF PaxFine, EInv, BookingsTyped
<1>3. PICK b \in Bookings : b = pax[p].booking
  BY <1>1, <1>2 DEF PaxFine
<1>4. PICK status \in {"draft", "baru", "paid", "batal"} :
        orders' = [orders EXCEPT ![b].status = status]
  <2>1. orders[b].status \in {"draft", "baru", "paid", "batal"}
    BY <1>2, <1>3 DEF OrderRow
  <2>2. orders' = [orders EXCEPT ![b].status = IF On(b) = {p} THEN "batal" ELSE @]
    BY <1>3 DEF CancelPax
  <2>3. CASE On(b) = {p}
    BY <2>2, <2>3
  <2>4. CASE On(b) # {p}
    BY <2>1, <2>2, <2>4
  <2> QED
    BY <2>3, <2>4
<1>5. /\ orders' \in [Bookings -> OrderRow]
      /\ orders'[b].status = status /\ orders'[b].schedule = orders[b].schedule
      /\ \A c \in Bookings : orders'[c].status # "absent" => orders'[c].schedule \in Schedules
      /\ \A c \in Bookings \ {b} : orders'[c] = orders[c]
  BY <1>2, <1>3, <1>4, StatusPlaced
<1>6. PICK br \in Brands : br = BrandOfPax(p)
  BY <1>2
<1>7. PICK goods \in [Items -> Nat] : goods = pax[p].logs
  BY <1>2 DEF PaxRow
<1>8. \A i \in Items : keluar[br][p][i] \in Nat /\ (goods[i] = 0 \/ keluar[br][p][i] = goods[i])
  <2>1. \A i \in Items : keluar[br][p][i] \in Nat
    BY DEF EInv, StockTyped
  <2>2. CASE ~pax[p].given
    BY <1>2, <1>7, <2>1, <2>2, NothingIsNone DEF PaxFine
  <2>3. CASE pax[p].given
    <3>1. Out(p) = OnlyOut(br, goods)
      BY <1>2, <1>6, <1>7, <2>3 DEF PaxFine, BrandOfPax, OrderOf
    <3>2. Out(p)[br] = keluar[br][p] /\ OnlyOut(br, goods)[br] = goods
      BY DEF Out, OnlyOut
    <3> QED
      BY <2>1, <3>1, <3>2
  <2> QED
    BY <2>2, <2>3
<1>9. PICK out \in [Items -> Int] :
        /\ ApplyBrandDelta(br, p, out)
        /\ \A i \in Items : out[i] = 0 \/ out[i] = 0 - goods[i]
  <2>1. Back(goods) \in [Items -> Int] /\ \A i \in Items : Back(goods)[i] = 0 - goods[i]
    <3>1. \A i \in Items : goods[i] \in Nat /\ 0 - goods[i] \in Int
      BY <1>7
    <3> QED
      BY <3>1 DEF Back
  <2>2. Nothing \in [Items -> Int] /\ \A i \in Items : Nothing[i] = 0
    BY NothingIsNone
  <2>3. ApplyBrandDelta(br, p, Back(goods)) \/ ApplyBrandDelta(br, p, Nothing)
    BY <1>6, <1>7 DEF CancelPax
  <2> QED
    BY <2>1, <2>2, <2>3
<1>10. \A i \in Items : keluar[br][p][i] + out[i] >= 0
  BY <1>7, <1>8, <1>9
<1>11. /\ StockTyped' /\ LedgerExplainsStock'
       /\ \A q \in PaxIds \ {p} : Out(q)' = Out(q)
  BY <1>1, <1>9, <1>10, DeltaBalances
<1>12. pax \in [PaxIds -> PaxRow]
  BY DEF EInv, BookingsTyped
<1>13. /\ pax'[p] = Left(pax[p], "batal")
       /\ \A q \in PaxIds \ {p} : pax'[q] = pax[q]
  BY <1>1, <1>12
<1>14. PaxFine(pax'[p], orders', Out(p)')
  BY <1>1, <1>2, <1>3, <1>5, <1>13, FineWhenGone
<1>15. BookingsTyped'
  <2>1. pax' \in [PaxIds -> PaxRow]
    BY <1>1, <1>12, <1>13, <1>14 DEF PaxFine
  <2> QED
    BY <1>1, <1>5, <2>1 DEF EInv, BookingsTyped
<1>16. \A q \in PaxIds : BookingStays(pax[q], orders, orders')
  <2>1. orders[b].status # "absent"
    BY <1>2, <1>3
  <2> QED
    BY <1>5, <2>1, OthersStay
<1> QED
  BY <1>1, <1>11, <1>13, <1>14, <1>15, <1>16, OnePaxKeeps

-----------------------------------------------------------------------------
LEMMA EquipmentStepKeeps ==
  ASSUME EInv, [EquipmentNext]_equipmentVars
  PROVE  EInv'
<1>1. CASE EquipmentNext
  <2>1. 0 .. MaxStock \subseteq Nat /\ 1 .. MaxStock \subseteq Nat
    BY EquipmentAssumption
  <2>2. ASSUME NEW i \in Items, NEW br \in Brands,
               \/ \E qty \in 1 .. MaxStock : Pembelian(br, i, qty)
               \/ \E baru \in 0 .. MaxStock : Koreksi(br, i, baru)
        PROVE  EInv'
    BY <2>1, <2>2, PembelianKeeps, KoreksiKeeps
  <2>3. ASSUME NEW i \in Items,
               \/ \E qty \in {0, 1} : CreateItem(i, qty) \/ UpdateItem(i, qty)
               \/ DeleteItemCheck(i) \/ DeleteItem(i) \/ DeleteItemFails(i)
        PROVE  EInv'
    BY <2>3, CreateItemKeeps, UpdateItemKeeps, DeletingKeeps, DeleteItemKeeps
  <2>4. ASSUME NEW S \in Sets, UpdateSetTemplate(S) \/ PutCategorySet(S)
        PROVE  EInv'
    BY <2>4, TemplateSetsKeep
  <2>5. ASSUME NEW S \in Sets, NEW s \in Schedules, NEW custom \in BOOLEAN,
               PutScheduleSet(s, custom, S)
        PROVE  EInv'
    BY <2>5, PutScheduleSetKeeps
  <2>6. ASSUME NEW p \in PaxIds,
               \/ BatalkanPerlengkapan(p) \/ CancelPax(p)
               \/ \E a \in Admins : MarkBegin(a, p)
        PROVE  EInv'
    BY <2>6, BatalkanKeeps, CancelPaxKeeps, MarkBeginKeeps
  <2>7. ASSUME NEW a \in Admins, MarkCommit(a) \/ MarkFails(a)
        PROVE  EInv'
    BY <2>7, MarkCommitKeeps, MarkFailsKeeps
  <2>8. ASSUME NEW b \in Bookings, NEW s \in Schedules, NEW P \in (SUBSET PaxIds) \ {{}},
               \/ \E status \in {"draft", "baru"} : BookingMade(b, s, status, P)
               \/ DraftRewritten(b, s, P)
        PROVE  EInv'
    BY <2>8, BookingMadeKeeps, DraftRewrittenKeeps
  <2>9. ASSUME NEW b \in Bookings,
               \/ DraftDeleted(b)
               \/ \E status \in {"baru", "paid"} : StatusMoves(b, status)
               \/ \E blocked \in BOOLEAN : BookingCancelled(b, blocked)
        PROVE  EInv'
    BY <2>9, DraftDeletedKeeps, StatusMovesKeeps, BookingCancelledKeeps
  <2> QED
    BY <1>1, <2>2, <2>3, <2>4, <2>5, <2>6, <2>7, <2>8, <2>9 DEF EquipmentNext
<1>2. CASE UNCHANGED equipmentVars
  <2>1. StockUnchanged /\ BookingsUnchanged /\ CatalogueTyped'
    BY <1>2 DEF equipmentVars, catalogue, StockUnchanged, BookingsUnchanged, EInv,
      CatalogueTyped, Listed
  <2> QED
    BY <2>1, CatalogueKeeps
<1> QED
  BY <1>1, <1>2

(* The whole invariant holds in every reachable state.                       *)
THEOREM EquipmentStaysFine == EquipmentSpec => []EInv
<1> QED
  BY EInvBegins, EquipmentStepKeeps, PTL DEF EquipmentSpec

(* Whatever admins buy, count, hand out, take back and delete at once: no    *)
(* stock is negative, every stock is what its ledger adds up to, and the log *)
(* of a supplied pax is what the stock of its brand is missing for it.       *)
THEOREM EquipmentAlwaysAddsUp == EquipmentSpec => []EquipmentInvariant
<1> QED
  BY EquipmentStaysFine, EInvSays, PTL

-----------------------------------------------------------------------------
(* What one step does to one pax *)

Same(p) == pax'[p].logs = pax[p].logs /\ Out(p)' = Out(p)

ItemDeleted(p, i) ==
  /\ pax'[p].logs = pax[p].logs /\ pax[p].logs[i] = 0
  /\ \A br \in Brands : keluar'[br][p] = Without(keluar[br][p], i)

Supplied(p, a, br) ==
  /\ handing[a].pax = p
  /\ pax[p].status = "aktif" /\ ~pax[p].given
  /\ pax'[p].logs = Share(p, handing[a].rows)
  /\ \A i \in Items : pax'[p].logs[i] > 0 => i \in Listed
  /\ Out(p)' = OnlyOut(br, pax'[p].logs)

BroughtBack(p) ==
  pax[p].given /\ pax'[p].logs = Nothing /\ Out(p)' = NothingOut

WrittenOff(p) ==
  /\ pax'[p].logs = Nothing /\ Out(p)' = Out(p)
  /\ \/ OrderOf(p).status \in {"paid", "batal"} /\ pax'[p].status = "batal"
     \/ OrderOf(p).status = "draft" /\ pax'[p].status = "gone"

(* What may become of the log of a pax, and of what is out for it, at once.  *)
Moves(p) ==
  \/ Same(p)
  \/ \E i \in Items : ItemDeleted(p, i)
  \/ \E a \in Admins, br \in Brands : Supplied(p, a, br)
  \/ BroughtBack(p) \/ WrittenOff(p)

LEMMA StaysSame ==
  ASSUME UNCHANGED <<pax, keluar>>, NEW p \in PaxIds
  PROVE  Moves(p)
BY DEF Moves, Same, Out

LEMMA DeleteItemMoves ==
  ASSUME EInv, NEW i \in Items, DeleteItem(i), NEW p \in PaxIds
  PROVE  Moves(p)
<1>1. PaxFine(pax[p], orders, Out(p))
  BY DEF EInv, PaxInv
<1>2. pax[p].logs \in [Items -> Nat] /\ ~(pax[p].logs[i] > 0) /\ pax' = pax
  BY <1>1 DEF PaxFine, PaxRow, DeleteItem, Referenced
<1>3. pax[p].logs[i] = 0
  BY <1>2
<1>4. \A br \in Brands : keluar'[br][p] = Without(keluar[br][p], i)
  BY DEF DeleteItem
<1> QED
  BY <1>2, <1>3, <1>4 DEF Moves, ItemDeleted

LEMMA MarkCommitMoves ==
  ASSUME EInv, NEW a \in Admins, MarkCommit(a), NEW q \in PaxIds
  PROVE  Moves(q)
<1>1. PICK p \in PaxIds : p = handing[a].pax
  BY DEF MarkCommit, EInv, BookingsTyped, Request
<1>2. PICK share \in [Items -> Nat] : share = Share(p, handing[a].rows)
  BY <1>1, ShareIsGoods DEF EInv, BookingsTyped, Request
<1>3. /\ pax[p].status = "aktif" /\ ~pax[p].given
      /\ ApplyBrandDelta(BrandOfPax(p), p, share)
      /\ pax' = [pax EXCEPT ![p].given = TRUE,
                            ![p].logs = [i \in Items |-> @[i] + share[i]]]
      /\ UNCHANGED <<catalogue, masuk, orders>>
      /\ {i \in Items : share[i] > 0} \subseteq Listed
  BY <1>1, <1>2 DEF MarkCommit, Entitled
<1>4. /\ PaxFine(pax[p], orders, Out(p)) /\ BrandOfPax(p) \in Brands
      /\ pax \in [PaxIds -> PaxRow] /\ keluar \in [Brands -> [PaxIds -> [Items -> Nat]]]
  BY <1>3, FineBooking DEF EInv, BookingsTyped, StockTyped
<1>5. PICK br \in Brands : br = BrandOfPax(p)
  BY <1>4
<1>6. pax[p].logs = Nothing /\ \A c \in Brands : keluar[c][p] = Nothing
  BY <1>3, <1>4 DEF PaxFine, Out, NothingOut
<1>7. [i \in Items |-> Nothing[i] + share[i]] = share
  BY NothingIsNone
<1>8. pax'[p].logs = share /\ \A r \in PaxIds \ {p} : pax'[r] = pax[r]
  <2>1. pax' = [pax EXCEPT ![p].given = TRUE, ![p].logs = share]
    BY <1>3, <1>6, <1>7
  <2> QED
    BY <1>4, <2>1 DEF PaxRow
<1>9. keluar' = [keluar EXCEPT ![br][p] = share]
  BY <1>3, <1>4, <1>5, <1>6, <1>7 DEF ApplyBrandDelta
<1>10. CASE q = p
  <2>1. \A c \in Brands : keluar'[c][p] = IF c = br THEN share ELSE Nothing
    BY <1>4, <1>6, <1>9
  <2>2. Out(p)' = OnlyOut(br, share)
    BY <2>1 DEF Out, OnlyOut
  <2>3. \A i \in Items : pax'[p].logs[i] > 0 => i \in Listed
    BY <1>3, <1>8
  <2> QED
    BY <1>1, <1>2, <1>3, <1>8, <1>10, <2>2, <2>3 DEF Moves, Supplied
<1>11. CASE q # p
  <2>1. \A c \in Brands : keluar'[c][q] = keluar[c][q]
    BY <1>4, <1>9, <1>11
  <2> QED
    BY <1>8, <1>11, <2>1 DEF Moves, Same, Out
<1> QED
  BY <1>10, <1>11

(* What was given to p comes back to the stock of its brand. *)
LEMMA ReturnsMove ==
  ASSUME EInv, NEW p \in PaxIds, pax[p].status # "none", pax[p].given,
         ApplyBrandDelta(BrandOfPax(p), p, Back(pax[p].logs))
  PROVE  Out(p)' = NothingOut
<1>1. /\ PaxFine(pax[p], orders, Out(p)) /\ pax[p] \in PaxRow
      /\ BrandOfPax(p) \in Brands /\ keluar \in [Brands -> [PaxIds -> [Items -> Nat]]]
  BY FineBooking DEF EInv, StockTyped
<1>2. PICK br \in Brands : br = BrandOfPax(p)
  BY <1>1
<1>3. PICK goods \in [Items -> Nat] : goods = pax[p].logs
  BY <1>1 DEF PaxRow
<1>4. \A c \in Brands : keluar[c][p] = IF c = br THEN goods ELSE Nothing
  <2>1. Out(p) = OnlyOut(br, goods)
    BY <1>1, <1>2, <1>3 DEF PaxFine, BrandOfPax, OrderOf
  <2>2. \A c \in Brands : Out(p)[c] = keluar[c][p]
    BY DEF Out
  <2>3. \A c \in Brands : OnlyOut(br, goods)[c] = IF c = br THEN goods ELSE Nothing
    BY DEF OnlyOut
  <2> QED
    BY <2>1, <2>2, <2>3
<1>5. keluar' = [keluar EXCEPT ![br][p] = [i \in Items |-> keluar[br][p][i] + Back(goods)[i]]]
  BY <1>2, <1>3 DEF ApplyBrandDelta
<1>6. [i \in Items |-> keluar[br][p][i] + Back(goods)[i]] = Nothing
  <2>1. \A i \in Items : goods[i] \in Nat /\ Back(goods)[i] = 0 - goods[i]
    BY <1>3 DEF Back
  <2>2. \A i \in Items : keluar[br][p][i] + Back(goods)[i] = 0
    BY <1>4, <2>1
  <2> QED
    BY <2>2 DEF Nothing
<1>7. \A c \in Brands : keluar'[c][p] = Nothing
  BY <1>1, <1>4, <1>5, <1>6
<1> QED
  BY <1>7 DEF Out, NothingOut

LEMMA DeltaSparesOthers ==
  ASSUME EInv, NEW p \in PaxIds, NEW br \in Brands, NEW out, ApplyBrandDelta(br, p, out),
         NEW q \in PaxIds \ {p}
  PROVE  Out(q)' = Out(q)
<1>1. keluar \in [Brands -> [PaxIds -> [Items -> Nat]]]
  BY DEF EInv, StockTyped
<1>2. PICK goods : keluar' = [keluar EXCEPT ![br][p] = goods]
  BY DEF ApplyBrandDelta
<1>3. \A c \in Brands : keluar'[c][q] = keluar[c][q]
  BY <1>1, <1>2
<1> QED
  BY <1>3 DEF Out

LEMMA BatalkanMoves ==
  ASSUME EInv, NEW p \in PaxIds, BatalkanPerlengkapan(p), NEW q \in PaxIds
  PROVE  Moves(q)
<1>1. /\ pax[p].given /\ pax[p].status # "none"
      /\ pax' = [pax EXCEPT ![p] = TakenBack(pax[p])]
      /\ ApplyBrandDelta(BrandOfPax(p), p, Back(pax[p].logs))
  BY DEF BatalkanPerlengkapan, EInv, PaxInv, PaxFine
<1>2. pax \in [PaxIds -> PaxRow] /\ BrandOfPax(p) \in Brands
  BY <1>1, FineBooking DEF EInv, BookingsTyped
<1>3. CASE q = p
  <2>1. pax'[p].logs = Nothing
    BY <1>1, <1>2, RowIs DEF Reads
  <2> QED
    BY <1>1, <1>3, <2>1, ReturnsMove DEF Moves, BroughtBack
<1>4. CASE q # p
  BY <1>1, <1>2, <1>4, DeltaSparesOthers DEF Moves, Same
<1> QED
  BY <1>3, <1>4

LEMMA CancelPaxMoves ==
  ASSUME EInv, NEW p \in PaxIds, CancelPax(p), NEW q \in PaxIds
  PROVE  Moves(q)
<1> DEFINE unpaid == OrderOf(p).status \in {"draft", "baru"}
<1>1. /\ pax[p].status = "aktif"
      /\ pax' = [pax EXCEPT ![p] = Left(pax[p], "batal")]
      /\ ApplyBrandDelta(BrandOfPax(p), p, IF unpaid THEN Back(pax[p].logs) ELSE Nothing)
  BY DEF CancelPax, OrderOf, Left
<1>2. /\ PaxFine(pax[p], orders, Out(p)) /\ pax \in [PaxIds -> PaxRow]
      /\ BrandOfPax(p) \in Brands /\ pax[p].booking \in Bookings
      /\ OrderOf(p).status \in {"draft", "baru", "paid", "batal"}
  <2>1. /\ PaxFine(pax[p], orders, Out(p)) /\ pax \in [PaxIds -> PaxRow]
        /\ BrandOfPax(p) \in Brands /\ pax[p].booking \in Bookings
        /\ orders[pax[p].booking] \in OrderRow /\ orders[pax[p].booking].status # "absent"
    BY <1>1, FineBooking DEF EInv, BookingsTyped
  <2>2. orders[pax[p].booking].status # "deleted"
    BY <1>1, <2>1 DEF PaxFine
  <2> QED
    BY <2>1, <2>2 DEF OrderOf, OrderRow
<1>3. ASSUME q = p
      PROVE  Moves(p)
  <2>1. pax'[p].logs = Nothing /\ pax'[p].status = "batal"
    BY <1>1, <1>2, RowIs DEF Reads, Left
  <2>2. CASE unpaid /\ pax[p].given
    <3>1. ApplyBrandDelta(BrandOfPax(p), p, Back(pax[p].logs)) /\ pax[p].status # "none"
      BY <1>1, <2>2
    <3>2. Out(p)' = NothingOut
      BY <2>2, <3>1, ReturnsMove
    <3> QED
      BY <2>1, <2>2, <3>2 DEF Moves, BroughtBack
  <2>3. ASSUME ApplyBrandDelta(BrandOfPax(p), p, Nothing)
        PROVE  Out(p)' = Out(p)
    <3>1. PICK br \in Brands : br = BrandOfPax(p)
      BY <1>2
    <3>2. keluar \in [Brands -> [PaxIds -> [Items -> Nat]]]
      BY DEF EInv, StockTyped
    <3>3. [i \in Items |-> keluar[br][p][i] + Nothing[i]] = keluar[br][p]
      <4>1. \A i \in Items : keluar[br][p][i] + Nothing[i] = keluar[br][p][i]
        BY <3>2, NothingIsNone
      <4> QED
        BY <3>2, <4>1
    <3>4. keluar' = [keluar EXCEPT ![br][p] = keluar[br][p]]
      BY <2>3, <3>1, <3>3 DEF ApplyBrandDelta
    <3>5. \A c \in Brands : keluar'[c][p] = keluar[c][p]
      BY <3>2, <3>4
    <3> QED
      BY <3>5 DEF Out
  <2>4. CASE unpaid /\ ~pax[p].given
    <3>1. pax[p].logs = Nothing
      BY <1>2, <2>4 DEF PaxFine
    <3>2. Back(Nothing) = Nothing
      <4>1. \A i \in Items : 0 - Nothing[i] = 0
        BY NothingIsNone
      <4> QED
        BY <4>1 DEF Back, Nothing
    <3>3. ApplyBrandDelta(BrandOfPax(p), p, Nothing)
      BY <1>1, <2>4, <3>1, <3>2
    <3> QED
      BY <2>1, <2>3, <3>1, <3>3 DEF Moves, Same
  <2>5. CASE ~unpaid
    <3>1. OrderOf(p).status \in {"paid", "batal"}
      BY <1>2, <2>5
    <3>2. ApplyBrandDelta(BrandOfPax(p), p, Nothing)
      BY <1>1, <2>5
    <3> QED
      BY <2>1, <2>3, <3>1, <3>2 DEF Moves, WrittenOff
  <2> QED
    BY <2>2, <2>4, <2>5
<1>4. ASSUME q # p
      PROVE  Moves(q)
  <2>1. pax'[q] = pax[q]
    BY <1>1, <1>2, <1>4
  <2>2. Out(q)' = Out(q)
    BY <1>1, <1>2, <1>4, DeltaSparesOthers
  <2> QED
    BY <2>1, <2>2 DEF Moves, Same
<1> QED
  BY <1>3, <1>4

(* A pax that joins a booking has nothing yet; those of a cancelled booking  *)
(* keep what they have.                                                      *)
LEMMA BookingMadeMoves ==
  ASSUME EInv, NEW b \in Bookings, NEW s, NEW status, NEW P \in SUBSET PaxIds,
         BookingMade(b, s, status, P), NEW p \in PaxIds
  PROVE  Moves(p)
<1>1. P \subseteq Unused /\ pax' = Insert(b, P) /\ UNCHANGED keluar
  BY DEF BookingMade
<1>2. pax[p].status = "none" => pax[p].logs = Nothing
  BY DEF EInv, PaxInv, PaxFine, NoPax
<1>3. NewPax(b).logs = Nothing
  BY DEF NewPax, NoPax
<1>4. pax'[p].logs = pax[p].logs
  BY <1>1, <1>2, <1>3, InsertIs DEF Unused
<1> QED
  BY <1>1, <1>4 DEF Moves, Same, Out

LEMMA BookingCancelledMoves ==
  ASSUME EInv, NEW b \in Bookings, NEW blocked \in BOOLEAN, BookingCancelled(b, blocked),
         NEW p \in PaxIds
  PROVE  Moves(p)
<1>1. /\ pax' = [q \in PaxIds |-> IF blocked /\ q \in On(b) THEN [pax[q] EXCEPT !.status = "batal"]
                                  ELSE pax[q]]
      /\ UNCHANGED keluar
  BY DEF BookingCancelled
<1>2. pax[p] \in PaxRow
  BY DEF EInv, BookingsTyped
<1>3. [pax[p] EXCEPT !.status = "batal"].logs = pax[p].logs
  BY <1>2, RowIs DEF Reads
<1>4. pax'[p].logs = pax[p].logs
  BY <1>1, <1>3
<1> QED
  BY <1>1, <1>4 DEF Moves, Same, Out

(* Rewriting or deleting a draft writes off what its pax were given.         *)
LEMMA GoneMoves ==
  ASSUME EInv, NEW b \in Bookings, orders[b].status = "draft", NEW p \in PaxIds,
         pax'[p] = Gone(pax[p], b), UNCHANGED keluar
  PROVE  Moves(p)
<1>1. Out(p)' = Out(p) /\ pax[p] \in PaxRow
  BY DEF Out, EInv, BookingsTyped
<1>2. CASE pax[p].booking = b
  <2>1. pax'[p].logs = Nothing /\ pax'[p].status = "gone"
    <3>1. pax'[p] = Left(pax[p], "gone")
      BY <1>2 DEF Gone, Left
    <3>2. Reads(Left(pax[p], "gone"), pax[p].booking, "gone", FALSE, Nothing)
      BY <1>1, LeftReads
    <3>3. Reads(pax'[p], pax[p].booking, "gone", FALSE, Nothing)
      BY <3>1, <3>2
    <3> QED
      BY <3>3 DEF Reads
  <2>2. OrderOf(p).status = "draft"
    BY <1>2 DEF OrderOf
  <2> QED
    BY <1>1, <2>1, <2>2 DEF Moves, WrittenOff
<1>3. CASE pax[p].booking # b
  BY <1>1, <1>3 DEF Gone, Moves, Same
<1> QED
  BY <1>2, <1>3

LEMMA DraftRewrittenMoves ==
  ASSUME EInv, NEW b \in Bookings, NEW s, NEW P \in SUBSET PaxIds,
         DraftRewritten(b, s, P), NEW p \in PaxIds
  PROVE  Moves(p)
<1>1. /\ orders[b].status = "draft" /\ P \subseteq Unused /\ UNCHANGED keluar
      /\ pax' = [q \in PaxIds |-> Gone(Insert(b, P)[q], IF q \in P THEN NULL ELSE b)]
  BY DEF DraftRewritten
<1>2. CASE p \in P
  <2>1. pax'[p] = Gone(NewPax(b), NULL)
    BY <1>1, <1>2, InsertIs
  <2>2. NewPax(b).booking = b /\ NewPax(b).logs = Nothing
    BY DEF NewPax, NoPax
  <2>3. pax'[p].logs = Nothing
    BY <2>1, <2>2, EquipmentAssumption DEF Gone
  <2>4. pax[p].logs = Nothing
    BY <1>1, <1>2 DEF Unused, EInv, PaxInv, PaxFine, NoPax
  <2> QED
    BY <1>1, <2>3, <2>4 DEF Moves, Same, Out
<1>3. CASE p \notin P
  <2>1. pax'[p] = Gone(pax[p], b)
    BY <1>1, <1>3, InsertIs
  <2> QED
    BY <1>1, <2>1, GoneMoves
<1> QED
  BY <1>2, <1>3

LEMMA EachPaxMoves ==
  ASSUME EInv, [EquipmentNext]_equipmentVars, NEW p \in PaxIds
  PROVE  Moves(p)
<1>1. ASSUME NEW i \in Items, NEW br \in Brands,
             \/ \E qty \in 1 .. MaxStock : Pembelian(br, i, qty)
             \/ \E baru \in 0 .. MaxStock : Koreksi(br, i, baru)
      PROVE  UNCHANGED <<pax, keluar>>
  BY <1>1 DEF Pembelian, Koreksi
<1>2. ASSUME NEW i \in Items,
             \/ \E qty \in {0, 1} : CreateItem(i, qty) \/ UpdateItem(i, qty)
             \/ DeleteItemCheck(i) \/ DeleteItemFails(i)
      PROVE  UNCHANGED <<pax, keluar>>
  BY <1>2 DEF CreateItem, UpdateItem, DeleteItemCheck, DeleteItemFails, StockUnchanged
<1>3. ASSUME NEW S \in Sets,
             \/ UpdateSetTemplate(S) \/ PutCategorySet(S)
             \/ \E s \in Schedules, custom \in BOOLEAN : PutScheduleSet(s, custom, S)
      PROVE  UNCHANGED <<pax, keluar>>
  BY <1>3 DEF UpdateSetTemplate, PutCategorySet, PutScheduleSet, StockUnchanged
<1>4. ASSUME NEW a \in Admins, MarkFails(a) \/ \E q \in PaxIds : MarkBegin(a, q)
      PROVE  UNCHANGED <<pax, keluar>>
  BY <1>4 DEF MarkFails, MarkBegin, StockUnchanged
<1>5. ASSUME NEW b \in Bookings, \E status \in {"baru", "paid"} : StatusMoves(b, status)
      PROVE  UNCHANGED <<pax, keluar>>
  BY <1>5 DEF StatusMoves, StockUnchanged
<1>6. ASSUME NEW b \in Bookings,
             \/ \E s \in Schedules, P \in (SUBSET PaxIds) \ {{}} :
                  \/ \E status \in {"draft", "baru"} : BookingMade(b, s, status, P)
                  \/ DraftRewritten(b, s, P)
             \/ \E blocked \in BOOLEAN : BookingCancelled(b, blocked)
      PROVE  Moves(p)
  BY <1>6, BookingMadeMoves, DraftRewrittenMoves, BookingCancelledMoves
<1>7. ASSUME NEW b \in Bookings, DraftDeleted(b)
      PROVE  Moves(p)
  BY <1>7, GoneMoves DEF DraftDeleted
<1>8. CASE EquipmentNext
  BY <1>1, <1>2, <1>3, <1>4, <1>5, <1>6, <1>7, <1>8, StaysSame, DeleteItemMoves,
     MarkCommitMoves, BatalkanMoves, CancelPaxMoves DEF EquipmentNext
<1>9. CASE UNCHANGED equipmentVars
  BY <1>9, StaysSame DEF equipmentVars
<1> QED
  BY <1>8, <1>9

-----------------------------------------------------------------------------
(* A pax is supplied once, while it travels, with what a request found in    *)
(* the set for its sex, however the requests of several admins interleave.   *)
THEOREM SuppliedOnce == EquipmentSpec => SuppliedOnceAsEntitled
<1>1. ASSUME EInv, [EquipmentNext]_equipmentVars, NEW p \in PaxIds,
             \E i \in Items : pax'[p].logs[i] > pax[p].logs[i]
      PROVE  /\ pax[p].status = "aktif" /\ ~pax[p].given
             /\ \E a \in Admins :
                  /\ handing[a].pax = p
                  /\ \A i \in Items : pax'[p].logs[i] > 0 =>
                       \E row \in handing[a].rows : row.item = i /\ Fits(p, row.untuk)
  <2>1. Moves(p)
    BY <1>1, EachPaxMoves
  <2>2. pax[p].logs \in [Items -> Nat]
    BY <1>1 DEF EInv, BookingsTyped, PaxRow
  <2>3. ~(pax'[p].logs = pax[p].logs \/ pax'[p].logs = Nothing)
    BY <1>1, <2>2, NothingIsNone
  <2>4. PICK a \in Admins, br \in Brands : Supplied(p, a, br)
    BY <2>1, <2>3 DEF Moves, Same, ItemDeleted, BroughtBack, WrittenOff
  <2>5. ASSUME NEW i \in Items, Share(p, handing[a].rows)[i] > 0
        PROVE  \E row \in handing[a].rows : row.item = i /\ Fits(p, row.untuk)
    <3>1. Share(p, handing[a].rows)[i] =
            IF \E row \in handing[a].rows : row.item = i /\ Fits(p, row.untuk)
            THEN (CHOOSE row \in handing[a].rows : row.item = i).qty ELSE 0
      BY DEF Share
    <3> QED
      BY <2>5, <3>1
  <2> QED
    BY <2>4, <2>5 DEF Supplied
<1>2. EInv /\ [EquipmentNext]_equipmentVars =>
        [\A p \in PaxIds : (\E i \in Items : pax'[p].logs[i] > pax[p].logs[i]) =>
           /\ pax[p].status = "aktif" /\ ~pax[p].given
           /\ \E a \in Admins :
                /\ handing[a].pax = p
                /\ \A i \in Items : pax'[p].logs[i] > 0 =>
                     \E row \in handing[a].rows : row.item = i /\ Fits(p, row.untuk)]_equipmentVars
  BY <1>1
<1> QED
  BY <1>2, EquipmentStaysFine, PTL DEF EquipmentSpec, SuppliedOnceAsEntitled

(* What left the stock of one brand only, added up over all brands.          *)
LEMMA SumOfOnly ==
  ASSUME NEW br \in Brands, NEW goods \in [Items -> Nat], NEW i \in Items
  PROVE  SumFunctionOnSet([c \in Brands |-> OnlyOut(br, goods)[c][i]], Brands) = goods[i]
<1> DEFINE f == [c \in Brands |-> 0]
           g == [c \in Brands |-> OnlyOut(br, goods)[c][i]]
<1>1. SumFunctionOnSet(f, Brands) = 0
  BY SumOfZeros, EquipmentAssumption
<1>2. \A c \in Brands : f[c] = 0 /\ f[c] \in Int
  OBVIOUS
<1>3. goods[i] \in Int
  OBVIOUS
<1>4. \A c \in Brands : g[c] = IF c = br THEN goods[i] ELSE 0
  BY NothingIsNone DEF OnlyOut
<1> HIDE DEF f, g
<1>5. g[br] = f[br] + goods[i] /\ \A c \in Brands \ {br} : g[c] = f[c]
  BY <1>2, <1>3, <1>4
<1>6. SumFunctionOnSet(g, Brands) = SumFunctionOnSet(f, Brands) + goods[i]
  BY <1>2, <1>3, <1>5, SumUpdate, EquipmentAssumption
<1>7. SumFunctionOnSet(g, Brands) = goods[i]
  BY <1>1, <1>3, <1>6
<1> QED
  BY <1>7 DEF g

LEMMA SumOfNoneOut ==
  ASSUME NEW i \in Items
  PROVE  SumFunctionOnSet([c \in Brands |-> NothingOut[c][i]], Brands) = 0
<1>1. \A c \in Brands : [d \in Brands |-> NothingOut[d][i]][c] = 0
  BY NothingIsNone DEF NothingOut
<1> QED
  BY <1>1, SumOfZeros, EquipmentAssumption

LEMMA OutSums ==
  ASSUME NEW p \in PaxIds, NEW i \in Items
  PROVE  /\ Unreturned(p, i) =
              SumFunctionOnSet([br \in Brands |-> Out(p)[br][i]], Brands) - pax[p].logs[i]
         /\ Unreturned(p, i)' =
              SumFunctionOnSet([br \in Brands |-> Out(p)'[br][i]], Brands) - pax'[p].logs[i]
<1>1. [br \in Brands |-> Out(p)[br][i]] = [br \in Brands |-> keluar[br][p][i]]
  BY DEF Out
<1>2. [br \in Brands |-> Out(p)'[br][i]] = [br \in Brands |-> keluar'[br][p][i]]
  BY DEF Out
<1> QED
  BY <1>1, <1>2 DEF Unreturned

(* Equipment drops out of the books only with a pax that leaves a booking    *)
(* somebody paid for or that is already cancelled, or when a draft is        *)
(* rewritten or deleted.                                                     *)
THEOREM WriteOffsExplained == EquipmentSpec => WriteOffsAreExplained
<1>1. ASSUME EInv, [EquipmentNext]_equipmentVars, NEW p \in PaxIds, NEW i \in Items,
             Unreturned(p, i)' > Unreturned(p, i)
      PROVE  \/ OrderOf(p).status \in {"paid", "batal"} /\ pax'[p].status = "batal"
             \/ OrderOf(p).status = "draft" /\ pax'[p].status = "gone"
  <2>1. Moves(p)
    BY <1>1, EachPaxMoves
  <2>2. /\ keluar \in [Brands -> [PaxIds -> [Items -> Nat]]]
        /\ PaxFine(pax[p], orders, Out(p)) /\ pax[p] \in PaxRow
    BY <1>1 DEF EInv, StockTyped, PaxInv, BookingsTyped
  <2>3. pax[p].logs \in [Items -> Nat] /\ pax[p].logs[i] \in Nat
    BY <2>2 DEF PaxRow
  <2> DEFINE before == SumFunctionOnSet([br \in Brands |-> Out(p)[br][i]], Brands)
             after == SumFunctionOnSet([br \in Brands |-> Out(p)'[br][i]], Brands)
  <2>4. before \in Nat
    <3>1. \A br \in Brands : [c \in Brands |-> Out(p)[c][i]][br] \in Nat
      BY <2>2 DEF Out
    <3> QED
      BY <3>1, SumIsNat, EquipmentAssumption
  <2>5. /\ Unreturned(p, i) = before - pax[p].logs[i]
        /\ Unreturned(p, i)' = after - pax'[p].logs[i]
    BY OutSums
  <2>6. CASE Same(p)
    <3>1. after = before /\ pax'[p].logs[i] = pax[p].logs[i]
      BY <2>6 DEF Same
    <3> HIDE DEF before, after
    <3> QED
      BY <1>1, <2>3, <2>4, <2>5, <3>1
  <2>7. ASSUME NEW j \in Items, ItemDeleted(p, j)
        PROVE  FALSE
    <3>3. ASSUME NEW br \in Brands
          PROVE  Out(p)'[br][i] = IF j = i THEN 0 ELSE Out(p)[br][i]
      <4>1. PICK goods \in [Items -> Nat] : goods = keluar[br][p]
        BY <2>2
      <4>2. Out(p)'[br] = Without(goods, j) /\ Out(p)[br] = goods
        BY <2>7, <4>1 DEF ItemDeleted, Out
      <4>3. Without(goods, j)[i] = IF j = i THEN 0 ELSE goods[i]
        BY DEF Without
      <4> QED
        BY <4>2, <4>3
    <3>1. CASE j = i
      <4>1. \A br \in Brands : [c \in Brands |-> Out(p)'[c][i]][br] = 0
        BY <3>1, <3>3
      <4>2. after = 0
        BY <4>1, SumOfZeros, EquipmentAssumption
      <4>3. pax[p].logs[i] = 0 /\ pax'[p].logs[i] = 0
        BY <2>7, <3>1 DEF ItemDeleted
      <4> HIDE DEF before, after
      <4> QED
        BY <1>1, <2>4, <2>5, <4>2, <4>3
    <3>2. CASE j # i
      <4>1. \A br \in Brands : Out(p)'[br][i] = Out(p)[br][i]
        BY <3>2, <3>3
      <4>2. after = before
        BY <4>1
      <4>3. pax'[p].logs[i] = pax[p].logs[i]
        BY <2>7 DEF ItemDeleted
      <4> HIDE DEF before, after
      <4> QED
        BY <1>1, <2>3, <2>4, <2>5, <4>2, <4>3
    <3> QED
      BY <3>1, <3>2
  <2>8. ASSUME NEW a \in Admins, NEW br \in Brands, Supplied(p, a, br)
        PROVE  FALSE
    <3>1. handing[a].rows \in SUBSET Rows
      BY <1>1 DEF EInv, BookingsTyped, Request
    <3>2. PICK goods \in [Items -> Nat] : goods = pax'[p].logs
      BY <2>8, <3>1, ShareIsGoods DEF Supplied
    <3>3. after = goods[i]
      BY <2>8, <3>2, SumOfOnly DEF Supplied
    <3>4. Out(p) = NothingOut /\ pax[p].logs = Nothing
      BY <2>2, <2>8 DEF Supplied, PaxFine
    <3>5. before = 0 /\ pax[p].logs[i] = 0
      BY <3>4, SumOfNoneOut, NothingIsNone
    <3>6. goods[i] \in Nat /\ pax'[p].logs[i] = goods[i]
      BY <3>2
    <3> HIDE DEF before, after
    <3> QED
      BY <1>1, <2>5, <3>3, <3>5, <3>6
  <2>9. ASSUME BroughtBack(p)
        PROVE  FALSE
    <3>1. after = 0 /\ pax'[p].logs[i] = 0
      BY <2>9, SumOfNoneOut, NothingIsNone DEF BroughtBack
    <3>2. Out(p) = OnlyOut(BrandOfPax(p), pax[p].logs) /\ BrandOfPax(p) \in Brands
      <4>1. pax[p].given /\ pax[p].status # "none"
        BY <2>2, <2>9 DEF BroughtBack, PaxFine
      <4>2. BrandOfPax(p) \in Brands
        BY <1>1, <4>1, FineBooking
      <4> QED
        BY <2>2, <4>1, <4>2 DEF PaxFine, BrandOfPax, OrderOf
    <3>3. before = pax[p].logs[i]
      BY <2>3, <3>2, SumOfOnly
    <3> HIDE DEF before, after
    <3> QED
      BY <1>1, <2>3, <2>5, <3>1, <3>3
  <2>10. CASE WrittenOff(p)
    BY <2>10 DEF WrittenOff
  <2> QED
    BY <2>1, <2>6, <2>7, <2>8, <2>9, <2>10 DEF Moves
<1>2. EInv /\ [EquipmentNext]_equipmentVars =>
        [\/ UNCHANGED <<pax, keluar>>
         \/ \A p \in PaxIds, i \in Items : Unreturned(p, i)' > Unreturned(p, i) =>
              \/ OrderOf(p).status \in {"paid", "batal"} /\ pax'[p].status = "batal"
              \/ OrderOf(p).status = "draft" /\ pax'[p].status = "gone"]_equipmentVars
  BY <1>1
<1> QED
  BY <1>2, EquipmentStaysFine, PTL DEF EquipmentSpec, WriteOffsAreExplained

-----------------------------------------------------------------------------
(* What is left of an item that is not listed *)

(* No set that hands an item out can name it after it is gone.               *)
NotInSets(i) ==
  /\ i \notin ItemsOf(template) \cup ItemsOf(kategori)
  /\ \A s \in Schedules : i \notin ItemsOf(paket[s].rows)

NotOut(i) == \A p \in PaxIds : pax[p].logs[i] = 0 /\ \A br \in Brands : keluar[br][p][i] = 0

NotCounted(i) == \A br \in Brands : masuk[br][i] = 0

(* Stock needs no clause of its own: the ledger explains it.                 *)
LEMMA ForgottenIs ==
  ASSUME EInv, NEW i \in Items
  PROVE  Forgotten(i) <=> NotInSets(i) /\ NotOut(i) /\ NotCounted(i)
<1>1. ASSUME NotOut(i), NotCounted(i), NEW br \in Brands
      PROVE  stok[br][i] = 0
  <2>1. \A p \in PaxIds : [q \in PaxIds |-> keluar[br][q][i]][p] = 0
    BY <1>1 DEF NotOut
  <2>2. SumFunctionOnSet([q \in PaxIds |-> keluar[br][q][i]], PaxIds) = 0
    BY <2>1, SumOfZeros, EquipmentAssumption
  <2> QED
    BY <1>1, <2>2 DEF EInv, LedgerExplainsStock, NotCounted
<1> QED
  BY <1>1 DEF Forgotten, NotInSets, NotOut, NotCounted

(* An item that is not listed after a step was not before, or is deleted.    *)
LEMMA ListedBefore ==
  ASSUME EInv, [EquipmentNext]_equipmentVars, NEW i \in Items, i \notin Listed'
  PROVE  i \notin Listed \/ DeleteItem(i)
<1>0. items \in [Items -> {"absent", "listed", "deleted"}]
  BY DEF EInv, CatalogueTyped
<1>1. ASSUME NEW j \in Items, NEW qty, CreateItem(j, qty)
      PROVE  i \notin Listed
  BY <1>0, <1>1 DEF CreateItem, Listed
<1>2. ASSUME NEW j \in Items, DeleteItem(j)
      PROVE  i \notin Listed \/ DeleteItem(i)
  BY <1>0, <1>2 DEF DeleteItem, Listed
<1>3. CASE items' = items
  BY <1>3 DEF Listed
<1>4. \/ \E j \in Items : DeleteItem(j) \/ \E qty \in {0, 1} : CreateItem(j, qty)
      \/ items' = items
  BY DEF EquipmentNext, UpdateItem, DeleteItemCheck, DeleteItemFails, Pembelian, Koreksi,
    UpdateSetTemplate, PutCategorySet, PutScheduleSet, BatalkanPerlengkapan, CancelPax,
    MarkBegin, MarkCommit, MarkFails, BookingMade, DraftRewritten, DraftDeleted, StatusMoves,
    BookingCancelled, catalogue, equipmentVars
<1> QED
  BY <1>1, <1>2, <1>3, <1>4

(* The DELETE is refused while a log or a set of a category or package has   *)
(* the item, and takes what the stock, the ledger and the global set have.   *)
LEMMA DeletedIsForgotten ==
  ASSUME EInv, NEW i \in Items, DeleteItem(i)
  PROVE  (NotInSets(i) /\ NotOut(i) /\ NotCounted(i))'
<1>1. NotInSets(i)'
  BY DEF NotInSets, DeleteItem, Referenced, TemplateWith, ItemsOf
<1>2. NotOut(i)'
  <2>1. \A p \in PaxIds : pax[p].logs[i] \in Nat
    BY DEF EInv, BookingsTyped, PaxRow
  <2>2. \A p \in PaxIds : ~(pax[p].logs[i] > 0) /\ pax' = pax
    BY DEF DeleteItem, Referenced
  <2>3. \A p \in PaxIds, br \in Brands : keluar'[br][p] = Without(keluar[br][p], i)
    BY DEF DeleteItem
  <2>4. ASSUME NEW p \in PaxIds, NEW br \in Brands
        PROVE  keluar'[br][p][i] = 0
    <3>1. PICK f \in [Items -> Nat] : f = keluar[br][p]
      BY DEF EInv, StockTyped
    <3>2. keluar'[br][p] = [f EXCEPT ![i] = 0]
      BY <2>3, <3>1 DEF Without
    <3> QED
      BY <3>1, <3>2
  <2> QED
    BY <2>1, <2>2, <2>4 DEF NotOut
<1>3. NotCounted(i)'
  <2>1. \A br \in Brands : masuk'[br] = Without(masuk[br], i)
    BY DEF DeleteItem
  <2> QED
    BY <2>1 DEF EInv, StockTyped, Without, NotCounted
<1> QED
  BY <1>1, <1>2, <1>3

(* An item that is not there enters no set.                                  *)
LEMMA SetsForget ==
  ASSUME EInv, [EquipmentNext]_equipmentVars, NEW i \in Items, i \notin Listed, i \notin Listed',
         NotInSets(i)
  PROVE  NotInSets(i)'
<1>0. items \in [Items -> {"absent", "listed", "deleted"}]
  BY DEF EInv, CatalogueTyped
<1>1. ASSUME NEW j \in Items, NEW qty, template' = TemplateWith(j, qty), UNCHANGED <<kategori, paket>>,
             j = i => qty = 0
      PROVE  NotInSets(i)'
  BY <1>1 DEF NotInSets, TemplateWith, ItemsOf
<1>2. ASSUME NEW j \in Items, NEW qty \in {0, 1}, CreateItem(j, qty) \/ UpdateItem(j, qty)
      PROVE  NotInSets(i)'
  <2>1. j # i
    BY <1>0, <1>2 DEF CreateItem, UpdateItem, Listed
  <2> QED
    BY <1>1, <1>2, <2>1 DEF CreateItem, UpdateItem
<1>3. ASSUME NEW j \in Items, DeleteItem(j)
      PROVE  NotInSets(i)'
  BY <1>1, <1>3 DEF DeleteItem
<1>4. ASSUME NEW S \in Sets, UpdateSetTemplate(S)
      PROVE  NotInSets(i)'
  <2>1. \A row \in S : row.item # i /\ [row EXCEPT !.untuk = "semua"].item = row.item
    BY <1>4, SetsAreRows DEF UpdateSetTemplate, ItemsOf, Rows
  <2>2. i \notin ItemsOf(template')
    BY <1>4, <2>1 DEF UpdateSetTemplate, ItemsOf
  <2> QED
    BY <1>4, <2>2 DEF NotInSets, UpdateSetTemplate, ItemsOf
<1>5. ASSUME NEW S \in Sets, PutCategorySet(S)
      PROVE  NotInSets(i)'
  BY <1>5 DEF NotInSets, PutCategorySet, ItemsOf
<1>6. ASSUME NEW S \in Sets, NEW s \in Schedules, NEW custom \in BOOLEAN, PutScheduleSet(s, custom, S)
      PROVE  NotInSets(i)'
  <2>1. PICK given : given = IF custom THEN S ELSE {}
    OBVIOUS
  <2>2. i \notin ItemsOf(given)
    BY <1>6, <2>1 DEF PutScheduleSet, ItemsOf
  <2>3. paket' = [paket EXCEPT ![s] = [custom |-> custom, rows |-> given]]
    BY <1>6, <2>1 DEF PutScheduleSet
  <2>4. \A t \in Schedules : paket'[t].rows = given \/ paket'[t] = paket[t]
    BY <2>3 DEF EInv, CatalogueTyped
  <2> QED
    BY <1>6, <2>2, <2>4 DEF NotInSets, PutScheduleSet
<1>7. CASE UNCHANGED <<template, kategori, paket>>
  BY <1>7 DEF NotInSets
<1>8. \/ \E j \in Items : DeleteItem(j) \/ \E qty \in {0, 1} : CreateItem(j, qty) \/ UpdateItem(j, qty)
      \/ \E S \in Sets : \/ UpdateSetTemplate(S) \/ PutCategorySet(S)
                         \/ \E s \in Schedules, custom \in BOOLEAN : PutScheduleSet(s, custom, S)
      \/ UNCHANGED <<template, kategori, paket>>
  BY DEF EquipmentNext, DeleteItemCheck, DeleteItemFails, Pembelian, Koreksi,
    BatalkanPerlengkapan, CancelPax, MarkBegin, MarkCommit, MarkFails, BookingMade,
    DraftRewritten, DraftDeleted, StatusMoves, BookingCancelled, catalogue, equipmentVars
<1> QED
  BY <1>2, <1>3, <1>4, <1>5, <1>6, <1>7, <1>8

(* Nor is it handed out, though a request may have found it in a set before. *)
LEMMA PaxForget ==
  ASSUME EInv, [EquipmentNext]_equipmentVars, NEW i \in Items, i \notin Listed, NotOut(i)
  PROVE  NotOut(i)'
<1> SUFFICES ASSUME NEW p \in PaxIds
             PROVE  pax'[p].logs[i] = 0 /\ \A br \in Brands : keluar'[br][p][i] = 0
  BY DEF NotOut
<1>1. pax[p].logs[i] = 0 /\ \A br \in Brands : keluar[br][p][i] = 0
  BY DEF NotOut
<1>2. Out(p)' = [br \in Brands |-> keluar'[br][p]] /\ Out(p) = [br \in Brands |-> keluar[br][p]]
  BY DEF Out
<1>3. CASE Same(p)
  <2>1. \A br \in Brands : keluar'[br][p] = keluar[br][p]
    BY <1>2, <1>3 DEF Same
  <2> QED
    BY <1>1, <1>3, <2>1 DEF Same
<1>4. ASSUME NEW j \in Items, ItemDeleted(p, j)
      PROVE  pax'[p].logs[i] = 0 /\ \A br \in Brands : keluar'[br][p][i] = 0
  <2>1. \A br \in Brands : keluar[br][p] \in [Items -> Nat]
    BY DEF EInv, StockTyped
  <2>2. \A br \in Brands : Without(keluar[br][p], j)[i] = 0
    BY <1>1, <2>1 DEF Without
  <2> QED
    BY <1>1, <1>4, <2>2 DEF ItemDeleted
<1>5. ASSUME NEW a \in Admins, NEW c \in Brands, Supplied(p, a, c)
      PROVE  pax'[p].logs[i] = 0 /\ \A br \in Brands : keluar'[br][p][i] = 0
  <2>1. PICK goods \in [Items -> Nat] : goods = pax'[p].logs
    BY <1>5, ShareIsGoods DEF Supplied, EInv, BookingsTyped, Request
  <2>2. goods[i] = 0
    BY <1>5, <2>1 DEF Supplied
  <2>3. \A br \in Brands : keluar'[br][p] \in {goods, Nothing}
    BY <1>2, <1>5, <2>1 DEF Supplied, OnlyOut
  <2> QED
    BY <2>1, <2>2, <2>3, NothingIsNone
<1>6. CASE BroughtBack(p)
  <2>1. \A br \in Brands : keluar'[br][p] = Nothing
    BY <1>2, <1>6 DEF BroughtBack, NothingOut
  <2> QED
    BY <1>6, <2>1, NothingIsNone DEF BroughtBack
<1>7. CASE WrittenOff(p)
  <2>1. \A br \in Brands : keluar'[br][p] = keluar[br][p]
    BY <1>2, <1>7 DEF WrittenOff
  <2> QED
    BY <1>1, <1>7, <2>1, NothingIsNone DEF WrittenOff
<1> QED
  BY <1>3, <1>4, <1>5, <1>6, <1>7, EachPaxMoves DEF Moves

(* Nor is it bought or counted.                                              *)
LEMMA LedgersForget ==
  ASSUME EInv, [EquipmentNext]_equipmentVars, NEW i \in Items, i \notin Listed, NotCounted(i)
  PROVE  NotCounted(i)'
<1>0. masuk \in [Brands -> [Items -> Int]]
  BY DEF EInv, StockTyped
<1>1. ASSUME NEW j \in Items, NEW br \in Brands,
             \/ \E qty \in 1 .. MaxStock : Pembelian(br, j, qty)
             \/ \E baru \in 0 .. MaxStock : Koreksi(br, j, baru)
      PROVE  NotCounted(i)'
  <2>1. j # i
    BY <1>1 DEF Pembelian, Koreksi
  <2>2. PICK n : masuk' = [masuk EXCEPT ![br][j] = n]
    BY <1>1 DEF Pembelian, Koreksi
  <2>3. \A c \in Brands : masuk'[c][i] = masuk[c][i]
    BY <1>0, <2>1, <2>2
  <2> QED
    BY <2>3 DEF NotCounted
<1>2. ASSUME NEW j \in Items, DeleteItem(j)
      PROVE  NotCounted(i)'
  <2>1. \A br \in Brands : masuk'[br] = Without(masuk[br], j)
    BY <1>2 DEF DeleteItem
  <2> QED
    BY <1>0, <2>1 DEF Without, NotCounted
<1>3. CASE masuk' = masuk
  BY <1>3 DEF NotCounted
<1>4. \/ \E j \in Items : \/ DeleteItem(j)
                          \/ \E br \in Brands : \/ \E qty \in 1 .. MaxStock : Pembelian(br, j, qty)
                                                \/ \E baru \in 0 .. MaxStock : Koreksi(br, j, baru)
      \/ masuk' = masuk
  BY DEF EquipmentNext, CreateItem, UpdateItem, DeleteItemCheck, DeleteItemFails, UpdateSetTemplate,
    PutCategorySet, PutScheduleSet, BatalkanPerlengkapan, CancelPax, MarkBegin, MarkCommit,
    MarkFails, BookingMade, DraftRewritten, DraftDeleted, StatusMoves, BookingCancelled,
    StockUnchanged, equipmentVars
<1> QED
  BY <1>1, <1>2, <1>3, <1>4

(* Of an item that was deleted nothing is left, in any set, on any log, in   *)
(* any stock or ledger, and nothing comes up again, however requests that    *)
(* began before the deletion end (perlengkapan/repository.go DeleteItem).    *)
THEOREM DeletedItemsStayForgotten == EquipmentSpec => []DeletedItemsAreForgotten
<1>1. EquipmentInit => DeletedItemsAreForgotten
  BY NothingIsNone, EquipmentAssumption DEF EquipmentInit, DeletedItemsAreForgotten, Forgotten, ItemsOf, NoPax
<1>2. ASSUME EInv, EInv', DeletedItemsAreForgotten, [EquipmentNext]_equipmentVars
      PROVE  DeletedItemsAreForgotten'
  <2>1. ASSUME NEW i \in Items, i \notin Listed'
        PROVE  Forgotten(i)'
    <3>1. EInv' => (Forgotten(i)' <=> (NotInSets(i) /\ NotOut(i) /\ NotCounted(i))')
      BY ForgottenIs, PTL
    <3>2. ASSUME i \notin Listed
          PROVE  NotInSets(i)' /\ NotOut(i)' /\ NotCounted(i)'
      <4>1. NotInSets(i) /\ NotOut(i) /\ NotCounted(i)
        BY <1>2, <3>2, ForgottenIs DEF DeletedItemsAreForgotten
      <4> QED
        BY <1>2, <2>1, <3>2, <4>1, SetsForget, PaxForget, LedgersForget
    <3>3. ASSUME DeleteItem(i)
          PROVE  NotInSets(i)' /\ NotOut(i)' /\ NotCounted(i)'
      BY <1>2, <3>3, DeletedIsForgotten
    <3> QED
      BY <1>2, <2>1, <3>1, <3>2, <3>3, ListedBefore
  <2> QED
    BY <2>1 DEF DeletedItemsAreForgotten
<1> QED
  BY <1>1, <1>2, EquipmentStaysFine, PTL DEF EquipmentSpec
=============================================================================
