--------------------------- MODULE EquipmentDesk ----------------------------
(***************************************************************************)
(* internal/perlengkapan and the equipment half of internal/booking: the   *)
(* catalogue of items, the stock of every brand with its ledger, the sets  *)
(* a package hands out, and the handing out to a pax and taking back.      *)
(*                                                                         *)
(* A transaction that locks before its first plain SELECT is one step. Two *)
(* operations are not: MarkPerlengkapanDiberikan reads the booking first,  *)
(* which fixes the snapshot it takes the set from, and locks the pax and   *)
(* the stock rows afterwards; DeleteItem is no transaction at all.         *)
(*                                                                         *)
(* What other components do to a booking is here as far as it changes who  *)
(* is on it and whether it is a draft, unpaid, paid or cancelled. That an  *)
(* admin of one brand sees that brand only restricts who may act, never    *)
(* what the act does, and is left out.                                     *)
(***************************************************************************)
EXTENDS Integers, FiniteSets, Functions

CONSTANTS
  Items,          \* ids of perlengkapan_items, never reused
  FirstItems,     \* the items that exist initially
  Brands,
  Schedules,      \* packages; the brand of one that has bookings is fixed
  BrandOf,        \* brand of a schedule
  Bookings,
  PaxIds,         \* ids of booking_pax, never reused
  Gender,         \* jenis_kelamin of the pilgrim of a pax: "L", "P" or NULL
  Sets,           \* the contents an admin may give a set
  Admins,         \* concurrent requests that hand out equipment
  MaxStock,       \* bound: pieces of an item in the stock of a brand
  NULL

(* A row of a set: an item, how many, and for whom. *)
Rows == [item : Items, qty : Nat \ {0}, untuk : {"semua", "pria", "wanita"}]

ASSUME EquipmentAssumption ==
  /\ FirstItems \subseteq Items
  /\ BrandOf \in [Schedules -> Brands]
  /\ Gender \in [PaxIds -> {"L", "P", NULL}]
  /\ NULL \notin Bookings
  /\ IsFiniteSet(PaxIds) /\ IsFiniteSet(Brands)
  /\ Sets \subseteq SUBSET Rows
  /\ \A S \in Sets : \A x, y \in S : x.item = y.item => x = y
  /\ MaxStock \in Nat

VARIABLES
  items,        \* items[i]: "absent", "listed" or "deleted"
  deleting,     \* items whose DeleteItem passed its checks and has not deleted yet
  stok,         \* stok[br][i]: stok_tersedia of an item in a brand
  masuk,        \* masuk[br][i]: sum of the ledger's purchases and corrections
  template,     \* rows of perlengkapan_set_template, the global set
  kategori,     \* rows of the set of the packages' category
  paket,        \* paket[s]: perlengkapan_custom and the rows of schedule s
  orders,       \* orders[b]: schedule and status of a booking
  pax,          \* pax[p]: booking, pax_status, perlengkapan_status and logs
  keluar,       \* keluar[br][p][i]: what the ledger of br says went to pax p, less returns
  handing       \* handing[a]: pax and set of an open MarkPerlengkapanDiberikan

catalogue == <<items, deleting, template, kategori, paket>>
equipmentVars == <<catalogue, stok, masuk, orders, pax, keluar, handing>>

Nothing == [i \in Items |-> 0]

NoRequest == [pax |-> NULL, rows |-> {}]

NoPax == [booking |-> NULL, status |-> "none", given |-> FALSE, logs |-> Nothing]

Listed == {i \in Items : items[i] = "listed"}

ItemsOf(S) == {row.item : row \in S}

EquipmentInit ==
  /\ items    = [i \in Items |-> IF i \in FirstItems THEN "listed" ELSE "absent"]
  /\ deleting = {}
  /\ stok     = [br \in Brands |-> Nothing]
  /\ masuk    = [br \in Brands |-> Nothing]
  /\ template = {} /\ kategori = {}
  /\ paket    = [s \in Schedules |-> [custom |-> FALSE, rows |-> {}]]
  /\ orders   = [b \in Bookings |-> [schedule |-> NULL, status |-> "absent"]]
  /\ pax      = [p \in PaxIds |-> NoPax]
  /\ keluar   = [br \in Brands |-> [p \in PaxIds |-> Nothing]]
  /\ handing  = [a \in Admins |-> NoRequest]

-----------------------------------------------------------------------------
(* The catalogue of items *)

StockUnchanged == UNCHANGED <<stok, masuk, pax, keluar>>
BookingsUnchanged == UNCHANGED <<orders, handing>>

(* The global set holds one row per item, for everybody.                     *)
TemplateWith(i, qty) ==
  {row \in template : row.item # i}
    \cup (IF qty = 0 THEN {} ELSE {[item |-> i, qty |-> qty, untuk |-> "semua"]})

CreateItem(i, qty) ==
  /\ items[i] = "absent"
  /\ items' = [items EXCEPT ![i] = "listed"]
  /\ template' = TemplateWith(i, qty)
  /\ UNCHANGED <<deleting, kategori, paket>> /\ StockUnchanged /\ BookingsUnchanged

(* qty_per_set was sent: the item enters or leaves the global set.           *)
UpdateItem(i, qty) ==
  /\ i \in Listed
  /\ template' = TemplateWith(i, qty)
  /\ UNCHANGED <<items, deleting, kategori, paket>> /\ StockUnchanged /\ BookingsUnchanged

(* Queries on connections of their own (one step here: what happens between  *)
(* two of them may as well happen after the last): no set, no stock has it.  *)
DeleteItemCheck(i) ==
  /\ i \in Listed
  /\ i \notin ItemsOf(template) \cup ItemsOf(kategori)
  /\ \A s \in Schedules : i \notin ItemsOf(paket[s].rows)
  /\ \A br \in Brands : stok[br][i] = 0
  /\ deleting' = deleting \cup {i}
  /\ UNCHANGED <<items, template, kategori, paket>> /\ StockUnchanged /\ BookingsUnchanged

Without(f, i) == [f EXCEPT ![i] = 0]

(* Fault: the logs of handed-out items do not hold the item.                 *)
ReferencedBySets(i) ==
  \/ i \in ItemsOf(kategori)
  \/ \E s \in Schedules : i \in ItemsOf(paket[s].rows)

(* Rows that keep MySQL from deleting an item (ON DELETE RESTRICT).          *)
Referenced(i) ==
  \/ i \in ItemsOf(kategori)
  \/ \E s \in Schedules : i \in ItemsOf(paket[s].rows)
  \/ \E p \in PaxIds : pax[p].logs[i] > 0

(* The DELETE takes the item's stock, ledger and row of the global set along *)
(* (ON DELETE CASCADE), whatever happened to them since the check.           *)
DeleteItem(i) ==
  /\ i \in deleting
  /\ ~Referenced(i)
  /\ items' = [items EXCEPT ![i] = "deleted"]
  /\ deleting' = deleting \ {i}
  /\ template' = TemplateWith(i, 0)
  /\ stok' = [br \in Brands |-> Without(stok[br], i)]
  /\ masuk' = [br \in Brands |-> Without(masuk[br], i)]
  /\ keluar' = [br \in Brands |-> [p \in PaxIds |-> Without(keluar[br][p], i)]]
  /\ UNCHANGED <<kategori, paket, pax>> /\ BookingsUnchanged

DeleteItemFails(i) ==
  /\ i \in deleting
  /\ deleting' = deleting \ {i}
  /\ UNCHANGED <<items, template, kategori, paket>> /\ StockUnchanged /\ BookingsUnchanged

-----------------------------------------------------------------------------
(* Stock and ledger *)

Pembelian(br, i, qty) ==
  /\ i \in Listed
  /\ stok[br][i] + qty <= MaxStock
  /\ stok' = [stok EXCEPT ![br][i] = @ + qty]
  /\ masuk' = [masuk EXCEPT ![br][i] = @ + qty]
  /\ UNCHANGED <<catalogue, pax, keluar>> /\ BookingsUnchanged

(* Fault: the difference is taken from the stock the form was filled with.   *)
KoreksiOfForm(br, i, baru) ==
  /\ i \in Listed
  /\ stok[br][i] # baru
  /\ stok' = [stok EXCEPT ![br][i] = baru]
  /\ masuk' = [masuk EXCEPT ![br][i] = @ + baru]
  /\ UNCHANGED <<catalogue, pax, keluar>> /\ BookingsUnchanged

(* Also UpdateStok, which calls Koreksi.                                     *)
Koreksi(br, i, baru) ==
  /\ i \in Listed
  /\ stok[br][i] # baru
  /\ stok' = [stok EXCEPT ![br][i] = baru]
  /\ masuk' = [masuk EXCEPT ![br][i] = @ + baru - stok[br][i]]
  /\ UNCHANGED <<catalogue, pax, keluar>> /\ BookingsUnchanged

(* ApplyBrandDelta for several items at once: `out` leaves the stock of the  *)
(* brand for pax p, or comes back when it is negative; never below zero.     *)
ApplyBrandDelta(br, p, out) ==
  /\ \A i \in Items : stok[br][i] >= out[i]
  /\ stok' = [stok EXCEPT ![br] = [i \in Items |-> stok[br][i] - out[i]]]
  /\ keluar' = [keluar EXCEPT ![br][p] = [i \in Items |-> @[i] + out[i]]]

-----------------------------------------------------------------------------
(* Sets. Each PUT replaces all rows; an item that is gone fails the foreign  *)
(* key, if not the check before it.                                          *)

UpdateSetTemplate(S) ==
  /\ ItemsOf(S) \subseteq Listed
  /\ template' = {[row EXCEPT !.untuk = "semua"] : row \in S}
  /\ UNCHANGED <<items, deleting, kategori, paket>> /\ StockUnchanged /\ BookingsUnchanged

PutCategorySet(S) ==
  /\ ItemsOf(S) \subseteq Listed
  /\ kategori' = S
  /\ UNCHANGED <<items, deleting, template, paket>> /\ StockUnchanged /\ BookingsUnchanged

PutScheduleSet(s, custom, S) ==
  /\ ItemsOf(S) \subseteq Listed
  /\ paket' = [paket EXCEPT ![s] = [custom |-> custom, rows |-> IF custom THEN S ELSE {}]]
  /\ UNCHANGED <<items, deleting, template, kategori>> /\ StockUnchanged /\ BookingsUnchanged

(* What a package without a set of its own inherits, and what applies to it. *)
InheritedSet == IF kategori # {} THEN kategori ELSE template

ScheduleSet(s) == IF paket[s].custom THEN paket[s].rows ELSE InheritedSet

-----------------------------------------------------------------------------
(* Handing out and taking back *)

OrderOf(p) == orders[pax[p].booking]
BrandOfPax(p) == BrandOf[OrderOf(p).schedule]

NeedsGender(p, S) == Gender[p] = NULL /\ \E row \in S : row.untuk # "semua"

Fits(p, untuk) ==
  CASE untuk = "semua"  -> TRUE
    [] untuk = "pria"   -> Gender[p] = "L"
    [] untuk = "wanita" -> Gender[p] = "P"

(* Pieces of every item that set S gives to pax p.                           *)
Share(p, S) ==
  [i \in Items |-> IF \E row \in S : row.item = i /\ Fits(p, row.untuk)
                   THEN (CHOOSE row \in S : row.item = i).qty ELSE 0]

MarkBegin(a, p) ==
  /\ pax[p].status # "none" /\ handing[a] = NoRequest
  /\ handing' = [handing EXCEPT ![a] = [pax  |-> p, rows |-> ScheduleSet(OrderOf(p).schedule)]]
  /\ UNCHANGED <<catalogue, orders>> /\ StockUnchanged

(* Fault: only the pax's status is read under its lock.                      *)
Travels(p) == pax[p].status = "aktif"

(* Under the lock of its row the pax travels, and was given nothing yet.     *)
Entitled(p) == pax[p].status = "aktif" /\ ~pax[p].given

(* Pax, items and stock rows are locked one after the other; every item must *)
(* be there and every stock suffice, or nothing is handed out. (That a pax   *)
(* is an infant, who gets nothing, is a constant of the pax: PaxIds are the  *)
(* others.)                                                                  *)
MarkCommit(a) ==
  LET p     == handing[a].pax
      share == Share(p, handing[a].rows)
  IN  /\ p # NULL
      /\ Entitled(p)
      /\ ~NeedsGender(p, handing[a].rows)
      /\ share # Nothing
      /\ {i \in Items : share[i] > 0} \subseteq Listed
      /\ ApplyBrandDelta(BrandOfPax(p), p, share)
      /\ pax' = [pax EXCEPT ![p].given = TRUE,
                            ![p].logs = [i \in Items |-> @[i] + share[i]]]
      /\ handing' = [handing EXCEPT ![a] = NoRequest]
      /\ UNCHANGED <<catalogue, masuk, orders>>

MarkFails(a) ==
  /\ handing[a] # NoRequest
  /\ handing' = [handing EXCEPT ![a] = NoRequest]
  /\ UNCHANGED <<catalogue, orders>> /\ StockUnchanged

Back(out) == [i \in Items |-> 0 - out[i]]

TakenBack(row) == [row EXCEPT !.given = FALSE, !.logs = Nothing]

(* An admin takes back what a pax was given, whatever became of its booking. *)
BatalkanPerlengkapan(p) ==
  /\ pax[p].given /\ pax[p].status # "gone"
  /\ ApplyBrandDelta(BrandOfPax(p), p, Back(pax[p].logs))
  /\ pax' = [pax EXCEPT ![p] = TakenBack(@)]
  /\ UNCHANGED <<catalogue, masuk>> /\ BookingsUnchanged

-----------------------------------------------------------------------------
(* What happens to bookings meanwhile *)

On(b) == {p \in PaxIds : pax[p].booking = b /\ pax[p].status = "aktif"}
Unused == {p \in PaxIds : pax[p].status = "none"}

(* Pax rows a request inserts for booking b.                                 *)
Insert(b, P) == [p \in PaxIds |-> IF p \in P THEN [NoPax EXCEPT !.booking = b, !.status = "aktif"]
                                  ELSE pax[p]]

BookingMade(b, s, status, P) ==
  /\ orders[b].status = "absent"
  /\ P \subseteq Unused
  /\ orders' = [orders EXCEPT ![b] = [schedule |-> s, status |-> status]]
  /\ pax' = Insert(b, P)
  /\ UNCHANGED <<catalogue, stok, masuk, keluar, handing>>

Gone(row, b) == IF row.booking = b THEN [TakenBack(row) EXCEPT !.status = "gone"] ELSE row

(* UpdateDraft deletes and inserts the pax rows of a draft; the logs of what *)
(* they were given go with them. P = {} and status "deleted": DeleteDraft.   *)
DraftRewritten(b, s, P) ==
  /\ orders[b].status = "draft"
  /\ P \subseteq Unused /\ P # {}
  /\ orders' = [orders EXCEPT ![b].schedule = s]
  /\ pax' = [p \in PaxIds |-> Gone(Insert(b, P)[p], IF p \in P THEN NULL ELSE b)]
  /\ UNCHANGED <<catalogue, stok, masuk, keluar, handing>>

DraftDeleted(b) ==
  /\ orders[b].status = "draft"
  /\ orders' = [orders EXCEPT ![b].status = "deleted"]
  /\ pax' = [p \in PaxIds |-> Gone(pax[p], b)]
  /\ UNCHANGED <<catalogue, stok, masuk, keluar, handing>>

(* A draft is finalized, money comes in or is found not to have.             *)
StatusMoves(b, status) ==
  /\ <<orders[b].status, status>> \in {<<"draft", "baru">>, <<"baru", "paid">>, <<"paid", "baru">>}
  /\ orders' = [orders EXCEPT ![b].status = status]
  /\ UNCHANGED <<catalogue, handing>> /\ StockUnchanged

(* The booking is cancelled, and its pax with it if it held seats; nothing   *)
(* that was handed out comes back.                                           *)
BookingCancelled(b, blocked) ==
  /\ orders[b].status \in {"draft", "baru", "paid", "batal"}
  /\ blocked => orders[b].status \in {"baru", "paid"}
  /\ orders' = [orders EXCEPT ![b].status = "batal"]
  /\ pax' = [p \in PaxIds |-> IF blocked /\ p \in On(b) THEN [pax[p] EXCEPT !.status = "batal"]
                              ELSE pax[p]]
  /\ UNCHANGED <<catalogue, stok, masuk, keluar, handing>>

(* Fault: nothing comes back, whatever the booking's status.                 *)
CancelPaxKeepingGoods(p) ==
  LET b == pax[p].booking
  IN  /\ pax[p].status = "aktif"
      /\ pax' = [pax EXCEPT ![p] = [TakenBack(@) EXCEPT !.status = "batal"]]
      /\ orders' = [orders EXCEPT ![b].status = IF On(b) = {p} THEN "batal" ELSE @]
      /\ UNCHANGED <<catalogue, stok, masuk, keluar, handing>>

(* One pax leaves: as long as nobody has paid, what it was given comes back; *)
(* otherwise the pilgrim keeps it. The last one to leave cancels the booking.*)
CancelPax(p) ==
  LET b == pax[p].booking
      unpaid == orders[b].status \in {"draft", "baru"}
  IN  /\ pax[p].status = "aktif"
      /\ ApplyBrandDelta(BrandOfPax(p), p, IF unpaid THEN Back(pax[p].logs) ELSE Nothing)
      /\ pax' = [pax EXCEPT ![p] = [TakenBack(@) EXCEPT !.status = "batal"]]
      /\ orders' = [orders EXCEPT ![b].status = IF On(b) = {p} THEN "batal" ELSE @]
      /\ UNCHANGED <<catalogue, masuk, handing>>

-----------------------------------------------------------------------------
EquipmentNext ==
  \/ \E i \in Items :
       \/ \E qty \in {0, 1} : CreateItem(i, qty) \/ UpdateItem(i, qty)
       \/ DeleteItemCheck(i) \/ DeleteItem(i) \/ DeleteItemFails(i)
       \/ \E br \in Brands :
            \/ \E qty \in 1 .. MaxStock : Pembelian(br, i, qty)
            \/ \E baru \in 0 .. MaxStock : Koreksi(br, i, baru)
  \/ \E S \in Sets :
       \/ UpdateSetTemplate(S) \/ PutCategorySet(S)
       \/ \E s \in Schedules, custom \in BOOLEAN : PutScheduleSet(s, custom, S)
  \/ \E p \in PaxIds :
       \/ BatalkanPerlengkapan(p) \/ CancelPax(p)
       \/ \E a \in Admins : MarkBegin(a, p)
  \/ \E a \in Admins : MarkCommit(a) \/ MarkFails(a)
  \/ \E b \in Bookings :
       \/ \E s \in Schedules, P \in (SUBSET PaxIds) \ {{}} :
            \/ \E status \in {"draft", "baru"} : BookingMade(b, s, status, P)
            \/ DraftRewritten(b, s, P)
       \/ DraftDeleted(b)
       \/ \E status \in {"baru", "paid"} : StatusMoves(b, status)
       \/ \E blocked \in BOOLEAN : BookingCancelled(b, blocked)

EquipmentSpec == EquipmentInit /\ [][EquipmentNext]_equipmentVars

-----------------------------------------------------------------------------
(* Properties *)

(* No stock is ever negative, and every row refers to something there.       *)
EquipmentTypeOK ==
  /\ items \in [Items -> {"absent", "listed", "deleted"}]
  /\ deleting \subseteq Listed
  /\ stok \in [Brands -> [Items -> Nat]]
  /\ masuk \in [Brands -> [Items -> Int]]
  /\ template \subseteq Rows /\ kategori \subseteq Rows
  /\ paket \in [Schedules -> [custom : BOOLEAN, rows : SUBSET Rows]]
  /\ orders \in [Bookings -> [schedule : Schedules \cup {NULL},
                              status : {"absent", "draft", "baru", "paid", "batal", "deleted"}]]
  /\ pax \in [PaxIds -> [booking : Bookings \cup {NULL}, given : BOOLEAN, logs : [Items -> Nat],
                         status : {"none", "aktif", "batal", "gone"}]]
  /\ keluar \in [Brands -> [PaxIds -> [Items -> Int]]]
  /\ \A a \in Admins : handing[a].pax \in PaxIds \cup {NULL} /\ handing[a].rows \subseteq Rows

(* The ledger of a brand, added up over everything that happened to it,      *)
(* gives its stock, for every interleaving of purchases, corrections,        *)
(* handouts, returns, cancellations and deletions.                           *)
LedgerExplainsStock ==
  \A br \in Brands, i \in Items :
    stok[br][i] = masuk[br][i] -
      SumFunctionOnSet([p \in PaxIds |-> keluar[br][p][i]], PaxIds)

(* A pax that counts as supplied has on its log what the ledger says it got, *)
(* exactly once and from the brand of its package; one that does not has an  *)
(* empty log. Nobody brings back more than it got, or to another brand.      *)
LogsAreWhatIsOut ==
  \A p \in PaxIds :
    /\ pax[p].given => pax[p].logs # Nothing /\ pax[p].logs = keluar[BrandOfPax(p)][p]
    /\ ~pax[p].given => pax[p].logs = Nothing
    /\ \A br \in Brands, i \in Items : keluar[br][p][i] >= 0

(* A pax is supplied once, while it travels, with what a request found in    *)
(* the set for its sex - also when another admin supplies the same pax at    *)
(* the same moment, or the set is replaced meanwhile.                        *)
SuppliedOnceAsEntitled ==
  [][\A p \in PaxIds : (\E i \in Items : pax'[p].logs[i] > pax[p].logs[i]) =>
       /\ pax[p].status = "aktif" /\ ~pax[p].given
       /\ \E a \in Admins :
            /\ handing[a].pax = p
            /\ \A i \in Items : pax'[p].logs[i] > 0 =>
                 \E row \in handing[a].rows : row.item = i /\ Fits(p, row.untuk)]_equipmentVars

Unreturned(p, i) ==
  SumFunctionOnSet([br \in Brands |-> keluar[br][p][i]], Brands) - pax[p].logs[i]

(* Equipment drops out of the books only with a pax that leaves a booking    *)
(* somebody paid for or that is already cancelled, or when a draft is        *)
(* rewritten or deleted.                                                     *)
WriteOffsAreExplained ==
  [][\/ UNCHANGED <<pax, keluar>>
     \/ \A p \in PaxIds, i \in Items : Unreturned(p, i)' > Unreturned(p, i) =>
          \/ OrderOf(p).status \in {"paid", "batal"} /\ pax'[p].status = "batal"
          \/ OrderOf(p).status = "draft" /\ pax'[p].status = "gone"]_equipmentVars

(* Nothing is left of an item: no set hands it out, no pax has it on its log, *)
(* no brand has pieces of it or counts any in its ledger.                    *)
Forgotten(i) ==
  /\ i \notin ItemsOf(template) \cup ItemsOf(kategori)
  /\ \A s \in Schedules : i \notin ItemsOf(paket[s].rows)
  /\ \A p \in PaxIds : pax[p].logs[i] = 0
  /\ \A br \in Brands :
       stok[br][i] = 0 /\ masuk[br][i] = 0 /\ \A p \in PaxIds : keluar[br][p][i] = 0

(* Of an item that was deleted nothing is left, although the deletion checks *)
(* in queries of its own, while sets are replaced, goods are bought, counted *)
(* and brought back, and requests are under way that will hand out what they *)
(* found in a set before. (What was bought or brought back since the check   *)
(* is lost with it: EquipmentClaims.)                                        *)
DeletedItemsAreForgotten == \A i \in Items \ Listed : Forgotten(i)

(* In every state: no stock below zero, a stock its ledger adds up to, and a *)
(* log of everything a pax holds, however handing out, taking back, counting *)
(* and deleting interleave.                                                  *)
EquipmentInvariant == EquipmentTypeOK /\ LedgerExplainsStock /\ LogsAreWhatIsOut
=============================================================================
