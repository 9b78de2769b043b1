-------------------------- MODULE PilgrimRecords --------------------------
(***************************************************************************)
(* internal/jamaah and the ways a booking finds its pilgrims: an admin     *)
(* keeps the records and picks one at the desk, the public checkout and    *)
(* agents find one by NIK or by name and birthday, the CRM by phone.       *)
(*                                                                         *)
(* The public checkout, agents and the CRM look for the record under its   *)
(* lock, in the transaction that books. The desk checks the record's brand *)
(* before the transaction that books it. The admin's form checks a move to *)
(* another brand, and the customer's form the booking, in statements of    *)
(* their own before the one that overwrites the record.                    *)
(*                                                                         *)
(* Two people may share a name. Birthdays are left open: whether a record  *)
(* of that name has the birthday a booking gives may go either way, so     *)
(* without a NIK a booking finds one of them or makes a new record. Left   *)
(* out: other particulars, codes, the brand an admin is limited to, prices *)
(* and seats (BookingSystem), cancelled pax, and the agent a pilgrim is    *)
(* bound to, who keeps him in his brand too (AgentCommission).             *)
(***************************************************************************)
EXTENDS Integers, FiniteSets

CONSTANTS
  Orang,      \* ids of jamaah
  Merek,      \* brands
  Nama,       \* names
  NIK,        \* national identity numbers
  HP,         \* phone numbers
  Pesanan,    \* ids of booking_pax
  Meja,       \* requests running at the same time: bookings at the desk, forms
  NIHIL

ASSUME RecordsAssumption ==
  /\ NIHIL \notin Orang \cup NIK \cup HP \cup Nama \cup Merek
  /\ IsFiniteSet(Pesanan)   \* the rows that booking_pax comes to hold

NIKs == NIK \cup {NIHIL}
HPs == HP \cup {NIHIL}

(* The rows of jamaah and of booking_pax. No row is NULL.                     *)
JamaahRows == [brand : Merek, nama : Nama, nik : NIKs, hp : HPs, balap : BOOLEAN]
PaxRows == [j : Orang, brand : Merek, nama : Nama \cup {NIHIL}, nik : NIKs]

ASSUME RowsAssumption == NIHIL \notin JamaahRows /\ NIHIL \notin PaxRows

VARIABLES
  orang,   \* jamaah, NIHIL for no row: brand, nama, nik, hp, balap
  pesan,   \* booking_pax, NIHIL for none: its pilgrim, brand and, where the
           \* record was looked for by them, the name and NIK given
  meja     \* a request that has passed its checks

recordVars == <<orang, pesan, meja>>

Idle == [kerja |-> "idle", j |-> NIHIL, ke |-> NIHIL, dulu |-> 0]

RecordsInit ==
  /\ orang = [j \in Orang |-> NIHIL]
  /\ pesan = [p \in Pesanan |-> NIHIL]
  /\ meja = [m \in Meja |-> Idle]

Rows == {j \in Orang : orang[j] # NIHIL}
In(brand) == {j \in Rows : orang[j].brand = brand}

PesananOf(j) == {p \in Pesanan : pesan[p] # NIHIL /\ pesan[p].j = j}

(* uq_jamaah_brand_nik.                                                      *)
NIKFree(brand, nik, j) == nik = NIHIL \/ \A k \in In(brand) \ {j} : orang[k].nik # nik

Record(brand, nama, nik, hp) ==
  [brand |-> brand, nama |-> nama, nik |-> nik, hp |-> hp, balap |-> FALSE]

-----------------------------------------------------------------------------
(* The admin's records *)

CreateJamaah(j, brand, nama, nik, hp) ==
  /\ orang[j] = NIHIL
  /\ NIKFree(brand, nik, j)
  /\ orang' = [orang EXCEPT ![j] = Record(brand, nama, nik, hp)]
  /\ UNCHANGED <<pesan, meja>>

(* Fault: a pilgrim with a booking may be moved.                             *)
CekPindahBrandAny(j) == TRUE

(* A pilgrim with a booking stays in his brand.                              *)
CekPindahBrand(j) == PesananOf(j) = {}

UpdateCheck(m, j, ke) ==
  /\ meja[m] = Idle /\ j \in Rows
  /\ ke # orang[j].brand => CekPindahBrand(j)
  /\ meja' = [meja EXCEPT ![m] = [kerja |-> "ubah", j |-> j, ke |-> ke,
                                  dulu |-> Cardinality(PesananOf(j))]]
  /\ UNCHANGED <<orang, pesan>>

(* A request at the desk or in another form has just looked at the record.   *)
LookedAt(j) == \E m \in Meja : meja[m].kerja = "pesan" /\ meja[m].j = j

(* Update overwrites the record with the form. balap: it moves, to another   *)
(* brand, a pilgrim who was booked, or was about to be, since the check.     *)
UpdateEnd(m, nama, nik, hp) ==
  LET j == meja[m].j
      ke == meja[m].ke
      moves == ke # orang[j].brand
  IN /\ meja[m].kerja = "ubah"
     /\ NIKFree(ke, nik, j)
     /\ orang' = [orang EXCEPT ![j] =
          [Record(ke, nama, nik, hp) EXCEPT
             !.balap = \/ orang[j].balap
                       \/ moves /\ (LookedAt(j) \/ Cardinality(PesananOf(j)) > meja[m].dulu)]]
     /\ meja' = [meja EXCEPT ![m] = Idle]
     /\ UNCHANGED pesan

(* Foreign keys keep the records of the pilgrims of bookings. Ids are not    *)
(* used again: a request that has looked at the record can only fail.        *)
DeleteJamaah(j) ==
  /\ j \in Rows /\ PesananOf(j) = {}
  /\ orang' = [orang EXCEPT ![j] = NIHIL]
  /\ meja' = [m \in Meja |-> IF meja[m].j = j THEN Idle ELSE meja[m]]
  /\ UNCHANGED pesan

RequestFails(m) ==
  /\ meja[m] # Idle
  /\ meja' = [meja EXCEPT ![m] = Idle]
  /\ UNCHANGED <<orang, pesan>>

-----------------------------------------------------------------------------
(* The customer's form *)

SimpanDataCheck(m, p) ==
  /\ meja[m] = Idle /\ pesan[p] # NIHIL
  /\ meja' = [meja EXCEPT ![m] = [Idle EXCEPT !.kerja = "isi", !.j = pesan[p].j]]
  /\ UNCHANGED <<orang, pesan>>

(* SimpanDataJamaah: neither the name nor the NIK.                           *)
SimpanDataJamaah(m, hp) ==
  /\ meja[m].kerja = "isi"
  /\ orang' = [orang EXCEPT ![meja[m].j].hp = hp]
  /\ meja' = [meja EXCEPT ![m] = Idle]
  /\ UNCHANGED pesan

-----------------------------------------------------------------------------
(* Bookings *)

Booked(p, j, brand, nama, nik) ==
  /\ pesan[p] = NIHIL
  /\ pesan' = [pesan EXCEPT ![p] = [j |-> j, brand |-> brand, nama |-> nama, nik |-> nik]]

JamaahExistsForBrand(j, brand) == j \in In(brand)

(* CreateBooking and the drafts of the desk: validation of the handler.      *)
DeskCheck(m, j, brand) ==
  /\ meja[m] = Idle
  /\ JamaahExistsForBrand(j, brand)
  /\ meja' = [meja EXCEPT ![m] = [Idle EXCEPT !.kerja = "pesan", !.j = j, !.ke = brand]]
  /\ UNCHANGED <<orang, pesan>>

DeskBooks(m, p) ==
  /\ meja[m].kerja = "pesan"
  /\ Booked(p, meja[m].j, meja[m].ke, NIHIL, NIHIL)
  /\ meja' = [meja EXCEPT ![m] = Idle]
  /\ UNCHANGED orang

Holder(brand, nik) == {j \in In(brand) : nik # NIHIL /\ orang[j].nik = nik}

(* Fault: the NIK alone decides.                                             *)
FoundByNIKAlone(j, brand, nama, nik) ==
  IF Holder(brand, nik) # {} THEN j \in Holder(brand, nik)
                             ELSE j \in In(brand) /\ orang[j].nama = nama

(* resolveAnggotaPublik: the holder of the NIK, if there is one; otherwise   *)
(* somebody with the name and birthday. Both must have the name.             *)
Found(j, brand, nama, nik) ==
  /\ j \in In(brand) /\ orang[j].nama = nama
  /\ Holder(brand, nik) \subseteq {j}

(* The record found is used as it is; a NIK is added if it has none.         *)
WebBooks(p, j, brand, nama, nik) ==
  /\ Found(j, brand, nama, nik)
  /\ orang' = [orang EXCEPT ![j].nik = IF @ = NIHIL THEN nik ELSE @]
  /\ Booked(p, j, brand, nama, nik)
  /\ UNCHANGED meja

(* Nobody is found by NIK, nor by a birthday: a new record.                  *)
WebBooksNew(p, j, brand, nama, nik, hp) ==
  /\ orang[j] = NIHIL
  /\ Holder(brand, nik) = {}
  /\ orang' = [orang EXCEPT ![j] = Record(brand, nama, nik, hp)]
  /\ Booked(p, j, brand, nama, nik)
  /\ UNCHANGED meja

(* resolvePaxAgen with a pilgrim from the agent's list: NIK and name must be *)
(* his; a record without NIK is known by its name, and stays without.        *)
AgentBooks(p, j, brand, nama, nik) ==
  /\ j \in In(brand)
  /\ orang[j].nama = nama /\ orang[j].nik \in {NIHIL, nik}
  /\ Booked(p, j, brand, nama, orang[j].nik)
  /\ UNCHANGED <<orang, meja>>

Phone(brand, hp) == {j \in In(brand) : orang[j].hp = hp}

(* ResolveJamaah of the CRM: the id, or the only one with the phone number.  *)
CrmBooks(p, j, brand, hp) ==
  /\ IF hp = NIHIL THEN j \in In(brand) ELSE Phone(brand, hp) = {j}
  /\ Booked(p, j, brand, NIHIL, NIHIL)
  /\ UNCHANGED <<orang, meja>>

CrmBooksNew(p, j, brand, nama, hp) ==
  /\ orang[j] = NIHIL /\ hp # NIHIL /\ Phone(brand, hp) = {}
  /\ orang' = [orang EXCEPT ![j] = Record(brand, nama, NIHIL, hp)]
  /\ Booked(p, j, brand, NIHIL, NIHIL)
  /\ UNCHANGED meja

-----------------------------------------------------------------------------
RecordsNext ==
  \/ \E j \in Orang, brand \in Merek, nama \in Nama, nik \in NIKs, hp \in HPs :
       \/ CreateJamaah(j, brand, nama, nik, hp)
       \/ \E p \in Pesanan : WebBooksNew(p, j, brand, nama, nik, hp)
  \/ \E j \in Orang : DeleteJamaah(j)
  \/ \E m \in Meja :
       \/ RequestFails(m)
       \/ \E j \in Orang, brand \in Merek : UpdateCheck(m, j, brand) \/ DeskCheck(m, j, brand)
       \/ \E nama \in Nama, nik \in NIKs, hp \in HPs : UpdateEnd(m, nama, nik, hp)
       \/ \E p \in Pesanan : SimpanDataCheck(m, p) \/ DeskBooks(m, p)
       \/ \E hp \in HPs : SimpanDataJamaah(m, hp)
  \/ \E p \in Pesanan, j \in Orang, brand \in Merek :
       \/ \E nama \in Nama, nik \in NIKs : WebBooks(p, j, brand, nama, nik) \/ AgentBooks(p, j, brand, nama, nik)
       \/ \E hp \in HPs : \/ CrmBooks(p, j, brand, hp)
                          \/ \E nama \in Nama : CrmBooksNew(p, j, brand, nama, hp)

RecordsSpec == RecordsInit /\ [][RecordsNext]_recordVars

-----------------------------------------------------------------------------
(* What is checked *)

(* Every variable keeps its type, and a NIK has one record per brand.        *)
RecordsTypeOK ==
  /\ \A j \in Rows : /\ orang[j].brand \in Merek /\ orang[j].nama \in Nama
                     /\ orang[j].nik \in NIKs /\ orang[j].hp \in HPs
                     /\ NIKFree(orang[j].brand, orang[j].nik, j)
  /\ \A p \in Pesanan : pesan[p] # NIHIL => pesan[p].j \in Rows /\ pesan[p].brand \in Merek
  /\ \A m \in Meja : meja[m].kerja \in {"idle", "ubah", "isi", "pesan"}

(* A booking and its pilgrims are of one brand, whichever way they met,      *)
(* unless the admin's form moved the pilgrim while he was being booked.      *)
BookedInTheirBrand ==
  \A p \in Pesanan : pesan[p] # NIHIL =>
    orang[pesan[p].j].brand = pesan[p].brand \/ orang[pesan[p].j].balap

(* A booking that names its pilgrim is for a record with that name, and, if  *)
(* the NIK was on record, for its holder: knowing a NIK books nobody else.   *)
NamesAreBooked ==
  [][\A p \in Pesanan : pesan[p] = NIHIL /\ pesan'[p] # NIHIL /\ pesan'[p].nama # NIHIL =>
       LET j == pesan'[p].j
       IN /\ orang'[j].nama = pesan'[p].nama
          /\ Holder(pesan'[p].brand, pesan'[p].nik) \subseteq {j}]_recordVars

(* In every state: one holder per NIK and brand, records for all bookings,   *)
(* and bookings in the brand of their pilgrims.                              *)
RecordsInvariant == RecordsTypeOK /\ BookedInTheirBrand
=============================================================================
