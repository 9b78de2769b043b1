-------------------------- MODULE PackageCatalogue --------------------------
(***************************************************************************)
(* The packages on offer and what they are put together from: brands,      *)
(* hotels, airlines, itineraries, destinations, categories, airports and   *)
(* bank accounts (internal/schedule, brand, hotel, airline, itinerary,     *)
(* destination, category, airport, bankaccount).                           *)
(*                                                                         *)
(* The handlers check a form with plain reads and save it afterwards. What *)
(* the database itself guards is only that hotels, airlines, itineraries,  *)
(* destinations and brands in use are not deleted: a category in use is    *)
(* taken off its packages, and an airport is a text in the package.        *)
(*                                                                         *)
(* A row of the catalogue is the set of brands whose packages may name it: *)
(* none of them once a hotel is moved to another city, a destination is    *)
(* switched off or an airport gets another code, some of them for a        *)
(* category. A name stands for a package's name and departure.             *)
(*                                                                         *)
(* Left out: status, dates and capacity (ScheduleDesk), descriptions,      *)
(* pictures and unique names and slugs, which the database has keys for.   *)
(***************************************************************************)
EXTENDS Integers, FiniteSets

CONSTANTS
  Merek,        \* brands
  Hotel, Maskapai, Itinerari, Destinasi,
  Kategori,     \* categories
  Bandara,      \* airports
  Rekening,     \* bank accounts
  Paket,        \* ids of packages (table schedules)
  Formulir,     \* forms of a package an admin may send
  DP,           \* what a brand may ask as down payment
  Meja,         \* admin requests running at the same time
  KOSONG

Tetap == Hotel \cup Maskapai \cup Itinerari \cup Destinasi
Acuan == Tetap \cup Kategori \cup Bandara

ASSUME CatalogueAssumption ==
  /\ KOSONG \notin Merek \cup Acuan \cup Paket
  /\ \A B \in SUBSET Merek : B # KOSONG
  /\ DP \subseteq Nat
  /\ Formulir \subseteq [merek : Merek, nama : {"n1", "n2"}, acuan : SUBSET Acuan,
                         dp : Nat \cup {-1}, harga : Nat]

VARIABLES
  merek,     \* brands: minimal_dp, -1 for no row
  baris,     \* baris[r]: the brands that may use the row; KOSONG for no row
  rekening,  \* bank_accounts: brand and is_active
  paket,     \* schedules; "ragu": saved by a request another one overtook
  dipesan,   \* packages that have a booking
  setoran,   \* payments: the package and the brand of the account they name
  kerja      \* kerja[m]: the request between its check and its write

catalogueVars == <<merek, baris, rekening, paket, dipesan, setoran, kerja>>

NoPackage == [merek |-> KOSONG]
NoAccount == [merek |-> KOSONG, aktif |-> FALSE]
NoTask    == [tugas |-> "tidak ada"]

CatalogueInit ==
  /\ merek = [b \in Merek |-> -1]
  /\ baris = [r \in Acuan |-> KOSONG]
  /\ rekening = [r \in Rekening |-> NoAccount]
  /\ paket = [p \in Paket |-> NoPackage]
  /\ dipesan = {} /\ setoran = {}
  /\ kerja = [m \in Meja |-> NoTask]

Ada(p)     == paket[p] # NoPackage
Dipakai(r) == \E p \in Paket : Ada(p) /\ r \in paket[p].acuan

(* A write overtakes every other save that has passed its check, and the     *)
(* deletions of the rows R that it names.                                    *)
Menyalip(m, R) ==
  [n \in Meja |->
     IF n = m THEN NoTask
     ELSE IF kerja[n] = NoTask \/ (kerja[n].tugas = "hapus" /\ kerja[n].acuan \notin R)
          THEN kerja[n] ELSE [kerja[n] EXCEPT !.bersih = FALSE]]

Saves == {m \in Meja : kerja[m].tugas = "simpan"}

(* Requests that will not find a row they name: ids are not given twice.     *)
Putus(M) == [m \in Meja |-> IF m \in M THEN NoTask ELSE kerja[m]]

-----------------------------------------------------------------------------
(* Packages *)

Bernama(p, form) == Ada(p) /\ paket[p].nama = form.nama /\ paket[p].merek = form.merek

(* NameTaken.                                                                *)
NameTaken(p, form) ==
  \E q \in Paket \ {p} :
    Ada(q) /\ paket[q].merek = form.merek /\ paket[q].nama = form.nama

(* Gate 18: a name that changes is not taken.                                *)
NameFree(p, form) == ~ Bernama(p, form) => ~ NameTaken(p, form)

(* Fault: only a down payment of the package's own is compared.              *)
DPFitsOwn(form) == form.harga >= form.dp

(* validateDP, with the brand's where the form has none.                     *)
DPFits(form) ==
  form.harga >= (IF form.dp = -1 THEN merek[form.merek] ELSE form.dp)

(* Gates 6 to 16.5: every row the form names is one its brand may use.       *)
RowsUsable(form) ==
  \A r \in form.acuan : baris[r] # KOSONG /\ form.merek \in baris[r]

(* validateScheduleInput: plain reads, before the transaction that saves.    *)
(* tetap: an edit without a journey type, which leaves the destination that  *)
(* the package has, active or not; the form then names none.                 *)
SaveCheck(m, p, form, tetap) ==
  /\ kerja[m] = NoTask
  /\ merek[form.merek] # -1
  /\ tetap => form.acuan \cap Destinasi = {}
  /\ RowsUsable(form) /\ DPFits(form) /\ NameFree(p, form)
  /\ kerja' = [kerja EXCEPT ![m] = [tugas |-> "simpan", paket |-> p, form |-> form,
                                    tetap |-> tetap, baru |-> ~ Ada(p), bersih |-> TRUE]]
  /\ UNCHANGED <<merek, baris, rekening, paket, dipesan, setoran>>

CreateSchedule(m, p, form) == ~ Ada(p) /\ SaveCheck(m, p, form, FALSE)
UpdateSchedule(m, p, form) == Ada(p) /\ \E tetap \in BOOLEAN : SaveCheck(m, p, form, tetap)

(* setKlasifikasiTx: the rows a saved form leaves in the package.            *)
Named(t) ==
  t.form.acuan \cup (IF t.tetap THEN paket[t.paket].acuan \cap Destinasi ELSE {})

(* The row of a saved form. Doubt about its name lasts as long as the name,  *)
(* which an edit that keeps it does not check again.                         *)
Tersimpan(p, form, acuan, bersih) ==
  [merek |-> form.merek, nama |-> form.nama, acuan |-> acuan, dp |-> form.dp,
   harga |-> form.harga, dpRagu |-> ~ bersih,
   namaRagu |-> ~ bersih \/ (Bernama(p, form) /\ paket[p].namaRagu)]

(* prepareScheduleUpdate: with the package locked.                           *)
BrandMayChange(p, b) == paket[p].merek # b => p \notin dipesan

(* The write, or the database refuses a row that is gone (Putus).            *)
Saved(m) ==
  /\ LET t == kerja[m]
     IN  /\ paket' = [paket EXCEPT ![t.paket] = Tersimpan(t.paket, t.form, Named(t), t.bersih)]
         /\ kerja' = Menyalip(m, Named(t))
  /\ UNCHANGED <<merek, baris, rekening, dipesan, setoran>>

Create(m) ==
  /\ kerja[m].tugas = "simpan" /\ kerja[m].baru
  /\ ~ Ada(kerja[m].paket)
  /\ Saved(m)

Update(m) ==
  /\ kerja[m].tugas = "simpan" /\ ~ kerja[m].baru
  /\ Ada(kerja[m].paket) /\ BrandMayChange(kerja[m].paket, kerja[m].form.merek)
  /\ Saved(m)

(* A request that is refused or fails after its check.                       *)
TaskEnds(m) ==
  /\ kerja[m] # NoTask
  /\ kerja' = [kerja EXCEPT ![m] = NoTask]
  /\ UNCHANGED <<merek, baris, rekening, paket, dipesan, setoran>>

(* DeleteSchedule: bookings keep their package. An edit of it that has       *)
(* passed its check will not find it.                                        *)
DeleteSchedule(p) ==
  /\ Ada(p) /\ p \notin dipesan
  /\ paket' = [paket EXCEPT ![p] = NoPackage]
  /\ kerja' = Putus({m \in Saves : kerja[m].paket = p})
  /\ UNCHANGED <<merek, baris, rekening, dipesan, setoran>>

(* The first booking on the package, draft or not, and the last one deleted: *)
(* only a draft can be, and a draft takes no payment.                        *)
Booked(p) ==
  /\ Ada(p)
  /\ dipesan' = dipesan \cup {p}
  /\ UNCHANGED <<merek, baris, rekening, paket, setoran, kerja>>

DraftsDeleted(p) ==
  /\ \A s \in setoran : s.paket # p
  /\ dipesan' = dipesan \ {p}
  /\ UNCHANGED <<merek, baris, rekening, paket, setoran, kerja>>

-----------------------------------------------------------------------------
(* Brands *)

CreateBrand(b, dp) ==
  /\ merek[b] = -1
  /\ merek' = [merek EXCEPT ![b] = dp]
  /\ UNCHANGED <<baris, rekening, paket, dipesan, setoran, kerja>>

(* UpdateBrand, its check: no package that follows the brand's down payment  *)
(* is cheaper than the new one.                                              *)
UpdateBrandCheck(m, b, dp) ==
  /\ kerja[m] = NoTask
  /\ merek[b] # -1
  /\ \A p \in Paket : Ada(p) /\ paket[p].merek = b /\ paket[p].dp = -1 => dp <= paket[p].harga
  /\ kerja' = [kerja EXCEPT ![m] = [tugas |-> "merek", merek |-> b, dp |-> dp, bersih |-> TRUE]]
  /\ UNCHANGED <<merek, baris, rekening, paket, dipesan, setoran>>

UpdateBrand(m) ==
  /\ kerja[m].tugas = "merek"
  /\ LET b == kerja[m].merek
     IN  /\ merek' = [merek EXCEPT ![b] = kerja[m].dp]
         /\ paket' = [p \in Paket |->
              IF Ada(p) /\ paket[p].merek = b /\ ~ kerja[m].bersih
              THEN [paket[p] EXCEPT !.dpRagu = TRUE] ELSE paket[p]]
  /\ kerja' = Menyalip(m, {})
  /\ UNCHANGED <<baris, rekening, dipesan, setoran>>

(* DeleteBrand: its packages and the categories that name it refuse, its     *)
(* bank accounts go with it.                                                 *)
DeleteBrand(b) ==
  /\ merek[b] # -1
  /\ \A p \in Paket : paket[p].merek # b
  /\ \A c \in Kategori : baris[c] \notin {KOSONG, Merek} => b \notin baris[c]
  /\ merek' = [merek EXCEPT ![b] = -1]
  /\ rekening' = [r \in Rekening |-> IF rekening[r].merek = b THEN NoAccount ELSE rekening[r]]
  /\ kerja' = Putus({m \in Saves : kerja[m].form.merek = b}
                      \cup {m \in Meja : kerja[m].tugas = "merek" /\ kerja[m].merek = b})
  /\ UNCHANGED <<baris, paket, dipesan, setoran>>

-----------------------------------------------------------------------------
(* The other rows *)

(* A row is written for brands B to name; the packages that name it already  *)
(* are not looked at. An airport may get back the code that packages name,   *)
(* after its deletion has looked for another.                                *)
Put(r, B) ==
  /\ baris' = [baris EXCEPT ![r] = B]
  /\ kerja' = [m \in Meja |-> IF kerja[m].tugas = "hapus" /\ kerja[m].acuan = r /\ r \in Bandara
                               THEN [kerja[m] EXCEPT !.bersih = FALSE] ELSE kerja[m]]
  /\ UNCHANGED <<merek, rekening, paket, dipesan, setoran>>

PutAirline(r)   == r \in Maskapai /\ Put(r, Merek)
PutItinerary(r) == r \in Itinerari /\ Put(r, Merek)

(* In the city its packages need, or in another.                             *)
PutHotel(r) == r \in Hotel /\ \E B \in {{}, Merek} : Put(r, B)

(* Active or not.                                                            *)
PutDestination(r) == r \in Destinasi /\ \E B \in {{}, Merek} : Put(r, B)

(* With the code that packages name, or with another one.                    *)
PutAirport(r) == r \in Bandara /\ \E B \in {{}, Merek} : Put(r, B)

(* For the brands it lists, all of which exist, or for every brand.          *)
PutCategory(r) ==
  /\ r \in Kategori
  /\ \E B \in SUBSET Merek :
       /\ B = Merek \/ (B # {} /\ \A b \in B : merek[b] # -1)
       /\ Put(r, B)

(* DELETE, which the foreign keys of the packages refuse.                    *)
RowGoes(r) ==
  /\ baris[r] # KOSONG /\ ~ Dipakai(r)
  /\ baris' = [baris EXCEPT ![r] = KOSONG]
  /\ kerja' = Putus({m \in Saves : r \in kerja[m].form.acuan})
  /\ UNCHANGED <<merek, rekening, paket, dipesan, setoran>>

DeleteHotel(r)       == r \in Hotel /\ RowGoes(r)
DeleteAirline(r)     == r \in Maskapai /\ RowGoes(r)
DeleteItinerary(r)   == r \in Itinerari /\ RowGoes(r)
DeleteDestination(r) == r \in Destinasi /\ RowGoes(r)

DeleteCheck(m, r) ==
  /\ kerja[m] = NoTask /\ baris[r] # KOSONG
  /\ kerja' = [kerja EXCEPT ![m] = [tugas |-> "hapus", acuan |-> r, bersih |-> TRUE]]
  /\ UNCHANGED <<merek, baris, rekening, paket, dipesan, setoran>>

(* Delete of a category and of an airport, up to the count of the packages   *)
(* that use it.                                                              *)
DeleteCategory(m, r) == r \in Kategori /\ ~ Dipakai(r) /\ DeleteCheck(m, r)

(* Fault: nobody looks for packages.                                         *)
CodeNamedByNobody(r) == FALSE

(* Packages are looked for by the code the airport has now.                  *)
CodeNamed(r) == baris[r] # {} /\ Dipakai(r)

DeleteAirport(m, r) == r \in Bandara /\ ~ CodeNamed(r) /\ DeleteCheck(m, r)

(* Their write: a category is taken off its packages (ON DELETE SET NULL).   *)
DeleteChecked(m) ==
  /\ kerja[m].tugas = "hapus"
  /\ LET r == kerja[m].acuan
     IN  /\ baris' = [baris EXCEPT ![r] = KOSONG]
         /\ paket' = [p \in Paket |-> IF r \in Kategori /\ Ada(p)
                                      THEN [paket[p] EXCEPT !.acuan = @ \ {r}] ELSE paket[p]]
         /\ kerja' = Putus({n \in Saves : r \in Kategori /\ r \in kerja[n].form.acuan}
                             \cup {n \in Meja : kerja[n].tugas = "hapus" /\ kerja[n].acuan = r})
  /\ UNCHANGED <<merek, rekening, dipesan, setoran>>

-----------------------------------------------------------------------------
(* Bank accounts *)

BankAccount(r, b, aktif) ==
  /\ merek[b] # -1
  /\ rekening' = [rekening EXCEPT ![r] = [merek |-> b, aktif |-> aktif]]
  /\ UNCHANGED <<merek, baris, paket, dipesan, setoran, kerja>>

CreateBankAccount(r, b, aktif) == rekening[r] = NoAccount /\ BankAccount(r, b, aktif)
UpdateBankAccount(r, b, aktif) == rekening[r] # NoAccount /\ BankAccount(r, b, aktif)

(* Payments keep the copy they have of its name and number.                  *)
DeleteBankAccount(r) ==
  /\ rekening[r] # NoAccount
  /\ rekening' = [rekening EXCEPT ![r] = NoAccount]
  /\ UNCHANGED <<merek, baris, paket, dipesan, setoran, kerja>>

(* payment.Create: the account is active and of the package's brand.         *)
PaidInto(p, r) ==
  /\ p \in dipesan
  /\ rekening[r].aktif /\ rekening[r].merek = paket[p].merek
  /\ setoran' = setoran \cup {[paket |-> p, merek |-> rekening[r].merek]}
  /\ UNCHANGED <<merek, baris, rekening, paket, dipesan, kerja>>

-----------------------------------------------------------------------------
CatalogueNext ==
  \/ \E m \in Meja :
       \/ \E p \in Paket, form \in Formulir :
            CreateSchedule(m, p, form) \/ UpdateSchedule(m, p, form)
       \/ \E b \in Merek, dp \in DP : UpdateBrandCheck(m, b, dp)
       \/ \E r \in Acuan : DeleteCategory(m, r) \/ DeleteAirport(m, r)
       \/ Create(m) \/ Update(m) \/ UpdateBrand(m) \/ DeleteChecked(m) \/ TaskEnds(m)
  \/ \E p \in Paket :
       DeleteSchedule(p) \/ Booked(p) \/ DraftsDeleted(p) \/ \E r \in Rekening : PaidInto(p, r)
  \/ \E b \in Merek : DeleteBrand(b) \/ \E dp \in DP : CreateBrand(b, dp)
  \/ \E r \in Acuan :
       \/ PutHotel(r) \/ PutAirline(r) \/ PutItinerary(r) \/ PutDestination(r)
       \/ PutCategory(r) \/ PutAirport(r)
       \/ DeleteHotel(r) \/ DeleteAirline(r) \/ DeleteItinerary(r) \/ DeleteDestination(r)
  \/ \E r \in Rekening :
       \/ DeleteBankAccount(r)
       \/ \E b \in Merek, aktif \in BOOLEAN :
            CreateBankAccount(r, b, aktif) \/ UpdateBankAccount(r, b, aktif)

CatalogueSpec == CatalogueInit /\ [][CatalogueNext]_catalogueVars

-----------------------------------------------------------------------------
(* Properties *)

Packages == {p \in Paket : Ada(p)}

(* Every value is of its column, and what the database has keys for is there *)
(* (schedule/repository.go, migrations 001, 008, 028, 034 and 108).          *)
CatalogueTypeOK ==
  /\ merek \in [Merek -> DP \cup {-1}]
  /\ baris \in [Acuan -> {KOSONG} \cup (SUBSET Merek)]
  /\ \A r \in Rekening : rekening[r] # NoAccount => merek[rekening[r].merek] # -1
  /\ dipesan \subseteq Packages
  /\ \A p \in Packages :
       /\ merek[paket[p].merek] # -1
       /\ \A r \in paket[p].acuan \ Bandara : baris[r] # KOSONG

(* The down payment a package asks, its own or its brand's, is at most its   *)
(* price (validateDP, ValidateMinimalDP), whichever of the two forms was     *)
(* saved last; only a save that another one overtook can break this.         *)
DownPaymentFits ==
  \A p \in Packages :
    paket[p].harga >= (IF paket[p].dp = -1 THEN merek[paket[p].merek] ELSE paket[p].dp)
      \/ paket[p].dpRagu

(* Two packages of a brand that leave on one day have different names        *)
(* (schedule/handler.go, gate 18), unless one was saved by a request that    *)
(* another one overtook.                                                     *)
NamesDiffer ==
  \A p, q \in Packages :
    p # q /\ paket[p].merek = paket[q].merek /\ paket[p].nama = paket[q].nama
      => paket[p].namaRagu \/ paket[q].namaRagu

(* Money for a trip went to an account of the brand the trip is sold under   *)
(* (payment/repository.go), and it still is sold under that brand            *)
(* (prepareScheduleUpdate).                                                  *)
PaidIntoItsBrand ==
  \A s \in setoran : paket[s.paket].merek = s.merek

(* A row that a package names is not deleted. Two ways are left open: an     *)
(* airport whose code was changed before, and a package that names the row,  *)
(* or the airport, saved between the check and the delete of a category or   *)
(* an airport (category and airport Delete).                                 *)
UsedRowsStay ==
  [][\A r \in Acuan :
       Dipakai(r) /\ baris[r] # KOSONG /\ baris'[r] = KOSONG =>
         \/ r \in Bandara /\ baris[r] = {}
         \/ \E m \in Meja : kerja[m].tugas = "hapus" /\ kerja[m].acuan = r /\ ~ kerja[m].bersih
    ]_catalogueVars

(* In every state: no package without its brand or a row it names, none that *)
(* asks more beforehand than it costs, none with another's name, and money   *)
(* only where its brand banks, up to the saves that overtake each other.     *)
CatalogueInvariant == CatalogueTypeOK /\ DownPaymentFits /\ NamesDiffer /\ PaidIntoItsBrand
=============================================================================
