------------------------ MODULE BookingSystemProofs ------------------------
(***************************************************************************)
(* For every set of schedules, every finite set of bookings and pilgrims,  *)
(* all prices, amounts and bounds, and any number of payments and          *)
(* concurrent verifications: the system's types, its seat invariants, and  *)
(* what follows from them; then what one step may do to a booking and to   *)
(* the money confirmed for it: every step is shown to be of one of a few   *)
(* kinds, and the facts about money, reservations and deadlines that the   *)
(* kinds rest on are shown to be invariant.                                *)
(***************************************************************************)
EXTENDS BookingSystem, SumProofs

-----------------------------------------------------------------------------
(* The steps all transactions are built from: what deriving a status does to *)
(* a row, how many seats a row occupies, and when saving a row keeps the     *)
(* seats of its schedule within the capacity.                                *)

(* A row as every transaction leaves it: only a binding booking blocks       *)
(* seats, and a binding booking has travellers, as many as its seat_count.   *)
GoodRow(row) ==
  /\ row \in BookingRow
  /\ Exists(row) => row.schedule \in Schedules
  /\ row.is_seat_blocked => row.status \in Open
  /\ row.status \in Open =>
       row.seat_count = Cardinality(RegularPax(row)) /\ RegularPax(row) # {}

(* The number of seats a row occupies on its schedule.                       *)
Holding(row) == IF row.is_seat_blocked /\ row.status # "batal" THEN row.seat_count ELSE 0

(* The claims of all bookings but b.                                         *)
OtherClaims(b, s) == UNION {SeatsOf(c, bookings[c], s) : c \in Bookings \ {b}}

-----------------------------------------------------------------------------
(* Rows *)

(* Deriving a status yields a status of a binding booking.                   *)
LEMMA TargetIsOpen ==
  ASSUME NEW row, NEW paid, NEW regular
  PROVE  TargetStatus(row, paid, regular) \in Open
BY DEF TargetStatus, Open

(* Travellers can be counted.                                                *)
LEMMA PaxAreFinite ==
  ASSUME NEW row
  PROVE  /\ IsFiniteSet(RegularPax(row))
         /\ Cardinality(RegularPax(row)) \in Nat
         /\ Cardinality(RegularPax(row)) <= Cardinality(Jamaah)
<1>1. RegularPax(row) \in SUBSET Jamaah
  BY DEF RegularPax, Pax
<1> QED
  BY <1>1, DataAssumption, FS_Subset, FS_CardinalityType

(* A booking with a traveller has a positive number of them.                 *)
LEMMA TravellersCount ==
  ASSUME NEW row, RegularPax(row) # {}
  PROVE  Cardinality(RegularPax(row)) >= 1
BY PaxAreFinite, FS_EmptySet

(* syncBookingStatusTx leaves a good row good; it touches the status, the    *)
(* block and the deadline only, and only of a binding booking.               *)
LEMMA SyncedKeepsRowGood ==
  ASSUME NEW row, GoodRow(row), NEW paid, NEW regular
  PROVE  /\ GoodRow(Synced(row, paid, regular))
         /\ Synced(row, paid, regular).schedule = row.schedule
         /\ Synced(row, paid, regular).seat_count = row.seat_count
         /\ Synced(row, paid, regular).status \in Open <=> row.status \in Open
         /\ row.status \notin Open => Synced(row, paid, regular) = row
<1> DEFINE new == Synced(row, paid, regular)
           target == TargetStatus(row, paid, regular)
<1>1. CASE ~Moves(row, paid, regular)
  BY <1>1 DEF Synced
<1>2. CASE Moves(row, paid, regular)
  <2> DEFINE blocked == row.is_seat_blocked \/ target \in Secured
             deadline == IF target \in Secured \/ paid > 0 \/ ~row.is_seat_blocked
                         THEN "none" ELSE "running"
  <2>1. target \in Open /\ row.status \in Open
    BY <1>2, TargetIsOpen DEF Moves
  <2>2. blocked \in BOOLEAN /\ deadline \in {"none", "running", "lapsed"}
    BY DEF GoodRow, BookingRow
  <2>3. new = [row EXCEPT !.status = target, !.is_seat_blocked = blocked, !.hold = deadline]
    BY <1>2 DEF Synced
  <2> HIDE DEF target, blocked, deadline
  <2>4. new \in BookingRow
    BY <2>1, <2>2, <2>3 DEF GoodRow, BookingRow
  <2>5. /\ new.status = target /\ new.schedule = row.schedule
        /\ new.pax = row.pax /\ new.seat_count = row.seat_count
    BY <2>3 DEF GoodRow, BookingRow
  <2>6. RegularPax(new) = RegularPax(row)
    BY <2>5 DEF RegularPax, Pax
  <2>7. Exists(row)
    BY <2>1 DEF Open, Exists
  <2> QED
    BY <2>1, <2>4, <2>5, <2>6, <2>7 DEF GoodRow
<1> QED
  BY <1>1, <1>2

(* The seats syncBookingStatusTx takes cover the seats the row then holds.   *)
LEMMA SyncTakesWhatItHolds ==
  ASSUME NEW row, GoodRow(row), NEW paid, NEW regular \in Nat
  PROVE  /\ SyncSeats(row, paid, regular) \in Nat
         /\ row.is_seat_blocked =>
              /\ SyncSeats(row, paid, regular) = 0
              /\ Synced(row, paid, regular).is_seat_blocked
         /\ ~row.is_seat_blocked /\ Synced(row, paid, regular).is_seat_blocked =>
              SyncSeats(row, paid, regular) >= row.seat_count
         /\ ~row.is_seat_blocked /\ ~Synced(row, paid, regular).is_seat_blocked =>
              SyncSeats(row, paid, regular) = 0
<1>1. row.seat_count \in Nat /\ row.is_seat_blocked \in BOOLEAN
  BY DEF GoodRow, BookingRow
<1>2. SyncSeats(row, paid, regular) \in Nat
  BY <1>1 DEF SyncSeats
<1>3. CASE ~Moves(row, paid, regular)
  <2>1. Synced(row, paid, regular) = row
    BY <1>3 DEF Synced
  <2>2. SyncSeats(row, paid, regular) = 0
    BY <1>3 DEF SyncSeats
  <2> QED
    BY <1>1, <2>1, <2>2
<1>4. CASE Moves(row, paid, regular)
  <2>1. Synced(row, paid, regular).is_seat_blocked =
          (row.is_seat_blocked \/ TargetStatus(row, paid, regular) \in Secured)
    BY <1>4 DEF Synced, GoodRow, BookingRow
  <2>2. CASE row.is_seat_blocked
    <3>1. SyncSeats(row, paid, regular) = 0
      BY <2>2 DEF SyncSeats
    <3> QED
      BY <1>2, <2>1, <2>2, <3>1
  <2>3. CASE ~row.is_seat_blocked /\ TargetStatus(row, paid, regular) \in Secured
    <3>1. SyncSeats(row, paid, regular) =
            IF regular > row.seat_count THEN regular ELSE row.seat_count
      BY <1>4, <2>3 DEF SyncSeats
    <3>2. SyncSeats(row, paid, regular) >= row.seat_count
      BY <1>1, <3>1
    <3>3. Synced(row, paid, regular).is_seat_blocked
      BY <2>1, <2>3
    <3> QED
      BY <1>2, <2>3, <3>2, <3>3
  <2>4. CASE ~row.is_seat_blocked /\ TargetStatus(row, paid, regular) \notin Secured
    <3>1. SyncSeats(row, paid, regular) = 0
      BY <2>4 DEF SyncSeats
    <3> QED
      BY <1>2, <2>1, <2>4, <3>1
  <2> QED
    BY <2>2, <2>3, <2>4
<1> QED
  BY <1>3, <1>4

(* A price list gives every pilgrim a number.                                *)
LEMMA PriceListTyped ==
  ASSUME NEW P \in SUBSET Jamaah, NEW prices \in SUBSET Nat, NEW harga \in PriceLists(P, prices)
  PROVE  harga \in [Jamaah -> Nat]
<1>1. PICK bed \in [P \ Infant -> prices] :
        harga = [j \in Jamaah |-> IF j \notin P THEN 0
                                  ELSE IF j \in Infant THEN InfantPrice ELSE bed[j]]
  BY DEF PriceLists
<1>2. \A j \in P \ Infant : bed[j] \in Nat
  OBVIOUS
<1> QED
  BY <1>1, <1>2, DataAssumption

(* What an intake path may be asked to insert.                               *)
RowInput(status, s, channel, pic, P, harga) ==
  /\ status \in Open \cup {"draft"} /\ s \in Schedules /\ channel \in {"office", "portal"}
  /\ pic \in Jamaah \cup {NULL} /\ P \in SUBSET Jamaah /\ harga \in [Jamaah -> Nat]

(* A freshly inserted row, with every pax on it active.                      *)
LEMMA NewRowTyped ==
  ASSUME NEW status, NEW s, NEW channel, NEW pic, NEW P, NEW harga,
         RowInput(status, s, channel, pic, P, harga)
  PROVE  /\ NewRow(status, s, channel, pic, P, harga) \in BookingRow
         /\ NewRow(status, s, channel, pic, P, harga).status = status
         /\ NewRow(status, s, channel, pic, P, harga).schedule = s
         /\ ~NewRow(status, s, channel, pic, P, harga).is_seat_blocked
         /\ RegularPax(NewRow(status, s, channel, pic, P, harga)) = P \ Infant
<1> DEFINE row == NewRow(status, s, channel, pic, P, harga)
           pax == [j \in Jamaah |-> IF j \in P THEN "aktif" ELSE "none"]
<1> USE DEF RowInput
<1>1. 0 \in 0 .. MaxDiscounts
  BY DataAssumption
<1>2. pax \in [Jamaah -> {"none", "aktif", "batal"}]
  OBVIOUS
<1> HIDE DEF pax
<1>3. row = [NoRow EXCEPT !.status = status, !.schedule = s, !.channel = channel, !.pic = pic,
                          !.pax = pax, !.harga = harga]
  BY DEF NewRow, pax
<1>4. row = [status |-> status, schedule |-> s, channel |-> channel, pic |-> pic,
             pax |-> pax, harga |-> harga, discounts |-> 0, refunded |-> 0,
             is_seat_blocked |-> FALSE, seat_count |-> 0, hold |-> "none", full_payment |-> FALSE]
  BY <1>3 DEF NoRow
<1>5. row \in BookingRow
  BY <1>1, <1>2, <1>4 DEF BookingRow
<1>6. RegularPax(row) = P \ Infant
  BY <1>4 DEF RegularPax, Pax, pax
<1>7. row.status = status /\ row.schedule = s /\ row.is_seat_blocked = FALSE
  <2> HIDE DEF row
  <2> QED
    BY <1>4
<1> QED
  BY <1>5, <1>6, <1>7

-----------------------------------------------------------------------------
(* Seats *)

(* The part of the database the seats depend on, as all transactions leave   *)
(* it: what is left for sale and what bookings hold fit the capacity.        *)
SeatsFit == \A s \in Schedules : schedules[s].seat_sisa + Allocated(s) <= schedules[s].seat_total

StoreInv ==
  /\ schedules \in [Schedules -> ScheduleRow]
  /\ bookings \in [Bookings -> BookingRow]
  /\ \A b \in Bookings : GoodRow(bookings[b])
  /\ SeatsFit

(* A row occupies Holding(row) seats, on its own schedule only.              *)
LEMMA SeatsOfCount ==
  ASSUME NEW b, NEW s, NEW row, GoodRow(row)
  PROVE  /\ IsFiniteSet(SeatsOf(b, row, s))
         /\ Cardinality(SeatsOf(b, row, s)) = IF row.schedule = s THEN Holding(row) ELSE 0
<1>1. row.seat_count \in Nat
  BY DEF GoodRow, BookingRow
<1>2. IsFiniteSet(1 .. row.seat_count) /\ Cardinality(1 .. row.seat_count) = row.seat_count
  BY <1>1, FS_Interval
<1>3. IsFiniteSet({b}) /\ Cardinality({b}) = 1
  BY FS_Singleton
<1>4. /\ IsFiniteSet({b} \X (1 .. row.seat_count))
      /\ Cardinality({b} \X (1 .. row.seat_count)) = 1 * row.seat_count
  BY <1>2, <1>3, FS_Product
<1>5. IsFiniteSet({}) /\ Cardinality({}) = 0
  BY FS_EmptySet
<1> QED
  BY <1>1, <1>4, <1>5 DEF SeatsOf, Holding

(* No row occupies more seats than there are pilgrims.                       *)
LEMMA SeatsOfBounded ==
  ASSUME NEW b \in Bookings, NEW s, NEW row, GoodRow(row)
  PROVE  SeatsOf(b, row, s) \subseteq Bookings \X (1 .. Cardinality(Jamaah))
<1>1. CASE row.is_seat_blocked
  <2>1. row.seat_count = Cardinality(RegularPax(row))
    BY <1>1 DEF GoodRow
  <2>2. row.seat_count \in Nat /\ row.seat_count <= Cardinality(Jamaah)
    BY <2>1, PaxAreFinite
  <2>3. Cardinality(Jamaah) \in Nat
    BY DataAssumption, FS_CardinalityType
  <2>4. 1 .. row.seat_count \subseteq 1 .. Cardinality(Jamaah)
    BY <2>2, <2>3
  <2> QED
    BY <2>4 DEF SeatsOf
<1>2. CASE ~row.is_seat_blocked
  BY <1>2 DEF SeatsOf
<1> QED
  BY <1>1, <1>2

(* The claims of the other bookings are finite in number, and none of them   *)
(* is a claim of b.                                                          *)
LEMMA OtherClaimsCount ==
  ASSUME NEW b \in Bookings, NEW s, NEW row, \A c \in Bookings : GoodRow(bookings[c])
  PROVE  /\ IsFiniteSet(OtherClaims(b, s))
         /\ Cardinality(OtherClaims(b, s)) \in Nat
         /\ OtherClaims(b, s) \cap SeatsOf(b, row, s) = {}
<1>1. OtherClaims(b, s) \subseteq Bookings \X (1 .. Cardinality(Jamaah))
  BY SeatsOfBounded DEF OtherClaims
<1>2. IsFiniteSet(1 .. Cardinality(Jamaah))
  BY DataAssumption, FS_CardinalityType, FS_Interval
<1>3. IsFiniteSet(Bookings \X (1 .. Cardinality(Jamaah)))
  BY <1>2, DataAssumption, FS_Product
<1>4. IsFiniteSet(OtherClaims(b, s))
  BY <1>1, <1>3, FS_Subset
<1>5. OtherClaims(b, s) \cap SeatsOf(b, row, s) = {}
  BY DEF OtherClaims, SeatsOf
<1> QED
  BY <1>4, <1>5, FS_CardinalityType

(* Counting a booking with the others.                                       *)
LEMMA CountWithOthers ==
  ASSUME NEW b \in Bookings, NEW s, NEW row, GoodRow(row),
         \A c \in Bookings : GoodRow(bookings[c])
  PROVE  Cardinality(OtherClaims(b, s) \cup SeatsOf(b, row, s)) =
           Cardinality(OtherClaims(b, s)) + IF row.schedule = s THEN Holding(row) ELSE 0
<1>1. /\ IsFiniteSet(OtherClaims(b, s))
      /\ Cardinality(OtherClaims(b, s)) \in Nat
      /\ OtherClaims(b, s) \cap SeatsOf(b, row, s) = {}
  BY OtherClaimsCount
<1>2. /\ IsFiniteSet(SeatsOf(b, row, s))
      /\ Cardinality(SeatsOf(b, row, s)) = IF row.schedule = s THEN Holding(row) ELSE 0
  BY SeatsOfCount
<1>3. Holding(row) \in Nat
  BY DEF Holding, GoodRow, BookingRow
<1> QED
  BY <1>1, <1>2, <1>3, FS_Union, FS_EmptySet

(* The claims before a transaction on booking b, and after it.               *)
LEMMA ClaimsSplit ==
  ASSUME NEW b \in Bookings, NEW s
  PROVE  Claims(s) = OtherClaims(b, s) \cup SeatsOf(b, bookings[b], s)
BY DEF Claims, OtherClaims

LEMMA ClaimsAfter ==
  ASSUME NEW b \in Bookings, NEW s, NEW row, bookings \in [Bookings -> BookingRow],
         bookings' = [bookings EXCEPT ![b] = row]
  PROVE  Claims(s)' = OtherClaims(b, s) \cup SeatsOf(b, row, s)
<1>1. bookings'[b] = row /\ \A c \in Bookings \ {b} : bookings'[c] = bookings[c]
  OBVIOUS
<1>2. Claims(s)' = UNION {SeatsOf(c, bookings'[c], s) : c \in Bookings}
  BY DEF Claims, SeatsOf
<1> QED
  BY <1>1, <1>2 DEF OtherClaims

-----------------------------------------------------------------------------
(* Saving *)

(* RestoreSeats returns at most what it was asked to, and cuts nothing off   *)
(* when the schedule had the room.                                           *)
LEMMA RestoreBounded ==
  ASSUME schedules \in [Schedules -> ScheduleRow], NEW s \in Schedules, NEW n \in Nat
  PROVE  /\ SeatsAfterRestore(s, n) \in Nat
         /\ SeatsAfterRestore(s, n) <= schedules[s].seat_sisa + n
         /\ schedules[s].seat_sisa + n <= schedules[s].seat_total =>
              SeatsAfterRestore(s, n) = schedules[s].seat_sisa + n
<1>1. schedules[s].seat_sisa \in Nat /\ schedules[s].seat_total \in Nat
  BY DEF ScheduleRow
<1> QED
  BY <1>1 DEF SeatsAfterRestore

(* What Save writes.                                                         *)
LEMMA SaveWrites ==
  ASSUME StoreInv, NEW b \in Bookings, NEW row, GoodRow(row), row.schedule \in Schedules,
         NEW released \in Nat, NEW taken \in Nat, Save(b, row, released, taken)
  PROVE  /\ bookings' = [bookings EXCEPT ![b] = row]
         /\ schedules' \in [Schedules -> ScheduleRow]
         /\ \A s \in Schedules : schedules'[s].seat_total = schedules[s].seat_total
         /\ schedules'[row.schedule].seat_sisa = SeatsAfterRestore(row.schedule, released) - taken
         /\ taken <= SeatsAfterRestore(row.schedule, released)
         /\ \A s \in Schedules \ {row.schedule} : schedules'[s] = schedules[s]
<1> DEFINE left == SeatsAfterRestore(row.schedule, released)
<1>1. schedules \in [Schedules -> ScheduleRow]
  BY DEF StoreInv
<1>2. left \in Nat
  BY <1>1, RestoreBounded
<1>3. /\ taken <= left
      /\ bookings' = [bookings EXCEPT ![b] = row]
      /\ schedules' = [schedules EXCEPT ![row.schedule].seat_sisa = left - taken]
  BY DEF Save
<1> HIDE DEF left
<1>4. left - taken \in Nat
  BY <1>2, <1>3
<1>5. schedules' \in [Schedules -> ScheduleRow]
  BY <1>1, <1>3, <1>4 DEF ScheduleRow
<1>6. \A s \in Schedules : schedules'[s].seat_total = schedules[s].seat_total
  BY <1>1, <1>3 DEF ScheduleRow
<1>7. schedules'[row.schedule].seat_sisa = left - taken
  BY <1>1, <1>3 DEF ScheduleRow
<1>8. \A s \in Schedules \ {row.schedule} : schedules'[s] = schedules[s]
  BY <1>1, <1>3
<1> QED
  BY <1>3, <1>5, <1>6, <1>7, <1>8 DEF left

(* A transaction that takes at least the seats its row gains, and returns at *)
(* most the seats it loses, keeps the seats within the capacity.             *)
LEMMA SaveKeepsStore ==
  ASSUME StoreInv, NEW b \in Bookings, NEW row, GoodRow(row), row.schedule \in Schedules,
         NEW released \in Nat, NEW taken \in Nat, Save(b, row, released, taken),
         bookings[b].schedule = row.schedule \/ Holding(bookings[b]) = 0,
         Holding(row) + released <= Holding(bookings[b]) + taken
  PROVE  StoreInv'
<1>1. /\ bookings' = [bookings EXCEPT ![b] = row]
      /\ schedules' \in [Schedules -> ScheduleRow]
      /\ \A s \in Schedules : schedules'[s].seat_total = schedules[s].seat_total
      /\ schedules'[row.schedule].seat_sisa = SeatsAfterRestore(row.schedule, released) - taken
      /\ taken <= SeatsAfterRestore(row.schedule, released)
      /\ \A s \in Schedules \ {row.schedule} : schedules'[s] = schedules[s]
  BY SaveWrites
<1>2. /\ bookings \in [Bookings -> BookingRow]
      /\ \A c \in Bookings : GoodRow(bookings[c])
      /\ schedules \in [Schedules -> ScheduleRow]
  BY DEF StoreInv
<1>3. bookings' \in [Bookings -> BookingRow] /\ \A c \in Bookings : GoodRow(bookings'[c])
  BY <1>1, <1>2 DEF GoodRow
<1>4. Holding(row) \in Nat /\ Holding(bookings[b]) \in Nat
  BY <1>2 DEF Holding, GoodRow, BookingRow
<1>5. ASSUME NEW s \in Schedules
      PROVE  schedules'[s].seat_sisa + Cardinality(Claims(s)') <= schedules'[s].seat_total
  <2>1. Claims(s)' = OtherClaims(b, s) \cup SeatsOf(b, row, s)
    BY <1>1, <1>2, ClaimsAfter
  <2>2. Cardinality(Claims(s)') =
          Cardinality(OtherClaims(b, s)) + IF row.schedule = s THEN Holding(row) ELSE 0
    BY <1>2, <2>1, CountWithOthers
  <2>3. Allocated(s) = Cardinality(OtherClaims(b, s))
                         + IF bookings[b].schedule = s THEN Holding(bookings[b]) ELSE 0
    BY <1>2, ClaimsSplit, CountWithOthers DEF Allocated
  <2>4. schedules[s].seat_sisa + Allocated(s) <= schedules[s].seat_total
    BY DEF StoreInv, SeatsFit
  <2>5. Cardinality(OtherClaims(b, s)) \in Nat
    BY <1>2, OtherClaimsCount
  <2>6. schedules[s].seat_sisa \in Nat /\ schedules[s].seat_total \in Nat
    BY <1>2 DEF ScheduleRow
  <2>7. CASE s = row.schedule
    <3>1. /\ SeatsAfterRestore(s, released) \in Nat
          /\ SeatsAfterRestore(s, released) <= schedules[s].seat_sisa + released
      BY <1>2, RestoreBounded
    <3>2. schedules'[s].seat_sisa = SeatsAfterRestore(s, released) - taken
      BY <1>1, <2>7
    <3>3. Cardinality(Claims(s)') = Cardinality(OtherClaims(b, s)) + Holding(row)
      BY <2>2, <2>7
    <3>4. Allocated(s) = Cardinality(OtherClaims(b, s)) + Holding(bookings[b])
      BY <1>4, <2>3, <2>5, <2>7
    <3> QED
      BY <1>1, <1>4, <2>4, <2>5, <2>6, <3>1, <3>2, <3>3, <3>4
  <2>8. CASE s # row.schedule
    <3>1. Cardinality(Claims(s)') = Cardinality(OtherClaims(b, s))
      BY <2>2, <2>5, <2>8
    <3>2. Allocated(s) >= Cardinality(OtherClaims(b, s))
      BY <1>4, <2>3, <2>5
    <3>3. schedules'[s] = schedules[s]
      BY <1>1, <2>8
    <3> HIDE DEF Allocated
    <3>4. Allocated(s) \in Nat
      BY <1>4, <2>3, <2>5
    <3> QED
      BY <2>4, <2>5, <2>6, <3>1, <3>2, <3>3, <3>4
  <2> QED
    BY <2>7, <2>8
<1>6. SeatsFit'
  BY <1>5 DEF SeatsFit, Allocated
<1> QED
  BY <1>1, <1>3, <1>6 DEF StoreInv

(* Deriving the status of a row never makes it hold more than it takes.      *)
LEMMA SyncedHolding ==
  ASSUME NEW row, GoodRow(row), NEW paid, NEW regular \in Nat
  PROVE  Holding(Synced(row, paid, regular)) <= Holding(row) + SyncSeats(row, paid, regular)
<1> DEFINE new == Synced(row, paid, regular)
           taken == SyncSeats(row, paid, regular)
<1>1. /\ GoodRow(new) /\ new.seat_count = row.seat_count
      /\ new.status \in Open <=> row.status \in Open
  BY SyncedKeepsRowGood
<1>2. /\ taken \in Nat
      /\ row.is_seat_blocked => taken = 0 /\ new.is_seat_blocked
      /\ ~row.is_seat_blocked /\ new.is_seat_blocked => taken >= row.seat_count
  BY SyncTakesWhatItHolds
<1>3. row.seat_count \in Nat /\ row.is_seat_blocked \in BOOLEAN /\ new.is_seat_blocked \in BOOLEAN
  BY <1>1 DEF GoodRow, BookingRow
<1> HIDE DEF new, taken
<1>4. CASE row.is_seat_blocked
  <2>1. row.status # "batal" /\ new.status # "batal"
    BY <1>1, <1>4 DEF GoodRow, Open
  <2>2. Holding(row) = row.seat_count /\ Holding(new) = row.seat_count
    BY <1>1, <1>2, <1>4, <2>1 DEF Holding
  <2> QED
    BY <1>2, <1>3, <2>2 DEF new, taken
<1>5. CASE ~row.is_seat_blocked
  <2>1. Holding(row) = 0
    BY <1>5 DEF Holding
  <2>2. CASE new.is_seat_blocked
    <3>1. Holding(new) <= row.seat_count
      BY <1>1, <1>3 DEF Holding
    <3>2. taken >= row.seat_count
      BY <1>2, <1>5, <2>2
    <3>3. Holding(new) \in Nat
      BY <1>1, <1>3 DEF Holding
    <3> QED
      BY <1>2, <1>3, <2>1, <3>1, <3>2, <3>3 DEF new, taken
  <2>3. CASE ~new.is_seat_blocked
    <3>1. Holding(new) = 0
      BY <2>3 DEF Holding
    <3> QED
      BY <1>2, <2>1, <3>1 DEF new, taken
  <2> QED
    BY <2>2, <2>3
<1> QED
  BY <1>4, <1>5

-----------------------------------------------------------------------------
(* The system *)

(* A booking that has been binding once.                                     *)
Settled == Open \cup {"batal"}

(* A finalization that holds the booking's lock found a draft with           *)
(* travellers, and nothing changes that draft meanwhile.                     *)
LockedAreDrafts ==
  \A b \in Bookings : finalizing[b].stage = "locked" =>
    bookings[b].status = "draft" /\ RegularPax(bookings[b]) # {}

BookInv ==
  /\ StoreInv
  /\ finalizing \in [Bookings -> Progress]
  /\ LockedAreDrafts

(* Payments belong to bookings that are, or were, binding.                   *)
PayInv ==
  /\ payments \in [Payments -> PaymentRow]
  /\ \A p \in Payments : payments[p].status # "absent" =>
       payments[p].booking \in Bookings /\ bookings[payments[p].booking].status \in Settled

WorkInv ==
  /\ verifying \in [Verifiers -> Snapshot]
  /\ \A v \in Verifiers :
       verifying[v].payment \in Payments => payments[verifying[v].payment].status # "absent"
  /\ candidates \subseteq Bookings

(* The inductive invariant.                                                  *)
IInv == BookInv /\ PayInv /\ WorkInv

(* No binding or cancelled booking becomes anything else.                    *)
StaysSettled ==
  \A b \in Bookings : bookings[b].status \in Settled => bookings'[b].status \in Settled

-----------------------------------------------------------------------------
(* Steps *)

LEMMA PayKept ==
  ASSUME PayInv, StaysSettled, UNCHANGED payments
  PROVE  PayInv'
BY DEF PayInv, StaysSettled

LEMMA WorkKept ==
  ASSUME WorkInv, UNCHANGED <<payments, verifying, candidates>>
  PROVE  WorkInv'
BY DEF WorkInv

(* One transaction on booking b that finds it unlocked.                      *)
LEMMA TransactionKeepsBook ==
  ASSUME BookInv, NEW b \in Bookings, NEW row, GoodRow(row), row.schedule \in Schedules,
         NEW released \in Nat, NEW taken \in Nat, Save(b, row, released, taken),
         bookings[b].schedule = row.schedule \/ Holding(bookings[b]) = 0,
         Holding(row) + released <= Holding(bookings[b]) + taken,
         bookings[b].status \in Settled => row.status \in Settled,
         Unlocked(b) \/ bookings[b].status # "draft",
         UNCHANGED finalizing
  PROVE  BookInv' /\ StaysSettled
<1>1. StoreInv'
  BY SaveKeepsStore DEF BookInv
<1>2. bookings' = [bookings EXCEPT ![b] = row] /\ bookings \in [Bookings -> BookingRow]
  BY DEF Save, BookInv, StoreInv
<1>3. LockedAreDrafts'
  BY <1>2 DEF LockedAreDrafts, BookInv, Unlocked
<1>4. StaysSettled
  BY <1>2 DEF StaysSettled
<1> QED
  BY <1>1, <1>3, <1>4 DEF BookInv

(* The same, when the status is derived anew before the row is written.      *)
LEMMA SyncKeepsBook ==
  ASSUME BookInv, NEW b \in Bookings, NEW row, GoodRow(row), row.schedule \in Schedules,
         NEW paid, NEW regular \in Nat, NEW released \in Nat,
         Save(b, Synced(row, paid, regular), released, SyncSeats(row, paid, regular)),
         bookings[b].schedule = row.schedule,
         Holding(row) + released <= Holding(bookings[b]),
         bookings[b].status \in Settled => row.status \in Settled,
         Unlocked(b) \/ bookings[b].status # "draft",
         UNCHANGED finalizing
  PROVE  BookInv' /\ StaysSettled
<1> DEFINE new == Synced(row, paid, regular)
           taken == SyncSeats(row, paid, regular)
<1>1. /\ GoodRow(new) /\ new.schedule = row.schedule
      /\ new.status \in Open <=> row.status \in Open
      /\ row.status \notin Open => new = row
  BY SyncedKeepsRowGood
<1>2. taken \in Nat
  BY SyncTakesWhatItHolds
<1>3. Holding(new) <= Holding(row) + taken
  BY SyncedHolding
<1>4. GoodRow(bookings[b])
  BY DEF BookInv, StoreInv
<1>5. Holding(new) \in Nat /\ Holding(row) \in Nat /\ Holding(bookings[b]) \in Nat
  BY <1>1, <1>4 DEF Holding, GoodRow, BookingRow
<1> HIDE DEF new, taken
<1>6. Holding(new) + released <= Holding(bookings[b]) + taken
  BY <1>2, <1>3, <1>5
<1>7. bookings[b].status \in Settled => new.status \in Settled
  BY <1>1 DEF Settled
<1>8. Save(b, new, released, taken) /\ new.schedule \in Schedules
  BY <1>1 DEF new, taken
<1> QED
  BY <1>1, <1>2, <1>6, <1>7, <1>8, TransactionKeepsBook

-----------------------------------------------------------------------------
(* The admin desk *)

(* What the invariant says of one booking.                                   *)
LEMMA RowFacts ==
  ASSUME IInv, NEW b \in Bookings
  PROVE  /\ GoodRow(bookings[b])
         /\ bookings[b] \in BookingRow
         /\ Holding(bookings[b]) \in Nat
         /\ ~bookings[b].is_seat_blocked => Holding(bookings[b]) = 0
         /\ bookings[b].is_seat_blocked => Holding(bookings[b]) = bookings[b].seat_count
         /\ Exists(bookings[b]) => bookings[b].schedule \in Schedules
<1>1. GoodRow(bookings[b])
  BY DEF IInv, BookInv, StoreInv
<1> QED
  BY <1>1 DEF GoodRow, BookingRow, Holding, Open

LEMMA CreateBookingKeeps ==
  ASSUME IInv, NEW b \in Bookings, NEW s \in Schedules, NEW P \in SUBSET Jamaah,
         NEW pic \in P \ Infant, NEW harga \in PriceLists(P, RoomPrices),
         CreateBooking(b, s, pic, P, harga)
  PROVE  IInv'
<1> DEFINE regular == Cardinality(P \ Infant)
           base == NewRow("baru", s, "office", pic, P, harga)
           row == [base EXCEPT !.is_seat_blocked = TRUE, !.seat_count = regular]
<1>1. RowInput("baru", s, "office", pic, P, harga)
  BY PriceListTyped, DataAssumption DEF RowInput, Open
<1>2. /\ base \in BookingRow /\ base.status = "baru" /\ base.schedule = s
      /\ RegularPax(base) = P \ Infant
  BY <1>1, NewRowTyped
<1>3. regular \in Nat
  BY <1>2, PaxAreFinite
<1> HIDE DEF base, regular
<1>4. /\ row \in BookingRow /\ row.status = "baru" /\ row.schedule = s
      /\ row.is_seat_blocked /\ row.seat_count = regular /\ row.pax = base.pax
  BY <1>2, <1>3 DEF BookingRow
<1>5. RegularPax(row) = P \ Infant
  BY <1>2, <1>4 DEF RegularPax, Pax
<1> HIDE DEF row
<1>6. GoodRow(row)
  BY <1>4, <1>5 DEF GoodRow, regular, Open
<1>7. Holding(row) = regular
  BY <1>4 DEF Holding
<1>8. Holding(bookings[b]) = 0
  BY RowFacts DEF CreateBooking, GoodRow, Open
<1>9. /\ Save(b, row, 0, regular) /\ UNCHANGED finalizing
      /\ UNCHANGED <<payments, verifying, candidates>>
  BY DEF CreateBooking, DeskUnchanged, row, base, regular
<1>10. bookings[b].status = "absent"
  BY DEF CreateBooking
<1>11. BookInv' /\ StaysSettled
  BY <1>3, <1>4, <1>6, <1>7, <1>8, <1>9, <1>10, TransactionKeepsBook DEF IInv, Settled, Open
<1> QED
  BY <1>9, <1>11, PayKept, WorkKept DEF IInv

(* A row written back that holds the same seats.                             *)
LEMMA RowWriteKeeps ==
  ASSUME IInv, NEW b \in Bookings, NEW row, GoodRow(row),
         \A s \in Schedules : SeatsOf(b, row, s) = SeatsOf(b, bookings[b], s),
         bookings[b].status \in Settled => row.status \in Settled,
         \/ Unlocked(b)
         \/ row.status = bookings[b].status /\ RegularPax(row) = RegularPax(bookings[b]),
         bookings' = [bookings EXCEPT ![b] = row],
         UNCHANGED <<schedules, payments, verifying, finalizing, candidates>>
  PROVE  IInv'
<1>1. /\ bookings \in [Bookings -> BookingRow] /\ \A c \in Bookings : GoodRow(bookings[c])
      /\ schedules \in [Schedules -> ScheduleRow] /\ SeatsFit
  BY DEF IInv, BookInv, StoreInv
<1>2. bookings' \in [Bookings -> BookingRow] /\ \A c \in Bookings : GoodRow(bookings'[c])
  BY <1>1 DEF GoodRow
<1>3. \A s \in Schedules : Claims(s)' = Claims(s)
  <2> TAKE s \in Schedules
  <2>1. Claims(s)' = OtherClaims(b, s) \cup SeatsOf(b, row, s)
    BY <1>1, ClaimsAfter
  <2>2. Claims(s) = OtherClaims(b, s) \cup SeatsOf(b, bookings[b], s)
    BY ClaimsSplit
  <2> QED
    BY <2>1, <2>2
<1>4. SeatsFit'
  BY <1>1, <1>3 DEF SeatsFit, Allocated
<1>5. LockedAreDrafts'
  BY <1>1 DEF IInv, BookInv, LockedAreDrafts, Unlocked
<1>6. BookInv'
  BY <1>1, <1>2, <1>4, <1>5 DEF IInv, BookInv, StoreInv
<1>7. StaysSettled
  BY <1>1 DEF StaysSettled
<1> QED
  BY <1>6, <1>7, PayKept, WorkKept DEF IInv

(* A draft written over a draft, or over nothing, holds no seats.            *)
LEMMA DraftWriteKeeps ==
  ASSUME IInv, NEW b \in Bookings, NEW row \in BookingRow,
         bookings[b].status \in {"absent", "draft"}, Unlocked(b),
         row.status \in {"draft", "deleted"}, ~row.is_seat_blocked,
         Exists(row) => row.schedule \in Schedules,
         bookings' = [bookings EXCEPT ![b] = row],
         UNCHANGED <<schedules, payments, verifying, finalizing, candidates>>
  PROVE  IInv'
<1>1. GoodRow(row)
  BY DEF GoodRow, Open
<1>2. ~bookings[b].is_seat_blocked /\ bookings[b].status \notin Settled
  BY RowFacts DEF GoodRow, Open, Settled
<1>3. \A s \in Schedules : SeatsOf(b, row, s) = SeatsOf(b, bookings[b], s)
  BY <1>2 DEF SeatsOf
<1> QED
  BY <1>1, <1>2, <1>3, RowWriteKeeps

LEMMA CreateDraftBookingKeeps ==
  ASSUME IInv, NEW b \in Bookings, NEW s \in Schedules, NEW P \in SUBSET Jamaah,
         NEW pic \in (Jamaah \ Infant) \cup {NULL},
         NEW harga \in PriceLists(P, RoomPrices \cup {0}),
         CreateDraftBooking(b, s, pic, P, harga)
  PROVE  IInv'
<1> DEFINE base == NewRow("draft", s, "office", pic, P, harga)
           row == [base EXCEPT !.seat_count = 1]
<1>1. RowInput("draft", s, "office", pic, P, harga)
  BY PriceListTyped, DataAssumption DEF RowInput
<1>2. /\ base \in BookingRow /\ base.status = "draft" /\ base.schedule = s
      /\ ~base.is_seat_blocked
  BY <1>1, NewRowTyped
<1>3. bookings[b].status = "absent" /\ bookings' = [bookings EXCEPT ![b] = row]
  BY DEF CreateDraftBooking
<1> HIDE DEF base
<1>4. /\ row \in BookingRow /\ row.status = "draft" /\ row.schedule = s
      /\ ~row.is_seat_blocked
  BY <1>2 DEF BookingRow
<1>5. Unlocked(b)
  BY <1>3 DEF IInv, BookInv, LockedAreDrafts, Unlocked
<1> HIDE DEF row
<1> QED
  BY <1>3, <1>4, <1>5, DraftWriteKeeps DEF CreateDraftBooking, DeskUnchanged

LEMMA UpdateDraftBookingKeeps ==
  ASSUME IInv, NEW b \in Bookings, NEW s \in Schedules, NEW P \in SUBSET Jamaah,
         NEW pic \in (Jamaah \ Infant) \cup {NULL},
         NEW harga \in PriceLists(P, RoomPrices \cup {0}),
         UpdateDraftBooking(b, s, pic, P, harga)
  PROVE  IInv'
<1> DEFINE base == NewRow("draft", s, "office", pic, P, harga)
           row == [base EXCEPT !.discounts = bookings[b].discounts,
                               !.seat_count = bookings[b].seat_count]
<1>1. RowInput("draft", s, "office", pic, P, harga)
  BY PriceListTyped, DataAssumption DEF RowInput
<1>2. /\ base \in BookingRow /\ base.status = "draft" /\ base.schedule = s
      /\ ~base.is_seat_blocked
  BY <1>1, NewRowTyped
<1>3. /\ bookings[b].status = "draft" /\ Unlocked(b)
      /\ bookings' = [bookings EXCEPT ![b] = row]
  BY DEF UpdateDraftBooking
<1>4. bookings[b].discounts \in 0 .. MaxDiscounts /\ bookings[b].seat_count \in Nat
  BY RowFacts DEF BookingRow
<1> HIDE DEF base
<1>5. /\ row \in BookingRow /\ row.status = "draft" /\ row.schedule = s
      /\ ~row.is_seat_blocked
  BY <1>2, <1>4 DEF BookingRow
<1> HIDE DEF row
<1> QED
  BY <1>3, <1>5, DraftWriteKeeps DEF UpdateDraftBooking, DeskUnchanged

LEMMA DeleteDraftKeeps ==
  ASSUME IInv, NEW b \in Bookings, DeleteDraft(b)
  PROVE  IInv'
<1> DEFINE row == [NoRow EXCEPT !.status = "deleted"]
<1>1. 0 \in 0 .. MaxDiscounts
  BY DataAssumption
<1>2. row \in BookingRow /\ row.status = "deleted" /\ ~row.is_seat_blocked
  BY <1>1 DEF NoRow, BookingRow
<1>3. ~Exists(row)
  BY <1>2 DEF Exists
<1>4. /\ bookings[b].status = "draft" /\ Unlocked(b)
      /\ bookings' = [bookings EXCEPT ![b] = row]
  BY DEF DeleteDraft
<1> HIDE DEF row
<1> QED
  BY <1>2, <1>3, <1>4, DraftWriteKeeps DEF DeleteDraft, DeskUnchanged

(* A finalization that only makes progress changes no row.                   *)
LEMMA ProgressKeeps ==
  ASSUME IInv, NEW b \in Bookings, NEW progress \in Progress, Advance(b, progress),
         progress.stage = "locked" =>
           bookings[b].status = "draft" /\ RegularPax(bookings[b]) # {},
         UNCHANGED <<schedules, bookings, payments, verifying, candidates>>
  PROVE  IInv'
<1>1. StoreInv'
  BY DEF IInv, BookInv, StoreInv, SeatsFit, Allocated, Claims, SeatsOf
<1>2. finalizing \in [Bookings -> Progress] /\ LockedAreDrafts
  BY DEF IInv, BookInv
<1>3. finalizing' \in [Bookings -> Progress]
  BY <1>2 DEF Advance
<1>4. LockedAreDrafts'
  BY <1>2 DEF LockedAreDrafts, Advance
<1>5. StaysSettled
  BY DEF StaysSettled
<1> QED
  BY <1>1, <1>3, <1>4, <1>5, PayKept, WorkKept DEF IInv, BookInv

LEMMA FinalizeProgressKeeps ==
  ASSUME IInv, NEW b \in Bookings, FinalizeCheck(b) \/ FinalizeLock(b) \/ FinalizeFails(b)
  PROVE  IInv'
<1>1. CASE FinalizeCheck(b)
  <2>1. [stage |-> "checked", registered |-> {}] \in Progress
    BY DEF Progress
  <2> QED
    BY <1>1, <2>1, ProgressKeeps DEF FinalizeCheck, DeskUnchanged
<1>2. CASE FinalizeLock(b)
  <2> DEFINE progress == [stage |-> "locked", registered |-> Registered(bookings[b].schedule, b)]
  <2>1. progress \in Progress
    BY DEF Progress, Registered
  <2> QED
    BY <1>2, <2>1, ProgressKeeps DEF FinalizeLock, DeskUnchanged
<1>3. CASE FinalizeFails(b)
  <2>1. Idle \in Progress /\ Idle.stage # "locked"
    BY DEF Progress, Idle
  <2> QED
    BY <1>3, <2>1, ProgressKeeps DEF FinalizeFails, DeskUnchanged
<1> QED
  BY <1>1, <1>2, <1>3

LEMMA FinalizeCommitKeeps ==
  ASSUME IInv, NEW b \in Bookings, FinalizeCommit(b)
  PROVE  IInv'
<1> DEFINE old == bookings[b]
           regular == Cardinality(RegularPax(old))
           row == [old EXCEPT !.status = "baru", !.is_seat_blocked = TRUE, !.seat_count = regular]
<1>1. /\ GoodRow(old) /\ old \in BookingRow
      /\ old.status = "draft" /\ RegularPax(old) # {}
  BY RowFacts DEF IInv, BookInv, LockedAreDrafts, FinalizeCommit
<1>2. regular \in Nat
  BY PaxAreFinite
<1>3. old.schedule \in Schedules /\ Holding(old) = 0
  BY <1>1, RowFacts DEF GoodRow, Open, Exists
<1> HIDE DEF regular, old
<1>4. /\ row \in BookingRow /\ row.status = "baru" /\ row.schedule = old.schedule
      /\ row.is_seat_blocked /\ row.seat_count = regular /\ row.pax = old.pax
  BY <1>1, <1>2 DEF BookingRow, Open
<1>5. RegularPax(row) = RegularPax(old)
  BY <1>4 DEF RegularPax, Pax
<1>6. /\ Save(b, row, 0, regular)
      /\ Advance(b, Idle)
      /\ UNCHANGED <<payments, verifying, candidates>>
  BY DEF FinalizeCommit, DeskUnchanged, old, regular
<1> HIDE DEF row
<1>7. GoodRow(row) /\ Holding(row) = regular
  BY <1>1, <1>3, <1>4, <1>5 DEF GoodRow, Holding, regular, Open
<1>8. StoreInv'
  BY <1>2, <1>3, <1>4, <1>6, <1>7, SaveKeepsStore DEF IInv, BookInv, old
<1>9. /\ finalizing \in [Bookings -> Progress] /\ LockedAreDrafts
      /\ bookings \in [Bookings -> BookingRow]
      /\ bookings' = [bookings EXCEPT ![b] = row]
  BY <1>6 DEF IInv, BookInv, StoreInv, Save
<1>10. finalizing' = [finalizing EXCEPT ![b] = Idle] /\ Idle \in Progress /\ Idle.stage # "locked"
  BY <1>6 DEF Advance, Idle, Progress
<1>11. finalizing' \in [Bookings -> Progress] /\ LockedAreDrafts'
  BY <1>9, <1>10 DEF LockedAreDrafts
<1>12. StaysSettled
  BY <1>4, <1>9 DEF StaysSettled, Settled, Open
<1> QED
  BY <1>6, <1>8, <1>11, <1>12, PayKept, WorkKept DEF IInv, BookInv

(* Pax j and their seat leave together.                                      *)
LEMMA PaxCancelledKeepsRowGood ==
  ASSUME NEW row, GoodRow(row), Exists(row), NEW j \in Pax(row), NEW pic \in Jamaah \cup {NULL}
  PROVE  /\ GoodRow(PaxCancelled(row, j, pic))
         /\ PaxCancelled(row, j, pic).schedule = row.schedule
         /\ row.status \in Settled => PaxCancelled(row, j, pic).status \in Settled
         /\ Holding(PaxCancelled(row, j, pic)) +
              (IF j \notin Infant /\ row.is_seat_blocked THEN 1 ELSE 0) <= Holding(row)
<1> DEFINE rest == RegularPax(row) \ {j}
           new == PaxCancelled(row, j, pic)
           freed == IF j \notin Infant /\ row.is_seat_blocked THEN 1 ELSE 0
<1>1. /\ row \in BookingRow /\ row.schedule \in Schedules
      /\ row.is_seat_blocked \in BOOLEAN
      /\ row.is_seat_blocked => row.status \in Open
      /\ row.status \in Open => row.seat_count = Cardinality(RegularPax(row))
  BY DEF GoodRow, BookingRow
<1>2. /\ IsFiniteSet(RegularPax(row)) /\ Cardinality(RegularPax(row)) \in Nat
      /\ Cardinality(rest) = IF j \in RegularPax(row) THEN Cardinality(RegularPax(row)) - 1
                             ELSE Cardinality(RegularPax(row))
      /\ IsFiniteSet(rest) /\ Cardinality(rest) \in Nat
  BY PaxAreFinite, FS_RemoveElement, FS_CardinalityType
<1>3. j \in Jamaah /\ (j \in RegularPax(row) <=> j \notin Infant)
  BY DEF Pax, RegularPax
<1>4. ASSUME NEW P
      PROVE  /\ Without(row, P) \in BookingRow
             /\ Without(row, P).status = row.status /\ Without(row, P).schedule = row.schedule
             /\ Without(row, P).is_seat_blocked = row.is_seat_blocked
             /\ Pax(Without(row, P)) = Pax(row) \ P
  <2> DEFINE pax == [i \in Jamaah |-> IF i \in P THEN "batal" ELSE row.pax[i]]
             harga == [i \in Jamaah |-> IF i \in P /\ row.status \in {"baru", "draft"}
                                        THEN 0 ELSE row.harga[i]]
  <2>1. pax \in [Jamaah -> {"none", "aktif", "batal"}] /\ harga \in [Jamaah -> Nat]
    BY <1>1 DEF BookingRow
  <2>2. Without(row, P) = [row EXCEPT !.pax = pax, !.harga = harga]
    BY DEF Without
  <2>3. \A i \in Jamaah : pax[i] = "aktif" <=> i \notin P /\ row.pax[i] = "aktif"
    OBVIOUS
  <2> HIDE DEF pax, harga
  <2>4. /\ Without(row, P) \in BookingRow /\ Without(row, P).pax = pax
        /\ Without(row, P).status = row.status /\ Without(row, P).schedule = row.schedule
        /\ Without(row, P).is_seat_blocked = row.is_seat_blocked
    BY <1>1, <2>1, <2>2 DEF BookingRow
  <2> QED
    BY <2>3, <2>4 DEF Pax
<1>5. CASE rest # {}
  <2> DEFINE left == Without(row, {j})
  <2>1. new = [left EXCEPT !.pic = pic, !.seat_count = Cardinality(rest)]
    BY <1>5 DEF PaxCancelled
  <2>2. /\ left \in BookingRow /\ left.status = row.status /\ left.schedule = row.schedule
        /\ left.is_seat_blocked = row.is_seat_blocked /\ Pax(left) = Pax(row) \ {j}
    BY <1>4
  <2> HIDE DEF left, new
  <2>3. /\ new \in BookingRow /\ new.status = row.status /\ new.schedule = row.schedule
        /\ new.is_seat_blocked = row.is_seat_blocked /\ new.pax = left.pax
        /\ new.seat_count = Cardinality(rest)
    BY <1>2, <2>1, <2>2 DEF BookingRow
  <2>4. RegularPax(new) = rest
    BY <2>2, <2>3 DEF RegularPax, Pax
  <2>5. GoodRow(new)
    BY <1>1, <1>5, <2>3, <2>4 DEF GoodRow
  <2>6. Holding(new) + freed <= Holding(row)
    BY <1>1, <1>2, <1>3, <2>3 DEF Holding, Open
  <2> QED
    BY <2>3, <2>5, <2>6 DEF new
<1>6. CASE rest = {}
  <2> DEFINE left == Without(row, Pax(row))
  <2>1. new = [left EXCEPT !.status = "batal", !.is_seat_blocked = FALSE, !.seat_count = 0]
    BY <1>6 DEF PaxCancelled
  <2>2. left \in BookingRow /\ left.schedule = row.schedule
    BY <1>4
  <2> HIDE DEF left, new
  <2>3. /\ new \in BookingRow /\ new.status = "batal" /\ new.schedule = row.schedule
        /\ ~new.is_seat_blocked
    BY <2>1, <2>2 DEF BookingRow
  <2>4. GoodRow(new)
    BY <1>1, <2>3 DEF GoodRow, Open
  <2>5. Holding(new) = 0
    BY <2>3 DEF Holding
  <2>6. freed <= Holding(row)
    BY <1>1, <1>2, <1>3 DEF Holding, Open
  <2> QED
    BY <2>3, <2>4, <2>5, <2>6 DEF new, Settled
<1> QED
  BY <1>5, <1>6

(* A transaction that reprices booking b and derives its status.             *)
LEMMA RecalculateKeeps ==
  ASSUME IInv, NEW b \in Bookings, NEW row, GoodRow(row), row.schedule \in Schedules,
         NEW released \in Nat, Recalculate(b, row, released),
         bookings[b].schedule = row.schedule,
         Holding(row) + released <= Holding(bookings[b]),
         bookings[b].status \in Settled => row.status \in Settled,
         Unlocked(b),
         UNCHANGED finalizing, DeskUnchanged
  PROVE  IInv'
<1>1. Cardinality(RegularPax(row)) \in Nat
  BY PaxAreFinite
<1>2. BookInv' /\ StaysSettled
  BY <1>1, SyncKeepsBook DEF Recalculate, IInv
<1> QED
  BY <1>2, PayKept, WorkKept DEF IInv, DeskUnchanged

LEMMA CancelPaxKeeps ==
  ASSUME IInv, NEW b \in Bookings, NEW j \in Jamaah, NEW pic \in Jamaah, CancelPax(b, j, pic)
  PROVE  IInv'
<1> DEFINE old == bookings[b]
           freed == IF j \notin Infant /\ old.is_seat_blocked THEN 1 ELSE 0
<1>1. GoodRow(old) /\ Exists(old) /\ old.schedule \in Schedules
  BY RowFacts DEF CancelPax
<1>2. j \in Pax(old)
  BY DEF CancelPax
<1>3. /\ GoodRow(PaxCancelled(old, j, pic))
      /\ PaxCancelled(old, j, pic).schedule = old.schedule
      /\ old.status \in Settled => PaxCancelled(old, j, pic).status \in Settled
      /\ Holding(PaxCancelled(old, j, pic)) + freed <= Holding(old)
  BY <1>1, <1>2, PaxCancelledKeepsRowGood
<1>4. /\ Recalculate(b, PaxCancelled(old, j, pic), freed)
      /\ Unlocked(b) /\ UNCHANGED finalizing /\ DeskUnchanged
  BY DEF CancelPax
<1>5. freed \in Nat
  OBVIOUS
<1> HIDE DEF freed
<1> QED
  BY <1>1, <1>3, <1>4, <1>5, RecalculateKeeps

(* A new price or discount leaves travellers and seats as they were.         *)
LEMMA RepricedKeeps ==
  ASSUME IInv, NEW b \in Bookings, NEW row \in BookingRow, Exists(bookings[b]),
         row.status = bookings[b].status, row.schedule = bookings[b].schedule,
         row.pax = bookings[b].pax, row.seat_count = bookings[b].seat_count,
         row.is_seat_blocked = bookings[b].is_seat_blocked,
         Recalculate(b, row, 0), Unlocked(b), UNCHANGED finalizing, DeskUnchanged
  PROVE  IInv'
<1>1. GoodRow(bookings[b]) /\ bookings[b].schedule \in Schedules /\ Holding(bookings[b]) \in Nat
  BY RowFacts
<1>2. RegularPax(row) = RegularPax(bookings[b])
  BY DEF RegularPax, Pax
<1>3. GoodRow(row)
  BY <1>1, <1>2 DEF GoodRow
<1>4. Holding(row) = Holding(bookings[b])
  BY DEF Holding
<1> QED
  BY <1>1, <1>3, <1>4, RecalculateKeeps

LEMMA PriceEditsKeep ==
  ASSUME IInv, NEW b \in Bookings,
         \/ \E j \in Jamaah, price \in RoomPrices : UpdatePaxRoomType(b, j, price)
         \/ AddDiscount(b)
         \/ DeleteDiscount(b)
  PROVE  IInv'
<1>1. bookings[b] \in BookingRow
  BY RowFacts
<1>2. ASSUME NEW j \in Jamaah, NEW price \in RoomPrices, UpdatePaxRoomType(b, j, price)
      PROVE  IInv'
  <2> DEFINE row == [bookings[b] EXCEPT !.harga[j] = price]
  <2>1. price \in Nat
    BY DataAssumption
  <2>2. /\ row \in BookingRow
        /\ row.status = bookings[b].status /\ row.schedule = bookings[b].schedule
        /\ row.pax = bookings[b].pax /\ row.seat_count = bookings[b].seat_count
        /\ row.is_seat_blocked = bookings[b].is_seat_blocked
    BY <1>1, <2>1 DEF BookingRow
  <2>3. /\ Exists(row) /\ Recalculate(b, row, 0) /\ Unlocked(b)
        /\ UNCHANGED finalizing /\ DeskUnchanged
    BY <1>2 DEF UpdatePaxRoomType
  <2> HIDE DEF row
  <2> QED
    BY <2>2, <2>3, RepricedKeeps DEF Exists
<1>3. CASE AddDiscount(b)
  <2> DEFINE row == [bookings[b] EXCEPT !.discounts = @ + 1]
  <2>1. bookings[b].discounts \in 0 .. MaxDiscounts /\ bookings[b].discounts < MaxDiscounts
    BY <1>1, <1>3 DEF AddDiscount, BookingRow
  <2>2. /\ row \in BookingRow
        /\ row.status = bookings[b].status /\ row.schedule = bookings[b].schedule
        /\ row.pax = bookings[b].pax /\ row.seat_count = bookings[b].seat_count
        /\ row.is_seat_blocked = bookings[b].is_seat_blocked
    BY <1>1, <2>1, DataAssumption DEF BookingRow
  <2>3. /\ Exists(row) /\ Recalculate(b, row, 0) /\ Unlocked(b)
        /\ UNCHANGED finalizing /\ DeskUnchanged
    BY <1>3 DEF AddDiscount
  <2> HIDE DEF row
  <2> QED
    BY <2>2, <2>3, RepricedKeeps DEF Exists
<1>4. CASE DeleteDiscount(b)
  <2> DEFINE row == [bookings[b] EXCEPT !.discounts = @ - 1]
  <2>1. bookings[b].discounts \in 0 .. MaxDiscounts /\ bookings[b].discounts > 0
    BY <1>1, <1>4 DEF DeleteDiscount, BookingRow
  <2>2. /\ row \in BookingRow
        /\ row.status = bookings[b].status /\ row.schedule = bookings[b].schedule
        /\ row.pax = bookings[b].pax /\ row.seat_count = bookings[b].seat_count
        /\ row.is_seat_blocked = bookings[b].is_seat_blocked
    BY <1>1, <2>1, DataAssumption DEF BookingRow
  <2>3. /\ Exists(row) /\ Recalculate(b, row, 0) /\ Unlocked(b)
        /\ UNCHANGED finalizing /\ DeskUnchanged
    BY <1>4 DEF DeleteDiscount
  <2> HIDE DEF row
  <2> QED
    BY <2>2, <2>3, RepricedKeeps DEF Exists
<1> QED
  BY <1>2, <1>3, <1>4

(* What a booking gives back is what it holds.                               *)
LEMMA RestoresHolding ==
  ASSUME NEW row, GoodRow(row)
  PROVE  SeatsToRestore(row) = Holding(row) /\ Holding(row) \in Nat
<1>1. row.seat_count \in Nat /\ row.is_seat_blocked \in BOOLEAN
  BY DEF GoodRow, BookingRow
<1>2. CASE row.is_seat_blocked
  <2>1. row.status # "batal" /\ row.seat_count = Cardinality(RegularPax(row))
    BY <1>2 DEF GoodRow, Open
  <2>2. Cardinality(RegularPax(row)) >= 1 /\ Cardinality(RegularPax(row)) \in Nat
    BY <1>2, TravellersCount, PaxAreFinite DEF GoodRow
  <2> QED
    BY <1>2, <2>1, <2>2 DEF SeatsToRestore, Holding
<1>3. CASE ~row.is_seat_blocked
  BY <1>3 DEF SeatsToRestore, Holding
<1> QED
  BY <1>2, <1>3

(* A row that lets go of its seats, cancelled or merely unblocked.           *)
LEMMA UnblockedKeepsRowGood ==
  ASSUME NEW row, GoodRow(row)
  PROVE  /\ GoodRow(Unblocked(row)) /\ Unblocked(row).schedule = row.schedule
         /\ Unblocked(row).status = row.status /\ Holding(Unblocked(row)) = 0
<1>1. row \in BookingRow
  BY DEF GoodRow
<1> DEFINE new == Unblocked(row)
<1>2. /\ new \in BookingRow /\ new.status = row.status /\ new.schedule = row.schedule
      /\ new.is_seat_blocked = FALSE /\ new.pax = row.pax /\ new.seat_count = row.seat_count
  BY <1>1 DEF Unblocked, BookingRow
<1>3. RegularPax(new) = RegularPax(row)
  BY <1>2 DEF RegularPax, Pax
<1> QED
  BY <1>2, <1>3 DEF GoodRow, Holding, Exists

LEMMA CancelledKeepsRowGood ==
  ASSUME NEW row, GoodRow(row), Exists(row)
  PROVE  /\ GoodRow(Cancelled(row)) /\ Cancelled(row).schedule = row.schedule
         /\ Cancelled(row).status = "batal" /\ Holding(Cancelled(row)) = 0
<1>1. row \in BookingRow /\ row.schedule \in Schedules
  BY DEF GoodRow
<1> DEFINE new == Cancelled(row)
<1>2. /\ new \in BookingRow /\ new.status = "batal" /\ new.schedule = row.schedule
      /\ new.is_seat_blocked = FALSE
  <2>1. CASE row.is_seat_blocked
    <3> DEFINE pax == [j \in Jamaah |-> IF row.pax[j] = "none" THEN "none" ELSE "batal"]
    <3>1. pax \in [Jamaah -> {"none", "aktif", "batal"}]
      OBVIOUS
    <3>2. new = [[row EXCEPT !.is_seat_blocked = FALSE, !.hold = "none"]
                   EXCEPT !.status = "batal", !.pax = pax]
      BY <2>1 DEF Cancelled, Unblocked
    <3> HIDE DEF pax
    <3> QED
      BY <1>1, <3>1, <3>2 DEF BookingRow
  <2>2. CASE ~row.is_seat_blocked
    <3>1. row.is_seat_blocked = FALSE
      BY <1>1, <2>2 DEF BookingRow
    <3> QED
      BY <1>1, <2>2, <3>1 DEF Cancelled, BookingRow
  <2> QED
    BY <2>1, <2>2
<1>3. GoodRow(new)
  BY <1>1, <1>2 DEF GoodRow, Open
<1> QED
  BY <1>2, <1>3 DEF Holding

(* A transaction on booking b that writes `row` and derives nothing.         *)
LEMMA TransactionKeeps ==
  ASSUME IInv, NEW b \in Bookings, NEW row, GoodRow(row), row.schedule \in Schedules,
         NEW released \in Nat, NEW taken \in Nat, Save(b, row, released, taken),
         bookings[b].schedule = row.schedule \/ Holding(bookings[b]) = 0,
         Holding(row) + released <= Holding(bookings[b]) + taken,
         bookings[b].status \in Settled => row.status \in Settled,
         Unlocked(b) \/ bookings[b].status # "draft",
         UNCHANGED <<payments, verifying, finalizing, candidates>>
  PROVE  IInv'
<1>1. BookInv' /\ StaysSettled
  BY TransactionKeepsBook DEF IInv
<1> QED
  BY <1>1, PayKept, WorkKept DEF IInv

LEMMA CancelKeeps ==
  ASSUME IInv, NEW b \in Bookings, Exists(bookings[b]),
         Unlocked(b) \/ bookings[b].status # "draft",
         Cancel(b), UNCHANGED <<payments, verifying, finalizing, candidates>>
  PROVE  IInv'
<1> DEFINE old == bookings[b]
<1>1. GoodRow(old) /\ old.schedule \in Schedules
  BY RowFacts
<1>2. SeatsToRestore(old) = Holding(old) /\ Holding(old) \in Nat
  BY <1>1, RestoresHolding
<1>3. /\ GoodRow(Cancelled(old)) /\ Cancelled(old).schedule = old.schedule
      /\ Cancelled(old).status = "batal" /\ Holding(Cancelled(old)) = 0
  BY <1>1, CancelledKeepsRowGood
<1>4. Save(b, Cancelled(old), Holding(old), 0)
  BY <1>2 DEF Cancel
<1> QED
  BY <1>1, <1>2, <1>3, <1>4, TransactionKeeps DEF Settled

LEMMA CancelSeatBlockKeeps ==
  ASSUME IInv, NEW b \in Bookings, CancelSeatBlock(b)
  PROVE  IInv'
<1> DEFINE old == bookings[b]
<1>1. GoodRow(old) /\ old.is_seat_blocked
  BY RowFacts DEF CancelSeatBlock
<1>2. old.schedule \in Schedules /\ old.status # "draft"
  BY <1>1 DEF GoodRow, Exists, Open
<1>3. SeatsToRestore(old) = Holding(old) /\ Holding(old) \in Nat
  BY <1>1, RestoresHolding
<1>4. /\ GoodRow(Unblocked(old)) /\ Unblocked(old).schedule = old.schedule
      /\ Unblocked(old).status = old.status /\ Holding(Unblocked(old)) = 0
  BY <1>1, UnblockedKeepsRowGood
<1>5. Save(b, Unblocked(old), Holding(old), 0)
  BY <1>3 DEF CancelSeatBlock
<1> QED
  BY <1>2, <1>3, <1>4, <1>5, TransactionKeeps DEF CancelSeatBlock, DeskUnchanged

LEMMA BlockSeatKeeps ==
  ASSUME IInv, NEW b \in Bookings, NEW hold \in {"none", "running"}, BlockSeat(b, hold)
  PROVE  IInv'
<1> DEFINE old == bookings[b]
           deadline == IF old.status = "baru" THEN hold ELSE "none"
           row == [old EXCEPT !.is_seat_blocked = TRUE, !.hold = deadline]
<1>1. /\ GoodRow(old) /\ old \in BookingRow /\ old.status \in Open /\ Holding(old) = 0
      /\ old.seat_count \in Nat
  BY RowFacts DEF BlockSeat, BookingRow
<1>2. old.schedule \in Schedules /\ old.status # "draft" /\ old.status # "batal"
  BY <1>1 DEF GoodRow, Exists, Open
<1>3. deadline \in {"none", "running"}
  OBVIOUS
<1>4. Save(b, row, 0, old.seat_count)
  BY DEF BlockSeat
<1> HIDE DEF deadline, old
<1>5. /\ row \in BookingRow /\ row.status = old.status /\ row.schedule = old.schedule
      /\ row.is_seat_blocked /\ row.pax = old.pax /\ row.seat_count = old.seat_count
  BY <1>1, <1>3 DEF BookingRow
<1> HIDE DEF row
<1>6. RegularPax(row) = RegularPax(old)
  BY <1>5 DEF RegularPax, Pax
<1>7. GoodRow(row) /\ Holding(row) = old.seat_count
  BY <1>1, <1>2, <1>5, <1>6 DEF GoodRow, Holding
<1> QED
  BY <1>1, <1>2, <1>4, <1>5, <1>7, TransactionKeeps DEF BlockSeat, DeskUnchanged, old

LEMMA CreateRefundKeeps ==
  ASSUME IInv, NEW b \in Bookings, NEW jumlah \in Nat, CreateRefund(b, jumlah)
  PROVE  IInv'
<1> DEFINE old == bookings[b]
           row == [old EXCEPT !.refunded = @ + jumlah]
<1>1. GoodRow(old) /\ old.status = "batal" /\ Save(b, row, 0, 0)
  BY RowFacts DEF CreateRefund
<1>2. old \in BookingRow /\ old.schedule \in Schedules /\ Holding(old) \in Nat
  BY <1>1 DEF GoodRow, Exists, Holding, BookingRow
<1> HIDE DEF old
<1>3. /\ row \in BookingRow /\ row.status = old.status /\ row.schedule = old.schedule
      /\ row.is_seat_blocked = old.is_seat_blocked /\ row.seat_count = old.seat_count
  BY <1>2 DEF BookingRow
<1> HIDE DEF row
<1>4. GoodRow(row) /\ Holding(row) = Holding(old)
  BY <1>1, <1>2, <1>3 DEF GoodRow, Holding, Open
<1> QED
  BY <1>1, <1>2, <1>3, <1>4, TransactionKeeps DEF CreateRefund, DeskUnchanged, old

(* Every step of the admin desk keeps the invariant.                         *)
LEMMA DeskKeeps ==
  ASSUME IInv, DeskNext
  PROVE  IInv'
<1>1. ASSUME NEW b \in Bookings, CancelBooking(b)
      PROVE  IInv'
  BY <1>1, CancelKeeps DEF CancelBooking, Cancel, DeskUnchanged
<1> QED
  BY <1>1, CreateBookingKeeps, CreateDraftBookingKeeps, UpdateDraftBookingKeeps, DeleteDraftKeeps,
     FinalizeProgressKeeps, FinalizeCommitKeeps, CancelPaxKeeps, PriceEditsKeep,
     CancelSeatBlockKeeps, BlockSeatKeeps, CreateRefundKeeps
  DEF DeskNext

-----------------------------------------------------------------------------
(* Intake, holds and the worker *)

LEMMA ProcessDealKeeps ==
  ASSUME IInv, NEW b \in Bookings, NEW s \in Schedules, NEW j \in Jamaah \ Infant,
         NEW price \in RoomPrices, NEW commitment, NEW p \in Payments \cup {NULL},
         NEW amount \in Nat, ProcessDeal(b, s, j, price, commitment, p, amount),
         p = NULL => commitment = "book_seat"
  PROVE  IInv'
<1> DEFINE harga == [i \in Jamaah |-> IF i = j THEN price ELSE 0]
           base == NewRow("baru", s, "office", j, {j}, harga)
           row == [base EXCEPT !.seat_count = 1]
           held == [row EXCEPT !.is_seat_blocked = TRUE, !.hold = "running"]
<1>1. harga \in [Jamaah -> Nat]
  BY DataAssumption
<1>2. {j} \ Infant = {j}
  OBVIOUS
<1> HIDE DEF harga
<1>3. /\ base \in BookingRow /\ base.status = "baru" /\ base.schedule = s
      /\ ~base.is_seat_blocked /\ RegularPax(base) = {j}
  <2>1. RowInput("baru", s, "office", j, {j}, harga)
    BY <1>1 DEF RowInput, Open
  <2> QED
    BY <1>2, <2>1, NewRowTyped
<1> HIDE DEF base
<1>4. /\ row \in BookingRow /\ row.status = "baru" /\ row.schedule = s
      /\ ~row.is_seat_blocked /\ row.seat_count = 1 /\ row.pax = base.pax
  BY <1>3 DEF BookingRow
<1> HIDE DEF row
<1>5. /\ held \in BookingRow /\ held.status = "baru" /\ held.schedule = s
      /\ held.is_seat_blocked /\ held.seat_count = 1 /\ held.pax = base.pax
  BY <1>4 DEF BookingRow
<1> HIDE DEF held
<1>6. RegularPax(row) = {j} /\ RegularPax(held) = {j} /\ Cardinality({j}) = 1
  BY <1>3, <1>4, <1>5, FS_Singleton DEF RegularPax, Pax
<1>7. GoodRow(row) /\ Holding(row) = 0 /\ GoodRow(held) /\ Holding(held) = 1
  BY <1>4, <1>5, <1>6 DEF GoodRow, Holding, Open
<1>8. bookings[b].status = "absent" /\ UNCHANGED <<verifying, finalizing, candidates>>
  BY DEF ProcessDeal, IntakeUnchanged
<1>9. Holding(bookings[b]) = 0
  BY <1>8, RowFacts DEF GoodRow, Open
<1>10. CASE Save(b, held, 0, 1) /\ UNCHANGED payments
  <2>1. held.schedule \in Schedules /\ held.status \in Settled /\ bookings[b].status # "draft"
    BY <1>5, <1>8 DEF Settled, Open
  <2>2. 0 \in Nat /\ 1 \in Nat /\ 1 + 0 <= 0 + 1
    OBVIOUS
  <2> QED
    BY <1>7, <1>8, <1>9, <1>10, <2>1, <2>2, TransactionKeeps
<1>11. CASE /\ p \in Payments /\ payments[p].status = "absent" /\ Save(b, row, 0, 0)
            /\ payments' = [payments EXCEPT ![p] =
                 [booking |-> b, jumlah |-> amount, status |-> "pending"]]
  <2>1. BookInv' /\ StaysSettled
    BY <1>4, <1>7, <1>8, <1>9, <1>11, TransactionKeepsBook DEF Settled, Open, IInv
  <2>2. [booking |-> b, jumlah |-> amount, status |-> "pending"] \in PaymentRow
    BY DEF PaymentRow
  <2>3. bookings'[b].status \in Settled
    BY <1>4, <1>11 DEF Save, IInv, BookInv, StoreInv, Settled, Open
  <2>4. PayInv'
    BY <1>11, <2>1, <2>2, <2>3 DEF IInv, PayInv, StaysSettled
  <2>5. WorkInv'
    BY <1>8, <1>11 DEF IInv, WorkInv, PayInv
  <2> QED
    BY <2>1, <2>4, <2>5 DEF IInv
<1>12. \/ Save(b, held, 0, 1) /\ UNCHANGED payments
       \/ /\ commitment # "book_seat"
          /\ payments[p].status = "absent" /\ Save(b, row, 0, 0)
          /\ payments' = [payments EXCEPT ![p] =
               [booking |-> b, jumlah |-> amount, status |-> "pending"]]
  BY DEF ProcessDeal, NoPayment, held, row, base, harga
<1> QED
  BY <1>10, <1>11, <1>12

LEMMA SelfBookingKeeps ==
  ASSUME IInv, NEW b \in Bookings, NEW s \in Schedules, NEW P \in SUBSET Jamaah,
         NEW pic \in P \ Infant, NEW harga \in PriceLists(P, RoomPrices),
         NEW full \in FullPayment, SelfBooking(b, s, pic, P, harga, full)
  PROVE  IInv'
<1> DEFINE regular == Cardinality(P \ Infant)
           base == NewRow("baru", s, "portal", pic, P, harga)
           row == [base EXCEPT !.is_seat_blocked = TRUE, !.seat_count = regular,
                               !.hold = "running", !.full_payment = full]
<1>1. harga \in [Jamaah -> Nat] /\ full \in BOOLEAN
  BY PriceListTyped, DataAssumption
<1>2. /\ base \in BookingRow /\ base.status = "baru" /\ base.schedule = s
      /\ RegularPax(base) = P \ Infant
  <2>1. RowInput("baru", s, "portal", pic, P, harga)
    BY <1>1 DEF RowInput, Open
  <2> QED
    BY <2>1, NewRowTyped
<1>3. regular \in Nat
  BY <1>2, PaxAreFinite
<1> HIDE DEF base, regular
<1>4. /\ row \in BookingRow /\ row.status = "baru" /\ row.schedule = s
      /\ row.is_seat_blocked /\ row.seat_count = regular /\ row.pax = base.pax
  BY <1>1, <1>2, <1>3 DEF BookingRow
<1>5. RegularPax(row) = P \ Infant
  BY <1>2, <1>4 DEF RegularPax, Pax
<1> HIDE DEF row
<1>6. GoodRow(row) /\ Holding(row) = regular
  BY <1>4, <1>5 DEF GoodRow, Holding, regular, Open
<1>7. /\ Save(b, row, 0, regular) /\ bookings[b].status = "absent"
      /\ UNCHANGED <<payments, verifying, finalizing, candidates>>
  BY DEF SelfBooking, IntakeUnchanged, row, base, regular
<1>8. Holding(bookings[b]) = 0
  BY <1>7, RowFacts DEF GoodRow, Open
<1> QED
  BY <1>3, <1>4, <1>6, <1>7, <1>8, TransactionKeeps DEF Settled, Open

LEMMA CustomerCancelKeeps ==
  ASSUME IInv, NEW b \in Bookings, CustomerCancel(b)
  PROVE  IInv'
<1>1. bookings[b].status = "baru" /\ Exists(bookings[b])
  BY DEF CustomerCancel, Exists
<1> QED
  BY <1>1, CancelKeeps DEF CustomerCancel, Cancel, DeskUnchanged

LEMMA HoldLapsesKeeps ==
  ASSUME IInv, NEW b \in Bookings, HoldLapses(b)
  PROVE  IInv'
<1> DEFINE old == bookings[b]
           row == [old EXCEPT !.hold = "lapsed"]
<1>1. GoodRow(old) /\ old \in BookingRow /\ bookings \in [Bookings -> BookingRow]
  BY RowFacts DEF IInv, BookInv, StoreInv
<1>2. /\ row \in BookingRow /\ row.status = old.status /\ row.schedule = old.schedule
      /\ row.is_seat_blocked = old.is_seat_blocked /\ row.pax = old.pax
      /\ row.seat_count = old.seat_count
  BY <1>1 DEF BookingRow
<1>3. /\ bookings' = [bookings EXCEPT ![b] = row]
      /\ UNCHANGED <<schedules, payments, verifying, finalizing, candidates>>
  BY <1>1 DEF HoldLapses, IntakeUnchanged
<1> HIDE DEF row
<1>4. RegularPax(row) = RegularPax(old)
  BY <1>2 DEF RegularPax, Pax
<1>5. GoodRow(row)
  BY <1>1, <1>2, <1>4 DEF GoodRow, Exists
<1>6. \A s \in Schedules : SeatsOf(b, row, s) = SeatsOf(b, old, s)
  BY <1>2 DEF SeatsOf
<1> QED
  BY <1>2, <1>3, <1>4, <1>5, <1>6, RowWriteKeeps

(* A step of the worker that changes only its list, or nothing.              *)
LEMMA ListingKeeps ==
  ASSUME IInv, candidates' \in SUBSET Bookings,
         UNCHANGED <<schedules, bookings, payments, verifying, finalizing>>
  PROVE  IInv'
<1>1. BookInv'
  BY DEF IInv, BookInv, StoreInv, LockedAreDrafts, SeatsFit, Allocated, Claims, SeatsOf
<1>2. PayInv'
  BY DEF IInv, PayInv
<1>3. WorkInv'
  BY DEF IInv, WorkInv
<1> QED
  BY <1>1, <1>2, <1>3 DEF IInv

LEMMA ReleaseSeatHoldKeeps ==
  ASSUME IInv, NEW b \in Bookings, ReleaseSeatHold(b)
  PROVE  IInv'
<1> DEFINE old == bookings[b]
<1>1. candidates' \in SUBSET Bookings /\ UNCHANGED <<payments, verifying, finalizing>>
  BY DEF ReleaseSeatHold, IInv, WorkInv
<1>2. CASE ~Releasable(old)
  BY <1>1, <1>2, ListingKeeps DEF ReleaseSeatHold
<1>3. CASE Releasable(old)
  <2>1. /\ GoodRow(old) /\ old.status = "baru" /\ old.schedule \in Schedules
        /\ Holding(old) = old.seat_count /\ Holding(old) \in Nat
    BY <1>3, RowFacts DEF Releasable, Exists
  <2>2. /\ GoodRow(Unblocked(old)) /\ Unblocked(old).schedule = old.schedule
        /\ Unblocked(old).status = old.status /\ Holding(Unblocked(old)) = 0
    BY <2>1, UnblockedKeepsRowGood
  <2>3. Save(b, Unblocked(old), Holding(old), 0)
    BY <1>3, <2>1 DEF ReleaseSeatHold
  <2>4. BookInv' /\ StaysSettled
    BY <1>1, <2>1, <2>2, <2>3, TransactionKeepsBook DEF IInv
  <2>5. PayInv'
    BY <1>1, <2>4, PayKept DEF IInv
  <2>6. WorkInv'
    BY <1>1 DEF IInv, WorkInv
  <2> QED
    BY <2>4, <2>5, <2>6 DEF IInv
<1> QED
  BY <1>2, <1>3

(* Every step of the CRM, the portals and the worker keeps the invariant.    *)
LEMMA IntakeKeeps ==
  ASSUME IInv, IntakeNext
  PROVE  IInv'
<1>1. CASE FindLapsedHolds
  BY <1>1, ListingKeeps DEF FindLapsedHolds
<1>2. ASSUME NEW b \in Bookings, ReleaseFails(b)
      PROVE  IInv'
  BY <1>2, ListingKeeps DEF ReleaseFails, IInv, WorkInv
<1>3. ASSUME NEW b \in Bookings, NEW s \in Schedules, NEW j \in Jamaah \ Infant,
             NEW price \in RoomPrices,
             \/ \E p \in Payments, amount \in Amounts, commitment \in {"lunas", "dp"} :
                  ProcessDeal(b, s, j, price, commitment, p, amount)
             \/ ProcessDeal(b, s, j, price, "book_seat", NULL, 0)
      PROVE  IInv'
  <2>1. Amounts \subseteq Nat /\ NULL \notin Payments
    BY DataAssumption, NullAssumption
  <2> QED
    BY <1>3, <2>1, ProcessDealKeeps
<1> QED
  BY <1>1, <1>2, <1>3, SelfBookingKeeps, CustomerCancelKeeps, HoldLapsesKeeps,
     ReleaseSeatHoldKeeps
  DEF IntakeNext

-----------------------------------------------------------------------------
(* The payment desk *)

(* Payments may be added to settled bookings, and keep theirs for ever.      *)
LEMMA PaymentsGrow ==
  ASSUME PayInv, StaysSettled, NEW b \in Bookings, bookings[b].status \in Settled,
         payments' \in [Payments -> PaymentRow],
         \A p \in Payments : payments'[p].status # "absent" =>
           \/ payments'[p].booking = b
           \/ payments[p].status # "absent" /\ payments'[p].booking = payments[p].booking
  PROVE  PayInv'
BY DEF PayInv, StaysSettled

(* A payment that exists goes on existing, and verifications may end.        *)
LEMMA WorkGoesOn ==
  ASSUME WorkInv, verifying' \in [Verifiers -> Snapshot], candidates' = candidates,
         \A p \in Payments : payments[p].status # "absent" => payments'[p].status # "absent",
         \A v \in Verifiers : verifying'[v].payment \in Payments =>
           \/ verifying'[v] = verifying[v]
           \/ payments'[verifying'[v].payment].status # "absent"
  PROVE  WorkInv'
BY DEF WorkInv

(* A verification that ends.                                                 *)
LEMMA DoneTyped ==
  ASSUME WorkInv, NEW v \in Verifiers, Done(v)
  PROVE  /\ verifying' \in [Verifiers -> Snapshot]
         /\ \A u \in Verifiers : verifying'[u].payment \in Payments => verifying'[u] = verifying[u]
<1>1. NoSnapshot \in Snapshot /\ NoSnapshot.payment \notin Payments
  BY NullAssumption DEF NoSnapshot, Snapshot
<1> QED
  BY <1>1 DEF WorkInv, Done

LEMMA SyncBookingKeepsBook ==
  ASSUME IInv, NEW b \in Bookings, bookings[b].status \in Settled,
         NEW paid, NEW regular \in Nat, SyncBooking(b, paid, regular), UNCHANGED finalizing
  PROVE  BookInv' /\ StaysSettled
<1>1. GoodRow(bookings[b]) /\ bookings[b].schedule \in Schedules /\ Holding(bookings[b]) \in Nat
  BY RowFacts DEF Exists, Settled, Open
<1>2. bookings[b].status # "draft"
  BY DEF Settled, Open
<1>3. Holding(bookings[b]) + 0 <= Holding(bookings[b])
  BY <1>1
<1> QED
  BY <1>1, <1>2, <1>3, SyncKeepsBook DEF SyncBooking, IInv

LEMMA CreatePaymentKeeps ==
  ASSUME IInv, NEW p \in Payments, CreatePayment(p)
  PROVE  IInv'
<1> DEFINE b == payments[p].booking
<1>1. payments \in [Payments -> PaymentRow]
  BY DEF IInv, PayInv
<1>2. b \in Bookings /\ payments[p] \in PaymentRow
  BY <1>1 DEF CreatePayment, Requested, PaymentRow
<1>3. Cardinality(RegularPax(bookings[b])) \in Nat
  BY <1>2, PaxAreFinite
<1>4. /\ bookings[b].status \in Settled
      /\ payments' = [payments EXCEPT ![p].status = "confirmed"]
      /\ UNCHANGED <<verifying, finalizing, candidates>>
  BY DEF CreatePayment, Accepted, Settled, PaymentUnchanged
<1>5. BookInv' /\ StaysSettled
  BY <1>2, <1>3, <1>4, SyncBookingKeepsBook DEF CreatePayment
<1>6. /\ payments' \in [Payments -> PaymentRow]
      /\ \A q \in Payments : payments'[q].booking = payments[q].booking
      /\ \A q \in Payments :
           payments'[q].status = IF q = p THEN "confirmed" ELSE payments[q].status
  BY <1>1, <1>4 DEF PaymentRow
<1>7. PayInv'
  BY <1>2, <1>4, <1>5, <1>6, PaymentsGrow DEF IInv
<1>8. WorkInv'
  BY <1>4, <1>6, WorkGoesOn DEF IInv, WorkInv
<1> QED
  BY <1>5, <1>7, <1>8 DEF IInv

(* A step that touches payments, verifications or both, and no booking.      *)
LEMMA BooksUntouched ==
  ASSUME IInv, UNCHANGED <<schedules, bookings, finalizing>>
  PROVE  BookInv' /\ StaysSettled
BY DEF IInv, BookInv, StoreInv, LockedAreDrafts, SeatsFit, Allocated, Claims, SeatsOf, StaysSettled

(* A request on its way: no payment row is there yet, or no longer.          *)
LEMMA RequestKeeps ==
  ASSUME IInv, NEW p \in Payments, NEW row \in PaymentRow,
         payments[p].status = "absent", row.status = "absent",
         payments' = [payments EXCEPT ![p] = row],
         UNCHANGED <<schedules, bookings, verifying, finalizing, candidates>>
  PROVE  IInv'
<1>1. BookInv' /\ StaysSettled
  BY BooksUntouched
<1>2. payments \in [Payments -> PaymentRow]
  BY DEF IInv, PayInv
<1>3. /\ payments' \in [Payments -> PaymentRow]
      /\ \A q \in Payments : payments'[q].status # "absent" => payments'[q] = payments[q]
      /\ \A q \in Payments : payments[q].status # "absent" => payments'[q].status # "absent"
  BY <1>2
<1>4. PayInv'
  BY <1>1, <1>3 DEF IInv, PayInv, StaysSettled
<1>5. WorkInv'
  BY <1>3, WorkGoesOn DEF IInv, WorkInv
<1> QED
  BY <1>1, <1>4, <1>5 DEF IInv

LEMMA RequestPaymentKeeps ==
  ASSUME IInv, NEW b \in Bookings, NEW p \in Payments, NEW amount \in Nat,
         RequestPayment(b, p, amount)
  PROVE  IInv'
<1>1. Recorded(b, amount, "absent") \in PaymentRow /\ Recorded(b, amount, "absent").status = "absent"
  BY DEF Recorded, PaymentRow
<1>2. payments[p].status = "absent"
  BY DEF RequestPayment, NoPayment
<1> QED
  BY <1>1, <1>2, RequestKeeps DEF RequestPayment, PaymentUnchanged

LEMMA RequestFailsKeeps ==
  ASSUME IInv, NEW p \in Payments, RequestFails(p)
  PROVE  IInv'
<1>1. NoPayment \in PaymentRow /\ NoPayment.status = "absent"
  BY DEF NoPayment, PaymentRow
<1> QED
  BY <1>1, RequestKeeps DEF RequestFails, Requested, PaymentUnchanged

LEMMA CreatePortalPaymentKeeps ==
  ASSUME IInv, NEW b \in Bookings, NEW p \in Payments, NEW amount \in Nat,
         CreatePortalPayment(b, p, amount)
  PROVE  IInv'
<1>1. /\ bookings[b].status \in Settled
      /\ payments' = [payments EXCEPT ![p] = Recorded(b, amount, "pending")]
      /\ UNCHANGED <<schedules, bookings, verifying, finalizing, candidates>>
  BY DEF CreatePortalPayment, Billable, Settled, PaymentUnchanged
<1>2. BookInv' /\ StaysSettled
  BY <1>1, BooksUntouched
<1>3. Recorded(b, amount, "pending") \in PaymentRow
  BY DEF Recorded, PaymentRow
<1>4. payments \in [Payments -> PaymentRow]
  BY DEF IInv, PayInv
<1>5. PayInv'
  BY <1>1, <1>2, <1>3, <1>4, PaymentsGrow DEF IInv, Recorded
<1>6. WorkInv'
  BY <1>1, <1>4, WorkGoesOn DEF IInv, WorkInv, Recorded
<1> QED
  BY <1>2, <1>5, <1>6 DEF IInv

(* A payment's status changes, its booking does not.                         *)
LEMMA StatusChangeKeepsPayments ==
  ASSUME IInv, NEW p \in Payments, NEW status \in {"confirmed", "rejected", "deleted"},
         payments[p].status # "absent", StaysSettled,
         payments' = [payments EXCEPT ![p].status = status]
  PROVE  /\ PayInv'
         /\ \A q \in Payments : payments[q].status # "absent" => payments'[q].status # "absent"
<1>1. payments \in [Payments -> PaymentRow]
  BY DEF IInv, PayInv
<1>2. payments' \in [Payments -> PaymentRow]
  BY <1>1 DEF PaymentRow
<1>3. \A q \in Payments : payments'[q].booking = payments[q].booking
  BY <1>1 DEF PaymentRow
<1>4. \A q \in Payments : payments'[q].status = IF q = p THEN status ELSE payments[q].status
  BY <1>1 DEF PaymentRow
<1> QED
  BY <1>2, <1>3, <1>4 DEF IInv, PayInv, StaysSettled

LEMMA DeletePaymentKeeps ==
  ASSUME IInv, NEW p \in Payments, DeletePayment(p)
  PROVE  IInv'
<1>1. /\ payments[p].status # "absent"
      /\ payments' = [payments EXCEPT ![p].status = "deleted"]
      /\ UNCHANGED <<schedules, bookings, verifying, finalizing, candidates>>
  BY DEF DeletePayment, PaymentUnchanged
<1>2. BookInv' /\ StaysSettled
  BY <1>1, BooksUntouched
<1>3. /\ PayInv'
      /\ \A q \in Payments : payments[q].status # "absent" => payments'[q].status # "absent"
  BY <1>1, <1>2, StatusChangeKeepsPayments
<1>4. WorkInv'
  BY <1>1, <1>3, WorkGoesOn DEF IInv, WorkInv
<1> QED
  BY <1>2, <1>3, <1>4 DEF IInv

LEMMA VerifyBeginKeeps ==
  ASSUME IInv, NEW v \in Verifiers, NEW p \in Payments, VerifyBegin(v, p)
  PROVE  IInv'
<1> DEFINE b == payments[p].booking
           snapshot == [payment |-> p, paid |-> ConfirmedOf(b), pax |-> RegularPax(bookings[b])]
<1>1. /\ payments[p].status # "absent"
      /\ verifying' = [verifying EXCEPT ![v] = snapshot]
      /\ UNCHANGED <<schedules, bookings, payments, finalizing, candidates>>
  BY DEF VerifyBegin, PaymentUnchanged
<1>2. snapshot \in Snapshot
  BY DEF Snapshot, ConfirmedOf, RegularPax, Pax
<1>3. BookInv' /\ PayInv'
  BY <1>1, BooksUntouched, PayKept DEF IInv
<1>4. snapshot.payment = p
  OBVIOUS
<1> HIDE DEF snapshot
<1>5. WorkInv'
  BY <1>1, <1>2, <1>4 DEF IInv, WorkInv
<1> QED
  BY <1>3, <1>5 DEF IInv

(* A confirmation or rejection, whatever the snapshot it works from.         *)
LEMMA VerdictKeeps ==
  ASSUME IInv, NEW v \in Verifiers, NEW status \in {"confirmed", "rejected"}, NEW paid,
         Undecided(v),
         payments' = [payments EXCEPT ![verifying[v].payment].status = status],
         SyncBooking(payments[verifying[v].payment].booking, paid, Cardinality(verifying[v].pax)),
         Done(v), PaymentUnchanged
  PROVE  IInv'
<1> DEFINE p == verifying[v].payment
           b == payments[p].booking
<1>1. verifying[v] \in Snapshot
  BY DEF IInv, WorkInv
<1>2. p \in Payments
  BY <1>1 DEF Undecided, Snapshot
<1>3. payments[p].status # "absent"
  BY DEF Undecided
<1>4. b \in Bookings /\ bookings[b].status \in Settled
  BY <1>2, <1>3 DEF IInv, PayInv
<1>5. Cardinality(verifying[v].pax) \in Nat
  <2>1. verifying[v].pax \in SUBSET Jamaah
    BY <1>1 DEF Snapshot
  <2> QED
    BY <2>1, DataAssumption, FS_Subset, FS_CardinalityType
<1>6. BookInv' /\ StaysSettled
  BY <1>4, <1>5, SyncBookingKeepsBook DEF PaymentUnchanged
<1>7. /\ PayInv'
      /\ \A q \in Payments : payments[q].status # "absent" => payments'[q].status # "absent"
  BY <1>2, <1>3, <1>6, StatusChangeKeepsPayments
<1>8. WorkInv'
  BY <1>7, DoneTyped, WorkGoesOn DEF IInv, PaymentUnchanged
<1> QED
  BY <1>6, <1>7, <1>8 DEF IInv

LEMMA VerifyFailsKeeps ==
  ASSUME IInv, NEW v \in Verifiers, VerifyFails(v)
  PROVE  IInv'
<1>1. BookInv' /\ PayInv'
  BY BooksUntouched, PayKept DEF VerifyFails, PaymentUnchanged, IInv
<1>2. WorkInv'
  BY DoneTyped, WorkGoesOn DEF VerifyFails, PaymentUnchanged, IInv
<1> QED
  BY <1>1, <1>2 DEF IInv

(* Every step of the payment desk keeps the invariant.                       *)
LEMMA PaymentKeeps ==
  ASSUME IInv, PaymentNext
  PROVE  IInv'
<1>1. ASSUME NEW v \in Verifiers, ConfirmPayment(v)
      PROVE  IInv'
  BY <1>1, VerdictKeeps DEF ConfirmPayment
<1>2. ASSUME NEW v \in Verifiers, RejectPayment(v)
      PROVE  IInv'
  BY <1>2, VerdictKeeps DEF RejectPayment
<1>3. Amounts \subseteq Nat
  BY DataAssumption
<1> QED
  BY <1>1, <1>2, <1>3, RequestPaymentKeeps, CreatePaymentKeeps, RequestFailsKeeps,
     CreatePortalPaymentKeeps, DeletePaymentKeeps, VerifyBeginKeeps, VerifyFailsKeeps
  DEF PaymentNext

-----------------------------------------------------------------------------
(* The schedule desk *)

LEMMA AllocatedIsNat ==
  ASSUME IInv, NEW s \in Schedules
  PROVE  Allocated(s) \in Nat
<1>1. Claims(s) \subseteq Bookings \X (1 .. Cardinality(Jamaah))
  BY SeatsOfBounded DEF Claims, IInv, BookInv, StoreInv
<1>2. IsFiniteSet(1 .. Cardinality(Jamaah))
  BY DataAssumption, FS_CardinalityType, FS_Interval
<1>3. IsFiniteSet(Bookings \X (1 .. Cardinality(Jamaah)))
  BY <1>2, DataAssumption, FS_Product
<1>4. IsFiniteSet(Claims(s))
  BY <1>1, <1>3, FS_Subset
<1> QED
  BY <1>4, FS_CardinalityType DEF Allocated

(* A schedule rewritten so that the bookings' seats still fit.               *)
LEMMA ScheduleRewrittenKeeps ==
  ASSUME IInv, NEW s \in Schedules, NEW row \in ScheduleRow,
         row.seat_sisa + Allocated(s) <= row.seat_total,
         schedules' = [schedules EXCEPT ![s] = row], ScheduleUnchanged
  PROVE  IInv'
<1>1. schedules \in [Schedules -> ScheduleRow] /\ SeatsFit
  BY DEF IInv, BookInv, StoreInv
<1>2. \A r \in Schedules : Allocated(r)' = Allocated(r)
  BY DEF Allocated, Claims, SeatsOf, ScheduleUnchanged
<1>3. schedules' \in [Schedules -> ScheduleRow] /\ SeatsFit'
  BY <1>1, <1>2 DEF SeatsFit
<1>4. BookInv' /\ StaysSettled
  BY <1>3 DEF IInv, BookInv, StoreInv, LockedAreDrafts, StaysSettled, ScheduleUnchanged
<1> QED
  BY <1>4, PayKept, WorkKept DEF IInv, ScheduleUnchanged

(* A schedule whose seats stay as they are.                                  *)
LEMMA SaleStateKeeps ==
  ASSUME IInv, NEW s \in Schedules, NEW row \in ScheduleRow,
         row.seat_sisa = schedules[s].seat_sisa, row.seat_total = schedules[s].seat_total,
         schedules' = [schedules EXCEPT ![s] = row], ScheduleUnchanged
  PROVE  IInv'
<1>1. schedules[s].seat_sisa + Allocated(s) <= schedules[s].seat_total
  BY DEF IInv, BookInv, StoreInv, SeatsFit
<1> QED
  BY <1>1, ScheduleRewrittenKeeps

(* Every step of the schedule desk keeps the invariant.                      *)
LEMMA ScheduleKeeps ==
  ASSUME IInv, ScheduleNext
  PROVE  IInv'
<1>1. /\ schedules \in [Schedules -> ScheduleRow] /\ SeatsFit
      /\ \A s \in Schedules : schedules[s] \in ScheduleRow
  BY DEF IInv, BookInv, StoreInv
<1>2. ASSUME NEW s \in Schedules, NEW n \in 0 .. schedules[s].seat_total, UpdateSeat(s, n)
      PROVE  IInv'
  <2> DEFINE row == [schedules[s] EXCEPT !.seat_sisa = n]
  <2>1. schedules[s].seat_total \in Nat /\ n \in Nat /\ Allocated(s) \in Nat
    BY <1>1, AllocatedIsNat DEF ScheduleRow
  <2>2. /\ row \in ScheduleRow /\ row.seat_sisa = n
        /\ row.seat_total = schedules[s].seat_total
    BY <1>1, <2>1 DEF ScheduleRow
  <2>3. /\ schedules' = [schedules EXCEPT ![s] = row]
        /\ n <= schedules[s].seat_total - Allocated(s) /\ ScheduleUnchanged
    BY <1>1, <1>2 DEF UpdateSeat
  <2> HIDE DEF row
  <2>4. row.seat_sisa + Allocated(s) <= row.seat_total
    BY <2>1, <2>2, <2>3
  <2> QED
    BY <2>2, <2>3, <2>4, ScheduleRewrittenKeeps
<1>3. ASSUME NEW s \in Schedules, NEW total \in SeatTotals, NEW status \in ScheduleStatuses,
             NEW departs \in Departures, UpdateSchedule(s, total, status, departs)
      PROVE  IInv'
  <2> DEFINE used == schedules[s].seat_total - schedules[s].seat_sisa
             row == [seat_total |-> total, seat_sisa |-> total - used, status |-> status,
                     departs |-> departs, archiving |-> StillArchiving(s, status)]
  <2>1. /\ total \in Nat /\ status \in {"draft", "published", "archived"}
        /\ departs \in {"far", "near", "past"}
    BY DataAssumption
  <2>2. /\ schedules[s].seat_total \in Nat /\ schedules[s].seat_sisa \in Nat
        /\ schedules[s].archiving \in BOOLEAN /\ Allocated(s) \in Nat
    BY <1>1, AllocatedIsNat DEF ScheduleRow
  <2>3. StillArchiving(s, status) \in BOOLEAN
    BY <2>2 DEF StillArchiving
  <2>4. total >= used /\ schedules' = [schedules EXCEPT ![s] = row] /\ ScheduleUnchanged
    BY <1>3 DEF UpdateSchedule
  <2>5. total - used \in Nat
    BY <2>1, <2>2, <2>4
  <2>6. row \in ScheduleRow /\ row.seat_sisa = total - used /\ row.seat_total = total
    BY <2>1, <2>3, <2>5 DEF ScheduleRow
  <2>7. schedules[s].seat_sisa + Allocated(s) <= schedules[s].seat_total
    BY <1>1 DEF SeatsFit
  <2> HIDE DEF row
  <2>8. row.seat_sisa + Allocated(s) <= row.seat_total
    BY <2>1, <2>2, <2>6, <2>7
  <2> QED
    BY <2>4, <2>6, <2>8, ScheduleRewrittenKeeps
<1>4. ASSUME NEW s \in Schedules, NEW status \in {"draft", "published", "archived"},
             NEW departs \in {"far", "near", "past"}, NEW archiving \in BOOLEAN,
             schedules' = [schedules EXCEPT ![s].status = status, ![s].departs = departs,
                                            ![s].archiving = archiving],
             ScheduleUnchanged
      PROVE  IInv'
  <2> DEFINE row == [schedules[s] EXCEPT !.status = status, !.departs = departs,
                                         !.archiving = archiving]
  <2>1. schedules' = [schedules EXCEPT ![s] = row]
    BY <1>1, <1>4
  <2>2. /\ row \in ScheduleRow /\ row.seat_sisa = schedules[s].seat_sisa
        /\ row.seat_total = schedules[s].seat_total
    BY <1>1 DEF ScheduleRow
  <2> HIDE DEF row
  <2> QED
    BY <1>4, <2>1, <2>2, SaleStateKeeps
<1>5. ASSUME NEW s \in Schedules, NEW status \in ScheduleStatuses, UpdateScheduleStatus(s, status)
      PROVE  IInv'
  <2>1. /\ status \in {"draft", "published", "archived"}
        /\ schedules[s].departs \in {"far", "near", "past"}
        /\ StillArchiving(s, status) \in BOOLEAN
    BY <1>1, DataAssumption DEF ScheduleRow, StillArchiving
  <2>2. schedules' = [schedules EXCEPT ![s].status = status,
                        ![s].departs = schedules[s].departs,
                        ![s].archiving = StillArchiving(s, status)]
    BY <1>1, <1>5 DEF UpdateScheduleStatus, ScheduleRow
  <2> QED
    BY <1>4, <1>5, <2>1, <2>2 DEF UpdateScheduleStatus
<1>6. ASSUME NEW s \in Schedules,
             ArchiveCheck(s) \/ ArchiveDeparted(s) \/ ArchiveAbandoned(s)
               \/ \E departs \in Departures : DepartureNears(s, departs)
      PROVE  IInv'
  <2>1. /\ schedules[s].status \in {"draft", "published", "archived"}
        /\ schedules[s].departs \in {"far", "near", "past"}
        /\ schedules[s].archiving \in BOOLEAN
    BY <1>1 DEF ScheduleRow
  <2>2. CASE ArchiveCheck(s)
    <3>1. schedules' = [schedules EXCEPT ![s].status = schedules[s].status,
                          ![s].departs = schedules[s].departs, ![s].archiving = TRUE]
      BY <1>1, <2>2 DEF ArchiveCheck, ScheduleRow
    <3> QED
      BY <1>4, <2>1, <2>2, <3>1 DEF ArchiveCheck
  <2>3. CASE ArchiveAbandoned(s)
    <3>1. schedules' = [schedules EXCEPT ![s].status = schedules[s].status,
                          ![s].departs = schedules[s].departs, ![s].archiving = FALSE]
      BY <1>1, <2>3 DEF ArchiveAbandoned, ScheduleRow
    <3> QED
      BY <1>4, <2>1, <2>3, <3>1 DEF ArchiveAbandoned
  <2>4. CASE ArchiveDeparted(s)
    <3>1. schedules' = [schedules EXCEPT ![s].status = "archived",
                          ![s].departs = schedules[s].departs,
                          ![s].archiving = schedules[s].archiving]
      BY <1>1, <2>4 DEF ArchiveDeparted, ScheduleRow
    <3> QED
      BY <1>4, <2>1, <2>4, <3>1 DEF ArchiveDeparted
  <2>5. ASSUME NEW departs \in Departures, DepartureNears(s, departs)
        PROVE  IInv'
    <3>1. departs \in {"far", "near", "past"}
      BY DataAssumption
    <3>2. schedules' = [schedules EXCEPT ![s].status = schedules[s].status,
                          ![s].departs = departs, ![s].archiving = schedules[s].archiving]
      BY <1>1, <2>5 DEF DepartureNears, ScheduleRow
    <3> QED
      BY <1>4, <2>1, <2>5, <3>1, <3>2 DEF DepartureNears
  <2> QED
    BY <1>6, <2>2, <2>3, <2>4, <2>5
<1> QED
  BY <1>2, <1>3, <1>5, <1>6 DEF ScheduleNext

-----------------------------------------------------------------------------
(* The invariant, and what follows from it *)

LEMMA InitEstablishes ==
  ASSUME Init
  PROVE  IInv
<1>1. 0 \in 0 .. MaxDiscounts
  BY DataAssumption
<1>2. NoRow \in BookingRow
  BY <1>1 DEF NoRow, BookingRow
<1>3. GoodRow(NoRow) /\ NoRow.status = "absent" /\ ~NoRow.is_seat_blocked
  BY <1>2 DEF GoodRow, NoRow, Exists, Open
<1>4. bookings = [b \in Bookings |-> NoRow]
  BY DEF Init
<1>5. bookings \in [Bookings -> BookingRow] /\ \A b \in Bookings : GoodRow(bookings[b])
  BY <1>2, <1>3, <1>4
<1>6. schedules \in [Schedules -> ScheduleRow]
      /\ \A s \in Schedules : schedules[s].seat_sisa = schedules[s].seat_total
  <2>1. /\ SeatTotals \subseteq Nat /\ Departures \subseteq {"far", "near", "past"}
        /\ ScheduleStatuses \subseteq {"draft", "published", "archived"}
    BY DataAssumption
  <2>2. \A s \in Schedules : schedules[s] \in
          [seat_total : SeatTotals, seat_sisa : SeatTotals, status : ScheduleStatuses,
           departs : Departures, archiving : {FALSE}]
          /\ schedules[s].seat_sisa = schedules[s].seat_total
    BY DEF Init
  <2>3. \A s \in Schedules : schedules[s] \in ScheduleRow
    BY <2>1, <2>2 DEF ScheduleRow
  <2>4. schedules = [s \in Schedules |-> schedules[s]]
    BY DEF Init
  <2> QED
    BY <2>2, <2>3, <2>4
<1>7. SeatsFit
  <2> SUFFICES ASSUME NEW s \in Schedules
               PROVE  schedules[s].seat_sisa + Allocated(s) <= schedules[s].seat_total
    BY DEF SeatsFit
  <2>1. \A b \in Bookings : SeatsOf(b, bookings[b], s) = {}
    BY <1>3, <1>4 DEF SeatsOf
  <2>2. Claims(s) = {}
    BY <2>1 DEF Claims
  <2>3. Allocated(s) = 0
    BY <2>2, FS_EmptySet DEF Allocated
  <2>4. schedules[s].seat_sisa \in Nat
    BY <1>6 DEF ScheduleRow
  <2> QED
    BY <1>6, <2>3, <2>4
<1>8. Idle \in Progress /\ Idle.stage # "locked"
  BY DEF Idle, Progress
<1>9. BookInv
  BY <1>5, <1>6, <1>7, <1>8 DEF Init, BookInv, StoreInv, LockedAreDrafts
<1>10. NoPayment \in PaymentRow /\ NoPayment.status = "absent"
  BY DEF NoPayment, PaymentRow
<1>11. PayInv
  BY <1>10 DEF Init, PayInv
<1>12. NoSnapshot \in Snapshot /\ NoSnapshot.payment \notin Payments
  BY NullAssumption DEF NoSnapshot, Snapshot
<1>13. WorkInv
  BY <1>12 DEF Init, WorkInv
<1> QED
  BY <1>9, <1>11, <1>13 DEF IInv

LEMMA NextKeeps ==
  ASSUME IInv, [Next]_vars
  PROVE  IInv'
<1>1. CASE Next
  BY <1>1, DeskKeeps, PaymentKeeps, IntakeKeeps, ScheduleKeeps DEF Next
<1>2. CASE UNCHANGED vars
  <2>1. BookInv'
    BY <1>2, BooksUntouched DEF vars
  <2>2. PayInv' /\ WorkInv'
    BY <1>2 DEF vars, IInv, PayInv, WorkInv
  <2> QED
    BY <2>1, <2>2 DEF IInv
<1> QED
  BY <1>1, <1>2

(* The inductive invariant holds of every behaviour.                         *)
THEOREM Invariant == Spec => []IInv
BY InitEstablishes, NextKeeps, PTL DEF Spec

(* Every column keeps its type: in particular no operation, whatever it runs *)
(* beside, takes seat_sisa below zero.                                       *)
THEOREM TypeCorrect == Spec => []TypeOK
<1>1. IInv => TypeOK
  BY DEF IInv, BookInv, StoreInv, GoodRow, PayInv, WorkInv, TypeOK
<1> QED
  BY <1>1, Invariant, PTL

(* No seat is sold twice, however bookings, cancellations, payments, the     *)
(* worker and manual corrections interleave.                                 *)
THEOREM SeatsAreNeverOversold == Spec => []NoOversell
<1>1. IInv => NoOversell
  BY DEF IInv, BookInv, StoreInv, SeatsFit, NoOversell
<1> QED
  BY <1>1, Invariant, PTL

(* seat_count is the number of active regular pax of every binding booking.  *)
THEOREM SeatCountsAreExact == Spec => []SeatCountMatchesPax
<1>1. IInv => SeatCountMatchesPax
  BY DEF IInv, BookInv, StoreInv, GoodRow, SeatCountMatchesPax
<1> QED
  BY <1>1, Invariant, PTL

(* Neither drafts nor cancelled bookings block seats.                        *)
THEOREM OnlyBindingHoldSeats == Spec => []OnlyBindingBookingsHoldSeats
<1>1. IInv => OnlyBindingBookingsHoldSeats
  BY DEF IInv, BookInv, StoreInv, GoodRow, OnlyBindingBookingsHoldSeats
<1> QED
  BY <1>1, Invariant, PTL

-----------------------------------------------------------------------------
(* Money *)

(* An amount is a number.                                                    *)
LEMMA AmountIsNat ==
  ASSUME payments \in [Payments -> PaymentRow], NEW P \in SUBSET Payments
  PROVE  Amount(P) \in Nat
<1> DEFINE f == [p \in P |-> payments[p].jumlah]
<1>1. IsFiniteSet(P)
  BY DataAssumption, FS_Subset
<1>2. \A p \in P : f[p] \in Nat
  BY DEF PaymentRow
<1> HIDE DEF f
<1>3. SumFunctionOnSet(f, P) \in Nat
  BY <1>1, <1>2, SumIsNat
<1> QED
  BY <1>3 DEF Amount, f

LEMMA PaidIsNat ==
  ASSUME payments \in [Payments -> PaymentRow], NEW b
  PROVE  Paid(b) \in Nat
BY AmountIsNat DEF Paid, ConfirmedOf

(* Without a confirmed payment nothing is paid.                              *)
LEMMA NothingPaid ==
  ASSUME NEW b, ConfirmedOf(b) = {}
  PROVE  Paid(b) = 0
BY SumOfNothing DEF Paid, Amount

(* One more payment adds its amount.                                         *)
LEMMA AmountAdds ==
  ASSUME payments \in [Payments -> PaymentRow], NEW P \in SUBSET Payments,
         NEW p \in Payments, p \notin P
  PROVE  Amount(P \cup {p}) = Amount(P) + payments[p].jumlah
<1> DEFINE Q == P \cup {p}
           f == [q \in P |-> payments[q].jumlah]
           g == [q \in Q |-> payments[q].jumlah]
<1>1. IsFiniteSet(Q) /\ IsFiniteSet(P) /\ p \in Q /\ Q \ {p} = P
  BY DataAssumption, FS_Subset
<1>2. /\ \A q \in Q : g[q] \in Int
      /\ \A q \in P : f[q] = g[q]
      /\ g[p] = payments[p].jumlah
  BY DEF PaymentRow
<1>3. payments[p].jumlah \in Nat
  BY DEF PaymentRow
<1> HIDE DEF Q, f, g
<1>4. SumFunctionOnSet(g, Q) = g[p] + SumFunctionOnSet(g, P)
  BY <1>1, <1>2, SumSplit
<1>5. SumFunctionOnSet(f, P) = SumFunctionOnSet(g, P)
  BY <1>1, <1>2, SumAgrees
<1>6. Amount(Q) = SumFunctionOnSet(g, Q) /\ Amount(P) = SumFunctionOnSet(f, P)
  BY DEF Amount, f, g
<1>7. Amount(P) \in Nat
  BY AmountIsNat
<1> QED
  BY <1>2, <1>3, <1>4, <1>5, <1>6, <1>7 DEF Q

(* Payments of a positive amount sum up to one.                              *)
LEMMA AmountPositive ==
  ASSUME payments \in [Payments -> PaymentRow], NEW P \in SUBSET Payments, P # {},
         \A p \in P : payments[p].jumlah > 0
  PROVE  Amount(P) > 0
<1>1. PICK p \in P : TRUE
  OBVIOUS
<1>2. P \ {p} \in SUBSET Payments /\ (P \ {p}) \cup {p} = P
  OBVIOUS
<1>3. Amount((P \ {p}) \cup {p}) = Amount(P \ {p}) + payments[p].jumlah
  BY <1>2, AmountAdds
<1>4. Amount(P \ {p}) \in Nat /\ payments[p].jumlah \in Nat
  BY <1>2, AmountIsNat DEF PaymentRow
<1>5. Amount(P) = Amount(P \ {p}) + payments[p].jumlah
  BY <1>2, <1>3
<1>6. payments[p].jumlah > 0
  OBVIOUS
<1> HIDE DEF Amount
<1> QED
  BY <1>4, <1>5, <1>6

(* The amount of payments whose rows do not change does not change.          *)
LEMMA PaidAfter ==
  ASSUME NEW b, NEW P, ConfirmedOf(b)' = P, \A p \in P : payments'[p].jumlah = payments[p].jumlah
  PROVE  Paid(b)' = Amount(P)
<1> DEFINE f == [p \in P |-> payments[p].jumlah]
           g == [p \in P |-> payments'[p].jumlah]
<1>1. f = g
  OBVIOUS
<1>2. Paid(b)' = SumFunctionOnSet(g, P)
  BY DEF Paid, Amount
<1>3. Amount(P) = SumFunctionOnSet(f, P)
  BY DEF Amount
<1> QED
  BY <1>1, <1>2, <1>3

(* The confirmed money of a booking does not move.                           *)
MoneyStays(b) == ConfirmedOf(b)' = ConfirmedOf(b) /\ Paid(b)' = Paid(b)

LEMMA MoneyUntouched ==
  ASSUME NEW b, UNCHANGED payments
  PROVE  MoneyStays(b)
<1>1. ConfirmedOf(b)' = ConfirmedOf(b)
  BY DEF ConfirmedOf
<1>2. Paid(b)' = Amount(ConfirmedOf(b))
  BY <1>1, PaidAfter
<1> QED
  BY <1>1, <1>2 DEF MoneyStays, Paid

(* What happens to a payment that neither was nor becomes confirmed.         *)
LEMMA MoneyUnconfirmed ==
  ASSUME payments \in [Payments -> PaymentRow], NEW p \in Payments, NEW row,
         payments' = [payments EXCEPT ![p] = row],
         payments[p].status # "confirmed", row.status # "confirmed", NEW b
  PROVE  MoneyStays(b)
<1>1. \A q \in Payments : q # p => payments'[q] = payments[q]
  OBVIOUS
<1>2. payments'[p] = row
  OBVIOUS
<1>3. ConfirmedOf(b)' = ConfirmedOf(b)
  BY <1>1, <1>2 DEF ConfirmedOf
<1>4. p \notin ConfirmedOf(b) /\ ConfirmedOf(b) \subseteq Payments
  BY DEF ConfirmedOf
<1>5. \A q \in ConfirmedOf(b) : payments'[q].jumlah = payments[q].jumlah
  BY <1>1, <1>4
<1>6. Paid(b)' = Amount(ConfirmedOf(b))
  BY <1>3, <1>5, PaidAfter
<1> QED
  BY <1>3, <1>6 DEF MoneyStays, Paid

(* A confirmation adds its amount to its booking, and to no other.           *)
LEMMA MoneyConfirmed ==
  ASSUME payments \in [Payments -> PaymentRow], NEW p \in Payments,
         payments' = [payments EXCEPT ![p].status = "confirmed"],
         payments[p].status # "confirmed", NEW b
  PROVE  IF payments[p].booking = b
         THEN /\ ConfirmedOf(b)' = ConfirmedOf(b) \cup {p}
              /\ Paid(b)' = Paid(b) + payments[p].jumlah
         ELSE MoneyStays(b)
<1>1. \A q \in Payments : /\ payments'[q].jumlah = payments[q].jumlah
                          /\ payments'[q].booking = payments[q].booking
                          /\ payments'[q].status = IF q = p THEN "confirmed" ELSE payments[q].status
  BY DEF PaymentRow
<1>2. p \notin ConfirmedOf(b) /\ ConfirmedOf(b) \in SUBSET Payments
  BY DEF ConfirmedOf
<1>3. CASE payments[p].booking = b
  <2>1. ConfirmedOf(b)' = ConfirmedOf(b) \cup {p}
    BY <1>1, <1>3 DEF ConfirmedOf
  <2>2. Paid(b)' = Amount(ConfirmedOf(b) \cup {p})
    BY <1>1, <1>2, <2>1, PaidAfter
  <2> QED
    BY <1>2, <1>3, <2>1, <2>2, AmountAdds DEF Paid
<1>4. CASE payments[p].booking # b
  <2>1. ConfirmedOf(b)' = ConfirmedOf(b)
    BY <1>1, <1>4 DEF ConfirmedOf
  <2>2. Paid(b)' = Amount(ConfirmedOf(b))
    BY <1>1, <1>2, <2>1, PaidAfter
  <2> QED
    BY <1>4, <2>1, <2>2 DEF MoneyStays, Paid
<1> QED
  BY <1>3, <1>4

-----------------------------------------------------------------------------
(* The kinds of steps that write a booking *)

WorkAside == UNCHANGED <<payments, verifying, finalizing, candidates>>

(* A draft is entered, edited or deleted.                                    *)
Drafted(b, row) ==
  /\ bookings[b].status \in {"absent", "draft"} /\ Unlocked(b)
  /\ row.status \in {"draft", "deleted"} /\ row.channel = "office"
  /\ row.refunded = 0 /\ ~row.is_seat_blocked
  /\ bookings' = [bookings EXCEPT ![b] = row]
  /\ UNCHANGED schedules /\ WorkAside

(* A booking becomes binding: at once, or out of a draft being finalized.    *)
Opened(b, row) ==
  /\ row.status = "baru" /\ ~ScheduleClosed(row.schedule)
  /\ Save(b, row, 0, Holding(row))
  /\ UNCHANGED <<verifying, candidates>>
  /\ \/ /\ bookings[b].status = "absent" /\ row.refunded = 0
        /\ row.channel = "portal" =>
             /\ Pax(row) \cap Registered(row.schedule, b) = {}
             /\ NotBeingFinalized(row.schedule, Pax(row))
        /\ UNCHANGED finalizing
     \/ /\ bookings[b].status = "draft" /\ finalizing[b].stage = "locked"
        /\ row.refunded = bookings[b].refunded /\ row.channel = bookings[b].channel
        /\ row.schedule = bookings[b].schedule /\ row.pax = bookings[b].pax
        /\ Pax(row) \cap finalizing[b].registered = {}
        /\ finalizing' = [finalizing EXCEPT ![b] = Idle]

(* Pax or prices change to those of `row`, and the status with them.         *)
Revised(b, row, released) ==
  /\ Exists(bookings[b]) /\ Unlocked(b)
  /\ row.schedule = bookings[b].schedule /\ row.channel = bookings[b].channel
  /\ row.refunded = bookings[b].refunded /\ row.hold = bookings[b].hold
  /\ \/ /\ row.status = bookings[b].status
        /\ row.is_seat_blocked = bookings[b].is_seat_blocked
     \/ row.status = "batal" /\ ~row.is_seat_blocked
  /\ Pax(row) \subseteq Pax(bookings[b])
  /\ Holding(row) + released = Holding(bookings[b])
  /\ bookings[b].status \in Open /\ bookings[b].pic \in RegularPax(bookings[b])
       => row.status = "batal" \/ row.pic \in RegularPax(row)
  /\ \/ Pax(row) # Pax(bookings[b]) \/ row.status = "batal"
     \/ TotalCoversPaid(b, row) \/ Total(row) >= Total(bookings[b])
  /\ Recalculate(b, row, released)
  /\ WorkAside

(* The seats go back, with the booking or without it.                        *)
LetsGo(b, row) ==
  /\ \/ bookings[b].is_seat_blocked /\ row = Unblocked(bookings[b])
     \/ Exists(bookings[b]) /\ Unlocked(b) /\ row = Cancelled(bookings[b])
  /\ Save(b, row, Holding(bookings[b]), 0)
  /\ UNCHANGED <<payments, verifying, finalizing>>

(* The seats are taken again by hand.                                        *)
Blocks(b, row) ==
  /\ bookings[b].status \in Open /\ ~bookings[b].is_seat_blocked
  /\ row.is_seat_blocked
  /\ \E hold \in {"none", "running"} :
       row = [bookings[b] EXCEPT !.is_seat_blocked = TRUE,
                                 !.hold = IF bookings[b].status = "baru" THEN hold ELSE "none"]
  /\ Save(b, row, 0, Holding(row))
  /\ WorkAside

Refunds(b, row) ==
  /\ bookings[b].status = "batal"
  /\ \E jumlah \in Nat :
       /\ bookings[b].refunded + jumlah <= Paid(b)
       /\ row = [bookings[b] EXCEPT !.refunded = @ + jumlah]
  /\ Save(b, row, 0, 0)
  /\ WorkAside

Lapses(b, row) ==
  /\ bookings[b].hold = "running"
  /\ row = [bookings[b] EXCEPT !.hold = "lapsed"]
  /\ bookings' = [bookings EXCEPT ![b] = row]
  /\ UNCHANGED schedules /\ WorkAside

(* Steps that write a booking and confirm no money.                          *)
Rewrites(b, row) ==
  /\ GoodRow(row)
  /\ \/ Drafted(b, row) \/ Opened(b, row)
     \/ \E released \in Nat : Revised(b, row, released)
     \/ LetsGo(b, row) \/ Blocks(b, row) \/ Refunds(b, row) \/ Lapses(b, row)

(* A payment of booking b is confirmed, or rejected; `money` and `regular`   *)
(* are what the transaction takes for the money paid and the active pax.     *)
Receives(b, p, money, regular) ==
  /\ payments[p].booking = b /\ payments[p].status \in {"absent", "pending"}
  /\ payments' = [payments EXCEPT ![p].status = "confirmed"]
  /\ bookings[b].status \in Open
  /\ Total(bookings[b]) > 0 => money <= Total(bookings[b])
  /\ money > 0
  /\ FreshStep => money = Paid(b) + payments[p].jumlah

Refuses(b, p, money, regular) ==
  /\ payments[p].booking = b /\ payments[p].status = "pending"
  /\ payments' = [payments EXCEPT ![p].status = "rejected"]
  /\ bookings[b].status \in Settled
  /\ money > 0 => ConfirmedOf(b) # {}
  /\ FreshStep => money = Paid(b)

Settles(b, p, money, regular) ==
  /\ Receives(b, p, money, regular) \/ Refuses(b, p, money, regular)
  /\ FreshStep => regular = Cardinality(RegularPax(bookings[b]))
  /\ SyncBooking(b, money, regular)
  /\ UNCHANGED <<finalizing, candidates>>

(* No booking changes.                                                       *)
Quiet ==
  /\ UNCHANGED bookings
  /\ UNCHANGED schedules \/ ScheduleNext
  /\ \/ UNCHANGED finalizing
     \/ \E b \in Bookings, progress \in Progress :
          /\ Advance(b, progress)
          /\ progress.stage = "locked" => progress.registered = Registered(bookings[b].schedule, b)

(* Payments are of positive amounts, and what a verification saw confirmed   *)
(* stays confirmed.                                                          *)
MoneyInv ==
  /\ \A p \in Payments : payments[p].booking \in Bookings => payments[p].jumlah > 0
  /\ \A v \in Verifiers : verifying[v].payment \in Payments =>
       verifying[v].paid \subseteq ConfirmedOf(payments[verifying[v].payment].booking)

-----------------------------------------------------------------------------
(* Every step is of one of these kinds: the admin desk *)

(* What an intake path inserts, field by field.                              *)
LEMMA NewRowSays ==
  ASSUME NEW status, NEW s, NEW channel, NEW pic, NEW P \in SUBSET Jamaah, NEW harga
  PROVE  LET row == NewRow(status, s, channel, pic, P, harga)
         IN  /\ row = [status |-> status, schedule |-> s, channel |-> channel, pic |-> pic,
                       pax |-> [j \in Jamaah |-> IF j \in P THEN "aktif" ELSE "none"],
                       harga |-> harga, discounts |-> 0, refunded |-> 0, is_seat_blocked |-> FALSE,
                       seat_count |-> 0, hold |-> "none", full_payment |-> FALSE]
             /\ Pax(row) = P
<1> DEFINE row == NewRow(status, s, channel, pic, P, harga)
           pax == [j \in Jamaah |-> IF j \in P THEN "aktif" ELSE "none"]
<1>1. row = [status |-> status, schedule |-> s, channel |-> channel, pic |-> pic,
             pax |-> pax, harga |-> harga, discounts |-> 0, refunded |-> 0,
             is_seat_blocked |-> FALSE, seat_count |-> 0, hold |-> "none", full_payment |-> FALSE]
  <2>1. row = [NoRow EXCEPT !.status = status, !.schedule = s, !.channel = channel, !.pic = pic,
                            !.pax = pax, !.harga = harga]
    BY DEF NewRow
  <2> HIDE DEF row, pax
  <2> QED
    BY <2>1 DEF NoRow
<1>2. row.pax = pax
  <2> HIDE DEF row, pax
  <2> QED
    BY <1>1
<1>3. Pax(row) = P
  BY <1>2 DEF Pax
<1> QED
  BY <1>1, <1>3

LEMMA CreateBookingIs ==
  ASSUME IInv, NEW b \in Bookings, NEW s \in Schedules, NEW P \in SUBSET Jamaah,
         NEW pic \in P \ Infant, NEW harga \in PriceLists(P, RoomPrices),
         CreateBooking(b, s, pic, P, harga)
  PROVE  \E row \in BookingRow : Rewrites(b, row) /\ UNCHANGED payments
<1> DEFINE regular == Cardinality(P \ Infant)
           base == NewRow("baru", s, "office", pic, P, harga)
           row == [base EXCEPT !.is_seat_blocked = TRUE, !.seat_count = regular]
<1>1. RowInput("baru", s, "office", pic, P, harga)
  BY PriceListTyped, DataAssumption DEF RowInput, Open
<1>2. /\ base \in BookingRow /\ base.status = "baru" /\ base.schedule = s
      /\ RegularPax(base) = P \ Infant
  BY <1>1, NewRowTyped
<1>3. base.channel = "office" /\ base.refunded = 0
  BY NewRowSays
<1>4. regular \in Nat
  BY <1>2, PaxAreFinite
<1>5. /\ Save(b, row, 0, regular) /\ UNCHANGED finalizing
      /\ UNCHANGED <<payments, verifying, candidates>>
      /\ bookings[b].status = "absent" /\ ~ScheduleClosed(s)
  BY DEF CreateBooking, DeskUnchanged
<1> HIDE DEF base, regular
<1>6. /\ row \in BookingRow /\ row.status = "baru" /\ row.schedule = s
      /\ row.is_seat_blocked /\ row.seat_count = regular /\ row.pax = base.pax
      /\ row.channel = "office" /\ row.refunded = 0
  BY <1>2, <1>3, <1>4 DEF BookingRow
<1> HIDE DEF row
<1>7. RegularPax(row) = P \ Infant
  BY <1>2, <1>6 DEF RegularPax, Pax
<1>8. GoodRow(row) /\ Holding(row) = regular
  BY <1>6, <1>7 DEF GoodRow, Holding, regular, Open
<1>9. Opened(b, row)
  BY <1>5, <1>6, <1>8 DEF Opened
<1> QED
  BY <1>5, <1>6, <1>8, <1>9 DEF Rewrites

LEMMA DraftWriteIs ==
  ASSUME IInv, NEW b \in Bookings, NEW row \in BookingRow, Drafted(b, row),
         Exists(row) => row.schedule \in Schedules
  PROVE  \E r \in BookingRow : Rewrites(b, r) /\ UNCHANGED payments
<1>1. GoodRow(row)
  BY DEF GoodRow, Open, Drafted
<1> QED
  BY <1>1 DEF Rewrites, Drafted, WorkAside

LEMMA DraftsAre ==
  ASSUME IInv, NEW b \in Bookings,
         \/ \E s \in Schedules, P \in SUBSET Jamaah :
              \E pic \in (Jamaah \ Infant) \cup {NULL}, harga \in PriceLists(P, RoomPrices \cup {0}) :
                CreateDraftBooking(b, s, pic, P, harga) \/ UpdateDraftBooking(b, s, pic, P, harga)
         \/ DeleteDraft(b)
  PROVE  \E row \in BookingRow : Rewrites(b, row) /\ UNCHANGED payments
<1>1. ASSUME NEW s \in Schedules, NEW P \in SUBSET Jamaah,
             NEW pic \in (Jamaah \ Infant) \cup {NULL}, NEW harga \in PriceLists(P, RoomPrices \cup {0}),
             NEW discounts \in 0 .. MaxDiscounts, NEW seat_count \in Nat,
             bookings[b].status \in {"absent", "draft"}, Unlocked(b),
             bookings' = [bookings EXCEPT ![b] =
               [NewRow("draft", s, "office", pic, P, harga)
                  EXCEPT !.discounts = discounts, !.seat_count = seat_count]],
             UNCHANGED schedules, WorkAside
      PROVE  \E row \in BookingRow : Rewrites(b, row) /\ UNCHANGED payments
  <2> DEFINE base == NewRow("draft", s, "office", pic, P, harga)
             row == [base EXCEPT !.discounts = discounts, !.seat_count = seat_count]
  <2>1. RowInput("draft", s, "office", pic, P, harga)
    BY PriceListTyped, DataAssumption DEF RowInput
  <2>2. /\ base \in BookingRow /\ base.status = "draft" /\ base.schedule = s
        /\ ~base.is_seat_blocked
    BY <2>1, NewRowTyped
  <2>3. base.channel = "office" /\ base.refunded = 0
    BY NewRowSays
  <2>4. bookings' = [bookings EXCEPT ![b] = row]
    BY <1>1
  <2> HIDE DEF base
  <2>5. /\ row \in BookingRow /\ row.status = "draft" /\ row.schedule = s
        /\ ~row.is_seat_blocked /\ row.channel = "office" /\ row.refunded = 0
    BY <2>2, <2>3 DEF BookingRow
  <2> HIDE DEF row
  <2>6. Drafted(b, row)
    BY <1>1, <2>4, <2>5 DEF Drafted
  <2> QED
    BY <2>5, <2>6, DraftWriteIs
<1>2. ASSUME NEW s \in Schedules, NEW P \in SUBSET Jamaah,
             NEW pic \in (Jamaah \ Infant) \cup {NULL}, NEW harga \in PriceLists(P, RoomPrices \cup {0}),
             CreateDraftBooking(b, s, pic, P, harga)
      PROVE  \E row \in BookingRow : Rewrites(b, row) /\ UNCHANGED payments
  <2> DEFINE base == NewRow("draft", s, "office", pic, P, harga)
  <2>1. Unlocked(b)
    BY <1>2 DEF CreateDraftBooking, IInv, BookInv, LockedAreDrafts, Unlocked
  <2>2. 0 \in 0 .. MaxDiscounts
    BY DataAssumption
  <2>3. base = [base EXCEPT !.discounts = 0]
    BY NewRowSays
  <2>4. [base EXCEPT !.seat_count = 1] = [base EXCEPT !.discounts = 0, !.seat_count = 1]
    BY <2>3
  <2> HIDE DEF base
  <2>5. /\ bookings' = [bookings EXCEPT ![b] = [base EXCEPT !.discounts = 0, !.seat_count = 1]]
        /\ bookings[b].status = "absent" /\ UNCHANGED schedules /\ WorkAside
    BY <1>2, <2>4 DEF CreateDraftBooking, DeskUnchanged, WorkAside, base
  <2> QED
    BY <1>1, <2>1, <2>2, <2>5 DEF base
<1>3. ASSUME NEW s \in Schedules, NEW P \in SUBSET Jamaah,
             NEW pic \in (Jamaah \ Infant) \cup {NULL}, NEW harga \in PriceLists(P, RoomPrices \cup {0}),
             UpdateDraftBooking(b, s, pic, P, harga)
      PROVE  \E row \in BookingRow : Rewrites(b, row) /\ UNCHANGED payments
  <2>1. bookings[b].discounts \in 0 .. MaxDiscounts /\ bookings[b].seat_count \in Nat
    BY RowFacts DEF BookingRow
  <2>2. /\ bookings' = [bookings EXCEPT ![b] =
             [NewRow("draft", s, "office", pic, P, harga)
                EXCEPT !.discounts = bookings[b].discounts, !.seat_count = bookings[b].seat_count]]
        /\ bookings[b].status = "draft" /\ Unlocked(b) /\ UNCHANGED schedules /\ WorkAside
    BY <1>3 DEF UpdateDraftBooking, DeskUnchanged, WorkAside
  <2> QED
    BY <1>1, <2>1, <2>2
<1>4. CASE DeleteDraft(b)
  <2> DEFINE row == [NoRow EXCEPT !.status = "deleted"]
  <2>1. 0 \in 0 .. MaxDiscounts
    BY DataAssumption
  <2>2. /\ row \in BookingRow /\ row.status = "deleted" /\ ~row.is_seat_blocked
        /\ row.channel = "office" /\ row.refunded = 0
    BY <2>1 DEF NoRow, BookingRow
  <2>3. bookings' = [bookings EXCEPT ![b] = row]
    BY <1>4 DEF DeleteDraft
  <2> HIDE DEF row
  <2>4. Drafted(b, row)
    BY <1>4, <2>2, <2>3 DEF Drafted, DeleteDraft, DeskUnchanged, WorkAside
  <2> QED
    BY <2>2, <2>4, DraftWriteIs DEF Exists
<1> QED
  BY <1>2, <1>3, <1>4

LEMMA FinalizeCommitIs ==
  ASSUME IInv, NEW b \in Bookings, FinalizeCommit(b)
  PROVE  \E row \in BookingRow : Rewrites(b, row) /\ UNCHANGED payments
<1> DEFINE old == bookings[b]
           regular == Cardinality(RegularPax(old))
           row == [old EXCEPT !.status = "baru", !.is_seat_blocked = TRUE, !.seat_count = regular]
<1>1. /\ GoodRow(old) /\ old \in BookingRow
      /\ old.status = "draft" /\ RegularPax(old) # {}
  BY RowFacts DEF IInv, BookInv, LockedAreDrafts, FinalizeCommit
<1>2. regular \in Nat /\ old.schedule \in Schedules
  BY <1>1, PaxAreFinite DEF GoodRow, Exists
<1>3. /\ finalizing[b].stage = "locked" /\ ~ScheduleClosed(old.schedule)
      /\ Pax(old) \cap finalizing[b].registered = {}
      /\ Save(b, row, 0, regular)
      /\ finalizing' = [finalizing EXCEPT ![b] = Idle]
      /\ UNCHANGED <<payments, verifying, candidates>>
  BY DEF FinalizeCommit, DeskUnchanged, Advance
<1> HIDE DEF regular, old
<1>4. /\ row \in BookingRow /\ row.status = "baru" /\ row.schedule = old.schedule
      /\ row.is_seat_blocked /\ row.seat_count = regular /\ row.pax = old.pax
      /\ row.channel = old.channel /\ row.refunded = old.refunded
  BY <1>1, <1>2 DEF BookingRow, Open
<1> HIDE DEF row
<1>5. Pax(row) = Pax(old) /\ RegularPax(row) = RegularPax(old)
  BY <1>4 DEF RegularPax, Pax
<1>6. GoodRow(row) /\ Holding(row) = regular
  BY <1>1, <1>2, <1>4, <1>5 DEF GoodRow, Holding, regular, Open
<1>7. Opened(b, row)
  BY <1>1, <1>3, <1>4, <1>5, <1>6 DEF Opened, old
<1> QED
  BY <1>3, <1>4, <1>6, <1>7 DEF Rewrites

(* What cancelling pax j changes, field by field.                            *)
LEMMA PaxCancelledSays ==
  ASSUME NEW row, GoodRow(row), Exists(row), NEW j \in Pax(row), NEW pic \in Jamaah,
         pic \in IF j = row.pic /\ RegularPax(row) \ {j} # {} THEN RegularPax(row) \ {j} ELSE {row.pic}
  PROVE  LET new == PaxCancelled(row, j, pic)
             freed == IF j \notin Infant /\ row.is_seat_blocked THEN 1 ELSE 0
         IN  /\ new.channel = row.channel /\ new.refunded = row.refunded /\ new.hold = row.hold
             /\ \/ new.status = row.status /\ new.is_seat_blocked = row.is_seat_blocked
                \/ new.status = "batal" /\ ~new.is_seat_blocked
             /\ Pax(new) \subseteq Pax(row) /\ Pax(new) # Pax(row)
             /\ Holding(new) + freed = Holding(row)
             /\ row.status \in Open /\ row.pic \in RegularPax(row) =>
                  new.status = "batal" \/ new.pic \in RegularPax(new)
<1> DEFINE rest == RegularPax(row) \ {j}
           new == PaxCancelled(row, j, pic)
           freed == IF j \notin Infant /\ row.is_seat_blocked THEN 1 ELSE 0
<1>1. /\ row \in BookingRow
      /\ row.is_seat_blocked \in BOOLEAN
      /\ row.is_seat_blocked => row.status \in Open
      /\ row.status \in Open => row.seat_count = Cardinality(RegularPax(row))
      /\ row.status \in Open => RegularPax(row) # {}
  BY DEF GoodRow, BookingRow
<1>2. /\ IsFiniteSet(RegularPax(row)) /\ Cardinality(RegularPax(row)) \in Nat
      /\ Cardinality(rest) = IF j \in RegularPax(row) THEN Cardinality(RegularPax(row)) - 1
                             ELSE Cardinality(RegularPax(row))
      /\ IsFiniteSet(rest) /\ Cardinality(rest) \in Nat
  BY PaxAreFinite, FS_RemoveElement, FS_CardinalityType
<1>3. j \in Jamaah /\ (j \in RegularPax(row) <=> j \notin Infant)
  BY DEF Pax, RegularPax
<1>4. ASSUME NEW P
      PROVE  /\ Without(row, P) \in BookingRow
             /\ Without(row, P).status = row.status /\ Without(row, P).channel = row.channel
             /\ Without(row, P).refunded = row.refunded /\ Without(row, P).hold = row.hold
             /\ Without(row, P).is_seat_blocked = row.is_seat_blocked
             /\ Pax(Without(row, P)) = Pax(row) \ P
  <2> DEFINE pax == [i \in Jamaah |-> IF i \in P THEN "batal" ELSE row.pax[i]]
             harga == [i \in Jamaah |-> IF i \in P /\ row.status \in {"baru", "draft"}
                                        THEN 0 ELSE row.harga[i]]
  <2>1. pax \in [Jamaah -> {"none", "aktif", "batal"}] /\ harga \in [Jamaah -> Nat]
    BY <1>1 DEF BookingRow
  <2>2. Without(row, P) = [row EXCEPT !.pax = pax, !.harga = harga]
    BY DEF Without
  <2>3. \A i \in Jamaah : pax[i] = "aktif" <=> i \notin P /\ row.pax[i] = "aktif"
    OBVIOUS
  <2> HIDE DEF pax, harga
  <2>4. /\ Without(row, P) \in BookingRow /\ Without(row, P).pax = pax
        /\ Without(row, P).status = row.status /\ Without(row, P).channel = row.channel
        /\ Without(row, P).refunded = row.refunded /\ Without(row, P).hold = row.hold
        /\ Without(row, P).is_seat_blocked = row.is_seat_blocked
    BY <1>1, <2>1, <2>2 DEF BookingRow
  <2> QED
    BY <2>3, <2>4 DEF Pax
<1>5. CASE rest # {}
  <2> DEFINE left == Without(row, {j})
  <2>1. new = [left EXCEPT !.pic = pic, !.seat_count = Cardinality(rest)]
    BY <1>5 DEF PaxCancelled
  <2>2. /\ left \in BookingRow /\ left.status = row.status /\ left.channel = row.channel
        /\ left.refunded = row.refunded /\ left.hold = row.hold
        /\ left.is_seat_blocked = row.is_seat_blocked /\ Pax(left) = Pax(row) \ {j}
    BY <1>4
  <2> HIDE DEF left, new
  <2>3. /\ new \in BookingRow /\ new.status = row.status /\ new.channel = row.channel
        /\ new.refunded = row.refunded /\ new.hold = row.hold /\ new.pic = pic
        /\ new.is_seat_blocked = row.is_seat_blocked /\ new.pax = left.pax
        /\ new.seat_count = Cardinality(rest)
    BY <1>2, <2>1, <2>2 DEF BookingRow
  <2>4. Pax(new) = Pax(row) \ {j} /\ RegularPax(new) = rest
    BY <2>2, <2>3 DEF RegularPax, Pax
  <2>5. Holding(new) + freed = Holding(row)
    BY <1>1, <1>2, <1>3, <2>3 DEF Holding, Open
  <2>6. row.pic \in RegularPax(row) => pic \in rest
    BY <1>5
  <2> QED
    BY <2>3, <2>4, <2>5, <2>6 DEF new
<1>6. CASE rest = {}
  <2> DEFINE left == Without(row, Pax(row))
  <2>1. new = [left EXCEPT !.status = "batal", !.is_seat_blocked = FALSE, !.seat_count = 0]
    BY <1>6 DEF PaxCancelled
  <2>2. /\ left \in BookingRow /\ left.channel = row.channel /\ left.refunded = row.refunded
        /\ left.hold = row.hold /\ Pax(left) = {}
    BY <1>4
  <2> HIDE DEF left, new
  <2>3. /\ new \in BookingRow /\ new.status = "batal" /\ new.channel = row.channel
        /\ ~new.is_seat_blocked /\ new.refunded = row.refunded /\ new.hold = row.hold
        /\ new.pax = left.pax
    BY <2>1, <2>2 DEF BookingRow
  <2>4. Pax(new) = {}
    BY <2>2, <2>3 DEF Pax
  <2>5. Holding(new) = 0
    BY <2>3 DEF Holding
  <2>6. Cardinality(rest) = 0
    BY <1>6, FS_EmptySet
  <2>7. row.is_seat_blocked => j \in RegularPax(row) /\ row.seat_count = 1
    BY <1>1, <1>2, <1>6, <2>6
  <2>8. freed = Holding(row)
    BY <1>1, <1>3, <2>7 DEF Holding, Open
  <2> QED
    BY <1>1, <2>3, <2>4, <2>5, <2>8 DEF new
<1> QED
  BY <1>5, <1>6

LEMMA CancelPaxIs ==
  ASSUME IInv, NEW b \in Bookings, NEW j \in Jamaah, NEW pic \in Jamaah, CancelPax(b, j, pic)
  PROVE  \E row \in BookingRow : Rewrites(b, row) /\ UNCHANGED payments
<1> DEFINE old == bookings[b]
           new == PaxCancelled(old, j, pic)
           freed == IF j \notin Infant /\ old.is_seat_blocked THEN 1 ELSE 0
<1>1. GoodRow(old) /\ Exists(old) /\ j \in Pax(old)
  BY RowFacts DEF CancelPax
<1>2. pic \in IF j = old.pic /\ RegularPax(old) \ {j} # {} THEN RegularPax(old) \ {j} ELSE {old.pic}
  BY DEF CancelPax
<1>3. /\ new.channel = old.channel /\ new.refunded = old.refunded /\ new.hold = old.hold
      /\ \/ new.status = old.status /\ new.is_seat_blocked = old.is_seat_blocked
         \/ new.status = "batal" /\ ~new.is_seat_blocked
      /\ Pax(new) \subseteq Pax(old) /\ Pax(new) # Pax(old)
      /\ Holding(new) + freed = Holding(old)
      /\ old.status \in Open /\ old.pic \in RegularPax(old) =>
           new.status = "batal" \/ new.pic \in RegularPax(new)
  BY <1>1, <1>2, PaxCancelledSays
<1>4. GoodRow(new) /\ new.schedule = old.schedule
  BY <1>1, PaxCancelledKeepsRowGood
<1>5. /\ Recalculate(b, new, freed) /\ Unlocked(b)
      /\ UNCHANGED <<finalizing, payments, verifying, candidates>>
  BY DEF CancelPax, DeskUnchanged
<1>6. freed \in Nat /\ new \in BookingRow
  BY <1>4 DEF GoodRow
<1> HIDE DEF new, freed
<1>7. Revised(b, new, freed)
  BY <1>1, <1>3, <1>4, <1>5 DEF Revised, old, WorkAside
<1> QED
  BY <1>4, <1>5, <1>6, <1>7 DEF Rewrites

(* The total of a booking is a number, and a function of its prices, its     *)
(* discounts and nothing else.                                               *)
LEMMA TotalIsNat ==
  ASSUME NEW row \in BookingRow
  PROVE  Total(row) \in Nat
<1> DEFINE sum == SumFunctionOnSet(row.harga, Jamaah)
           off == DiscountNominal * row.discounts
<1>1. IsFiniteSet(Jamaah) /\ \A j \in Jamaah : row.harga[j] \in Int
  BY DataAssumption DEF BookingRow
<1>2. sum \in Int
  BY <1>1, SumIsInt
<1>3. off \in Int
  BY DataAssumption DEF BookingRow
<1> HIDE DEF sum, off
<1>4. Total(row) = IF sum - off < 0 THEN 0 ELSE sum - off
  BY DEF Total, sum, off
<1> QED
  BY <1>2, <1>3, <1>4

LEMMA TotalKept ==
  ASSUME NEW row, NEW new, new.harga = row.harga, new.discounts = row.discounts
  PROVE  Total(new) = Total(row)
BY DEF Total

(* One discount less makes a booking no cheaper.                             *)
LEMMA TotalWithoutDiscount ==
  ASSUME NEW row \in BookingRow, NEW new \in BookingRow, new.harga = row.harga,
         new.discounts = row.discounts - 1
  PROVE  Total(new) >= Total(row)
<1> DEFINE sum == SumFunctionOnSet(row.harga, Jamaah)
           n == row.discounts
           off == DiscountNominal * n
           less == DiscountNominal * (n - 1)
<1>1. IsFiniteSet(Jamaah) /\ \A j \in Jamaah : row.harga[j] \in Int
  BY DataAssumption DEF BookingRow
<1>2. sum \in Int
  BY <1>1, SumIsInt
<1>3. DiscountNominal \in Nat /\ n \in Int
  BY DataAssumption DEF BookingRow
<1>4. Total(row) = (IF sum - off < 0 THEN 0 ELSE sum - off)
      /\ Total(new) = (IF sum - less < 0 THEN 0 ELSE sum - less)
  BY DEF Total
<1> HIDE DEF sum, n
<1>5. off \in Int /\ less = off - DiscountNominal
  BY <1>3
<1> HIDE DEF off, less
<1> QED
  BY <1>2, <1>3, <1>4, <1>5

(* A new price or discount leaves everything else as it was.                 *)
LEMMA RepricedIs ==
  ASSUME IInv, NEW b \in Bookings, NEW row \in BookingRow, Exists(bookings[b]), Unlocked(b),
         row.status = bookings[b].status, row.schedule = bookings[b].schedule,
         row.channel = bookings[b].channel, row.refunded = bookings[b].refunded,
         row.hold = bookings[b].hold, row.pic = bookings[b].pic,
         row.pax = bookings[b].pax, row.seat_count = bookings[b].seat_count,
         row.is_seat_blocked = bookings[b].is_seat_blocked,
         Recalculate(b, row, 0),
         TotalCoversPaid(b, row) \/ Total(row) >= Total(bookings[b]),
         UNCHANGED finalizing, DeskUnchanged
  PROVE  \E r \in BookingRow : Rewrites(b, r) /\ UNCHANGED payments
<1>1. GoodRow(bookings[b]) /\ Holding(bookings[b]) \in Nat
  BY RowFacts
<1>2. Pax(row) = Pax(bookings[b]) /\ RegularPax(row) = RegularPax(bookings[b])
  BY DEF RegularPax, Pax
<1>3. GoodRow(row) /\ Holding(row) + 0 = Holding(bookings[b])
  BY <1>1, <1>2 DEF GoodRow, Holding, Exists
<1>4. Revised(b, row, 0)
  BY <1>2, <1>3 DEF Revised, WorkAside, DeskUnchanged
<1> QED
  BY <1>3, <1>4 DEF Rewrites, DeskUnchanged

LEMMA PriceEditsAre ==
  ASSUME IInv, NEW b \in Bookings,
         \/ \E j \in Jamaah, price \in RoomPrices : UpdatePaxRoomType(b, j, price)
         \/ AddDiscount(b)
         \/ DeleteDiscount(b)
  PROVE  \E row \in BookingRow : Rewrites(b, row) /\ UNCHANGED payments
<1> DEFINE old == bookings[b]
<1>1. old \in BookingRow
  BY RowFacts
<1>2. ASSUME NEW harga \in [Jamaah -> Nat], NEW discounts \in 0 .. MaxDiscounts, NEW row,
             row = [old EXCEPT !.harga = harga, !.discounts = discounts],
             Exists(row), Unlocked(b), Recalculate(b, row, 0),
             TotalCoversPaid(b, row) \/ Total(row) >= Total(old),
             UNCHANGED finalizing, DeskUnchanged
      PROVE  \E r \in BookingRow : Rewrites(b, r) /\ UNCHANGED payments
  <2>1. /\ row \in BookingRow
        /\ row.status = old.status /\ row.schedule = old.schedule
        /\ row.channel = old.channel /\ row.refunded = old.refunded
        /\ row.hold = old.hold /\ row.pic = old.pic
        /\ row.pax = old.pax /\ row.seat_count = old.seat_count
        /\ row.is_seat_blocked = old.is_seat_blocked
    BY <1>1, <1>2 DEF BookingRow
  <2>2. Exists(old)
    BY <1>2, <2>1 DEF Exists
  <2> QED
    BY <1>2, <2>1, <2>2, RepricedIs
<1>3. ASSUME NEW j \in Jamaah, NEW price \in RoomPrices, UpdatePaxRoomType(b, j, price)
      PROVE  \E row \in BookingRow : Rewrites(b, row) /\ UNCHANGED payments
  <2> DEFINE harga == [old.harga EXCEPT ![j] = price]
             row == [old EXCEPT !.harga[j] = price]
  <2>1. price \in Nat
    BY DataAssumption
  <2>2. harga \in [Jamaah -> Nat] /\ old.discounts \in 0 .. MaxDiscounts
    BY <1>1, <2>1 DEF BookingRow
  <2>3. row = [old EXCEPT !.harga = harga, !.discounts = old.discounts]
    BY <1>1 DEF BookingRow
  <2>4. /\ Exists(row) /\ Recalculate(b, row, 0) /\ Unlocked(b) /\ TotalCoversPaid(b, row)
        /\ UNCHANGED finalizing /\ DeskUnchanged
    BY <1>3 DEF UpdatePaxRoomType
  <2> HIDE DEF harga, row, old
  <2> QED
    BY <1>2, <2>2, <2>3, <2>4
<1>4. CASE AddDiscount(b)
  <2> DEFINE row == [old EXCEPT !.discounts = @ + 1]
  <2>1. old.discounts \in 0 .. MaxDiscounts /\ old.discounts < MaxDiscounts /\ MaxDiscounts \in Nat
    BY <1>1, <1>4, DataAssumption DEF AddDiscount, BookingRow
  <2>2. old.harga \in [Jamaah -> Nat] /\ old.discounts + 1 \in 0 .. MaxDiscounts
    BY <1>1, <2>1 DEF BookingRow
  <2>3. row = [old EXCEPT !.harga = old.harga, !.discounts = old.discounts + 1]
    BY <1>1 DEF BookingRow
  <2>4. /\ Exists(row) /\ Recalculate(b, row, 0) /\ Unlocked(b) /\ TotalCoversPaid(b, row)
        /\ UNCHANGED finalizing /\ DeskUnchanged
    BY <1>4 DEF AddDiscount
  <2> HIDE DEF row, old
  <2> QED
    BY <1>2, <2>2, <2>3, <2>4
<1>5. CASE DeleteDiscount(b)
  <2> DEFINE row == [old EXCEPT !.discounts = @ - 1]
  <2>1. old.discounts \in 0 .. MaxDiscounts /\ old.discounts > 0 /\ MaxDiscounts \in Nat
    BY <1>1, <1>5, DataAssumption DEF DeleteDiscount, BookingRow
  <2>2. old.harga \in [Jamaah -> Nat] /\ old.discounts - 1 \in 0 .. MaxDiscounts
    BY <1>1, <2>1 DEF BookingRow
  <2>3. row = [old EXCEPT !.harga = old.harga, !.discounts = old.discounts - 1]
    BY <1>1 DEF BookingRow
  <2>4. row \in BookingRow /\ row.harga = old.harga /\ row.discounts = old.discounts - 1
    BY <1>1, <2>2, <2>3 DEF BookingRow
  <2>5. Total(row) >= Total(old)
    <3> HIDE DEF row, old
    <3> QED
      BY <1>1, <2>4, TotalWithoutDiscount
  <2>6. /\ Exists(row) /\ Recalculate(b, row, 0) /\ Unlocked(b)
        /\ UNCHANGED finalizing /\ DeskUnchanged
    BY <1>5 DEF DeleteDiscount
  <2> HIDE DEF row, old
  <2> QED
    BY <1>2, <2>2, <2>3, <2>5, <2>6
<1> QED
  BY <1>3, <1>4, <1>5

LEMMA CancelIs ==
  ASSUME IInv, NEW b \in Bookings, Exists(bookings[b]), Unlocked(b), Cancel(b),
         UNCHANGED <<payments, verifying, finalizing>>
  PROVE  \E row \in BookingRow : Rewrites(b, row) /\ UNCHANGED payments
<1> DEFINE old == bookings[b]
           row == Cancelled(old)
<1>1. GoodRow(old)
  BY RowFacts
<1>2. GoodRow(row)
  BY <1>1, CancelledKeepsRowGood
<1>3. Save(b, row, Holding(old), 0)
  BY <1>1, RestoresHolding DEF Cancel
<1>4. LetsGo(b, row)
  BY <1>3 DEF LetsGo
<1>5. row \in BookingRow
  BY <1>2 DEF GoodRow
<1> HIDE DEF row
<1> QED
  BY <1>2, <1>4, <1>5 DEF Rewrites

LEMMA UnblockIs ==
  ASSUME IInv, NEW b \in Bookings, bookings[b].is_seat_blocked,
         Save(b, Unblocked(bookings[b]), Holding(bookings[b]), 0),
         UNCHANGED <<payments, verifying, finalizing>>
  PROVE  \E row \in BookingRow : Rewrites(b, row) /\ UNCHANGED payments
<1> DEFINE row == Unblocked(bookings[b])
<1>1. GoodRow(row)
  BY RowFacts, UnblockedKeepsRowGood
<1>2. LetsGo(b, row)
  BY DEF LetsGo
<1>3. row \in BookingRow
  BY <1>1 DEF GoodRow
<1> HIDE DEF row
<1> QED
  BY <1>1, <1>2, <1>3 DEF Rewrites

LEMMA BlockSeatIs ==
  ASSUME IInv, NEW b \in Bookings, NEW hold \in {"none", "running"}, BlockSeat(b, hold)
  PROVE  \E row \in BookingRow : Rewrites(b, row) /\ UNCHANGED payments
<1> DEFINE old == bookings[b]
           deadline == IF old.status = "baru" THEN hold ELSE "none"
           row == [old EXCEPT !.is_seat_blocked = TRUE, !.hold = deadline]
<1>1. /\ GoodRow(old) /\ old \in BookingRow /\ old.status \in Open /\ ~old.is_seat_blocked
      /\ old.seat_count \in Nat
  BY RowFacts DEF BlockSeat, BookingRow
<1>2. Save(b, row, 0, old.seat_count) /\ WorkAside
  BY DEF BlockSeat, WorkAside, DeskUnchanged
<1>3. \E h \in {"none", "running"} :
        row = [old EXCEPT !.is_seat_blocked = TRUE,
                          !.hold = IF old.status = "baru" THEN h ELSE "none"]
  OBVIOUS
<1>4. deadline \in {"none", "running"}
  OBVIOUS
<1> HIDE DEF deadline, old
<1>5. /\ row \in BookingRow /\ row.status = old.status /\ row.schedule = old.schedule
      /\ row.is_seat_blocked /\ row.pax = old.pax /\ row.seat_count = old.seat_count
  BY <1>1, <1>4 DEF BookingRow
<1> HIDE DEF row
<1>6. RegularPax(row) = RegularPax(old)
  BY <1>5 DEF RegularPax, Pax
<1>7. GoodRow(row) /\ Holding(row) = old.seat_count
  BY <1>1, <1>5, <1>6 DEF GoodRow, Holding, Exists, Open
<1>8. Blocks(b, row)
  BY <1>1, <1>2, <1>3, <1>5, <1>7 DEF Blocks, old
<1> QED
  BY <1>2, <1>5, <1>7, <1>8 DEF Rewrites, WorkAside

LEMMA CreateRefundIs ==
  ASSUME IInv, NEW b \in Bookings, NEW jumlah \in 1 .. Paid(b), CreateRefund(b, jumlah)
  PROVE  \E row \in BookingRow : Rewrites(b, row) /\ UNCHANGED payments
<1> DEFINE old == bookings[b]
           row == [old EXCEPT !.refunded = @ + jumlah]
<1>1. Paid(b) \in Nat
  BY PaidIsNat DEF IInv, PayInv
<1>2. GoodRow(old) /\ old \in BookingRow /\ old.status = "batal" /\ old.refunded \in Nat
  BY RowFacts DEF CreateRefund, BookingRow
<1>3. jumlah \in Nat
  BY <1>1
<1>4. old.refunded + jumlah <= Paid(b)
  BY <1>1, <1>2, <1>3 DEF CreateRefund, Refundable
<1>5. Save(b, row, 0, 0) /\ WorkAside
  BY DEF CreateRefund, WorkAside, DeskUnchanged
<1>6. Refunds(b, row)
  BY <1>2, <1>3, <1>4, <1>5 DEF Refunds
<1> HIDE DEF old
<1>7. /\ row \in BookingRow /\ row.status = old.status /\ row.schedule = old.schedule
      /\ row.is_seat_blocked = old.is_seat_blocked
  BY <1>2, <1>3 DEF BookingRow
<1> HIDE DEF row
<1>8. GoodRow(row)
  BY <1>2, <1>7 DEF GoodRow, Open, Exists
<1> QED
  BY <1>5, <1>6, <1>7, <1>8 DEF Rewrites, WorkAside

(* A step of a finalization before its last.                                 *)
LEMMA FinalizeProgressIs ==
  ASSUME IInv, NEW b \in Bookings, FinalizeCheck(b) \/ FinalizeLock(b) \/ FinalizeFails(b)
  PROVE  Quiet /\ UNCHANGED payments
<1>1. CASE FinalizeCheck(b)
  <2> DEFINE progress == [stage |-> "checked", registered |-> {}]
  <2>1. progress \in Progress /\ progress.stage # "locked"
    BY DEF Progress
  <2>2. Advance(b, progress) /\ UNCHANGED <<schedules, bookings, payments>>
    BY <1>1 DEF FinalizeCheck, DeskUnchanged
  <2> HIDE DEF progress
  <2> QED
    BY <2>1, <2>2 DEF Quiet
<1>2. CASE FinalizeLock(b)
  <2> DEFINE progress == [stage |-> "locked", registered |-> Registered(bookings[b].schedule, b)]
  <2>1. progress \in Progress /\ progress.registered = Registered(bookings[b].schedule, b)
    BY DEF Progress, Registered
  <2>2. Advance(b, progress) /\ UNCHANGED <<schedules, bookings, payments>>
    BY <1>2 DEF FinalizeLock, DeskUnchanged
  <2> HIDE DEF progress
  <2> QED
    BY <2>1, <2>2 DEF Quiet
<1>3. CASE FinalizeFails(b)
  <2>1. Idle \in Progress /\ Idle.stage # "locked"
    BY DEF Progress, Idle
  <2>2. Advance(b, Idle) /\ UNCHANGED <<schedules, bookings, payments>>
    BY <1>3 DEF FinalizeFails, DeskUnchanged
  <2> QED
    BY <2>1, <2>2 DEF Quiet
<1> QED
  BY <1>1, <1>2, <1>3

LEMMA DeskStepIs ==
  ASSUME IInv, DeskNext
  PROVE  /\ UNCHANGED payments
         /\ Quiet \/ \E b \in Bookings, row \in BookingRow : Rewrites(b, row)
<1>1. ASSUME NEW b \in Bookings, CancelBooking(b)
      PROVE  \E row \in BookingRow : Rewrites(b, row) /\ UNCHANGED payments
  BY <1>1, CancelIs DEF CancelBooking, Cancel, DeskUnchanged
<1>2. ASSUME NEW b \in Bookings, CancelSeatBlock(b)
      PROVE  \E row \in BookingRow : Rewrites(b, row) /\ UNCHANGED payments
  <2>1. SeatsToRestore(bookings[b]) = Holding(bookings[b])
    BY RowFacts, RestoresHolding
  <2> QED
    BY <1>2, <2>1, UnblockIs DEF CancelSeatBlock, DeskUnchanged
<1> QED
  BY <1>1, <1>2, CreateBookingIs, DraftsAre, FinalizeProgressIs, FinalizeCommitIs, CancelPaxIs,
     PriceEditsAre, BlockSeatIs, CreateRefundIs
  DEF DeskNext

-----------------------------------------------------------------------------
(* Intake, holds and the worker *)

(* A payment that is reported confirms no money.                             *)
LEMMA ReportedMoneyStays ==
  ASSUME payments \in [Payments -> PaymentRow], NEW p \in Payments, payments[p] = NoPayment,
         NEW b, NEW amount, NEW status \in {"absent", "pending"},
         payments' = [payments EXCEPT ![p] = Recorded(b, amount, status)], NEW c
  PROVE  MoneyStays(c)
<1>1. payments[p].status # "confirmed"
  BY DEF NoPayment
<1>2. Recorded(b, amount, status).status # "confirmed"
  BY DEF Recorded
<1> QED
  BY <1>1, <1>2, MoneyUnconfirmed

LEMMA ProcessDealIs ==
  ASSUME IInv, NEW b \in Bookings, NEW s \in Schedules, NEW j \in Jamaah \ Infant,
         NEW price \in RoomPrices, NEW commitment, NEW p, NEW amount,
         p \in Payments \/ commitment = "book_seat",
         ProcessDeal(b, s, j, price, commitment, p, amount)
  PROVE  /\ \E row \in BookingRow : Rewrites(b, row)
         /\ \A c \in Bookings : MoneyStays(c)
<1> DEFINE harga == [i \in Jamaah |-> IF i = j THEN price ELSE 0]
           base == NewRow("baru", s, "office", j, {j}, harga)
           row == [base EXCEPT !.seat_count = 1]
           held == [row EXCEPT !.is_seat_blocked = TRUE, !.hold = "running"]
<1>1. harga \in [Jamaah -> Nat]
  BY DataAssumption
<1>2. {j} \ Infant = {j} /\ {j} \in SUBSET Jamaah
  OBVIOUS
<1> HIDE DEF harga
<1>3. /\ base \in BookingRow /\ base.status = "baru" /\ base.schedule = s
      /\ ~base.is_seat_blocked /\ RegularPax(base) = {j}
  <2>1. RowInput("baru", s, "office", j, {j}, harga)
    BY <1>1 DEF RowInput, Open
  <2> QED
    BY <1>2, <2>1, NewRowTyped
<1>4. base.channel = "office" /\ base.refunded = 0
  BY <1>2, NewRowSays
<1> HIDE DEF base
<1>5. /\ row \in BookingRow /\ row.status = "baru" /\ row.schedule = s
      /\ ~row.is_seat_blocked /\ row.seat_count = 1 /\ row.pax = base.pax
      /\ row.channel = "office" /\ row.refunded = 0
  BY <1>3, <1>4 DEF BookingRow
<1> HIDE DEF row
<1>6. /\ held \in BookingRow /\ held.status = "baru" /\ held.schedule = s
      /\ held.is_seat_blocked /\ held.seat_count = 1 /\ held.pax = base.pax
      /\ held.channel = "office" /\ held.refunded = 0
  BY <1>5 DEF BookingRow
<1> HIDE DEF held
<1>7. RegularPax(row) = {j} /\ RegularPax(held) = {j} /\ Cardinality({j}) = 1
  BY <1>3, <1>5, <1>6, FS_Singleton DEF RegularPax, Pax
<1>8. GoodRow(row) /\ Holding(row) = 0 /\ GoodRow(held) /\ Holding(held) = 1
  BY <1>5, <1>6, <1>7 DEF GoodRow, Holding, Open
<1>9. /\ bookings[b].status = "absent" /\ ~ScheduleClosed(s)
      /\ UNCHANGED <<verifying, finalizing, candidates>>
  BY DEF ProcessDeal, IntakeUnchanged
<1>10. \/ Save(b, held, 0, 1) /\ UNCHANGED payments
       \/ /\ commitment # "book_seat" /\ payments[p] = NoPayment /\ Save(b, row, 0, 0)
          /\ payments' = [payments EXCEPT ![p] = Recorded(b, amount, "pending")]
  BY DEF ProcessDeal, held, row, base, harga, Recorded
<1>11. CASE Save(b, held, 0, 1) /\ UNCHANGED payments
  <2>1. Opened(b, held)
    BY <1>6, <1>8, <1>9, <1>11 DEF Opened
  <2> QED
    BY <1>6, <1>8, <1>11, <2>1, MoneyUntouched DEF Rewrites
<1>12. CASE /\ commitment # "book_seat" /\ payments[p] = NoPayment /\ Save(b, row, 0, 0)
            /\ payments' = [payments EXCEPT ![p] = Recorded(b, amount, "pending")]
  <2>1. Opened(b, row)
    BY <1>5, <1>8, <1>9, <1>12 DEF Opened
  <2>2. \A c \in Bookings : MoneyStays(c)
    BY <1>12, ReportedMoneyStays DEF IInv, PayInv
  <2> QED
    BY <1>5, <1>8, <2>1, <2>2 DEF Rewrites
<1> QED
  BY <1>10, <1>11, <1>12

LEMMA SelfBookingIs ==
  ASSUME IInv, NEW b \in Bookings, NEW s \in Schedules, NEW P \in SUBSET Jamaah,
         NEW pic \in P \ Infant, NEW harga \in PriceLists(P, RoomPrices),
         NEW full \in FullPayment, SelfBooking(b, s, pic, P, harga, full)
  PROVE  \E row \in BookingRow : Rewrites(b, row) /\ UNCHANGED payments
<1> DEFINE regular == Cardinality(P \ Infant)
           base == NewRow("baru", s, "portal", pic, P, harga)
           row == [base EXCEPT !.is_seat_blocked = TRUE, !.seat_count = regular,
                               !.hold = "running", !.full_payment = full]
<1>1. harga \in [Jamaah -> Nat] /\ full \in BOOLEAN
  BY PriceListTyped, DataAssumption
<1>2. /\ base \in BookingRow /\ base.status = "baru" /\ base.schedule = s
      /\ RegularPax(base) = P \ Infant
  <2>1. RowInput("baru", s, "portal", pic, P, harga)
    BY <1>1 DEF RowInput, Open
  <2> QED
    BY <2>1, NewRowTyped
<1>3. regular \in Nat
  BY <1>2, PaxAreFinite
<1>4. base.refunded = 0 /\ Pax(base) = P
  BY NewRowSays
<1>5. /\ Save(b, row, 0, regular) /\ bookings[b].status = "absent"
      /\ ~ScheduleClosed(s) /\ P \cap Registered(s, b) = {} /\ NotBeingFinalized(s, P)
      /\ UNCHANGED <<payments, verifying, finalizing, candidates>>
  BY DEF SelfBooking, IntakeUnchanged, OnSale, ScheduleClosed
<1> HIDE DEF base, regular
<1>6. /\ row \in BookingRow /\ row.status = "baru" /\ row.schedule = s
      /\ row.is_seat_blocked /\ row.seat_count = regular /\ row.pax = base.pax
      /\ row.refunded = 0
  BY <1>1, <1>2, <1>3, <1>4 DEF BookingRow
<1> HIDE DEF row
<1>7. RegularPax(row) = P \ Infant /\ Pax(row) = P
  BY <1>2, <1>4, <1>6 DEF RegularPax, Pax
<1>8. GoodRow(row) /\ Holding(row) = regular
  BY <1>6, <1>7 DEF GoodRow, Holding, regular, Open
<1>9. Opened(b, row)
  BY <1>5, <1>6, <1>7, <1>8 DEF Opened
<1> QED
  BY <1>5, <1>6, <1>8, <1>9 DEF Rewrites

LEMMA HoldLapsesIs ==
  ASSUME IInv, NEW b \in Bookings, HoldLapses(b)
  PROVE  \E row \in BookingRow : Rewrites(b, row) /\ UNCHANGED payments
<1> DEFINE old == bookings[b]
           row == [old EXCEPT !.hold = "lapsed"]
<1>1. GoodRow(old) /\ old \in BookingRow /\ bookings \in [Bookings -> BookingRow]
  BY RowFacts DEF IInv, BookInv, StoreInv
<1>2. /\ bookings' = [bookings EXCEPT ![b] = row] /\ old.hold = "running"
      /\ UNCHANGED schedules /\ WorkAside
  BY <1>1 DEF HoldLapses, IntakeUnchanged, WorkAside
<1>3. Lapses(b, row)
  BY <1>2 DEF Lapses
<1> HIDE DEF old
<1>4. /\ row \in BookingRow /\ row.status = old.status /\ row.schedule = old.schedule
      /\ row.is_seat_blocked = old.is_seat_blocked /\ row.pax = old.pax
      /\ row.seat_count = old.seat_count
  BY <1>1 DEF BookingRow
<1> HIDE DEF row
<1>5. RegularPax(row) = RegularPax(old)
  BY <1>4 DEF RegularPax, Pax
<1>6. GoodRow(row)
  BY <1>1, <1>4, <1>5 DEF GoodRow, Exists
<1> QED
  BY <1>2, <1>3, <1>4, <1>6 DEF Rewrites, WorkAside

LEMMA IntakeStepIs ==
  ASSUME IInv, IntakeNext
  PROVE  /\ \A b \in Bookings : MoneyStays(b)
         /\ Quiet \/ \E b \in Bookings, row \in BookingRow : Rewrites(b, row)
<1>1. ASSUME UNCHANGED payments
      PROVE  \A b \in Bookings : MoneyStays(b)
  BY <1>1, MoneyUntouched
<1>2. ASSUME NEW b \in Bookings, CustomerCancel(b)
      PROVE  \E row \in BookingRow : Rewrites(b, row) /\ UNCHANGED payments
  <2>1. bookings[b].status = "baru" /\ Exists(bookings[b])
    BY <1>2 DEF CustomerCancel, Exists
  <2>2. Unlocked(b)
    BY <2>1 DEF IInv, BookInv, LockedAreDrafts, Unlocked
  <2> QED
    BY <1>2, <2>1, <2>2, CancelIs DEF CustomerCancel, Cancel, DeskUnchanged
<1>3. ASSUME NEW b \in Bookings, ReleaseSeatHold(b)
      PROVE  /\ UNCHANGED payments
             /\ Quiet \/ \E row \in BookingRow : Rewrites(b, row)
  <2>1. CASE ~Releasable(bookings[b])
    BY <1>3, <2>1 DEF ReleaseSeatHold, Quiet
  <2>2. CASE Releasable(bookings[b])
    <3>1. Holding(bookings[b]) = bookings[b].seat_count
      BY <2>2, RowFacts DEF Releasable
    <3> QED
      BY <1>3, <2>2, <3>1, UnblockIs DEF ReleaseSeatHold, Releasable
  <2> QED
    BY <2>1, <2>2
<1>4. ASSUME FindLapsedHolds \/ \E b \in Bookings : ReleaseFails(b)
      PROVE  Quiet /\ UNCHANGED payments
  BY <1>4 DEF FindLapsedHolds, ReleaseFails, Quiet
<1>5. ASSUME NEW b \in Bookings, NEW s \in Schedules, NEW j \in Jamaah \ Infant,
             NEW price \in RoomPrices,
             \/ \E p \in Payments, amount \in Amounts, commitment \in {"lunas", "dp"} :
                  ProcessDeal(b, s, j, price, commitment, p, amount)
             \/ ProcessDeal(b, s, j, price, "book_seat", NULL, 0)
      PROVE  /\ \E row \in BookingRow : Rewrites(b, row)
             /\ \A c \in Bookings : MoneyStays(c)
  BY <1>5, ProcessDealIs
<1> QED
  BY <1>1, <1>2, <1>3, <1>4, <1>5, SelfBookingIs, HoldLapsesIs DEF IntakeNext

-----------------------------------------------------------------------------
(* The payment desk *)

(* A step in which no verification with an outdated snapshot ends.           *)
LEMMA EndedWasFresh ==
  ASSUME IInv, NEW v \in Verifiers, verifying[v].payment # NULL, Done(v), FreshStep
  PROVE  LET b == payments[verifying[v].payment].booking
         IN  verifying[v].paid = ConfirmedOf(b) /\ verifying[v].pax = RegularPax(bookings[b])
<1>1. verifying \in [Verifiers -> Snapshot]
  BY DEF IInv, WorkInv
<1>2. verifying'[v] = NoSnapshot
  BY <1>1 DEF Done
<1>3. verifying'[v] # verifying[v]
  BY <1>2 DEF NoSnapshot
<1> QED
  BY <1>3 DEF FreshStep, Stale

LEMMA CreatePaymentIs ==
  ASSUME IInv, MoneyInv, NEW p \in Payments, CreatePayment(p)
  PROVE  \E b \in Bookings, money \in Nat, regular \in Nat : Settles(b, p, money, regular)
<1> DEFINE b == payments[p].booking
           amount == payments[p].jumlah
           regular == Cardinality(RegularPax(bookings[b]))
<1>1. /\ Requested(p) /\ Accepted(b, amount)
      /\ payments' = [payments EXCEPT ![p].status = "confirmed"]
      /\ SyncBooking(b, Paid(b) + amount, regular)
      /\ UNCHANGED <<finalizing, candidates>>
  BY DEF CreatePayment, PaymentUnchanged
<1>2. payments \in [Payments -> PaymentRow]
  BY DEF IInv, PayInv
<1>3. payments[p].status = "absent" /\ b \in Bookings /\ amount \in Nat
  BY <1>1, <1>2 DEF Requested, PaymentRow
<1>4. amount > 0
  BY <1>3 DEF MoneyInv
<1>5. Paid(b) \in Nat /\ regular \in Nat
  BY <1>2, PaidIsNat, PaxAreFinite
<1>6. bookings[b] \in BookingRow
  BY <1>3, RowFacts
<1>7. Total(bookings[b]) \in Nat
  BY <1>6, TotalIsNat
<1> DEFINE money == Paid(b) + amount
<1>8. Total(bookings[b]) > 0 => money <= Total(bookings[b])
  BY <1>1, <1>3, <1>5, <1>7 DEF Accepted, Outstanding
<1>9. money \in Nat /\ money > 0
  BY <1>3, <1>4, <1>5
<1>10. Settles(b, p, money, regular)
  BY <1>1, <1>3, <1>8, <1>9 DEF Settles, Receives, Accepted
<1> HIDE DEF b, money, regular
<1> QED
  BY <1>3, <1>5, <1>9, <1>10

(* What a verification that decides its payment works with.                  *)
LEMMA VerdictFacts ==
  ASSUME IInv, MoneyInv, NEW v \in Verifiers, Undecided(v)
  PROVE  LET p == verifying[v].payment
             b == payments[p].booking
         IN  /\ p \in Payments /\ b \in Bookings /\ bookings[b].status \in Settled
             /\ payments[p].jumlah \in Nat /\ payments[p].jumlah > 0
             /\ verifying[v].paid \ {p} = verifying[v].paid
             /\ verifying[v].paid \subseteq ConfirmedOf(b)
             /\ Amount(verifying[v].paid) \in Nat
             /\ Cardinality(verifying[v].pax) \in Nat
<1> DEFINE p == verifying[v].payment
           b == payments[p].booking
<1>1. verifying[v] \in Snapshot /\ payments \in [Payments -> PaymentRow]
  BY DEF IInv, WorkInv, PayInv
<1>2. p \in Payments /\ payments[p].status = "pending"
  BY <1>1 DEF Undecided, Snapshot
<1>3. b \in Bookings /\ bookings[b].status \in Settled
  BY <1>2 DEF IInv, PayInv
<1>4. payments[p].jumlah \in Nat /\ payments[p].jumlah > 0
  BY <1>1, <1>2, <1>3 DEF MoneyInv, PaymentRow
<1>5. verifying[v].paid \subseteq ConfirmedOf(b)
  BY <1>2 DEF MoneyInv
<1>6. p \notin ConfirmedOf(b)
  BY <1>2 DEF ConfirmedOf
<1>7. Amount(verifying[v].paid) \in Nat
  BY <1>1, AmountIsNat DEF Snapshot
<1>8. verifying[v].pax \in SUBSET Jamaah
  BY <1>1 DEF Snapshot
<1>9. Cardinality(verifying[v].pax) \in Nat
  BY <1>8, DataAssumption, FS_Subset, FS_CardinalityType
<1> QED
  BY <1>2, <1>3, <1>4, <1>5, <1>6, <1>7, <1>9

LEMMA ConfirmPaymentIs ==
  ASSUME IInv, MoneyInv, NEW v \in Verifiers, ConfirmPayment(v)
  PROVE  \E b \in Bookings, p \in Payments, money \in Nat, regular \in Nat :
           Settles(b, p, money, regular)
<1> DEFINE p == verifying[v].payment
           b == payments[p].booking
           amount == payments[p].jumlah
           regular == Cardinality(verifying[v].pax)
           money == Amount(verifying[v].paid \ {p}) + amount
<1>1. Undecided(v)
  BY DEF ConfirmPayment
<1>2. /\ p \in Payments /\ b \in Bookings
      /\ amount \in Nat /\ amount > 0
      /\ verifying[v].paid \ {p} = verifying[v].paid
      /\ Amount(verifying[v].paid) \in Nat /\ regular \in Nat
  BY <1>1, VerdictFacts
<1>3. /\ bookings[b].status \in Open /\ money <= Total(bookings[b])
      /\ payments' = [payments EXCEPT ![p].status = "confirmed"]
      /\ SyncBooking(b, money, regular)
      /\ Done(v) /\ UNCHANGED <<finalizing, candidates>>
  BY DEF ConfirmPayment, PaymentUnchanged
<1>4. payments[p].status = "pending" /\ p # NULL
  BY <1>1 DEF Undecided
<1>5. FreshStep => money = Paid(b) + amount /\ regular = Cardinality(RegularPax(bookings[b]))
  BY <1>2, <1>3, <1>4, EndedWasFresh DEF Paid
<1>6. money \in Nat /\ money > 0
  <2>1. Amount(verifying[v].paid \ {p}) \in Nat
    BY <1>2
  <2> HIDE DEF amount
  <2> QED
    BY <1>2, <2>1
<1>7. Settles(b, p, money, regular)
  <2> HIDE DEF b, money, regular, p
  <2> QED
    BY <1>3, <1>4, <1>5, <1>6 DEF Settles, Receives, b
<1> HIDE DEF p, b, money, regular
<1> QED
  BY <1>2, <1>6, <1>7

LEMMA RejectPaymentIs ==
  ASSUME IInv, MoneyInv, NEW v \in Verifiers, RejectPayment(v)
  PROVE  \E b \in Bookings, p \in Payments, money \in Nat, regular \in Nat :
           Settles(b, p, money, regular)
<1> DEFINE p == verifying[v].payment
           b == payments[p].booking
           regular == Cardinality(verifying[v].pax)
           money == Amount(verifying[v].paid \ {p})
<1>1. Undecided(v)
  BY DEF RejectPayment
<1>2. /\ p \in Payments /\ b \in Bookings /\ bookings[b].status \in Settled
      /\ verifying[v].paid \ {p} = verifying[v].paid
      /\ verifying[v].paid \subseteq ConfirmedOf(b)
      /\ Amount(verifying[v].paid) \in Nat /\ regular \in Nat
  BY <1>1, VerdictFacts
<1>3. /\ payments' = [payments EXCEPT ![p].status = "rejected"]
      /\ SyncBooking(b, money, regular)
      /\ Done(v) /\ UNCHANGED <<finalizing, candidates>>
  BY DEF RejectPayment, PaymentUnchanged
<1>4. payments[p].status = "pending" /\ p # NULL
  BY <1>1 DEF Undecided
<1>5. FreshStep => money = Paid(b) /\ regular = Cardinality(RegularPax(bookings[b]))
  BY <1>2, <1>3, <1>4, EndedWasFresh DEF Paid
<1>6. money \in Nat
  BY <1>2
<1>7. money > 0 => ConfirmedOf(b) # {}
  <2>1. Amount({}) = 0
    BY SumOfNothing DEF Amount
  <2> QED
    BY <1>2, <2>1
<1>8. Settles(b, p, money, regular)
  <2> HIDE DEF b, money, regular, p
  <2> QED
    BY <1>2, <1>3, <1>4, <1>5, <1>7 DEF Settles, Refuses, b
<1> HIDE DEF p, b, money, regular
<1> QED
  BY <1>2, <1>6, <1>8

LEMMA PaymentStepIs ==
  ASSUME IInv, MoneyInv, PaymentNext
  PROVE  \/ Quiet /\ \A b \in Bookings : MoneyStays(b)
         \/ \E b \in Bookings, p \in Payments, money \in Nat, regular \in Nat :
              Settles(b, p, money, regular)
<1>1. payments \in [Payments -> PaymentRow]
  BY DEF IInv, PayInv
<1>2. ASSUME NEW b \in Bookings, NEW p \in Payments, NEW amount,
             RequestPayment(b, p, amount) \/ CreatePortalPayment(b, p, amount)
      PROVE  Quiet /\ \A c \in Bookings : MoneyStays(c)
  <2>1. /\ payments[p] = NoPayment /\ UNCHANGED <<schedules, bookings, finalizing>>
        /\ \E status \in {"absent", "pending"} :
             payments' = [payments EXCEPT ![p] = Recorded(b, amount, status)]
    BY <1>2 DEF RequestPayment, CreatePortalPayment, PaymentUnchanged
  <2> QED
    BY <1>1, <2>1, ReportedMoneyStays DEF Quiet
<1>3. ASSUME NEW p \in Payments, RequestFails(p)
      PROVE  Quiet /\ \A c \in Bookings : MoneyStays(c)
  <2>1. payments[p].status # "confirmed" /\ NoPayment.status # "confirmed"
    BY <1>3 DEF RequestFails, Requested, NoPayment
  <2>2. \A c \in Bookings : MoneyStays(c)
    BY <1>1, <1>3, <2>1, MoneyUnconfirmed DEF RequestFails
  <2> QED
    BY <1>3, <2>2 DEF RequestFails, PaymentUnchanged, Quiet
<1>4. ASSUME NEW p \in Payments, DeletePayment(p)
      PROVE  Quiet /\ \A c \in Bookings : MoneyStays(c)
  <2> DEFINE row == [payments[p] EXCEPT !.status = "deleted"]
  <2>1. payments' = [payments EXCEPT ![p] = row] /\ row.status = "deleted"
    BY <1>1, <1>4 DEF DeletePayment, PaymentRow
  <2>2. payments[p].status = "pending"
    BY <1>4 DEF DeletePayment
  <2> HIDE DEF row
  <2>3. \A c \in Bookings : MoneyStays(c)
    BY <1>1, <2>1, <2>2, MoneyUnconfirmed
  <2> QED
    BY <1>4, <2>3 DEF DeletePayment, PaymentUnchanged, Quiet
<1>5. ASSUME NEW v \in Verifiers, VerifyFails(v) \/ \E p \in Payments : VerifyBegin(v, p)
      PROVE  Quiet /\ \A c \in Bookings : MoneyStays(c)
  BY <1>5, MoneyUntouched DEF VerifyFails, VerifyBegin, PaymentUnchanged, Quiet
<1> QED
  BY <1>2, <1>3, <1>4, <1>5, CreatePaymentIs, ConfirmPaymentIs, RejectPaymentIs DEF PaymentNext

(* Every step of the system is of one of the kinds above.                    *)
LEMMA StepIs ==
  ASSUME IInv, MoneyInv, [Next]_vars
  PROVE  \/ /\ \A b \in Bookings : MoneyStays(b)
            /\ Quiet \/ \E b \in Bookings, row \in BookingRow : Rewrites(b, row)
         \/ \E b \in Bookings, p \in Payments, money \in Nat, regular \in Nat :
              Settles(b, p, money, regular)
<1>1. CASE DeskNext
  BY <1>1, DeskStepIs, MoneyUntouched
<1>2. CASE ScheduleNext
  <2>1. Quiet /\ UNCHANGED payments
    BY <1>2 DEF ScheduleNext, UpdateSeat, ArchiveCheck, ArchiveDeparted, ArchiveAbandoned,
                UpdateScheduleStatus, UpdateSchedule, DepartureNears, ScheduleUnchanged, Quiet
  <2> QED
    BY <2>1, MoneyUntouched
<1>3. CASE UNCHANGED vars
  BY <1>3, MoneyUntouched DEF vars, Quiet
<1> QED
  BY <1>1, <1>2, <1>3, PaymentStepIs, IntakeStepIs DEF Next

-----------------------------------------------------------------------------
(* Payments and verifications *)

(* Only a payment that is undecided changes, and a pending one only its      *)
(* status.                                                                   *)
LEMMA PaymentMoves ==
  ASSUME IInv, MoneyInv, [Next]_vars
  PROVE  \/ UNCHANGED payments
         \/ \E p \in Payments, row \in PaymentRow :
              /\ payments' = [payments EXCEPT ![p] = row]
              /\ payments[p].status \in {"absent", "pending"}
              /\ row.booking \in Bookings => row.jumlah > 0
              /\ payments[p].status = "pending" => row.booking = payments[p].booking
<1> DEFINE Goal == \E p \in Payments, row \in PaymentRow :
             /\ payments' = [payments EXCEPT ![p] = row]
             /\ payments[p].status \in {"absent", "pending"}
             /\ row.booking \in Bookings => row.jumlah > 0
             /\ payments[p].status = "pending" => row.booking = payments[p].booking
<1> SUFFICES UNCHANGED payments \/ Goal
  OBVIOUS
<1>1. payments \in [Payments -> PaymentRow]
  BY DEF IInv, PayInv
<1>2. ASSUME NEW p \in Payments, payments[p] = NoPayment, NEW b \in Bookings, NEW amount \in Amounts,
             NEW status \in {"absent", "pending"},
             payments' = [payments EXCEPT ![p] = Recorded(b, amount, status)]
      PROVE  Goal
  <2>1. amount \in Nat /\ amount > 0
    BY DataAssumption
  <2>2. Recorded(b, amount, status) \in PaymentRow /\ Recorded(b, amount, status).jumlah = amount
    BY <2>1 DEF Recorded, PaymentRow
  <2>3. payments[p].status = "absent"
    BY <1>2 DEF NoPayment
  <2> QED
    BY <1>2, <2>1, <2>2, <2>3
<1>3. ASSUME NEW p \in Payments, payments[p].status \in {"absent", "pending"},
             payments[p].booking \in Bookings,
             NEW status \in {"confirmed", "rejected", "deleted"},
             payments' = [payments EXCEPT ![p].status = status]
      PROVE  Goal
  <2> DEFINE row == [payments[p] EXCEPT !.status = status]
  <2>1. payments' = [payments EXCEPT ![p] = row]
    BY <1>1, <1>3
  <2>2. /\ row \in PaymentRow /\ row.booking = payments[p].booking
        /\ row.jumlah = payments[p].jumlah
    BY <1>1 DEF PaymentRow
  <2>3. row.jumlah > 0
    BY <1>3, <2>2 DEF MoneyInv
  <2> HIDE DEF row
  <2> QED
    BY <1>3, <2>1, <2>2, <2>3
<1>4. ASSUME NEW p \in Payments, RequestFails(p)
      PROVE  Goal
  <2>1. NoPayment \in PaymentRow /\ NoPayment.booking \notin Bookings
    BY NullAssumption DEF NoPayment, PaymentRow
  <2> QED
    BY <1>4, <2>1 DEF RequestFails, Requested
<1>5. ASSUME NEW p \in Payments, CreatePayment(p)
      PROVE  Goal
  <2>1. payments[p].status = "absent" /\ payments[p].booking \in Bookings
    BY <1>1, <1>5 DEF CreatePayment, Requested, PaymentRow
  <2>2. payments' = [payments EXCEPT ![p].status = "confirmed"]
    BY <1>5 DEF CreatePayment
  <2> QED
    BY <1>3, <2>1, <2>2
<1>6. ASSUME NEW v \in Verifiers, ConfirmPayment(v) \/ RejectPayment(v)
      PROVE  Goal
  <2> DEFINE p == verifying[v].payment
  <2>1. Undecided(v)
    BY <1>6 DEF ConfirmPayment, RejectPayment
  <2>2. p \in Payments /\ payments[p].booking \in Bookings
    BY <2>1, VerdictFacts
  <2>3. payments[p].status = "pending"
    BY <2>1 DEF Undecided
  <2>4. \E status \in {"confirmed", "rejected", "deleted"} :
          payments' = [payments EXCEPT ![p].status = status]
    BY <1>6 DEF ConfirmPayment, RejectPayment
  <2> HIDE DEF p
  <2> QED
    BY <1>3, <2>2, <2>3, <2>4
<1>7. ASSUME NEW p \in Payments, DeletePayment(p)
      PROVE  Goal
  <2>1. payments[p].status = "pending" /\ payments' = [payments EXCEPT ![p].status = "deleted"]
    BY <1>7 DEF DeletePayment
  <2>2. payments[p].booking \in Bookings
    BY <2>1 DEF IInv, PayInv
  <2> QED
    BY <1>3, <2>1, <2>2
<1>8. ASSUME NEW b \in Bookings, NEW p \in Payments, NEW amount \in Amounts,
             RequestPayment(b, p, amount) \/ CreatePortalPayment(b, p, amount)
      PROVE  Goal
  BY <1>2, <1>8 DEF RequestPayment, CreatePortalPayment
<1>9. ASSUME NEW b \in Bookings, NEW s, NEW j, NEW price, NEW p \in Payments,
             NEW amount \in Amounts, NEW commitment, ProcessDeal(b, s, j, price, commitment, p, amount)
      PROVE  UNCHANGED payments \/ Goal
  BY <1>2, <1>9 DEF ProcessDeal, Recorded
<1>10. CASE PaymentNext
  <2>1. ASSUME NEW v \in Verifiers, VerifyFails(v) \/ \E p \in Payments : VerifyBegin(v, p)
        PROVE  UNCHANGED payments
    BY <2>1 DEF VerifyFails, VerifyBegin
  <2> HIDE DEF Goal
  <2> QED
    BY <1>4, <1>5, <1>6, <1>7, <1>8, <1>10, <2>1 DEF PaymentNext
<1>11. CASE IntakeNext
  <2>1. ASSUME NEW b \in Bookings, NEW s, NEW j, NEW price,
               ProcessDeal(b, s, j, price, "book_seat", NULL, 0)
        PROVE  UNCHANGED payments
    BY <2>1 DEF ProcessDeal
  <2>2. ASSUME NEW b \in Bookings, NEW s, NEW pic, NEW P, NEW harga, NEW full,
               SelfBooking(b, s, pic, P, harga, full)
        PROVE  UNCHANGED payments
    BY <2>2 DEF SelfBooking
  <2>3. ASSUME NEW b \in Bookings,
               \/ CustomerCancel(b) \/ HoldLapses(b) \/ ReleaseSeatHold(b) \/ ReleaseFails(b)
        PROVE  UNCHANGED payments
    BY <2>3 DEF CustomerCancel, Cancel, DeskUnchanged, HoldLapses, ReleaseSeatHold, ReleaseFails
  <2>4. CASE FindLapsedHolds
    BY <2>4 DEF FindLapsedHolds
  <2> HIDE DEF Goal
  <2> QED
    BY <1>9, <1>11, <2>1, <2>2, <2>3, <2>4 DEF IntakeNext
<1>12. CASE DeskNext
  BY <1>12, DeskStepIs
<1>13. CASE ScheduleNext
  BY <1>13 DEF ScheduleNext, UpdateSeat, ArchiveCheck, ArchiveDeparted, ArchiveAbandoned,
               UpdateScheduleStatus, UpdateSchedule, DepartureNears, ScheduleUnchanged
<1>14. CASE UNCHANGED vars
  BY <1>14 DEF vars
<1> QED
  BY <1>10, <1>11, <1>12, <1>13, <1>14 DEF Next

(* The admin desk writes neither payments nor verifications.                 *)
LEMMA DeskLeavesPayments ==
  ASSUME DeskNext
  PROVE  UNCHANGED <<payments, verifying, candidates>>
<1>1. ASSUME NEW b, NEW s, NEW pic, NEW P, NEW harga,
             \/ CreateBooking(b, s, pic, P, harga)
             \/ CreateDraftBooking(b, s, pic, P, harga) \/ UpdateDraftBooking(b, s, pic, P, harga)
      PROVE  DeskUnchanged
  BY <1>1 DEF CreateBooking, CreateDraftBooking, UpdateDraftBooking
<1>2. ASSUME NEW b, \/ DeleteDraft(b) \/ CancelBooking(b) \/ CancelSeatBlock(b)
                    \/ FinalizeCheck(b) \/ FinalizeLock(b) \/ FinalizeCommit(b) \/ FinalizeFails(b)
      PROVE  DeskUnchanged
  BY <1>2 DEF DeleteDraft, CancelBooking, Cancel, CancelSeatBlock, FinalizeCheck, FinalizeLock,
              FinalizeCommit, FinalizeFails
<1>3. ASSUME NEW b, NEW j, NEW pic, NEW price,
             CancelPax(b, j, pic) \/ UpdatePaxRoomType(b, j, price) \/ AddDiscount(b) \/ DeleteDiscount(b)
      PROVE  DeskUnchanged
  BY <1>3 DEF CancelPax, UpdatePaxRoomType, AddDiscount, DeleteDiscount
<1>4. ASSUME NEW b, NEW hold, NEW jumlah, BlockSeat(b, hold) \/ CreateRefund(b, jumlah)
      PROVE  DeskUnchanged
  BY <1>4 DEF BlockSeat, CreateRefund
<1>5. DeskUnchanged
  BY <1>1, <1>2, <1>3, <1>4 DEF DeskNext
<1> QED
  BY <1>5 DEF DeskUnchanged

(* A verification begins with what is committed, goes on unchanged, or ends. *)
LEMMA VerifyingMoves ==
  ASSUME IInv, [Next]_vars, NEW v \in Verifiers
  PROVE  \/ verifying'[v] = verifying[v]
         \/ verifying'[v].payment \notin Payments
         \/ /\ UNCHANGED payments /\ verifying'[v].payment \in Payments
            /\ verifying'[v].paid = ConfirmedOf(payments[verifying'[v].payment].booking)
<1>1. verifying \in [Verifiers -> Snapshot]
  BY DEF IInv, WorkInv
<1>2. ASSUME NEW u \in Verifiers, NEW p \in Payments, VerifyBegin(u, p)
      PROVE  \/ verifying'[v] = verifying[v]
             \/ /\ UNCHANGED payments /\ verifying'[v].payment \in Payments
                /\ verifying'[v].paid = ConfirmedOf(payments[verifying'[v].payment].booking)
  BY <1>1, <1>2 DEF VerifyBegin
<1>3. ASSUME NEW u \in Verifiers, Done(u)
      PROVE  verifying'[v] = verifying[v] \/ verifying'[v].payment \notin Payments
  BY <1>1, <1>3, NullAssumption DEF Done, NoSnapshot
<1>4. CASE PaymentNext
  <2>1. ASSUME NEW b, NEW p, NEW amount, RequestPayment(b, p, amount) \/ CreatePortalPayment(b, p, amount)
        PROVE  UNCHANGED verifying
    BY <2>1 DEF RequestPayment, CreatePortalPayment
  <2>2. ASSUME NEW p, CreatePayment(p) \/ RequestFails(p) \/ DeletePayment(p)
        PROVE  UNCHANGED verifying
    BY <2>2 DEF CreatePayment, RequestFails, DeletePayment
  <2>3. ASSUME NEW u, ConfirmPayment(u) \/ RejectPayment(u) \/ VerifyFails(u)
        PROVE  Done(u)
    BY <2>3 DEF ConfirmPayment, RejectPayment, VerifyFails
  <2> QED
    BY <1>2, <1>3, <1>4, <2>1, <2>2, <2>3 DEF PaymentNext
<1>5. CASE IntakeNext
  <2>1. ASSUME NEW b, NEW s, NEW j, NEW price, NEW commitment, NEW p, NEW amount,
               ProcessDeal(b, s, j, price, commitment, p, amount)
        PROVE  UNCHANGED verifying
    BY <2>1 DEF ProcessDeal, IntakeUnchanged
  <2>2. ASSUME NEW b, NEW s, NEW pic, NEW P, NEW harga, NEW full,
               SelfBooking(b, s, pic, P, harga, full)
        PROVE  UNCHANGED verifying
    BY <2>2 DEF SelfBooking, IntakeUnchanged
  <2>3. ASSUME NEW b, CustomerCancel(b) \/ HoldLapses(b) \/ ReleaseSeatHold(b) \/ ReleaseFails(b)
        PROVE  UNCHANGED verifying
    BY <2>3 DEF CustomerCancel, Cancel, DeskUnchanged, HoldLapses, IntakeUnchanged,
                ReleaseSeatHold, ReleaseFails
  <2>4. ASSUME FindLapsedHolds
        PROVE  UNCHANGED verifying
    BY <2>4 DEF FindLapsedHolds
  <2>5. UNCHANGED verifying
    BY <1>5, <2>1, <2>2, <2>3, <2>4 DEF IntakeNext
  <2> QED
    BY <2>5
<1>6. CASE DeskNext
  BY <1>6, DeskLeavesPayments
<1>7. CASE ScheduleNext
  BY <1>7 DEF ScheduleNext, UpdateSeat, ArchiveCheck, ArchiveDeparted, ArchiveAbandoned,
     UpdateScheduleStatus, UpdateSchedule, DepartureNears, ScheduleUnchanged
<1>8. CASE UNCHANGED vars
  BY <1>8 DEF vars
<1> QED
  BY <1>4, <1>5, <1>6, <1>7, <1>8 DEF Next

(* What is confirmed stays confirmed, for the booking it was confirmed for.  *)
LEMMA ConfirmedGrows ==
  ASSUME IInv, MoneyInv, [Next]_vars, NEW b
  PROVE  /\ ConfirmedOf(b) \subseteq ConfirmedOf(b)'
         /\ \A p \in Payments : payments[p].status # "absent" =>
              payments'[p].booking = payments[p].booking
<1>1. CASE UNCHANGED payments
  BY <1>1 DEF ConfirmedOf
<1>2. ASSUME NEW p \in Payments, NEW row \in PaymentRow,
             payments' = [payments EXCEPT ![p] = row],
             payments[p].status \in {"absent", "pending"},
             payments[p].status = "pending" => row.booking = payments[p].booking
      PROVE  /\ ConfirmedOf(b) \subseteq ConfirmedOf(b)'
             /\ \A q \in Payments : payments[q].status # "absent" =>
                  payments'[q].booking = payments[q].booking
  <2>1. \A q \in Payments \ {p} : payments'[q] = payments[q]
    BY <1>2
  <2>2. payments'[p] = row
    BY <1>2 DEF IInv, PayInv
  <2>3. p \notin ConfirmedOf(b)
    BY <1>2 DEF ConfirmedOf
  <2> QED
    BY <1>2, <2>1, <2>2, <2>3 DEF ConfirmedOf
<1> QED
  BY <1>1, <1>2, PaymentMoves

LEMMA MoneyKeeps ==
  ASSUME IInv, MoneyInv, [Next]_vars
  PROVE  MoneyInv'
<1>1. payments \in [Payments -> PaymentRow]
  BY DEF IInv, PayInv
<1>2. \A p \in Payments : payments'[p].booking \in Bookings => payments'[p].jumlah > 0
  BY <1>1, PaymentMoves DEF MoneyInv
<1>3. ASSUME NEW v \in Verifiers, verifying'[v].payment \in Payments
      PROVE  verifying'[v].paid \subseteq
               {q \in Payments : /\ payments'[q].booking = payments'[verifying'[v].payment].booking
                                 /\ payments'[q].status = "confirmed"}
  <2>1. CASE verifying'[v] = verifying[v]
    <3> DEFINE p == verifying[v].payment
               b == payments[p].booking
    <3>1. p \in Payments /\ payments[p].status # "absent"
      BY <1>3, <2>1 DEF IInv, WorkInv
    <3>2. ConfirmedOf(b) \subseteq {q \in Payments : payments'[q].booking = b /\ payments'[q].status = "confirmed"}
      BY ConfirmedGrows DEF ConfirmedOf
    <3>3. payments'[p].booking = b
      BY <1>3, <3>1, ConfirmedGrows
    <3>4. verifying[v].paid \subseteq ConfirmedOf(b)
      BY <1>3, <3>1 DEF MoneyInv
    <3> QED
      BY <2>1, <3>2, <3>3, <3>4
  <2>2. CASE /\ UNCHANGED payments
             /\ verifying'[v].paid = ConfirmedOf(payments[verifying'[v].payment].booking)
    BY <2>2 DEF ConfirmedOf
  <2> QED
    BY <1>3, <2>1, <2>2, VerifyingMoves
<1>4. \A v \in Verifiers : verifying'[v].payment \in Payments =>
        verifying'[v].paid \subseteq ConfirmedOf(payments[verifying[v].payment].booking)'
  BY <1>3 DEF ConfirmedOf
<1> QED
  BY <1>2, <1>4 DEF MoneyInv

=============================================================================
