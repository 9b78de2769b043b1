---------------------------- MODULE BookingStore ----------------------------
(***************************************************************************)
(* The rows of the MySQL database that the booking, payment, CRM, portal   *)
(* and schedule packages share, and the steps every one of their           *)
(* transactions is built from: counting pax, pricing a booking, deriving   *)
(* its status from the money received, taking and giving back seats.       *)
(*                                                                         *)
(* A row of `bookings` carries its booking_pax and booking_discounts rows. *)
(* total_harga and the sum of confirmed payments are derived, as the code  *)
(* recomputes both inside each transaction that uses them.                 *)
(***************************************************************************)
EXTENDS Integers, FiniteSets, Functions

CONSTANTS
  Schedules,          \* ids of departures (table schedules)
  Bookings,           \* ids the table bookings may still hand out; never reused
  Jamaah,             \* pilgrims
  Infant,             \* the pilgrims younger than two at departure
  Drafts,             \* bound: the bookings that may start as a draft
  Payments,           \* ids the table payments may still hand out; never reused
  MaxDiscounts,       \* bound: discounts one booking may carry
  Verifiers,          \* concurrent requests that decide a pending payment
  NULL,               \* SQL's NULL
  SeatTotals,         \* capacities an admin may give a schedule
  RoomPrices,         \* what a Quad, Triple or Double bed may cost
  InfantPrice,        \* what an infant pays
  DpPerPax,           \* the down payment per regular pax, a snapshot on the booking
  Amounts,            \* amounts of the payments that are recorded
  DiscountNominal,    \* what one discount takes off
  FullPayment,        \* values booking_checkout.full_payment takes
  ScheduleStatuses,   \* statuses an admin gives a schedule in this instance
  Departures          \* how far off the departure may be in this instance

ASSUME NullAssumption == NULL \notin Schedules \cup Bookings \cup Jamaah \cup Payments

ASSUME DataAssumption ==
  /\ IsFiniteSet(Bookings)
  /\ IsFiniteSet(Jamaah)
  /\ IsFiniteSet(Payments)
  /\ Infant \subseteq Jamaah
  /\ Drafts \subseteq Bookings
  /\ DpPerPax \in Nat /\ DiscountNominal \in Nat
  /\ SeatTotals \subseteq Nat \ {0}
  /\ RoomPrices \subseteq Nat \ {0}
  /\ InfantPrice \in Nat
  /\ MaxDiscounts \in Nat
  /\ Amounts \subseteq Nat \ {0}
  /\ FullPayment \subseteq BOOLEAN
  /\ ScheduleStatuses \subseteq {"draft", "published", "archived"}
  /\ Departures \subseteq {"far", "near", "past"}

VARIABLES
  schedules,    \* schedules[s]: capacity, seats left, status, distance of the departure
  bookings,     \* bookings[b]: header, pax and discounts of a booking
  payments,     \* payments[p]: booking, amount and status of a payment
  verifying,    \* verifying[v]: snapshot of an open payment.UpdateStatus transaction
  finalizing,   \* finalizing[b]: progress and snapshot of a FinalizeBooking request
  candidates    \* bookings the hold worker picked and has not handled yet

vars == <<schedules, bookings, payments, verifying, finalizing, candidates>>

-----------------------------------------------------------------------------
(* Rows *)

Open    == {"baru", "dp", "lunas"}       \* a binding booking
Secured == {"dp", "lunas"}               \* lockedStatuses: seats held without deadline

ScheduleRow ==
  [seat_total : Nat, seat_sisa : Nat, status : {"draft", "published", "archived"},
   departs : {"far", "near", "past"}, archiving : BOOLEAN]

BookingRow ==
  [status : {"absent", "deleted", "draft", "batal"} \cup Open,
   schedule : Schedules \cup {NULL},
   channel : {"office", "portal"},
   pic : Jamaah \cup {NULL},
   pax : [Jamaah -> {"none", "aktif", "batal"}],
   harga : [Jamaah -> Nat],              \* harga_pax; 0 also stands for "no room yet"
   discounts : 0 .. MaxDiscounts,        \* rows of booking_discounts, all of DiscountNominal
   is_seat_blocked : BOOLEAN,
   refunded : Nat,                       \* sum of booking_refunds
   seat_count : Nat,
   hold : {"none", "running", "lapsed"}, \* seat_hold_expires_at: NULL, future, past
   full_payment : BOOLEAN]

PaymentRow ==
  [booking : Bookings \cup {NULL}, jumlah : Nat,
   status : {"absent", "deleted", "pending", "confirmed", "rejected"}]

Snapshot == [payment : Payments \cup {NULL}, paid : SUBSET Payments, pax : SUBSET Jamaah]

Progress == [stage : {"idle", "checked", "locked"}, registered : SUBSET Jamaah]

NoRow ==
  [status |-> "absent", schedule |-> NULL, channel |-> "office", pic |-> NULL,
   pax |-> [j \in Jamaah |-> "none"], harga |-> [j \in Jamaah |-> 0], discounts |-> 0,
   refunded |-> 0, is_seat_blocked |-> FALSE, seat_count |-> 0, hold |-> "none", full_payment |-> FALSE]

NoPayment == [booking |-> NULL, jumlah |-> 0, status |-> "absent"]

NoSnapshot == [payment |-> NULL, paid |-> {}, pax |-> {}]

Idle == [stage |-> "idle", registered |-> {}]

(* A schedule is created with every seat free (schedule.Create). *)
Init ==
  /\ schedules \in [Schedules -> {row \in
       [seat_total : SeatTotals, seat_sisa : SeatTotals, status : ScheduleStatuses,
        departs : Departures, archiving : {FALSE}] : row.seat_sisa = row.seat_total}]
  /\ bookings   = [b \in Bookings |-> NoRow]
  /\ payments   = [p \in Payments |-> NoPayment]
  /\ verifying  = [v \in Verifiers |-> NoSnapshot]
  /\ finalizing = [b \in Bookings |-> Idle]
  /\ candidates = {}

-----------------------------------------------------------------------------
(* Pax *)

Pax(row)        == {j \in Jamaah : row.pax[j] = "aktif"}
RegularPax(row) == Pax(row) \ Infant                      \* counts_for_seat
Exists(row)     == row.status \notin {"absent", "deleted"}

(* The price lists a request may lead to: a bed price per regular pax. *)
PriceLists(P, prices) ==
  {[j \in Jamaah |-> IF j \notin P THEN 0 ELSE IF j \in Infant THEN InfantPrice ELSE bed[j]] :
     bed \in [P \ Infant -> prices]}

(* A row as the three intake paths insert it, everybody on it active. *)
NewRow(status, s, channel, pic, P, harga) ==
  [NoRow EXCEPT !.status = status, !.schedule = s, !.channel = channel, !.pic = pic,
                !.pax = [j \in Jamaah |-> IF j \in P THEN "aktif" ELSE "none"],
                !.harga = harga]

(* Pilgrims on a binding booking of schedule s other than b. *)
Registered(s, b) ==
  {j \in Jamaah : \E c \in Bookings \ {b} :
     bookings[c].status \in Open /\ bookings[c].schedule = s /\ j \in Pax(bookings[c])}

ScheduleClosed(s) == schedules[s].status = "archived" \/ schedules[s].departs = "past"

-----------------------------------------------------------------------------
(* Money *)

Total(row) ==
  LET net == SumFunctionOnSet(row.harga, Jamaah) - DiscountNominal * row.discounts
  IN  IF net < 0 THEN 0 ELSE net

ConfirmedOf(b) == {p \in Payments : payments[p].booking = b /\ payments[p].status = "confirmed"}

Amount(P) == SumFunctionOnSet([p \in P |-> payments[p].jumlah], P)

Paid(b) == Amount(ConfirmedOf(b))

RequiredBookingDP(row, regular) ==
  LET dp == DpPerPax * regular
  IN  IF row.full_payment \/ dp > Total(row) THEN Total(row) ELSE dp

TargetStatus(row, paid, regular) ==
  IF Total(row) > 0 /\ paid >= Total(row) THEN "lunas"
  ELSE IF paid > 0 /\ paid >= RequiredBookingDP(row, regular) THEN "dp"
  ELSE "baru"

(* SyncBookingStatusTx leaves batal and draft alone, and acts on a change only. *)
Moves(row, paid, regular) ==
  row.status \in Open /\ TargetStatus(row, paid, regular) # row.status

SyncSeatsAgain(row, paid, regular) ==
  IF Moves(row, paid, regular) /\ TargetStatus(row, paid, regular) \in Secured
  THEN row.seat_count ELSE 0

SyncSeats(row, paid, regular) ==
  IF /\ Moves(row, paid, regular)
     /\ TargetStatus(row, paid, regular) \in Secured
     /\ ~row.is_seat_blocked
  THEN IF regular > row.seat_count THEN regular ELSE row.seat_count
  ELSE 0

(* Faults: the seats are taken again although they are held; the deadline    *)
(* survives the payment; seats come only with the rise from "baru"; a booking *)
(* that was paid for gets the deadline of an unpaid one.                     *)
SyncedKeepingDeadline(row, paid, regular) ==
  LET target == TargetStatus(row, paid, regular)
  IN  IF ~Moves(row, paid, regular) THEN row
      ELSE [row EXCEPT !.status = target,
                       !.is_seat_blocked = row.is_seat_blocked \/ target \in Secured]

SyncedFromBaruOnly(row, paid, regular) ==
  LET target == TargetStatus(row, paid, regular)
  IN  IF ~Moves(row, paid, regular) THEN row
      ELSE [row EXCEPT
              !.status = target,
              !.is_seat_blocked = row.is_seat_blocked
                                  \/ (row.status = "baru" /\ target \in Secured),
              !.hold = "none"]

SyncedAsUnpaid(row, paid, regular) ==
  LET target == TargetStatus(row, paid, regular)
  IN  IF ~Moves(row, paid, regular) THEN row
      ELSE [row EXCEPT
              !.status = target,
              !.is_seat_blocked = row.is_seat_blocked \/ target \in Secured,
              !.hold = IF target \in Secured \/ ~row.is_seat_blocked THEN "none" ELSE "running"]

Synced(row, paid, regular) ==
  LET target == TargetStatus(row, paid, regular)
  IN  IF ~Moves(row, paid, regular) THEN row
      ELSE [row EXCEPT
              !.status = target,
              !.is_seat_blocked = row.is_seat_blocked \/ target \in Secured,
              !.hold = IF target \in Secured \/ paid > 0 \/ ~row.is_seat_blocked
                       THEN "none" ELSE "running"]

-----------------------------------------------------------------------------
(* Seats *)

(* The seats booking row `row` of id b occupies on schedule s. *)
SeatsOf(b, row, s) ==
  IF row.is_seat_blocked /\ row.status # "batal" /\ row.schedule = s
  THEN {b} \X (1 .. row.seat_count) ELSE {}

Claims(s) == UNION {SeatsOf(b, bookings[b], s) : b \in Bookings}

Allocated(s) == Cardinality(Claims(s))

(* RestoreSeats: seats come back, but never above the capacity. *)
SeatsAfterRestore(s, n) ==
  IF schedules[s].seat_sisa + n > schedules[s].seat_total
  THEN schedules[s].seat_total ELSE schedules[s].seat_sisa + n

(* Fault: the seats left are not looked at.                                  *)
SaveOverdrawn(b, row, released, taken) ==
  /\ bookings' = [bookings EXCEPT ![b] = row]
  /\ schedules' = [schedules EXCEPT
       ![row.schedule].seat_sisa = SeatsAfterRestore(row.schedule, released) - taken]

(* One transaction on booking b: its row becomes `row`, `released` seats go *)
(* back to its schedule and `taken` are then taken, or all of it rolls back. *)
Save(b, row, released, taken) ==
  LET left == SeatsAfterRestore(row.schedule, released)
  IN  /\ taken <= left
      /\ bookings' = [bookings EXCEPT ![b] = row]
      /\ schedules' = [schedules EXCEPT ![row.schedule].seat_sisa = left - taken]

(* Faults: the status is not brought in line; the new total is not compared. *)
RecalculateOnly(b, row, released) == Save(b, row, released, 0)

TotalUnchecked(b, row) == TRUE

(* recalculateTotalTx: reprice, then bring the status in line with the money *)
(* confirmed so far.                                                         *)
Recalculate(b, row, released) ==
  LET regular == Cardinality(RegularPax(row))
  IN  Save(b, Synced(row, Paid(b), regular), released, SyncSeats(row, Paid(b), regular))

(* ensureTotalCoversPaidTx *)
TotalCoversPaid(b, row) == Total(row) >= Paid(b)

(* The row lock of a FinalizeBooking transaction makes every other wait.     *)
Unlocked(b) == finalizing[b].stage # "locked"
=============================================================================
