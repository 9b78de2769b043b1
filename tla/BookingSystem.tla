--------------------------- MODULE BookingSystem ----------------------------
(***************************************************************************)
(* The admin desk, the payment desk, the intake paths with their worker,   *)
(* and the schedule desk, run together over one database; and what must    *)
(* hold of the whole.                                                      *)
(***************************************************************************)
EXTENDS BookingIntake, PaymentDesk, ScheduleDesk

Next == DeskNext \/ PaymentNext \/ IntakeNext \/ ScheduleNext

Spec == Init /\ [][Next]_vars

(* cmd/api runs the worker every minute for as long as the process lives and *)
(* retries what failed: it keeps listing, and a release that is possible     *)
(* again and again succeeds in the end. Nothing else is owed progress.       *)
WorkerFairness ==
  /\ WF_vars(FindLapsedHolds)
  /\ \A b \in Bookings : WF_vars(b \in candidates /\ (ReleaseSeatHold(b) \/ ReleaseFails(b)))
  /\ \A b \in Bookings : SF_vars(ReleaseSeatHold(b))

FairSpec == Spec /\ WorkerFairness

-----------------------------------------------------------------------------
(* Invariants *)

TypeOK ==
  /\ schedules \in [Schedules -> ScheduleRow]
  /\ bookings \in [Bookings -> BookingRow]
  /\ \A b \in Bookings : Exists(bookings[b]) => bookings[b].schedule \in Schedules
  /\ payments \in [Payments -> PaymentRow]
  /\ \A p \in Payments : payments[p].status # "absent" => payments[p].booking \in Bookings
  /\ verifying \in [Verifiers -> Snapshot]
  /\ \A v \in Verifiers :
       verifying[v].payment \in Payments => payments[verifying[v].payment].status # "absent"
  /\ finalizing \in [Bookings -> Progress]
  /\ candidates \subseteq Bookings

(* A seat is never sold twice (schedules.seat_sisa, seat_total): the seats   *)
(* left and the seats blocked by bookings together fit the capacity, however *)
(* bookings, cancellations, payments, the hold worker and manual corrections *)
(* interleave.                                                               *)
NoOversell ==
  \A s \in Schedules : schedules[s].seat_sisa + Allocated(s) <= schedules[s].seat_total

(* bookings.seat_count, which re-blocking, the worker and the manual         *)
(* correction rely on, is the number of active regular pax of every binding  *)
(* booking (JB-02), also after cancellations of single pax.                  *)
SeatCountMatchesPax ==
  \A b \in Bookings :
    bookings[b].status \in Open =>
      bookings[b].seat_count = Cardinality(RegularPax(bookings[b]))

(* Only a binding booking blocks seats: neither a draft nor a cancelled one  *)
(* keeps any, whichever way it was cancelled.                                *)
OnlyBindingBookingsHoldSeats ==
  \A b \in Bookings : bookings[b].is_seat_blocked => bookings[b].status \in Open

(* A deadline never hangs over a booking whose status is that of a paid one  *)
(* (dp, lunas), so the worker cannot reach it.                               *)
NoDeadlineOnSecuredSeats ==
  \A b \in Bookings : bookings[b].status \in Secured => bookings[b].hold = "none"

(* Money goes back only for a cancelled booking, and never more than it had  *)
(* confirmed (booking/refund.go:14, 66): whatever verification was under way *)
(* when it was cancelled, and however its refunds are split.                 *)
RefundsFitPayments ==
  \A b \in Bookings : bookings[b].refunded > 0 =>
    bookings[b].status = "batal" /\ bookings[b].refunded <= Paid(b)

-----------------------------------------------------------------------------
(* Action properties *)

(* A verification whose snapshot no longer shows what is committed.          *)
Stale(v) ==
  LET b == payments[verifying[v].payment].booking
  IN  /\ verifying[v].payment # NULL
      /\ \/ verifying[v].paid # ConfirmedOf(b)
         \/ verifying[v].pax # RegularPax(bookings[b])

(* A step in which no such verification ends.                                *)
FreshStep == \A v \in Verifiers : Stale(v) => verifying'[v] = verifying[v]

(* The status its price, its pax and its confirmed payments call for.        *)
InStep(b) ==
  bookings[b].status \in Open =>
    bookings[b].status = TargetStatus(bookings[b], Paid(b), Cardinality(RegularPax(bookings[b])))

(* Whatever is paid, rejected, cancelled, repriced or discounted, the status *)
(* of a booking stays the one its price, its active pax and its confirmed    *)
(* payments call for; nothing but a verification with an outdated snapshot   *)
(* can break that.                                                           *)
StatusFollowsPayments ==
  [][FreshStep => \A b \in Bookings : InStep(b) => InStep(b)']_vars

(* Losing "dp" or "lunas" to a price correction neither takes the seats from *)
(* a booking that was paid for nor puts a deadline on them (JB-03), outdated *)
(* snapshots apart.                                                          *)
DemotionKeepsSeats ==
  [][FreshStep => \A b \in Bookings :
       bookings[b].status \in Secured /\ bookings'[b].status = "baru" =>
         /\ bookings'[b].is_seat_blocked = bookings[b].is_seat_blocked
         /\ bookings'[b].hold = "none"]_vars

(* Whatever is done to bookings, the seats they gain or lose move one for    *)
(* one out of or into seat_sisa: none leak out of sale, none are returned    *)
(* twice or cut off at the capacity; outdated snapshots apart.               *)
SeatsMoveOneForOne ==
  [][FreshStep /\ bookings' # bookings => \A s \in Schedules :
         schedules'[s].seat_sisa + Allocated(s)' = schedules[s].seat_sisa + Allocated(s)]_vars

(* The hold worker never touches a booking whose status is that of a paid    *)
(* one (dp, lunas), even one that rose between being listed and handled.     *)
WorkerSparesSecured ==
  [][candidates' # candidates => \A b \in Bookings :
       bookings[b].status \in Secured => bookings'[b] = bookings[b]]_vars

(* A schedule that is archived or departed gains no binding booking, not     *)
(* even by finalizing a draft that was begun while it was open.              *)
ClosedScheduleAdmitsNone ==
  [][\A b \in Bookings :
       bookings[b].status \notin Open /\ bookings'[b].status \in Open
         => ~ScheduleClosed(bookings'[b].schedule)]_vars

(* Whenever a booking rises (or falls) to "dp" or "lunas" it holds its seats *)
(* afterwards, also when they had been released by hand (SM-01).             *)
SecuringTakesSeats ==
  [][\A b \in Bookings :
       bookings'[b].status \in Secured /\ bookings'[b].status # bookings[b].status
         => bookings'[b].is_seat_blocked]_vars

(* Nothing moves a cancelled booking: not a payment, not a verification or a *)
(* finalization that was under way, not the worker; and no money is          *)
(* confirmed on it any more.                                                 *)
CancellationIsFinal ==
  [][\A b \in Bookings : bookings[b].status = "batal" =>
       /\ bookings'[b].status = "batal" /\ ~bookings'[b].is_seat_blocked
       /\ ConfirmedOf(b)' = ConfirmedOf(b)]_vars

(* A payment is decided once: two admins, or an admin and a deletion, cannot *)
(* both have their way.                                                      *)
DecisionIsFinal ==
  [][\A p \in Payments :
       payments[p].status \in {"confirmed", "rejected", "deleted"}
         => payments'[p] = payments[p]]_vars

(* The contact of a binding booking who travels with it stays a traveller:   *)
(* when that pax is cancelled the role passes to another regular pax, or the *)
(* booking ends.                                                             *)
ContactIsHandedOver ==
  [][\A b \in Bookings :
       bookings[b].status \in Open /\ bookings[b].pic \in RegularPax(bookings[b]) =>
         \/ bookings'[b].status = "batal"
         \/ bookings'[b].pic \in RegularPax(bookings'[b])]_vars

(* Only cancelling a pax may leave a booking with more confirmed money than  *)
(* it costs; a discount, a cheaper room or a payment may not (JB-07),        *)
(* outdated snapshots and payments of a booking that costs nothing apart.    *)
OnlyCancellingPaxOverpays ==
  [][FreshStep => \A b \in Bookings :
       (/\ bookings[b].status # "batal" /\ bookings'[b].status # "batal"
        /\ Paid(b) <= Total(bookings[b]) /\ Total(bookings[b]) > 0
        /\ Pax(bookings'[b]) = Pax(bookings[b]))
         => Paid(b)' <= Total(bookings'[b])]_vars

(* A portal booking never shares a pilgrim with a binding booking it met, nor *)
(* does a draft that is finalized beside it (JB-04): the checkout's locking  *)
(* reads and the finalization's row lock exclude each other.                 *)
PortalSharesNoPilgrim ==
  [][\A b, c \in Bookings :
       (/\ bookings[b].status \notin Open /\ bookings'[b].status \in Open
        /\ bookings[c].status \in Open /\ bookings[c].schedule = bookings'[b].schedule
        /\ \/ bookings'[b].channel = "portal"
           \/ bookings[b].status = "draft" /\ bookings[c].channel = "portal")
         => Pax(bookings'[b]) \cap Pax(bookings[c]) = {}]_vars

(* The seats the ledger lists for every schedule.                            *)
Ledger == INSTANCE SeatLedger WITH
  Seats  <- Bookings \X (1 .. Cardinality(Jamaah)),
  Capacities <- SeatTotals,
  total  <- [s \in Schedules |-> schedules[s].seat_total],
  left   <- [s \in Schedules |-> schedules[s].seat_sisa],
  claims <- [s \in Schedules |-> Claims(s)]

(* Every step of every handler is a take, a return, a correction or a resize *)
(* of the seat ledger, or leaves it alone; in particular RestoreSeats never  *)
(* has to cut a return off at the capacity (SM-04).                          *)
ImplementsLedger == Ledger!Spec

-----------------------------------------------------------------------------
(* Liveness *)

(* A lapsed hold does not keep its seats for ever: the worker releases it,   *)
(* or the booking gets another deadline, is paid or is cancelled.            *)
LapsedHoldsEnd == \A b \in Bookings : Releasable(bookings[b]) ~> ~Releasable(bookings[b])
=============================================================================
