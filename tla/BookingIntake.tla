--------------------------- MODULE BookingIntake ----------------------------
(***************************************************************************)
(* The bookings that do not come from the admin desk, and the deadline     *)
(* they live under: a lead the CRM converts (internal/crmdeal), a checkout *)
(* on the website or an agent's portal (internal/selfbooking), the         *)
(* customer's own cancellation (internal/customer), and the background     *)
(* worker of cmd/api that gives lapsed seat holds back.                    *)
(*                                                                         *)
(* Both intake transactions are SERIALIZABLE: their plain SELECTs lock     *)
(* what they read, so each is one step.                                    *)
(***************************************************************************)
EXTENDS BookingDesk

IntakeUnchanged == UNCHANGED <<verifying, finalizing, candidates>>

-----------------------------------------------------------------------------
(* CRM *)

(* A deal carries one regular pax, who is not checked against the other      *)
(* bookings of the schedule. Its three commitments differ in what they do to *)
(* seats and money: "book_seat" holds the seat until a date; "lunas" wants a *)
(* free seat and the full price, "dp" any amount up to it, and both only     *)
(* record a payment that waits for review.                                   *)
ProcessDeal(b, s, j, price, commitment, p, amount) ==
  LET row == [NewRow("baru", s, "office", j, {j}, [i \in Jamaah |-> IF i = j THEN price ELSE 0])
                EXCEPT !.seat_count = 1]
  IN  /\ bookings[b].status = "absent"
      /\ ~ScheduleClosed(s)
      /\ \/ /\ commitment = "book_seat"
            /\ Save(b, [row EXCEPT !.is_seat_blocked = TRUE, !.hold = "running"], 0, 1)
            /\ UNCHANGED payments
         \/ /\ commitment \in {"lunas", "dp"}
            /\ commitment = "lunas" => amount = price /\ schedules[s].seat_sisa >= 1
            /\ amount <= price
            /\ payments[p] = NoPayment
            /\ Save(b, row, 0, 0)
            /\ payments' = [payments EXCEPT ![p] =
                 [booking |-> b, jumlah |-> amount, status |-> "pending"]]
      /\ IntakeUnchanged

-----------------------------------------------------------------------------
(* Website and agent portal *)

(* Online sale ends 30 days before departure and needs a published schedule. *)
OnSale(s) == schedules[s].status = "published" /\ schedules[s].departs = "far"

(* Fault: plain reads, as under REPEATABLE READ.                             *)
FinalizingUnseen(s, P) == TRUE

(* The duplicate checks are locking reads: a draft that is being finalized   *)
(* with one of these pilgrims has its row locked, and the two transactions,  *)
(* each waiting for the other, cannot both commit.                           *)
NotBeingFinalized(s, P) ==
  \A c \in Bookings : finalizing[c].stage = "locked" /\ bookings[c].schedule = s
                        => Pax(bookings[c]) \cap P = {}

SelfBooking(b, s, pic, P, harga, full) ==
  LET regular == Cardinality(P \ Infant)
  IN  /\ bookings[b].status = "absent"
      /\ OnSale(s)
      /\ pic \in P \ Infant
      /\ P \cap Registered(s, b) = {}
      /\ NotBeingFinalized(s, P)
      /\ Save(b, [NewRow("baru", s, "portal", pic, P, harga)
                    EXCEPT !.is_seat_blocked = TRUE, !.seat_count = regular,
                           !.hold = "running", !.full_payment = full], 0, regular)
      /\ UNCHANGED payments /\ IntakeUnchanged

(* A customer may cancel as long as the hold runs and no payment, whatever   *)
(* its status, has been recorded.                                            *)
CustomerCancel(b) ==
  LET row == bookings[b]
  IN  /\ row.channel = "portal" /\ row.status = "baru"
      /\ row.is_seat_blocked /\ row.hold # "lapsed"
      /\ \A p \in Payments : payments[p].booking = b => payments[p].status \in {"absent", "deleted"}
      /\ Cancel(b)

-----------------------------------------------------------------------------
(* The deadline of a hold *)

(* The clock passes seat_hold_expires_at.                                    *)
HoldLapses(b) ==
  /\ bookings[b].hold = "running"
  /\ bookings' = [bookings EXCEPT ![b].hold = "lapsed"]
  /\ UNCHANGED <<schedules, payments>> /\ IntakeUnchanged

Releasable(row) == row.status = "baru" /\ row.is_seat_blocked /\ row.hold = "lapsed"

(* Faults: the comparison with the clock is the wrong way round; a listed    *)
(* booking is not looked at again.                                           *)
FindRunningHolds ==
  /\ candidates = {}
  /\ candidates' = {b \in Bookings : bookings[b].status = "baru" /\ bookings[b].hold = "running"}
  /\ UNCHANGED <<schedules, bookings, payments, verifying, finalizing>>

ReleaseListedHold(b) ==
  LET row == bookings[b]
  IN  /\ b \in candidates
      /\ candidates' = candidates \ {b}
      /\ Save(b, Unblocked(row), SeatsToRestore(row), 0)
      /\ UNCHANGED <<payments, verifying, finalizing>>

(* Each minute the worker lists the lapsed holds, outside any transaction ... *)
FindLapsedHolds ==
  /\ candidates = {}
  /\ candidates' = {b \in Bookings : Releasable(bookings[b])}
  /\ UNCHANGED <<schedules, bookings, payments, verifying, finalizing>>

(* ... and handles them one by one, each looked at again under its lock.     *)
ReleaseSeatHold(b) ==
  LET row == bookings[b]
  IN  /\ b \in candidates
      /\ candidates' = candidates \ {b}
      /\ IF Releasable(row)
         THEN Save(b, Unblocked(row), row.seat_count, 0)
         ELSE UNCHANGED <<schedules, bookings>>
      /\ UNCHANGED <<payments, verifying, finalizing>>

(* An error on one booking does not stop the worker; the API process, and    *)
(* with it the list, may also go away.                                       *)
ReleaseFails(b) ==
  /\ b \in candidates
  /\ candidates' = candidates \ {b}
  /\ UNCHANGED <<schedules, bookings, payments, verifying, finalizing>>

-----------------------------------------------------------------------------
IntakeNext ==
  \/ \E b \in Bookings :
       \/ \E s \in Schedules, j \in Jamaah \ Infant, price \in RoomPrices :
            \/ \E p \in Payments, amount \in Amounts, commitment \in {"lunas", "dp"} :
                 ProcessDeal(b, s, j, price, commitment, p, amount)
            \/ ProcessDeal(b, s, j, price, "book_seat", NULL, 0)
       \/ \E s \in Schedules, P \in SUBSET Jamaah :
            \E pic \in P \ Infant, harga \in PriceLists(P, RoomPrices), full \in FullPayment :
              SelfBooking(b, s, pic, P, harga, full)
       \/ CustomerCancel(b)
       \/ HoldLapses(b) \/ ReleaseSeatHold(b) \/ ReleaseFails(b)
  \/ FindLapsedHolds
=============================================================================
