---------------------------- MODULE BookingDesk -----------------------------
(***************************************************************************)
(* internal/booking: what an admin does to a booking. Every operation is   *)
(* one transaction that first locks the booking row (CreateBooking: the    *)
(* schedule row) and reads afterwards, so it is one step here. Only        *)
(* FinalizeBooking is three: the handler validates the draft before the    *)
(* transaction starts, and the transaction takes its snapshot before it    *)
(* locks the schedule.                                                     *)
(***************************************************************************)
EXTENDS BookingStore

DeskUnchanged == UNCHANGED <<payments, verifying, candidates>>

-----------------------------------------------------------------------------
(* Intake by an admin *)

CreateBooking(b, s, pic, P, harga) ==
  LET regular == Cardinality(P \ Infant)
  IN  /\ bookings[b].status = "absent"
      /\ pic \in P \ Infant
      /\ ~ScheduleClosed(s)
      /\ P \cap Registered(s, b) = {}
      /\ Save(b, [NewRow("baru", s, "office", pic, P, harga)
                    EXCEPT !.is_seat_blocked = TRUE, !.seat_count = regular], 0, regular)
      /\ UNCHANGED finalizing /\ DeskUnchanged

(* A draft holds no seats; its PIC and its rooms may still be missing, and   *)
(* seat_count is the column's default until the booking is finalized.        *)
CreateDraftBooking(b, s, pic, P, harga) ==
  /\ b \in Drafts
  /\ bookings[b].status = "absent"
  /\ bookings' = [bookings EXCEPT ![b] =
       [NewRow("draft", s, "office", pic, P, harga) EXCEPT !.seat_count = 1]]
  /\ UNCHANGED <<schedules, finalizing>> /\ DeskUnchanged

UpdateDraftBooking(b, s, pic, P, harga) ==
  LET draft == NewRow("draft", s, "office", pic, P, harga)
  IN  /\ bookings[b].status = "draft" /\ Unlocked(b)
      /\ bookings' = [bookings EXCEPT ![b] =
           [draft EXCEPT !.discounts = bookings[b].discounts,
                         !.seat_count = bookings[b].seat_count]]
      /\ UNCHANGED <<schedules, finalizing>> /\ DeskUnchanged

DeleteDraft(b) ==
  /\ bookings[b].status = "draft" /\ Unlocked(b)
  /\ bookings' = [bookings EXCEPT ![b] = [NoRow EXCEPT !.status = "deleted"]]
  /\ UNCHANGED <<schedules, finalizing>> /\ DeskUnchanged

-----------------------------------------------------------------------------
(* Finalizing a draft *)

Advance(b, progress) == finalizing' = [finalizing EXCEPT ![b] = progress]

(* What the handler demands of a draft: a PIC who travels as a regular pax,  *)
(* and a room for every regular pax. (A cancelled pax keeps its room type in *)
(* the code and is not looked at here.)                                      *)
Complete(row) ==
  /\ row.pic \in RegularPax(row)
  /\ \A j \in RegularPax(row) : row.harga[j] > 0

FinalizeCheck(b) ==
  /\ finalizing[b].stage = "idle"
  /\ bookings[b].status = "draft"
  /\ Complete(bookings[b])
  /\ Advance(b, [stage |-> "checked", registered |-> {}])
  /\ UNCHANGED <<schedules, bookings>> /\ DeskUnchanged

(* The transaction locks the booking; its first plain SELECT fixes what it   *)
(* will see of all other bookings.                                           *)
FinalizeLock(b) ==
  /\ finalizing[b].stage = "checked"
  /\ bookings[b].status = "draft"
  /\ bookings[b].pic # NULL
  /\ RegularPax(bookings[b]) # {}
  /\ Advance(b, [stage |-> "locked", registered |-> Registered(bookings[b].schedule, b)])
  /\ UNCHANGED <<schedules, bookings>> /\ DeskUnchanged

(* Faults: the schedule's state is not looked at under its lock; seat_count  *)
(* keeps the column's default.                                               *)
FinalizeCommitAnySchedule(b) ==
  LET row == bookings[b]
      regular == Cardinality(RegularPax(row))
  IN  /\ finalizing[b].stage = "locked"
      /\ Save(b, [row EXCEPT !.status = "baru", !.is_seat_blocked = TRUE,
                             !.seat_count = regular], 0, regular)
      /\ Advance(b, Idle)
      /\ DeskUnchanged

FinalizeCommitDefaultCount(b) ==
  LET row == bookings[b]
  IN  /\ finalizing[b].stage = "locked"
      /\ ~ScheduleClosed(row.schedule)
      /\ Save(b, [row EXCEPT !.status = "baru", !.is_seat_blocked = TRUE],
              0, Cardinality(RegularPax(row)))
      /\ Advance(b, Idle)
      /\ DeskUnchanged

(* Schedule lock, duplicate check against the snapshot, seats, new status.   *)
FinalizeCommit(b) ==
  LET row == bookings[b]
      regular == Cardinality(RegularPax(row))
  IN  /\ finalizing[b].stage = "locked"
      /\ ~ScheduleClosed(row.schedule)
      /\ Pax(row) \cap finalizing[b].registered = {}
      /\ Save(b, [row EXCEPT !.status = "baru", !.is_seat_blocked = TRUE,
                             !.seat_count = regular], 0, regular)
      /\ Advance(b, Idle)
      /\ DeskUnchanged

(* A check fails, a deadlock is resolved against it, or the client leaves.   *)
FinalizeFails(b) ==
  /\ finalizing[b].stage # "idle"
  /\ Advance(b, Idle)
  /\ UNCHANGED <<schedules, bookings>> /\ DeskUnchanged

-----------------------------------------------------------------------------
(* Pax and price *)

(* Cancelled pax of a booking nobody has paid for cost nothing; of a paid    *)
(* booking they keep their price.                                            *)
Without(row, P) ==
  [row EXCEPT
     !.pax = [j \in Jamaah |-> IF j \in P THEN "batal" ELSE row.pax[j]],
     !.harga = [j \in Jamaah |-> IF j \in P /\ row.status \in {"baru", "draft"}
                                 THEN 0 ELSE row.harga[j]]]

(* Faults: a booking cancelled with its last pax stays blocked; nobody takes *)
(* over from the contact.                                                    *)
PaxCancelledStillBlocked(row, j, pic) ==
  LET rest == RegularPax(row) \ {j}
  IN  IF rest # {}
      THEN [Without(row, {j}) EXCEPT !.pic = pic, !.seat_count = Cardinality(rest)]
      ELSE [Without(row, Pax(row)) EXCEPT !.status = "batal", !.seat_count = 0]

PaxCancelledWithContact(row, j, pic) ==
  LET rest == RegularPax(row) \ {j}
  IN  IF rest # {}
      THEN [Without(row, {j}) EXCEPT !.seat_count = Cardinality(rest)]
      ELSE [Without(row, Pax(row)) EXCEPT !.status = "batal", !.is_seat_blocked = FALSE,
                                          !.seat_count = 0]

(* Pax j leaves; without a regular pax the whole booking is cancelled.       *)
PaxCancelled(row, j, pic) ==
  LET rest == RegularPax(row) \ {j}
  IN  IF rest # {}
      THEN [Without(row, {j}) EXCEPT !.pic = pic, !.seat_count = Cardinality(rest)]
      ELSE [Without(row, Pax(row)) EXCEPT !.status = "batal", !.is_seat_blocked = FALSE,
                                          !.seat_count = 0]

CancelPax(b, j, pic) ==
  LET row  == bookings[b]
      rest == RegularPax(row) \ {j}
  IN  /\ Exists(row) /\ Unlocked(b)
      /\ j \in Pax(row)
      /\ row.pic # NULL
      /\ pic \in IF j = row.pic /\ rest # {} THEN rest ELSE {row.pic}
      /\ Recalculate(b, PaxCancelled(row, j, pic),
                     IF j \notin Infant /\ row.is_seat_blocked THEN 1 ELSE 0)
      /\ UNCHANGED finalizing /\ DeskUnchanged

UpdatePaxRoomType(b, j, price) ==
  LET row == [bookings[b] EXCEPT !.harga[j] = price]
  IN  /\ Exists(row) /\ row.status # "batal" /\ Unlocked(b)
      /\ j \in RegularPax(row)
      /\ Recalculate(b, row, 0)
      /\ TotalCoversPaid(b, row)
      /\ UNCHANGED finalizing /\ DeskUnchanged

AddDiscount(b) ==
  LET row == [bookings[b] EXCEPT !.discounts = @ + 1]
  IN  /\ Exists(row) /\ row.status # "batal" /\ Unlocked(b)
      /\ bookings[b].discounts < MaxDiscounts
      /\ Recalculate(b, row, 0)
      /\ TotalCoversPaid(b, row)
      /\ UNCHANGED finalizing /\ DeskUnchanged

DeleteDiscount(b) ==
  LET row == [bookings[b] EXCEPT !.discounts = @ - 1]
  IN  /\ Exists(row) /\ row.status # "batal" /\ Unlocked(b)
      /\ bookings[b].discounts > 0
      /\ Recalculate(b, row, 0)
      /\ UNCHANGED finalizing /\ DeskUnchanged

-----------------------------------------------------------------------------
(* Seats and cancellation *)

(* Faults: seats come back although none are held; a cancelled booking keeps *)
(* its block.                                                                *)
SeatsRestoredTwice(row) == Cardinality(RegularPax(row))

CancelledStillBlocked(row) == [row EXCEPT !.status = "batal"]

(* What a booking gives back when its block ends: its active regular pax, or *)
(* seat_count when it has none.                                              *)
SeatsToRestore(row) ==
  LET regular == Cardinality(RegularPax(row))
  IN  IF ~row.is_seat_blocked THEN 0 ELSE IF regular > 0 THEN regular ELSE row.seat_count

Unblocked(row) == [row EXCEPT !.is_seat_blocked = FALSE, !.hold = "none"]

(* Cancelling takes the pax along only when the booking still holds seats.   *)
Cancelled(row) ==
  IF row.is_seat_blocked
  THEN [Unblocked(row) EXCEPT
          !.status = "batal",
          !.pax = [j \in Jamaah |-> IF row.pax[j] = "none" THEN "none" ELSE "batal"]]
  ELSE [row EXCEPT !.status = "batal"]

Cancel(b) ==
  /\ Save(b, Cancelled(bookings[b]), SeatsToRestore(bookings[b]), 0)
  /\ UNCHANGED finalizing /\ DeskUnchanged

(* The admin endpoint accepts no status but "batal".                         *)
CancelBooking(b) ==
  /\ Exists(bookings[b]) /\ Unlocked(b)
  /\ Cancel(b)

CancelSeatBlock(b) ==
  /\ bookings[b].is_seat_blocked
  /\ Save(b, Unblocked(bookings[b]), SeatsToRestore(bookings[b]), 0)
  /\ UNCHANGED finalizing /\ DeskUnchanged

(* Only an unpaid booking may be given a deadline.                           *)
BlockSeat(b, hold) ==
  LET row == bookings[b]
  IN  /\ row.status \in Open
      /\ ~row.is_seat_blocked
      /\ Save(b, [row EXCEPT !.is_seat_blocked = TRUE,
                             !.hold = IF row.status = "baru" THEN hold ELSE "none"],
              0, row.seat_count)
      /\ UNCHANGED finalizing /\ DeskUnchanged

(* Fault: a payment counts as received once it was reported.                 *)
RefundableReported(b) ==
  Amount({p \in Payments : payments[p].booking = b /\ payments[p].status \in {"pending", "confirmed"}})
    - bookings[b].refunded

(* What was received and not yet given back.                                 *)
Refundable(b) == Paid(b) - bookings[b].refunded

(* A refund is recorded for good. The booking is locked before the sums are  *)
(* read.                                                                     *)
CreateRefund(b, jumlah) ==
  /\ bookings[b].status = "batal"
  /\ jumlah <= Refundable(b)
  /\ Save(b, [bookings[b] EXCEPT !.refunded = @ + jumlah], 0, 0)
  /\ UNCHANGED finalizing /\ DeskUnchanged

-----------------------------------------------------------------------------
DeskNext ==
  \E b \in Bookings :
    \/ \E s \in Schedules, P \in SUBSET Jamaah :
         \E pic \in P \ Infant, harga \in PriceLists(P, RoomPrices) :
           CreateBooking(b, s, pic, P, harga)
    \/ \E s \in Schedules, P \in SUBSET Jamaah :
         \E pic \in (Jamaah \ Infant) \cup {NULL}, harga \in PriceLists(P, RoomPrices \cup {0}) :
           CreateDraftBooking(b, s, pic, P, harga) \/ UpdateDraftBooking(b, s, pic, P, harga)
    \/ DeleteDraft(b)
    \/ FinalizeCheck(b) \/ FinalizeLock(b) \/ FinalizeCommit(b) \/ FinalizeFails(b)
    \/ \E j \in Jamaah :
         \/ \E pic \in Jamaah : CancelPax(b, j, pic)
         \/ \E price \in RoomPrices : UpdatePaxRoomType(b, j, price)
    \/ AddDiscount(b) \/ DeleteDiscount(b)
    \/ CancelBooking(b) \/ CancelSeatBlock(b)
    \/ \E hold \in {"none", "running"} : BlockSeat(b, hold)
    \/ \E jumlah \in 1 .. Paid(b) : CreateRefund(b, jumlah)
=============================================================================
