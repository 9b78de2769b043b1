---------------------------- MODULE PaymentDesk -----------------------------
(***************************************************************************)
(* internal/payment and the payment half of the customer portal: money is  *)
(* recorded, then confirmed or rejected by an admin.                       *)
(*                                                                         *)
(* The admin's handler tests an amount before the transaction of Create    *)
(* starts; Create itself locks the booking before its first plain SELECT   *)
(* and is one step. UpdateStatus is not: its first statement, a plain      *)
(* SELECT of the payment's booking_id, fixes the REPEATABLE READ snapshot, *)
(* and only then does it wait for the booking lock. Locking reads (the     *)
(* booking row, the payment row, the schedule row) are current; the sum of *)
(* confirmed payments and the count of active pax come from the snapshot.  *)
(***************************************************************************)
EXTENDS BookingStore

PaymentUnchanged == UNCHANGED <<finalizing, candidates>>

Outstanding(b) == Total(bookings[b]) - Paid(b)

(* What a handler demands of an amount before the transaction ...            *)
Billable(b, amount) == bookings[b].status \in Open /\ amount <= Outstanding(b)

(* ... and what Create demands under the booking lock: a total of zero is    *)
(* taken for a total nobody has computed yet.                                *)
Accepted(b, amount) ==
  /\ bookings[b].status \in Open
  /\ Total(bookings[b]) > 0 => amount <= Outstanding(b)

Recorded(b, amount, status) == [booking |-> b, jumlah |-> amount, status |-> status]

(* syncBookingStatusTx of booking b, when `money` is the sum of confirmed    *)
(* payments and `regular` the number of active regular pax it reads.         *)
SyncBooking(b, money, regular) ==
  Save(b, Synced(bookings[b], money, regular), 0, SyncSeats(bookings[b], money, regular))

-----------------------------------------------------------------------------
(* The handler admits an amount. The row is still absent, but its booking    *)
(* and amount are settled: the request is on its way to the transaction.     *)
RequestPayment(b, p, amount) ==
  /\ payments[p] = NoPayment
  /\ Billable(b, amount)
  /\ payments' = [payments EXCEPT ![p] = Recorded(b, amount, "absent")]
  /\ UNCHANGED <<schedules, bookings, verifying>> /\ PaymentUnchanged

Requested(p) == payments[p].status = "absent" /\ payments[p].booking # NULL

(* An admin records money already received: confirmed at once.               *)
CreatePayment(p) ==
  LET b      == payments[p].booking
      amount == payments[p].jumlah
  IN  /\ Requested(p)
      /\ Accepted(b, amount)
      /\ payments' = [payments EXCEPT ![p].status = "confirmed"]
      /\ SyncBooking(b, Paid(b) + amount, Cardinality(RegularPax(bookings[b])))
      /\ UNCHANGED verifying /\ PaymentUnchanged

(* The transaction refuses the amount, or the request dies.                  *)
RequestFails(p) ==
  /\ Requested(p)
  /\ payments' = [payments EXCEPT ![p] = NoPayment]
  /\ UNCHANGED <<schedules, bookings, verifying>> /\ PaymentUnchanged

(* A customer reports a transfer, while the seats are still held. That may   *)
(* lengthen the hold, which stays "running". (The portal's own test of the   *)
(* amount is not a step apart: what could slip in between is a pending       *)
(* payment of a booking that costs nothing, which cannot be confirmed.)      *)
CreatePortalPayment(b, p, amount) ==
  LET row == bookings[b]
  IN  /\ payments[p] = NoPayment
      /\ row.channel = "portal"
      /\ row.status \in {"baru", "dp"}
      /\ row.is_seat_blocked /\ row.hold # "lapsed"
      /\ Billable(b, amount)
      /\ payments' = [payments EXCEPT ![p] = Recorded(b, amount, "pending")]
      /\ UNCHANGED <<schedules, bookings, verifying>> /\ PaymentUnchanged

(* One conditional DELETE: only a pending payment goes.                      *)
DeletePayment(p) ==
  /\ payments[p].status = "pending"
  /\ payments' = [payments EXCEPT ![p].status = "deleted"]
  /\ UNCHANGED <<schedules, bookings, verifying>> /\ PaymentUnchanged

-----------------------------------------------------------------------------
(* payment.UpdateStatus *)

Done(v) == verifying' = [verifying EXCEPT ![v] = NoSnapshot]

(* The handler saw the payment pending; the transaction takes its snapshot.  *)
VerifyBegin(v, p) ==
  LET b == payments[p].booking
  IN  /\ verifying[v].payment = NULL
      /\ payments[p].status = "pending"
      /\ verifying' = [verifying EXCEPT ![v] =
           [payment |-> p, paid |-> ConfirmedOf(b), pax |-> RegularPax(bookings[b])]]
      /\ UNCHANGED <<schedules, bookings, payments>> /\ PaymentUnchanged

(* Fault: the payment's status is not read again under its lock.             *)
Unread(v) == verifying[v].payment # NULL

(* Booking and payment are locked and the payment is still undecided.        *)
Undecided(v) ==
  /\ verifying[v].payment # NULL
  /\ payments[verifying[v].payment].status = "pending"

(* Fault: the booking's status is not looked at.                             *)
ConfirmPaymentAnyway(v) ==
  LET p    == verifying[v].payment
      paid == Amount(verifying[v].paid \ {p}) + payments[p].jumlah
  IN  /\ Undecided(v)
      /\ payments' = [payments EXCEPT ![p].status = "confirmed"]
      /\ SyncBooking(payments[p].booking, paid, Cardinality(verifying[v].pax))
      /\ Done(v) /\ PaymentUnchanged

(* checkConfirmationBalanceTx adds the amount to the other payments the      *)
(* snapshot shows as confirmed.                                              *)
ConfirmPayment(v) ==
  LET p    == verifying[v].payment
      b    == payments[p].booking
      paid == Amount(verifying[v].paid \ {p}) + payments[p].jumlah
  IN  /\ Undecided(v)
      /\ bookings[b].status \in Open
      /\ paid <= Total(bookings[b])
      /\ payments' = [payments EXCEPT ![p].status = "confirmed"]
      /\ SyncBooking(b, paid, Cardinality(verifying[v].pax))
      /\ Done(v) /\ PaymentUnchanged

(* A rejection also re-derives the booking's status.                         *)
RejectPayment(v) ==
  LET p == verifying[v].payment
  IN  /\ Undecided(v)
      /\ payments' = [payments EXCEPT ![p].status = "rejected"]
      /\ SyncBooking(payments[p].booking, Amount(verifying[v].paid \ {p}),
                     Cardinality(verifying[v].pax))
      /\ Done(v) /\ PaymentUnchanged

(* Somebody else decided or deleted the payment, a check fails, or the       *)
(* request dies: nothing is written.                                         *)
VerifyFails(v) ==
  /\ verifying[v].payment # NULL
  /\ Done(v)
  /\ UNCHANGED <<schedules, bookings, payments>> /\ PaymentUnchanged

-----------------------------------------------------------------------------
PaymentNext ==
  \/ \E b \in Bookings, p \in Payments, amount \in Amounts :
       RequestPayment(b, p, amount) \/ CreatePortalPayment(b, p, amount)
  \/ \E p \in Payments : CreatePayment(p) \/ RequestFails(p) \/ DeletePayment(p)
  \/ \E v \in Verifiers :
       \/ \E p \in Payments : VerifyBegin(v, p)
       \/ ConfirmPayment(v) \/ RejectPayment(v) \/ VerifyFails(v)
=============================================================================
