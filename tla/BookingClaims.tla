---------------------------- MODULE BookingClaims ---------------------------
(***************************************************************************)
(* A statement the repository's comments make about the booking system, as *)
(* it is written there, that its transactions do not keep.                 *)
(***************************************************************************)
EXTENDS MCBookingSystem

(* internal/payment/repository.go:373: "Caller holds the booking lock, so    *)
(* concurrent confirmations cannot share a balance." The balance comes from  *)
(* a snapshot that is older than the lock.                                   *)
ConfirmationsShareNoBalance ==
  [][\A p \in Payments :
       payments[p].status = "pending" /\ payments'[p].status = "confirmed" =>
         Paid(payments[p].booking)' <= Total(bookings[payments[p].booking])]_vars
=============================================================================
