-------------------------- MODULE MCBookingSystem ---------------------------
(***************************************************************************)
(* Small instances of BookingSystem for TLC. The ids of drafts, of other   *)
(* bookings, of payments and verifiers, and the grown-up pilgrims are      *)
(* interchangeable, so runs without liveness may reduce by symmetry.       *)
(***************************************************************************)
EXTENDS BookingSystem, TLC

Interchangeable ==
  UNION {Permutations(S) :
           S \in {Drafts, Bookings \ Drafts, Jamaah \ Infant, Payments, Verifiers}}

=============================================================================
