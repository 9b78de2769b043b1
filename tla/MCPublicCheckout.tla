-------------------------- MODULE MCPublicCheckout --------------------------
(***************************************************************************)
(* Small instances of PublicCheckout for TLC: two things to ask for, on    *)
(* two schedules.                                                          *)
(***************************************************************************)
EXTENDS PublicCheckout, TLC

CONSTANTS Near, Far    \* the schedules

MCForms == {[jadwal |-> Near, seats |-> 1], [jadwal |-> Far, seats |-> 2]}

Interchangeable == UNION {Permutations(S) : S \in {Accounts, Keys, Leads, Bookings, Requests}}
=============================================================================
