-------------------------- MODULE CommissionClaims --------------------------
(***************************************************************************)
(* A statement the repository makes about commission, as it is written     *)
(* there, that a lawful sequence of its operations breaks.                 *)
(***************************************************************************)
EXTENDS MCAgentCommission

(* internal/komisi/hook.go:16-19: a booking may become paid more than once,  *)
(* and ProcessBookingLunas is idempotent, by UNIQUE(booking_pax_id, jenis,   *)
(* akun_penerima_id): no pax earns one kind of commission twice. But the     *)
(* recipient is part of that key, and may be another one the next time.      *)
CommissionOncePerPax ==
  \A k, r \in komisi :
    k.booking = r.booking /\ k.jamaah = r.jamaah /\ k.jenis = r.jenis => k = r
=============================================================================
