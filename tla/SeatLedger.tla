----------------------------- MODULE SeatLedger -----------------------------
(***************************************************************************)
(* What the booking system promises about seats, without bookings, money   *)
(* or users: a schedule has a capacity and a number of seats left, and     *)
(* claims are taken from it and given back. Taking may cost more seats     *)
(* than the claims it adds, never fewer; giving back returns exactly the   *)
(* claims that end, with nothing cut off at the capacity.                  *)
(***************************************************************************)
EXTENDS Integers, FiniteSets

CONSTANTS
  Schedules,
  Seats,       \* the claims there can be: booking id and ordinal
  Capacities   \* what a capacity may be

(* What the theorems about the ledger take for granted of its constants.    *)
LedgerAssumption == IsFiniteSet(Seats) /\ Capacities \subseteq Nat

VARIABLES
  total,       \* total[s]: capacity
  left,        \* left[s]: seats for sale
  claims       \* claims[s]: the claims on schedule s

ledger == <<total, left, claims>>

Init ==
  /\ total \in [Schedules -> Capacities]
  /\ left = total
  /\ claims = [s \in Schedules |-> {}]

Take(s, K, cost) ==
  /\ K # {} /\ K \cap claims[s] = {}
  /\ Cardinality(K) <= cost /\ cost <= left[s]
  /\ claims' = [claims EXCEPT ![s] = @ \cup K]
  /\ left' = [left EXCEPT ![s] = @ - cost]
  /\ UNCHANGED total

GiveBack(s, K) ==
  /\ K # {} /\ K \subseteq claims[s]
  /\ claims' = [claims EXCEPT ![s] = @ \ K]
  /\ left' = [left EXCEPT ![s] = @ + Cardinality(K)]
  /\ UNCHANGED total

(* A manual correction: any number that leaves the claims their seats.      *)
Adjust(s, n) ==
  /\ n + Cardinality(claims[s]) <= total[s]
  /\ left' = [left EXCEPT ![s] = n]
  /\ UNCHANGED <<total, claims>>

(* A new capacity keeps the seats in use in use.                            *)
Resize(s, n) ==
  /\ total[s] - left[s] <= n
  /\ total' = [total EXCEPT ![s] = n]
  /\ left' = [left EXCEPT ![s] = n - (total[s] - @)]
  /\ UNCHANGED claims

Next ==
  \E s \in Schedules :
    \/ \E K \in SUBSET Seats, cost \in 0 .. left[s] : Take(s, K, cost)
    \/ \E K \in SUBSET claims[s] : GiveBack(s, K)
    \/ \E n \in 0 .. total[s] : Adjust(s, n)
    \/ \E n \in Capacities : Resize(s, n)

Spec == Init /\ [][Next]_ledger

-----------------------------------------------------------------------------
TypeOK ==
  /\ total \in [Schedules -> Nat]
  /\ left \in [Schedules -> Nat]
  /\ claims \in [Schedules -> SUBSET Seats]

(* No seat is sold twice: what is for sale and what is claimed fit the       *)
(* capacity.                                                                 *)
NoOversell == \A s \in Schedules : left[s] + Cardinality(claims[s]) <= total[s]
=============================================================================
