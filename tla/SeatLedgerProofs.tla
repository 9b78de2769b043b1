-------------------------- MODULE SeatLedgerProofs --------------------------
(***************************************************************************)
(* The seat ledger never oversells, for any set of schedules, any finite   *)
(* set of claims and any capacities.                                       *)
(***************************************************************************)
EXTENDS SeatLedger, FiniteSetTheorems, TLAPS

(* Claims are finite sets, so their cardinalities are numbers.              *)
LEMMA ClaimsAreFinite ==
  ASSUME LedgerAssumption, TypeOK, NEW s \in Schedules
  PROVE  IsFiniteSet(claims[s]) /\ Cardinality(claims[s]) \in Nat
<1>1. claims[s] \in SUBSET Seats
  BY DEF TypeOK
<1>2. IsFiniteSet(claims[s])
  BY <1>1, FS_Subset DEF LedgerAssumption
<1> QED
  BY <1>2, FS_CardinalityType

LEMMA TakePreserves ==
  ASSUME LedgerAssumption, TypeOK, NoOversell,
         NEW s \in Schedules, NEW K \in SUBSET Seats, NEW cost \in 0 .. left[s],
         Take(s, K, cost)
  PROVE  TypeOK' /\ NoOversell'
<1>1. left[s] \in Nat /\ total[s] \in Nat /\ claims[s] \in SUBSET Seats
  BY DEF TypeOK
<1>2. IsFiniteSet(K) /\ Cardinality(K) \in Nat
  BY FS_Subset, FS_CardinalityType DEF LedgerAssumption
<1>3. IsFiniteSet(claims[s]) /\ Cardinality(claims[s]) \in Nat
  BY ClaimsAreFinite
<1>4. Cardinality(claims[s] \cup K) = Cardinality(claims[s]) + Cardinality(K)
  <2>1. Cardinality(claims[s] \cap K) = 0
    <3>1. claims[s] \cap K = {}
      BY DEF Take
    <3> QED
      BY <3>1, FS_EmptySet
  <2>2. Cardinality(claims[s] \cup K)
          = Cardinality(claims[s]) + Cardinality(K) - Cardinality(claims[s] \cap K)
    BY <1>2, <1>3, FS_Union
  <2> QED
    BY <2>1, <2>2, <1>2, <1>3
<1>5. TypeOK'
  BY <1>1 DEF TypeOK, Take
<1>6. NoOversell'
  <2> SUFFICES ASSUME NEW r \in Schedules
               PROVE  left'[r] + Cardinality(claims'[r]) <= total'[r]
    BY DEF NoOversell
  <2>1. CASE r = s
    <3>1. /\ left'[r] = left[s] - cost
          /\ claims'[r] = claims[s] \cup K
          /\ total'[r] = total[s]
      BY <2>1 DEF TypeOK, Take
    <3>2. left[s] + Cardinality(claims[s]) <= total[s] /\ Cardinality(K) <= cost
      BY DEF NoOversell, Take
    <3> QED
      BY <3>1, <3>2, <1>1, <1>2, <1>3, <1>4
  <2>2. CASE r # s
    BY <2>2 DEF TypeOK, Take, NoOversell
  <2> QED
    BY <2>1, <2>2
<1> QED
  BY <1>5, <1>6

LEMMA GiveBackPreserves ==
  ASSUME LedgerAssumption, TypeOK, NoOversell,
         NEW s \in Schedules, NEW K \in SUBSET claims[s], GiveBack(s, K)
  PROVE  TypeOK' /\ NoOversell'
<1>1. left[s] \in Nat /\ total[s] \in Nat /\ claims[s] \in SUBSET Seats
  BY DEF TypeOK
<1>2. IsFiniteSet(claims[s]) /\ Cardinality(claims[s]) \in Nat
  BY ClaimsAreFinite
<1>3. IsFiniteSet(K) /\ Cardinality(K) \in Nat
  BY <1>2, FS_Subset, FS_CardinalityType
<1>4. claims[s] \cap K = K
  OBVIOUS
<1>5. Cardinality(claims[s] \ K) = Cardinality(claims[s]) - Cardinality(K)
  BY <1>2, <1>4, FS_Difference
<1>6. TypeOK'
  BY <1>1, <1>3 DEF TypeOK, GiveBack
<1>7. NoOversell'
  <2> SUFFICES ASSUME NEW r \in Schedules
               PROVE  left'[r] + Cardinality(claims'[r]) <= total'[r]
    BY DEF NoOversell
  <2>1. CASE r = s
    <3>1. /\ left'[r] = left[s] + Cardinality(K)
          /\ claims'[r] = claims[s] \ K
          /\ total'[r] = total[s]
      BY <2>1 DEF TypeOK, GiveBack
    <3>2. left[s] + Cardinality(claims[s]) <= total[s]
      BY DEF NoOversell
    <3> QED
      BY <3>1, <3>2, <1>1, <1>2, <1>3, <1>5
  <2>2. CASE r # s
    BY <2>2 DEF TypeOK, GiveBack, NoOversell
  <2> QED
    BY <2>1, <2>2
<1> QED
  BY <1>6, <1>7

LEMMA AdjustPreserves ==
  ASSUME LedgerAssumption, TypeOK, NoOversell,
         NEW s \in Schedules, NEW n \in 0 .. total[s], Adjust(s, n)
  PROVE  TypeOK' /\ NoOversell'
  BY DEF TypeOK, NoOversell, Adjust

LEMMA ResizePreserves ==
  ASSUME LedgerAssumption, TypeOK, NoOversell,
         NEW s \in Schedules, NEW n \in Capacities, Resize(s, n)
  PROVE  TypeOK' /\ NoOversell'
<1>1. left[s] \in Nat /\ total[s] \in Nat /\ n \in Nat
  BY DEF LedgerAssumption, TypeOK
<1>2. TypeOK'
  BY <1>1 DEF TypeOK, Resize
<1>3. NoOversell'
  <2> SUFFICES ASSUME NEW r \in Schedules
               PROVE  left'[r] + Cardinality(claims'[r]) <= total'[r]
    BY DEF NoOversell
  <2>1. Cardinality(claims[r]) \in Nat
    BY ClaimsAreFinite
  <2>2. left[r] + Cardinality(claims[r]) <= total[r]
    BY DEF NoOversell
  <2> QED
    BY <2>1, <2>2, <1>1 DEF TypeOK, Resize
<1> QED
  BY <1>2, <1>3

(* Every schedule starts with all seats for sale, and no take, return,      *)
(* correction or new capacity makes the seats for sale and the claims       *)
(* together exceed the capacity.                                            *)
THEOREM LedgerNeverOversells ==
  ASSUME LedgerAssumption
  PROVE  Spec => [](TypeOK /\ NoOversell)
<1>1. Init => TypeOK /\ NoOversell
  <2> SUFFICES ASSUME Init PROVE TypeOK /\ NoOversell
    OBVIOUS
  <2>1. TypeOK
    BY DEF LedgerAssumption, Init, TypeOK
  <2>2. NoOversell
    <3> SUFFICES ASSUME NEW s \in Schedules
                 PROVE  left[s] + Cardinality(claims[s]) <= total[s]
      BY DEF NoOversell
    <3>1. total[s] \in Nat /\ left[s] = total[s] /\ claims[s] = {}
      BY DEF LedgerAssumption, Init
    <3>2. Cardinality(claims[s]) = 0
      BY <3>1, FS_EmptySet
    <3> QED
      BY <3>1, <3>2
  <2> QED
    BY <2>1, <2>2
<1>2. TypeOK /\ NoOversell /\ [Next]_ledger => TypeOK' /\ NoOversell'
  <2> SUFFICES ASSUME LedgerAssumption, TypeOK, NoOversell, [Next]_ledger
               PROVE  TypeOK' /\ NoOversell'
    OBVIOUS
  <2>1. CASE Next
    BY <2>1, TakePreserves, GiveBackPreserves, AdjustPreserves, ResizePreserves,
       ClaimsAreFinite DEF Next, TypeOK
  <2>2. CASE UNCHANGED ledger
    BY <2>2 DEF ledger, TypeOK, NoOversell
  <2> QED
    BY <2>1, <2>2
<1> QED
  BY <1>1, <1>2, PTL DEF Spec
=============================================================================
