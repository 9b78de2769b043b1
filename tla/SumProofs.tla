----------------------------- MODULE SumProofs ------------------------------
(***************************************************************************)
(* What SumFunctionOnSet of the community modules computes, for every      *)
(* finite set: nothing for the empty set, and otherwise the value of any   *)
(* of its elements and the sum over the others. The definition is a        *)
(* recursive function over the subsets of the set that always goes on      *)
(* with one arbitrary element. That there is such a function is shown by   *)
(* induction over finite sets, in the form that speaks of a set F of sets  *)
(* instead of a predicate.                                                 *)
(***************************************************************************)
EXTENDS Integers, FiniteSets, Functions, FiniteSetTheorems, WellFoundedInduction, TLAPS

(* A set of sets that contains every subset of S whose strict subsets it     *)
(* contains, contains S.                                                     *)
LEMMA FiniteInduction ==
  ASSUME NEW S, IsFiniteSet(S), NEW F,
         \A U \in SUBSET S : (\A V \in SUBSET U : V # U => V \in F) => U \in F
  PROVE  S \in F
<1> SUFFICES ASSUME S \notin F PROVE FALSE
  OBVIOUS
<1> DEFINE T == {U \in SUBSET S : U \notin F}
           R == StrictSubsetOrdering(S)
<1>1. T \subseteq FiniteSubsetsOf(S) /\ T # {}
  BY FS_Subset DEF FiniteSubsetsOf
<1>2. IsWellFoundedOn(R, FiniteSubsetsOf(S))
  BY FS_StrictSubsetOrderingWellFounded
<1>3. PICK U \in T : \A V \in T : <<V, U>> \notin R
  <2> HIDE DEF T, R
  <2> QED
    BY <1>1, <1>2, WFMin
<1>4. \A V \in SUBSET U : V # U => V \in F
  BY <1>3 DEF StrictSubsetOrdering
<1> QED
  BY <1>3, <1>4

-----------------------------------------------------------------------------
(* The recursive function *)

Chosen(s) == CHOOSE x \in s : TRUE

(* g adds up f over every subset of S.                                       *)
Adder(g, f, S) ==
  g = [s \in SUBSET S |-> IF s = {} THEN 0 ELSE f[Chosen(s)] + g[s \ {Chosen(s)}]]

AnAdder(f, S) == CHOOSE g : Adder(g, f, S)

LEMMA SumIsAdders ==
  ASSUME NEW f, NEW S
  PROVE  SumFunctionOnSet(f, S) = AnAdder(f, S)[S]
BY DEF SumFunctionOnSet, FoldFunctionOnSet, MapThenFoldSet, Adder, AnAdder, Chosen

LEMMA ChosenIsIn ==
  ASSUME NEW s, s # {}
  PROVE  Chosen(s) \in s
BY DEF Chosen

(* What an adder returns.                                                    *)
LEMMA AdderStep ==
  ASSUME NEW f, NEW S, NEW g, Adder(g, f, S), NEW s \in SUBSET S
  PROVE  g[s] = IF s = {} THEN 0 ELSE f[Chosen(s)] + g[s \ {Chosen(s)}]
<1> DEFINE step(u) == IF u = {} THEN 0 ELSE f[Chosen(u)] + g[u \ {Chosen(u)}]
<1>1. g = [u \in SUBSET S |-> step(u)]
  BY DEF Adder
<1> HIDE DEF step
<1>2. g[s] = step(s)
  BY <1>1
<1> QED
  BY <1>2 DEF step

(* Two adders agree wherever both are defined.                               *)
LEMMA AddersAgree ==
  ASSUME NEW f, NEW S, NEW T, NEW g, Adder(g, f, S), NEW h, Adder(h, f, T),
         NEW s, IsFiniteSet(s), s \subseteq S, s \subseteq T
  PROVE  g[s] = h[s]
<1> DEFINE F == {u \in SUBSET s : g[u] = h[u]}
<1>1. ASSUME NEW u \in SUBSET s, \A v \in SUBSET u : v # u => v \in F
      PROVE  u \in F
  <2>1. CASE u = {}
    BY <2>1, AdderStep
  <2>2. CASE u # {}
    <3>1. Chosen(u) \in u
      BY <2>2, ChosenIsIn
    <3>2. g[u \ {Chosen(u)}] = h[u \ {Chosen(u)}]
      BY <1>1, <3>1
    <3>3. g[u] = f[Chosen(u)] + g[u \ {Chosen(u)}]
      BY <2>2, AdderStep
    <3>4. h[u] = f[Chosen(u)] + h[u \ {Chosen(u)}]
      BY <2>2, AdderStep
    <3> QED
      BY <3>2, <3>3, <3>4
  <2> QED
    BY <2>1, <2>2
<1> HIDE DEF F
<1>2. s \in F
  BY <1>1, FiniteInduction
<1> QED
  BY <1>2 DEF F

(* There is an adder for every finite set.                                   *)
LEMMA AdderExists ==
  ASSUME NEW f, NEW S, IsFiniteSet(S)
  PROVE  Adder(AnAdder(f, S), f, S)
<1> DEFINE F == {s \in SUBSET S : \E g : Adder(g, f, s)}
<1>1. ASSUME NEW s \in SUBSET S, \A v \in SUBSET s : v # s => v \in F
      PROVE  s \in F
  <2> DEFINE part(u) == AnAdder(f, u)[u]
             whole == [u \in SUBSET s |->
                         IF u = {} THEN 0 ELSE f[Chosen(u)] + part(u \ {Chosen(u)})]
  <2>1. \A u \in SUBSET s : u # s => Adder(AnAdder(f, u), f, u)
    BY <1>1 DEF AnAdder
  <2>2. ASSUME NEW u \in SUBSET s, u # s
        PROVE  whole[u] = part(u)
    <3>1. Adder(AnAdder(f, u), f, u)
      BY <2>1, <2>2
    <3>2. CASE u = {}
      BY <3>1, <3>2, AdderStep
    <3>3. CASE u # {}
      <4> DEFINE rest == u \ {Chosen(u)}
      <4>1. Chosen(u) \in u
        BY <3>3, ChosenIsIn
      <4>2. rest \in SUBSET s /\ rest # s /\ rest \subseteq u /\ IsFiniteSet(rest)
        BY <4>1, FS_Subset
      <4>3. Adder(AnAdder(f, rest), f, rest)
        BY <2>1, <4>2
      <4>4. AnAdder(f, u)[rest] = AnAdder(f, rest)[rest]
        <5> HIDE DEF rest, whole, part
        <5> QED
          BY <3>1, <4>2, <4>3, AddersAgree
      <4>5. AnAdder(f, u)[u] = f[Chosen(u)] + AnAdder(f, u)[rest]
        BY <3>1, <3>3, AdderStep
      <4> QED
        BY <3>3, <4>4, <4>5
    <3> QED
      BY <3>2, <3>3
  <2>3. Adder(whole, f, s)
    <3>1. ASSUME NEW u \in SUBSET s, u # {}
          PROVE  part(u \ {Chosen(u)}) = whole[u \ {Chosen(u)}]
      <4>1. Chosen(u) \in u
        BY <3>1, ChosenIsIn
      <4>2. u \ {Chosen(u)} \in SUBSET s /\ u \ {Chosen(u)} # s
        BY <4>1
      <4> HIDE DEF whole, part
      <4> QED
        BY <2>2, <4>2
    <3>2. \A u \in SUBSET s :
            (IF u = {} THEN 0 ELSE f[Chosen(u)] + part(u \ {Chosen(u)}))
              = (IF u = {} THEN 0 ELSE f[Chosen(u)] + whole[u \ {Chosen(u)}])
      <4> HIDE DEF whole, part
      <4> QED
        BY <3>1
    <3>3. whole = [u \in SUBSET s |->
                     IF u = {} THEN 0 ELSE f[Chosen(u)] + whole[u \ {Chosen(u)}]]
      BY <3>2
    <3> HIDE DEF whole
    <3> QED
      BY <3>3 DEF Adder
  <2> HIDE DEF whole
  <2> QED
    BY <2>3
<1> HIDE DEF F
<1>2. S \in F
  BY <1>1, FiniteInduction
<1> QED
  BY <1>2 DEF F, AnAdder

-----------------------------------------------------------------------------
(* Sums *)

LEMMA SumOfNothing ==
  ASSUME NEW f
  PROVE  SumFunctionOnSet(f, {}) = 0
<1>1. Adder(AnAdder(f, {}), f, {})
  BY AdderExists, FS_EmptySet
<1> QED
  BY <1>1, AdderStep, SumIsAdders

LEMMA SumChosen ==
  ASSUME NEW f, NEW S, IsFiniteSet(S), S # {}
  PROVE  SumFunctionOnSet(f, S) = f[Chosen(S)] + SumFunctionOnSet(f, S \ {Chosen(S)})
<1> DEFINE rest == S \ {Chosen(S)}
<1>1. IsFiniteSet(rest) /\ rest \subseteq S
  BY FS_Subset
<1>2. Adder(AnAdder(f, S), f, S) /\ Adder(AnAdder(f, rest), f, rest)
  BY <1>1, AdderExists
<1>3. AnAdder(f, S)[rest] = AnAdder(f, rest)[rest]
  BY <1>1, <1>2, AddersAgree
<1>4. AnAdder(f, S)[S] = f[Chosen(S)] + AnAdder(f, S)[rest]
  BY <1>2, AdderStep
<1> QED
  BY <1>3, <1>4, SumIsAdders

(* The sum of integers is an integer, and of numbers a number.               *)
LEMMA SumIsInt ==
  ASSUME NEW f, NEW S, IsFiniteSet(S), \A x \in S : f[x] \in Int
  PROVE  SumFunctionOnSet(f, S) \in Int
<1> DEFINE F == {s \in SUBSET S : SumFunctionOnSet(f, s) \in Int}
<1>1. ASSUME NEW s \in SUBSET S, \A v \in SUBSET s : v # s => v \in F
      PROVE  s \in F
  <2>1. CASE s = {}
    BY <2>1, SumOfNothing
  <2>2. CASE s # {}
    <3>1. Chosen(s) \in s /\ IsFiniteSet(s)
      BY <2>2, ChosenIsIn, FS_Subset
    <3>2. SumFunctionOnSet(f, s \ {Chosen(s)}) \in Int /\ f[Chosen(s)] \in Int
      BY <1>1, <3>1
    <3> QED
      BY <2>2, <3>1, <3>2, SumChosen
  <2> QED
    BY <2>1, <2>2
<1> HIDE DEF F
<1>2. S \in F
  BY <1>1, FiniteInduction
<1> QED
  BY <1>2 DEF F

LEMMA SumIsNat ==
  ASSUME NEW f, NEW S, IsFiniteSet(S), \A x \in S : f[x] \in Nat
  PROVE  SumFunctionOnSet(f, S) \in Nat
<1> DEFINE F == {s \in SUBSET S : SumFunctionOnSet(f, s) \in Nat}
<1>1. ASSUME NEW s \in SUBSET S, \A v \in SUBSET s : v # s => v \in F
      PROVE  s \in F
  <2>1. CASE s = {}
    BY <2>1, SumOfNothing
  <2>2. CASE s # {}
    <3>1. Chosen(s) \in s /\ IsFiniteSet(s)
      BY <2>2, ChosenIsIn, FS_Subset
    <3>2. SumFunctionOnSet(f, s \ {Chosen(s)}) \in Nat /\ f[Chosen(s)] \in Nat
      BY <1>1, <3>1
    <3> QED
      BY <2>2, <3>1, <3>2, SumChosen
  <2> QED
    BY <2>1, <2>2
<1> HIDE DEF F
<1>2. S \in F
  BY <1>1, FiniteInduction
<1> QED
  BY <1>2 DEF F

(* Functions that agree on a set have the same sum over it.                  *)
LEMMA SumAgrees ==
  ASSUME NEW f, NEW g, NEW S, IsFiniteSet(S), \A x \in S : f[x] = g[x]
  PROVE  SumFunctionOnSet(f, S) = SumFunctionOnSet(g, S)
<1> DEFINE F == {s \in SUBSET S : SumFunctionOnSet(f, s) = SumFunctionOnSet(g, s)}
<1>1. ASSUME NEW s \in SUBSET S, \A v \in SUBSET s : v # s => v \in F
      PROVE  s \in F
  <2>1. CASE s = {}
    BY <2>1, SumOfNothing
  <2>2. CASE s # {}
    <3>1. Chosen(s) \in s /\ IsFiniteSet(s)
      BY <2>2, ChosenIsIn, FS_Subset
    <3>2. /\ SumFunctionOnSet(f, s \ {Chosen(s)}) = SumFunctionOnSet(g, s \ {Chosen(s)})
          /\ f[Chosen(s)] = g[Chosen(s)]
      BY <1>1, <3>1
    <3>3. /\ SumFunctionOnSet(f, s) = f[Chosen(s)] + SumFunctionOnSet(f, s \ {Chosen(s)})
          /\ SumFunctionOnSet(g, s) = g[Chosen(s)] + SumFunctionOnSet(g, s \ {Chosen(s)})
      BY <2>2, <3>1, SumChosen
    <3> QED
      BY <3>2, <3>3
  <2> QED
    BY <2>1, <2>2
<1> HIDE DEF F
<1>2. S \in F
  BY <1>1, FiniteInduction
<1> QED
  BY <1>2 DEF F

(* Any element may be taken out of a sum.                                    *)
LEMMA SumSplit ==
  ASSUME NEW f, NEW S, IsFiniteSet(S), \A x \in S : f[x] \in Int, NEW c \in S
  PROVE  SumFunctionOnSet(f, S) = f[c] + SumFunctionOnSet(f, S \ {c})
<1> DEFINE sum(s) == SumFunctionOnSet(f, s)
           F == {s \in SUBSET S : \A x \in s : sum(s) = f[x] + sum(s \ {x})}
<1>1. ASSUME NEW s \in SUBSET S, \A v \in SUBSET s : v # s => v \in F
      PROVE  s \in F
  <2>1. ASSUME NEW x \in s
        PROVE  sum(s) = f[x] + sum(s \ {x})
    <3> DEFINE y == Chosen(s)
               rest == (s \ {x}) \ {y}
    <3>1. y \in s /\ IsFiniteSet(s) /\ IsFiniteSet(rest)
      BY ChosenIsIn, FS_Subset
    <3>2. sum(s) = f[y] + sum(s \ {y})
      BY <3>1, SumChosen
    <3>3. CASE x = y
      BY <3>2, <3>3
    <3>4. CASE x # y
      <4>1. s \ {y} \in F /\ s \ {x} \in F
        BY <1>1, <2>1, <3>1
      <4>2. sum(s \ {y}) = f[x] + sum((s \ {y}) \ {x})
        BY <2>1, <3>4, <4>1
      <4>3. sum(s \ {x}) = f[y] + sum(rest)
        BY <3>1, <3>4, <4>1
      <4>4. (s \ {y}) \ {x} = rest
        OBVIOUS
      <4>5. f[x] \in Int /\ f[y] \in Int /\ sum(rest) \in Int
        BY <3>1, SumIsInt
      <4>6. sum(s \ {y}) = f[x] + sum(rest)
        BY <4>2, <4>4
      <4> HIDE DEF sum, rest, y
      <4> QED
        BY <3>2, <4>3, <4>5, <4>6
    <3> QED
      BY <3>3, <3>4
  <2> QED
    BY <2>1
<1> HIDE DEF F
<1>2. S \in F
  BY <1>1, FiniteInduction
<1> QED
  BY <1>2 DEF F

(* A function whose value at c changes by d has a sum that changes by d.     *)
LEMMA SumUpdate ==
  ASSUME NEW f, NEW g, NEW S, IsFiniteSet(S), NEW c \in S, NEW d \in Int,
         \A x \in S : f[x] \in Int, g[c] = f[c] + d, \A x \in S \ {c} : g[x] = f[x]
  PROVE  SumFunctionOnSet(g, S) = SumFunctionOnSet(f, S) + d
<1>1. IsFiniteSet(S \ {c})
  BY FS_Subset
<1>2. \A x \in S : g[x] \in Int
  OBVIOUS
<1>3. SumFunctionOnSet(f, S) = f[c] + SumFunctionOnSet(f, S \ {c})
  BY SumSplit
<1>4. SumFunctionOnSet(g, S) = g[c] + SumFunctionOnSet(g, S \ {c})
  BY <1>2, SumSplit
<1>5. SumFunctionOnSet(f, S \ {c}) = SumFunctionOnSet(g, S \ {c})
  BY <1>1, SumAgrees
<1>6. SumFunctionOnSet(f, S \ {c}) \in Int
  BY <1>1, SumIsInt
<1> QED
  BY <1>3, <1>4, <1>5, <1>6

LEMMA SumOfZeros ==
  ASSUME NEW f, NEW S, IsFiniteSet(S), \A x \in S : f[x] = 0
  PROVE  SumFunctionOnSet(f, S) = 0
<1> DEFINE F == {s \in SUBSET S : SumFunctionOnSet(f, s) = 0}
<1>1. ASSUME NEW s \in SUBSET S, \A v \in SUBSET s : v # s => v \in F
      PROVE  s \in F
  <2>1. CASE s = {}
    BY <2>1, SumOfNothing
  <2>2. CASE s # {}
    <3> DEFINE c == Chosen(s)
               rest == s \ {c}
    <3>1. c \in s /\ IsFiniteSet(s) /\ rest \in SUBSET s /\ rest # s
      BY <2>2, ChosenIsIn, FS_Subset
    <3>2. SumFunctionOnSet(f, s) = f[c] + SumFunctionOnSet(f, rest)
      BY <2>2, <3>1, SumChosen
    <3>3. SumFunctionOnSet(f, rest) = 0 /\ f[c] = 0
      BY <1>1, <3>1
    <3> QED
      BY <3>2, <3>3
  <2> QED
    BY <2>1, <2>2
<1> HIDE DEF F
<1>2. S \in F
  BY <1>1, FiniteInduction
<1> QED
  BY <1>2 DEF F

(* Sums over disjoint sets add up.                                           *)
LEMMA SumOfUnion ==
  ASSUME NEW f, NEW A, NEW B, IsFiniteSet(A), IsFiniteSet(B), A \cap B = {},
         \A x \in A \cup B : f[x] \in Int
  PROVE  SumFunctionOnSet(f, A \cup B) = SumFunctionOnSet(f, A) + SumFunctionOnSet(f, B)
<1> DEFINE sum(s) == SumFunctionOnSet(f, s)
           F == {s \in SUBSET B : sum(A \cup s) = sum(A) + sum(s)}
<1>0. sum(A) \in Int
  BY SumIsInt
<1>1. ASSUME NEW s \in SUBSET B, \A v \in SUBSET s : v # s => v \in F
      PROVE  s \in F
  <2>1. CASE s = {}
    <3>1. sum(s) = 0 /\ A \cup s = A
      BY <2>1, SumOfNothing
    <3>2. sum(A \cup s) = sum(A)
      BY <3>1, Zenon
    <3> HIDE DEF sum
    <3> QED
      BY <1>0, <3>1, <3>2
  <2>2. CASE s # {}
    <3>1. PICK x : x \in s
      BY <2>2
    <3>2. IsFiniteSet(s) /\ IsFiniteSet(A \cup s) /\ IsFiniteSet(s \ {x})
      BY FS_Subset, FS_Union
    <3>3. sum(s) = f[x] + sum(s \ {x})
      BY <3>1, <3>2, SumSplit
    <3>4. sum(A \cup s) = f[x] + sum((A \cup s) \ {x})
      BY <3>1, <3>2, SumSplit
    <3>5. (A \cup s) \ {x} = A \cup (s \ {x})
      BY <3>1
    <3>6. s \ {x} \in F
      BY <1>1, <3>1
    <3>7. sum(A \cup (s \ {x})) = sum(A) + sum(s \ {x})
      BY <3>6
    <3>8. f[x] \in Int /\ sum(s \ {x}) \in Int
      BY <3>1, <3>2, SumIsInt
    <3>9. sum((A \cup s) \ {x}) = sum(A \cup (s \ {x}))
      BY <3>5, Zenon
    <3> HIDE DEF sum
    <3>10. sum(A \cup s) = sum(A) + sum(s)
      BY <1>0, <3>3, <3>4, <3>7, <3>8, <3>9
    <3> QED
      BY <3>10
  <2> QED
    BY <2>1, <2>2
<1> HIDE DEF F
<1>2. B \in F
  BY <1>1, FiniteInduction
<1> QED
  BY <1>2 DEF F

(* A sum of numbers grows with its set.                                      *)
LEMMA SumGrows ==
  ASSUME NEW f, NEW B, IsFiniteSet(B), NEW A \in SUBSET B, \A x \in B : f[x] \in Nat
  PROVE  SumFunctionOnSet(f, A) <= SumFunctionOnSet(f, B)
<1>1. IsFiniteSet(A) /\ IsFiniteSet(B \ A) /\ A \cup (B \ A) = B
  BY FS_Subset
<1>2. SumFunctionOnSet(f, A \cup (B \ A)) = SumFunctionOnSet(f, A) + SumFunctionOnSet(f, B \ A)
  BY <1>1, SumOfUnion
<1>3. SumFunctionOnSet(f, A) \in Nat /\ SumFunctionOnSet(f, B \ A) \in Nat
  BY <1>1, SumIsNat
<1>4. SumFunctionOnSet(f, A \cup (B \ A)) = SumFunctionOnSet(f, B)
  BY <1>1, Zenon
<1> QED
  BY <1>2, <1>3, <1>4

=============================================================================
