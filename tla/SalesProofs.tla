---------------------------- MODULE SalesProofs ----------------------------
(***************************************************************************)
(* Selling through agents and through the public site: for every finite    *)
(* set of pilgrims, bookings and payouts, any number of agents, admins,    *)
(* customers and requests, commission stays with the binding that earned   *)
(* it, and a checkout that is sent again stays the one booking it made.    *)
(***************************************************************************)
EXTENDS AgentCommission, PublicCheckout, SumProofs

-----------------------------------------------------------------------------
(* AgentCommission: bindings and the commission that follows them *)

AgentTable == [Agents -> [aktif : BOOLEAN, upline : Agents \cup {NIHIL}]]

BindingRow == Kaitan \cup {[status |-> "absent", agen |-> NIHIL]}

BookedRow == [status : {"absent", "belum_lunas", "lunas"}, pax : SUBSET Jamaah, self : Agents \cup {NIHIL}]

PayoutRow == [agen : Agents, nominal : Amounts, status : {"pending", "disetujui", "ditolak"}]

MoveRow == [jamaah : Jamaah, agen : Agents, upline : Agents \cup {NIHIL},
            departed : SUBSET Pesanan, saldo : [Agents -> Int]]

(* Commission belongs to a booking that was made, and an open move knows the *)
(* pilgrim it moves.                                                         *)
CommissionInv ==
  /\ agen \in AgentTable
  /\ jamaah \in [Jamaah -> BindingRow]
  /\ pesanan \in [Pesanan -> BookedRow]
  /\ berangkat \subseteq Pesanan
  /\ komisi \subseteq Rows /\ IsFiniteSet(komisi)
  /\ cair \in [Pencairan -> PayoutRow \cup {NoPayout}]
  /\ lunas \in [Pesanan -> AgentTable \cup {NIHIL}]
  /\ pindah \in [Movers -> MoveRow \cup {NoMove}]
  /\ \A k \in komisi : pesanan[k.booking].status # "absent"
  /\ CommissionFollowsBinding

(* What a function returns for finitely many arguments is a finite set.      *)
LEMMA ImageIsFinite ==
  ASSUME NEW f, NEW S, IsFiniteSet(S)
  PROVE  IsFiniteSet({f[x] : x \in S})
<1> DEFINE T == {f[x] : x \in S}
           g == [x \in S |-> f[x]]
<1>1. g \in Surjection(S, T)
  BY DEF Surjection
<1> QED
  BY <1>1, FS_Surjection

LEMMA CommissionInvSays ==
  ASSUME CommissionInv
  PROVE  CommissionInvariant
<1>1. \A w \in Pencairan : cair[w] = NoPayout \/ cair[w] \in PayoutRow
  BY DEF CommissionInv
<1>2. \A b \in Pesanan : lunas[b] = NIHIL \/ lunas[b] \in AgentTable
  BY DEF CommissionInv
<1> QED
  BY <1>1, <1>2 DEF CommissionInv, CommissionInvariant, CommissionTypeOK, AgentTable, BindingRow, BookedRow, PayoutRow

(* What a binding may be. *)
LEMMA BindingIs ==
  /\ \A r \in BindingRow : /\ r.agen \in Agents \cup {NIHIL}
                           /\ (r.agen # NIHIL) <=> r.status = "terikat_agen"
  /\ \A k \in Kaitan : k \in BindingRow /\ k.status # "absent"
  /\ \A a \in Agents : [status |-> "terikat_agen", agen |-> a] \in Kaitan
  /\ [status |-> "tanpa_agen", agen |-> NIHIL] \in Kaitan
<1>1. \A a \in Agents : a # NIHIL
  BY AgentCommissionAssumption
<1>2. Unbound.agen = NIHIL /\ Unbound.status = "belum_ditentukan"
  BY DEF Unbound
<1>3. ASSUME NEW a \in Agents
      PROVE  [status |-> "terikat_agen", agen |-> a] \in Kaitan
  BY DEF Kaitan
<1>4. [status |-> "tanpa_agen", agen |-> NIHIL] \in Kaitan
  BY DEF Kaitan
<1>5. ASSUME NEW k \in Kaitan
      PROVE  /\ k \in BindingRow /\ k.status # "absent"
             /\ k.agen \in Agents \cup {NIHIL} /\ (k.agen # NIHIL <=> k.status = "terikat_agen")
  BY <1>1, <1>2 DEF BindingRow, Kaitan
<1>6. ASSUME NEW r \in BindingRow
      PROVE  r.agen \in Agents \cup {NIHIL} /\ (r.agen # NIHIL <=> r.status = "terikat_agen")
  <2>1. CASE r = [status |-> "absent", agen |-> NIHIL]
    BY <2>1
  <2> QED
    BY <1>5, <2>1 DEF BindingRow
<1> QED
  BY <1>3, <1>4, <1>5, <1>6

-----------------------------------------------------------------------------
(* Balances *)

(* What rows are worth, and what payouts take.                               *)
Worth == [k \in Rows |-> Nominal(k)]

Taken(payouts) == [w \in Pencairan |-> payouts[w].nominal]

(* The rows and payouts that count for an agent.                             *)
EarnedRows(a) == {k \in komisi : k.penerima = a /\ k.booking \in berangkat}

Payouts(a) == {w \in Pencairan : cair[w].agen = a /\ cair[w].status # "ditolak"}

LEMMA NominalIsNat ==
  ASSUME NEW k
  PROVE  Nominal(k) \in Nat
BY AgentCommissionAssumption DEF Nominal

(* The sum over a set is the one SumProofs speaks of.                        *)
LEMMA WorthIsSum ==
  ASSUME NEW S, S \subseteq Rows, IsFiniteSet(S)
  PROVE  MapThenSumSet(Nominal, S) = SumFunctionOnSet(Worth, S)
<1> DEFINE Adds(g) == g = [s \in SUBSET S |-> IF s = {} THEN 0 ELSE Nominal(Chosen(s)) + g[s \ {Chosen(s)}]]
           h == CHOOSE g : Adds(g)
<1>1. MapThenSumSet(Nominal, S) = h[S]
  BY DEF MapThenSumSet, MapThenFoldSet, Chosen
<1>2. \A s \in SUBSET S : s # {} => Worth[Chosen(s)] = Nominal(Chosen(s))
  BY ChosenIsIn DEF Worth
<1>3. ASSUME NEW g
      PROVE  Adds(g) <=> Adder(g, Worth, S)
  <2>1. [s \in SUBSET S |-> IF s = {} THEN 0 ELSE Nominal(Chosen(s)) + g[s \ {Chosen(s)}]]
          = [s \in SUBSET S |-> IF s = {} THEN 0 ELSE Worth[Chosen(s)] + g[s \ {Chosen(s)}]]
    BY <1>2
  <2> QED
    BY <2>1 DEF Adder
<1> HIDE DEF Adds
<1>4. Adder(AnAdder(Worth, S), Worth, S)
  BY AdderExists
<1>5. Adder(h, Worth, S)
  BY <1>3, <1>4
<1>6. h[S] = AnAdder(Worth, S)[S]
  BY <1>4, <1>5, AddersAgree
<1> QED
  BY <1>1, <1>6, SumIsAdders

LEMMA TakenIsSum ==
  ASSUME NEW payouts, NEW S, S \subseteq Pencairan, IsFiniteSet(S)
  PROVE  MapThenSumSet(LAMBDA w : payouts[w].nominal, S) = SumFunctionOnSet(Taken(payouts), S)
<1> DEFINE Adds(g) == g = [s \in SUBSET S |-> IF s = {} THEN 0 ELSE payouts[Chosen(s)].nominal + g[s \ {Chosen(s)}]]
           h == CHOOSE g : Adds(g)
           f == Taken(payouts)
<1>1. MapThenSumSet(LAMBDA w : payouts[w].nominal, S) = h[S]
  BY DEF MapThenSumSet, MapThenFoldSet, Chosen
<1>2. \A s \in SUBSET S : s # {} => f[Chosen(s)] = payouts[Chosen(s)].nominal
  BY ChosenIsIn DEF Taken
<1> HIDE DEF f
<1>3. ASSUME NEW g
      PROVE  Adds(g) <=> Adder(g, f, S)
  <2>1. [s \in SUBSET S |-> IF s = {} THEN 0 ELSE payouts[Chosen(s)].nominal + g[s \ {Chosen(s)}]]
          = [s \in SUBSET S |-> IF s = {} THEN 0 ELSE f[Chosen(s)] + g[s \ {Chosen(s)}]]
    BY <1>2
  <2> QED
    BY <2>1 DEF Adder
<1> HIDE DEF Adds
<1>4. Adder(AnAdder(f, S), f, S)
  BY AdderExists
<1>5. Adder(h, f, S)
  BY <1>3, <1>4
<1>6. h[S] = AnAdder(f, S)[S]
  BY <1>4, <1>5, AddersAgree
<1> QED
  BY <1>1, <1>6, SumIsAdders DEF f

LEMMA BalanceIs ==
  ASSUME CommissionInv, NEW a \in Agents
  PROVE  /\ Tersedia(a) = SumFunctionOnSet(Worth, EarnedRows(a)) - SumFunctionOnSet(Taken(cair), Payouts(a))
         /\ SumFunctionOnSet(Worth, EarnedRows(a)) \in Nat
         /\ SumFunctionOnSet(Taken(cair), Payouts(a)) \in Nat
         /\ EarnedRows(a) \subseteq Rows /\ IsFiniteSet(EarnedRows(a))
         /\ Payouts(a) \subseteq Pencairan /\ IsFiniteSet(Payouts(a))
         /\ \A k \in Rows : Worth[k] \in Nat
         /\ \A w \in Pencairan : Taken(cair)[w] \in Nat
<1>1. /\ EarnedRows(a) \subseteq Rows /\ IsFiniteSet(EarnedRows(a))
      /\ Payouts(a) \subseteq Pencairan /\ IsFiniteSet(Payouts(a))
  BY FS_Subset, AgentCommissionAssumption DEF CommissionInv, EarnedRows, Payouts
<1>2. \A k \in Rows : Worth[k] \in Nat
  BY NominalIsNat DEF Worth
<1>3. \A w \in Pencairan : Taken(cair)[w] \in Nat
  <2>1. ASSUME NEW w \in Pencairan
        PROVE  cair[w].nominal \in Nat
    <3>1. CASE cair[w] = NoPayout
      BY <3>1 DEF NoPayout
    <3>2. CASE cair[w] \in PayoutRow
      BY <3>2, AgentCommissionAssumption DEF PayoutRow
    <3> QED
      BY <3>1, <3>2 DEF CommissionInv
  <2> QED
    BY <2>1 DEF Taken
<1>4. MapThenSumSet(Nominal, EarnedRows(a)) = SumFunctionOnSet(Worth, EarnedRows(a))
  BY <1>1, WorthIsSum
<1>5. MapThenSumSet(LAMBDA w : cair[w].nominal, Payouts(a)) = SumFunctionOnSet(Taken(cair), Payouts(a))
  BY <1>1, TakenIsSum
<1>6. Tersedia(a) = SumFunctionOnSet(Worth, EarnedRows(a)) - SumFunctionOnSet(Taken(cair), Payouts(a))
  BY <1>4, <1>5 DEF Tersedia, Bersih, EarnedRows, Payouts
<1> QED
  BY <1>1, <1>2, <1>3, <1>6, SumIsNat

-----------------------------------------------------------------------------
(* Every step keeps the invariant *)

LEMMA CommissionBegins ==
  ASSUME CommissionInit
  PROVE  CommissionInv
<1>1. agen \in AgentTable /\ lunas \in [Pesanan -> AgentTable \cup {NIHIL}]
  BY DEF CommissionInit, AgentTable
<1>2. PICK r : r = [status |-> "absent", agen |-> NIHIL]
  OBVIOUS
<1>3. jamaah \in [Jamaah -> BindingRow]
  BY DEF CommissionInit, BindingRow
<1>4. pesanan \in [Pesanan -> BookedRow]
  BY DEF CommissionInit, BookedRow
<1>5. /\ cair \in [Pencairan -> PayoutRow \cup {NoPayout}]
      /\ pindah \in [Movers -> MoveRow \cup {NoMove}]
      /\ berangkat = {} /\ komisi = {}
  BY DEF CommissionInit
<1> QED
  BY <1>1, <1>3, <1>4, <1>5, FS_EmptySet DEF CommissionInv, CommissionFollowsBinding

(* Steps that leave the commissions alone: bookings that were made stay, and *)
(* only pilgrims without commission change hands.                            *)
LEMMA KomisiStays ==
  ASSUME CommissionInv, komisi' = komisi,
         agen' \in AgentTable, jamaah' \in [Jamaah -> BindingRow], pesanan' \in [Pesanan -> BookedRow],
         berangkat' \subseteq Pesanan, cair' \in [Pencairan -> PayoutRow \cup {NoPayout}],
         lunas' \in [Pesanan -> AgentTable \cup {NIHIL}], pindah' \in [Movers -> MoveRow \cup {NoMove}],
         \A b \in Pesanan : pesanan[b].status # "absent" =>
           pesanan'[b].status # "absent" /\ pesanan'[b].self = pesanan[b].self,
         \A j \in Jamaah : jamaah[j].status = "terikat_agen" /\ RowsOf(j) # {} => jamaah'[j] = jamaah[j]
  PROVE  CommissionInv'
<1>1. ASSUME NEW k \in komisi
      PROVE  /\ k.booking \in Pesanan /\ k.jamaah \in Jamaah /\ RowsOf(k.jamaah) # {}
             /\ pesanan'[k.booking].status # "absent"
             /\ pesanan'[k.booking].self = NIHIL =>
                  /\ jamaah'[k.jamaah].status = "terikat_agen"
                  /\ k.jenis = "langsung" => k.penerima = jamaah'[k.jamaah].agen
  <2>1. k.booking \in Pesanan /\ k.jamaah \in Jamaah /\ RowsOf(k.jamaah) # {}
    BY DEF CommissionInv, Rows, RowsOf
  <2>2. pesanan[k.booking].status # "absent"
    BY DEF CommissionInv
  <2>3. pesanan[k.booking].self = NIHIL =>
          /\ jamaah[k.jamaah].status = "terikat_agen"
          /\ k.jenis = "langsung" => k.penerima = jamaah[k.jamaah].agen
    BY DEF CommissionInv, CommissionFollowsBinding
  <2> QED
    BY <2>1, <2>2, <2>3
<1>2. komisi' \subseteq Rows /\ IsFiniteSet(komisi')
  BY DEF CommissionInv
<1>3. CommissionFollowsBinding'
  BY <1>1 DEF CommissionFollowsBinding
<1> QED
  BY <1>1, <1>2, <1>3 DEF CommissionInv

(* What a step that touches nothing leaves in place.                         *)
LEMMA CommissionRests ==
  ASSUME CommissionInv
  PROVE  /\ agen \in AgentTable /\ jamaah \in [Jamaah -> BindingRow] /\ pesanan \in [Pesanan -> BookedRow]
         /\ berangkat \subseteq Pesanan /\ komisi \subseteq Rows
         /\ cair \in [Pencairan -> PayoutRow \cup {NoPayout}]
         /\ lunas \in [Pesanan -> AgentTable \cup {NIHIL}] /\ pindah \in [Movers -> MoveRow \cup {NoMove}]
BY DEF CommissionInv

LEMMA IkatBinds ==
  ASSUME CommissionInv, NEW S \in SUBSET Jamaah, NEW a \in Agents \cup {NIHIL}
  PROVE  /\ Ikat(S, a) \in [Jamaah -> BindingRow]
         /\ \A j \in Jamaah : jamaah[j].status # "belum_ditentukan" => Ikat(S, a)[j] = jamaah[j]
<1>1. a # NIHIL => [status |-> "terikat_agen", agen |-> a] \in BindingRow
  BY BindingIs
<1>2. jamaah \in [Jamaah -> BindingRow]
  BY CommissionRests
<1> QED
  BY <1>1, <1>2 DEF Ikat

LEMMA PesanKeeps ==
  ASSUME CommissionInv, NEW b \in Pesanan, NEW S \in SUBSET Jamaah, NEW pic \in S,
         NEW a \in Agents \cup {NIHIL}, NEW self \in {NIHIL, a}, Pesan(b, S, pic, a, self)
  PROVE  CommissionInv'
<1>1. PICK row : row = [status |-> "belum_lunas", pax |-> S, self |-> self]
  OBVIOUS
<1>2. row \in BookedRow /\ row.status = "belum_lunas"
  BY <1>1 DEF BookedRow
<1>3. /\ pesanan' = [pesanan EXCEPT ![b] = row] /\ jamaah' = Ikat(S, a) /\ pesanan[b].status = "absent"
      /\ UNCHANGED <<agen, berangkat, komisi, cair, lunas, pindah>>
  BY <1>1 DEF Pesan
<1>4. /\ pesanan' \in [Pesanan -> BookedRow] /\ pesanan'[b] = row
      /\ \A c \in Pesanan \ {b} : pesanan'[c] = pesanan[c]
  BY <1>2, <1>3, CommissionRests
<1>5. /\ jamaah' \in [Jamaah -> BindingRow]
      /\ \A j \in Jamaah : jamaah[j].status = "terikat_agen" => jamaah'[j] = jamaah[j]
  BY <1>3, IkatBinds
<1> QED
  BY <1>3, <1>4, <1>5, CommissionRests, KomisiStays

(* What a payment in full earns: rows of the booking and its pax, and a      *)
(* commission only for who is bound to an agent.                             *)
LEMMA EarnedFits ==
  ASSUME CommissionInv, NEW b \in Pesanan, NEW j \in pesanan[b].pax, NEW seen \in AgentTable
  PROVE  /\ Earned(b, j, seen) \subseteq Rows /\ IsFiniteSet(Earned(b, j, seen))
         /\ \A k \in Earned(b, j, seen) :
              /\ k.booking = b /\ k.jamaah = j
              /\ pesanan[b].self = NIHIL =>
                   /\ jamaah[j].status = "terikat_agen"
                   /\ k.jenis = "langsung" => k.penerima = jamaah[j].agen
<1>1. PICK a : a = Seller(b, j)
  OBVIOUS
<1>2. j \in Jamaah /\ jamaah[j] \in BindingRow /\ pesanan[b] \in BookedRow
  BY CommissionRests DEF BookedRow
<1>3. a \in Agents \cup {NIHIL} /\ (pesanan[b].self = NIHIL => a = jamaah[j].agen)
  BY <1>1, <1>2, BindingIs DEF Seller, BookedRow
<1>4. CASE a = NIHIL \/ j \in Infant
  <2>1. Earned(b, j, seen) = {}
    BY <1>1, <1>4 DEF Earned
  <2> QED
    BY <2>1, FS_EmptySet
<1>5. CASE a # NIHIL /\ j \notin Infant
  <2>1. PICK up : up = seen[a].upline
    OBVIOUS
  <2>2. a \in Agents /\ up \in Agents \cup {NIHIL}
    BY <1>3, <1>5, <2>1 DEF AgentTable
  <2>3. PICK k1 : k1 = [booking |-> b, jamaah |-> j, jenis |-> "langsung", penerima |-> a]
    OBVIOUS
  <2>4. PICK k2 : k2 = [booking |-> b, jamaah |-> j, jenis |-> "pembinaan", penerima |-> up]
    OBVIOUS
  <2>5. Earned(b, j, seen) \subseteq {k1, k2} /\ (k2 \in Earned(b, j, seen) => up # NIHIL)
    <3>1. \A k \in Earned(b, j, seen) : k = k1 \/ (k = k2 /\ up # NIHIL)
      BY <1>1, <1>5, <2>1, <2>3, <2>4 DEF Earned
    <3>2. k1 # k2
      BY <2>3, <2>4
    <3> QED
      BY <3>1, <3>2
  <2>6. k1 \in Rows /\ k1.booking = b /\ k1.jamaah = j /\ k1.jenis = "langsung" /\ k1.penerima = a
    BY <1>2, <2>2, <2>3 DEF Rows
  <2>7. /\ up # NIHIL => k2 \in Rows
        /\ k2.booking = b /\ k2.jamaah = j /\ k2.jenis = "pembinaan"
    <3>1. k2.booking = b /\ k2.jamaah = j /\ k2.jenis = "pembinaan"
      BY <2>4
    <3>2. CASE up # NIHIL
      <4>1. up \in Agents
        BY <2>2, <3>2
      <4> QED
        BY <1>2, <2>4, <3>1, <4>1 DEF Rows
    <3> QED
      BY <3>1, <3>2
  <2>8. IsFiniteSet({k1, k2})
    <3>1. IsFiniteSet({k1}) /\ IsFiniteSet({k2}) /\ {k1, k2} = {k1} \cup {k2}
      BY FS_Singleton
    <3> QED
      BY <3>1, FS_Union
  <2>9. pesanan[b].self = NIHIL => jamaah[j].status = "terikat_agen" /\ a = jamaah[j].agen
    BY <1>2, <1>3, <1>5, BindingIs
  <2> QED
    BY <2>5, <2>6, <2>7, <2>8, <2>9, FS_Subset
<1> QED
  BY <1>4, <1>5

LEMMA LunasCommitKeeps ==
  ASSUME CommissionInv, NEW b \in Pesanan, LunasCommit(b)
  PROVE  CommissionInv'
<1>1. PICK seen : seen = lunas[b]
  OBVIOUS
<1>2. seen \in AgentTable
  BY <1>1, CommissionRests DEF LunasCommit
<1>3. PICK new : new = UNION {Earned(b, j, seen) : j \in pesanan[b].pax}
  OBVIOUS
<1>4. komisi' = komisi \cup new /\ UNCHANGED <<agen, jamaah, berangkat, cair, pindah>>
  BY <1>1, <1>3 DEF LunasCommit
<1>5. pesanan[b] \in BookedRow /\ pesanan[b].pax \subseteq Jamaah
  BY CommissionRests DEF BookedRow
<1>6. \A k \in new : /\ k \in Rows /\ k.booking = b
                     /\ pesanan[b].self = NIHIL =>
                          /\ jamaah[k.jamaah].status = "terikat_agen"
                          /\ k.jenis = "langsung" => k.penerima = jamaah[k.jamaah].agen
  <2> SUFFICES ASSUME NEW k \in new
               PROVE  /\ k \in Rows /\ k.booking = b
                      /\ pesanan[b].self = NIHIL =>
                           /\ jamaah[k.jamaah].status = "terikat_agen"
                           /\ k.jenis = "langsung" => k.penerima = jamaah[k.jamaah].agen
    OBVIOUS
  <2>1. PICK j \in pesanan[b].pax : k \in Earned(b, j, seen)
    BY <1>3
  <2> QED
    BY <1>2, <2>1, EarnedFits
<1>7. IsFiniteSet(new)
  <2>1. IsFiniteSet(pesanan[b].pax)
    BY <1>5, FS_Subset, AgentCommissionAssumption
  <2> DEFINE of == [j \in pesanan[b].pax |-> Earned(b, j, seen)]
  <2>2. IsFiniteSet({Earned(b, j, seen) : j \in pesanan[b].pax})
    <3>1. IsFiniteSet({of[j] : j \in pesanan[b].pax})
      <4> HIDE DEF of
      <4> QED
        BY <2>1, ImageIsFinite
    <3>2. {of[j] : j \in pesanan[b].pax} = {Earned(b, j, seen) : j \in pesanan[b].pax}
      OBVIOUS
    <3> QED
      BY <3>1, <3>2, Zenon
  <2>3. \A E \in {Earned(b, j, seen) : j \in pesanan[b].pax} : IsFiniteSet(E)
    BY <1>2, EarnedFits
  <2> QED
    BY <1>3, <2>2, <2>3, FS_UNION
<1>8. PICK row : row = [pesanan[b] EXCEPT !.status = "lunas"]
  OBVIOUS
<1>9. row \in BookedRow /\ row.status = "lunas" /\ row.self = pesanan[b].self
  BY <1>5, <1>8 DEF BookedRow
<1>10. pesanan' = [pesanan EXCEPT ![b] = row] /\ lunas' = [lunas EXCEPT ![b] = NIHIL]
  BY <1>8 DEF LunasCommit
<1>11. /\ pesanan' \in [Pesanan -> BookedRow] /\ pesanan'[b] = row
       /\ \A c \in Pesanan \ {b} : pesanan'[c] = pesanan[c]
       /\ lunas' \in [Pesanan -> AgentTable \cup {NIHIL}]
  BY <1>9, <1>10, CommissionRests
<1>12. komisi' \subseteq Rows /\ IsFiniteSet(komisi')
  BY <1>4, <1>6, <1>7, FS_Union DEF CommissionInv
<1>13. ASSUME NEW k \in komisi'
       PROVE  /\ pesanan'[k.booking].status # "absent"
              /\ pesanan'[k.booking].self = NIHIL =>
                   /\ jamaah'[k.jamaah].status = "terikat_agen"
                   /\ k.jenis = "langsung" => k.penerima = jamaah'[k.jamaah].agen
  <2>1. CASE k \in new
    BY <1>4, <1>6, <1>9, <1>11, <2>1
  <2>2. CASE k \in komisi
    <3>1. k.booking \in Pesanan
      BY <2>2 DEF CommissionInv, Rows
    <3>2. pesanan'[k.booking].status # "absent" /\ pesanan'[k.booking].self = pesanan[k.booking].self
      BY <1>9, <1>11, <2>2, <3>1 DEF CommissionInv
    <3> QED
      BY <1>4, <2>2, <3>2 DEF CommissionInv, CommissionFollowsBinding
  <2> QED
    BY <1>4, <2>1, <2>2
<1>14. CommissionFollowsBinding'
  BY <1>13 DEF CommissionFollowsBinding
<1> QED
  BY <1>4, <1>11, <1>12, <1>13, <1>14 DEF CommissionInv

LEMMA BookingStepKeeps ==
  ASSUME CommissionInv, NEW b \in Pesanan, BookingStep(b)
  PROVE  CommissionInv'
<1>0. pesanan[b] \in BookedRow
  BY CommissionRests
<1>1. ASSUME NEW S \in SUBSET Jamaah, NEW pic \in S, NEW a \in Agents \cup {NIHIL},
             NEW self \in {NIHIL, a}, Pesan(b, S, pic, a, self)
      PROVE  CommissionInv'
  BY <1>1, PesanKeeps
<1>2. CASE LunasBegin(b)
  <2>1. lunas' \in [Pesanan -> AgentTable \cup {NIHIL}]
    BY <1>2, CommissionRests DEF LunasBegin
  <2> QED
    BY <1>2, <2>1, CommissionRests, KomisiStays DEF LunasBegin
<1>3. CASE LunasCommit(b)
  BY <1>3, LunasCommitKeeps
<1>4. ASSUME NEW row \in BookedRow, row.status # "absent" \/ pesanan[b].status = "absent",
             row.self = pesanan[b].self, pesanan' = [pesanan EXCEPT ![b] = row],
             UNCHANGED <<agen, jamaah, berangkat, komisi, cair, lunas, pindah>>
      PROVE  CommissionInv'
  <2>1. /\ pesanan' \in [Pesanan -> BookedRow] /\ pesanan'[b] = row
        /\ \A c \in Pesanan \ {b} : pesanan'[c] = pesanan[c]
    BY <1>4, CommissionRests
  <2> QED
    BY <1>4, <2>1, CommissionRests, KomisiStays
<1>5. CASE Mundur(b)
  <2>1. PICK row : row = [pesanan[b] EXCEPT !.status = "belum_lunas"]
    OBVIOUS
  <2>2. row \in BookedRow /\ row.status = "belum_lunas" /\ row.self = pesanan[b].self
    BY <1>0, <2>1 DEF BookedRow
  <2>3. pesanan' = [pesanan EXCEPT ![b] = row] /\ UNCHANGED <<agen, jamaah, berangkat, komisi, cair, lunas, pindah>>
    BY <1>5, <2>1 DEF Mundur
  <2> QED
    BY <1>4, <2>2, <2>3
<1>6. ASSUME NEW j \in Jamaah, BatalPax(b, j)
      PROVE  CommissionInv'
  <2>1. PICK row : row = [pesanan[b] EXCEPT !.pax = pesanan[b].pax \ {j}]
    OBVIOUS
  <2>2. row \in BookedRow /\ row.status = pesanan[b].status /\ row.self = pesanan[b].self
    BY <1>0, <2>1 DEF BookedRow
  <2>3. pesanan' = [pesanan EXCEPT ![b] = row] /\ UNCHANGED <<agen, jamaah, berangkat, komisi, cair, lunas, pindah>>
    BY <1>0, <1>6, <2>1, CommissionRests DEF BatalPax, BookedRow
  <2> QED
    BY <1>4, <2>2, <2>3
<1>7. CASE Berangkat(b) \/ Undur(b)
  <2>1. berangkat' \subseteq Pesanan /\ UNCHANGED <<agen, jamaah, pesanan, komisi, cair, lunas, pindah>>
    BY <1>7, CommissionRests DEF Berangkat, Undur
  <2> QED
    BY <2>1, CommissionRests, KomisiStays
<1> QED
  BY <1>1, <1>2, <1>3, <1>5, <1>6, <1>7 DEF BookingStep

LEMMA PayoutStepKeeps ==
  ASSUME CommissionInv, NEW w \in Pencairan, PayoutStep(w)
  PROVE  CommissionInv'
<1>1. UNCHANGED <<agen, jamaah, pesanan, berangkat, komisi, lunas, pindah>>
  BY DEF PayoutStep, AjukanPencairan, SetujuiPencairan, TolakPencairan
<1>2. ASSUME NEW row \in PayoutRow, cair' = [cair EXCEPT ![w] = row]
      PROVE  cair' \in [Pencairan -> PayoutRow \cup {NoPayout}]
  BY <1>2, CommissionRests
<1>3. ASSUME NEW a \in Agents, NEW n \in Amounts, AjukanPencairan(w, a, n)
      PROVE  cair' \in [Pencairan -> PayoutRow \cup {NoPayout}]
  <2>1. PICK row : row = [agen |-> a, nominal |-> n, status |-> "pending"]
    OBVIOUS
  <2>2. row \in PayoutRow /\ cair' = [cair EXCEPT ![w] = row]
    BY <1>3, <2>1 DEF AjukanPencairan, PayoutRow
  <2> QED
    BY <1>2, <2>2
<1>4. ASSUME NEW s \in {"disetujui", "ditolak"}, cair[w].status = "pending",
             cair' = [cair EXCEPT ![w].status = s]
      PROVE  cair' \in [Pencairan -> PayoutRow \cup {NoPayout}]
  <2>1. cair[w] \in PayoutRow
    BY <1>4, CommissionRests DEF NoPayout
  <2>2. PICK row : row = [cair[w] EXCEPT !.status = s]
    OBVIOUS
  <2>3. row \in PayoutRow
    BY <2>1, <2>2 DEF PayoutRow
  <2>4. cair' = [cair EXCEPT ![w] = row]
    BY <1>4, <2>2
  <2> QED
    BY <1>2, <2>3, <2>4
<1>5. cair' \in [Pencairan -> PayoutRow \cup {NoPayout}]
  BY <1>3, <1>4 DEF PayoutStep, SetujuiPencairan, TolakPencairan
<1> QED
  BY <1>1, <1>5, CommissionRests, KomisiStays

(* What an admin binds a pilgrim to is a binding.                            *)
LEMMA BoundIs ==
  ASSUME CommissionInv, NEW j \in Jamaah, NEW a \in Agents \cup {NIHIL}
  PROVE  /\ Bound(j, a) \in [Jamaah -> BindingRow]
         /\ \A i \in Jamaah \ {j} : Bound(j, a)[i] = jamaah[i]
         /\ a # NIHIL => Bound(j, a)[j].status = "terikat_agen" /\ Bound(j, a)[j].agen = a
<1>1. PICK row : row = IF a = NIHIL THEN [status |-> "tanpa_agen", agen |-> NIHIL]
                                    ELSE [status |-> "terikat_agen", agen |-> a]
  OBVIOUS
<1>2. row \in BindingRow /\ (a # NIHIL => row.status = "terikat_agen" /\ row.agen = a)
  BY <1>1, BindingIs
<1>3. Bound(j, a) = [jamaah EXCEPT ![j] = row]
  BY <1>1 DEF Bound
<1> QED
  BY <1>2, <1>3, CommissionRests

LEMMA BindingStepKeeps ==
  ASSUME CommissionInv, NEW j \in Jamaah, BindingStep(j)
  PROVE  CommissionInv'
<1>1. ASSUME NEW k \in Kaitan, JamaahBaru(j, k)
      PROVE  CommissionInv'
  <2>1. jamaah' \in [Jamaah -> BindingRow] /\ \A i \in Jamaah \ {j} : jamaah'[i] = jamaah[i]
    BY <1>1, CommissionRests, BindingIs DEF JamaahBaru
  <2>2. jamaah[j].status = "absent" /\ UNCHANGED <<agen, pesanan, berangkat, komisi, cair, lunas, pindah>>
    BY <1>1 DEF JamaahBaru
  <2> QED
    BY <2>1, <2>2, CommissionRests, KomisiStays
<1>2. ASSUME NEW a \in Agents \cup {NIHIL}, GantiKaitan(j, a)
      PROVE  CommissionInv'
  <2>1. jamaah' = Bound(j, a) /\ RowsOf(j) = {} /\ UNCHANGED <<agen, pesanan, berangkat, komisi, cair, lunas, pindah>>
    BY <1>2 DEF GantiKaitan
  <2>2. jamaah' \in [Jamaah -> BindingRow] /\ \A i \in Jamaah \ {j} : jamaah'[i] = jamaah[i]
    BY <2>1, BoundIs
  <2> QED
    BY <2>1, <2>2, CommissionRests, KomisiStays
<1>3. ASSUME NEW m \in Movers, NEW a \in Agents, PindahkanBegin(m, j, a)
      PROVE  CommissionInv'
  <2>1. PICK saldo : saldo = [x \in Agents |-> Tersedia(x)]
    OBVIOUS
  <2>2. saldo \in [Agents -> Int]
    <3>1. ASSUME NEW x \in Agents
          PROVE  Tersedia(x) \in Int
      BY BalanceIs
    <3> QED
      BY <2>1, <3>1
  <2>3. PICK up : up = agen[a].upline
    OBVIOUS
  <2>4. up \in Agents \cup {NIHIL}
    BY <2>3, CommissionRests DEF AgentTable
  <2>5. PICK row : row = [jamaah |-> j, agen |-> a, upline |-> up, departed |-> berangkat, saldo |-> saldo]
    OBVIOUS
  <2>6. row \in MoveRow
    BY <2>2, <2>4, <2>5, CommissionRests DEF MoveRow
  <2>7. pindah' = [pindah EXCEPT ![m] = row] /\ UNCHANGED <<agen, jamaah, pesanan, berangkat, komisi, cair, lunas>>
    BY <1>3, <2>1, <2>3, <2>5 DEF PindahkanBegin
  <2>8. pindah' \in [Movers -> MoveRow \cup {NoMove}]
    BY <2>6, <2>7, CommissionRests
  <2> QED
    BY <2>7, <2>8, CommissionRests, KomisiStays
<1> QED
  BY <1>1, <1>2, <1>3 DEF BindingStep

(* The rows a move writes.                                                   *)
LEMMA MovedRows ==
  ASSUME CommissionInv, NEW m \in Movers, pindah[m] # NoMove
  PROVE  /\ pindah[m] \in MoveRow
         /\ Moved(m) \subseteq Rows /\ IsFiniteSet(Moved(m))
         /\ \A k \in Moved(m) :
              /\ k.jamaah = pindah[m].jamaah
              /\ k.jenis = "langsung" => k.penerima = pindah[m].agen
              /\ \E r \in RowsOf(pindah[m].jamaah) :
                   /\ k.booking = r.booking /\ k.jenis = r.jenis
                   /\ k.penerima = Target(m, r) /\ Target(m, r) # NIHIL
<1>1. pindah[m] \in MoveRow
  BY CommissionRests
<1>2. PICK j : j = pindah[m].jamaah
  OBVIOUS
<1>3. RowsOf(j) \subseteq Rows /\ IsFiniteSet(RowsOf(j))
  BY FS_Subset DEF CommissionInv, RowsOf
<1>4. ASSUME NEW r \in RowsOf(j), Target(m, r) # NIHIL
      PROVE  Target(m, r) \in Agents /\ (r.jenis = "langsung" => Target(m, r) = pindah[m].agen)
  BY <1>1, <1>4 DEF Target, MoveRow
<1>5. ASSUME NEW k \in Moved(m)
      PROVE  /\ k \in Rows /\ k.jamaah = j
             /\ k.jenis = "langsung" => k.penerima = pindah[m].agen
             /\ \E r \in RowsOf(j) :
                   /\ k.booking = r.booking /\ k.jenis = r.jenis
                   /\ k.penerima = Target(m, r) /\ Target(m, r) # NIHIL
  <2>1. PICK r \in RowsOf(j) : k = [r EXCEPT !.penerima = Target(m, r)] /\ Target(m, r) # NIHIL
    BY <1>2 DEF Moved
  <2>2. PICK t : t = Target(m, r)
    OBVIOUS
  <2>3. t \in Agents /\ r \in Rows /\ r.jamaah = j
    BY <1>3, <1>4, <2>1, <2>2 DEF RowsOf
  <2>4. k \in Rows /\ k.booking = r.booking /\ k.jamaah = r.jamaah /\ k.jenis = r.jenis /\ k.penerima = t
    BY <2>1, <2>2, <2>3 DEF Rows
  <2> QED
    BY <1>4, <2>1, <2>2, <2>3, <2>4
<1>6. IsFiniteSet(Moved(m))
  <2> DEFINE moved == [r \in RowsOf(j) |-> [r EXCEPT !.penerima = Target(m, r)]]
  <2>1. Moved(m) \subseteq {moved[r] : r \in RowsOf(j)}
    BY <1>2 DEF Moved
  <2> HIDE DEF moved
  <2>2. IsFiniteSet({moved[r] : r \in RowsOf(j)})
    BY <1>3, ImageIsFinite
  <2> QED
    BY <2>1, <2>2, FS_Subset
<1> QED
  BY <1>1, <1>2, <1>5, <1>6

LEMMA PindahkanCommitKeeps ==
  ASSUME CommissionInv, NEW m \in Movers, PindahkanCommit(m)
  PROVE  CommissionInv'
<1>1. PICK j : j = pindah[m].jamaah
  OBVIOUS
<1>2. PICK a : a = pindah[m].agen
  OBVIOUS
<1>3. j \in Jamaah /\ a \in Agents /\ a # NIHIL
  BY <1>1, <1>2, MovedRows, AgentCommissionAssumption DEF PindahkanCommit, MoveRow
<1>4. /\ komisi' = (komisi \ RowsOf(j)) \cup Moved(m) /\ jamaah' = Bound(j, a)
      /\ UNCHANGED <<agen, pesanan, berangkat, cair, lunas>>
  BY <1>1, <1>2 DEF PindahkanCommit
<1>5. /\ jamaah' \in [Jamaah -> BindingRow] /\ jamaah'[j].status = "terikat_agen" /\ jamaah'[j].agen = a
      /\ \A i \in Jamaah \ {j} : jamaah'[i] = jamaah[i]
  BY <1>3, <1>4, BoundIs
<1>6. pindah' \in [Movers -> MoveRow \cup {NoMove}]
  BY CommissionRests DEF PindahkanCommit
<1>7. komisi' \subseteq Rows /\ IsFiniteSet(komisi')
  <2>1. IsFiniteSet(komisi \ RowsOf(j)) /\ komisi \subseteq Rows
    BY FS_Subset DEF CommissionInv
  <2>2. Moved(m) \subseteq Rows /\ IsFiniteSet(Moved(m))
    BY MovedRows DEF PindahkanCommit
  <2> QED
    BY <1>4, <2>1, <2>2, FS_Union
<1>8. ASSUME NEW k \in komisi'
      PROVE  /\ pesanan'[k.booking].status # "absent"
             /\ pesanan'[k.booking].self = NIHIL =>
                  /\ jamaah'[k.jamaah].status = "terikat_agen"
                  /\ k.jenis = "langsung" => k.penerima = jamaah'[k.jamaah].agen
  <2>1. CASE k \in komisi \ RowsOf(j)
    <3>1. k.jamaah \in Jamaah \ {j}
      BY <2>1 DEF CommissionInv, Rows, RowsOf
    <3> QED
      BY <1>4, <1>5, <2>1, <3>1 DEF CommissionInv, CommissionFollowsBinding
  <2>2. CASE k \in Moved(m)
    <3>1. k.jamaah = j /\ (k.jenis = "langsung" => k.penerima = a)
      BY <1>1, <1>2, <2>2, MovedRows DEF PindahkanCommit
    <3>2. PICK r \in RowsOf(j) : k.booking = r.booking
      BY <1>1, <2>2, MovedRows DEF PindahkanCommit
    <3>3. pesanan[k.booking].status # "absent"
      BY <3>2 DEF CommissionInv, RowsOf
    <3> QED
      BY <1>4, <1>5, <3>1, <3>3
  <2> QED
    BY <1>4, <2>1, <2>2
<1>9. CommissionFollowsBinding'
  BY <1>8 DEF CommissionFollowsBinding
<1> QED
  BY <1>4, <1>5, <1>6, <1>7, <1>8, <1>9, CommissionRests DEF CommissionInv

LEMMA CommissionKept ==
  ASSUME CommissionInv, [CommissionNext]_komisiVars
  PROVE  CommissionInv'
<1>1. ASSUME NEW m \in Movers, PindahkanFails(m)
      PROVE  CommissionInv'
  <2>1. pindah' \in [Movers -> MoveRow \cup {NoMove}]
    BY <1>1, CommissionRests DEF PindahkanFails
  <2> QED
    BY <1>1, <2>1, CommissionRests, KomisiStays DEF PindahkanFails
<1>2. ASSUME NEW a \in Agents, NEW row, row \in [aktif : BOOLEAN, upline : Agents \cup {NIHIL}],
             agen' = [agen EXCEPT ![a] = row],
             UNCHANGED <<jamaah, pesanan, berangkat, komisi, cair, lunas, pindah>>
      PROVE  CommissionInv'
  <2>1. agen' \in AgentTable
    BY <1>2, CommissionRests DEF AgentTable
  <2> QED
    BY <1>2, <2>1, CommissionRests, KomisiStays
<1>3. ASSUME NEW a \in Suspendable, UbahStatus(a)
      PROVE  CommissionInv'
  <2>1. a \in Agents /\ agen[a] \in [aktif : BOOLEAN, upline : Agents \cup {NIHIL}]
    BY CommissionRests, AgentCommissionAssumption DEF AgentTable
  <2>2. PICK row : row = [agen[a] EXCEPT !.aktif = ~agen[a].aktif]
    OBVIOUS
  <2>3. row \in [aktif : BOOLEAN, upline : Agents \cup {NIHIL}]
    BY <2>1, <2>2
  <2>4. /\ agen' = [agen EXCEPT ![a] = row]
        /\ UNCHANGED <<jamaah, pesanan, berangkat, komisi, cair, lunas, pindah>>
    BY <1>3, <2>1, <2>2, CommissionRests DEF UbahStatus, AgentTable
  <2> QED
    BY <1>2, <2>1, <2>3, <2>4
<1>4. ASSUME NEW u \in Uplines, GantiUpline(u[1], u[2])
      PROVE  CommissionInv'
  <2>1. PICK a, up : a = u[1] /\ up = u[2]
    OBVIOUS
  <2>2. a \in Agents /\ up \in Agents \cup {NIHIL}
    BY <2>1, AgentCommissionAssumption
  <2>3. agen[a] \in [aktif : BOOLEAN, upline : Agents \cup {NIHIL}]
    BY <2>2, CommissionRests DEF AgentTable
  <2>4. PICK row : row = [agen[a] EXCEPT !.upline = up]
    OBVIOUS
  <2>5. row \in [aktif : BOOLEAN, upline : Agents \cup {NIHIL}]
    BY <2>2, <2>3, <2>4
  <2>6. /\ agen' = [agen EXCEPT ![a] = row]
        /\ UNCHANGED <<jamaah, pesanan, berangkat, komisi, cair, lunas, pindah>>
    BY <1>4, <2>1, <2>4 DEF GantiUpline
  <2> QED
    BY <1>2, <2>2, <2>5, <2>6
<1>5. CASE UNCHANGED komisiVars
  BY <1>5, CommissionRests, KomisiStays DEF komisiVars
<1> QED
  BY <1>1, <1>3, <1>4, <1>5, BookingStepKeeps, PayoutStepKeeps, BindingStepKeeps, PindahkanCommitKeeps
     DEF CommissionNext

(* However payments, rebindings and moves of commission interleave, the      *)
(* commission on a pilgrim is where his binding points.                      *)
THEOREM CommissionFollows == CommissionSpec => [](CommissionInv /\ CommissionInvariant)
<1>1. CommissionInit => CommissionInv
  BY CommissionBegins
<1>2. CommissionInv /\ [CommissionNext]_komisiVars => CommissionInv'
  BY CommissionKept
<1>3. CommissionInv => CommissionInvariant
  BY CommissionInvSays
<1> QED
  BY <1>1, <1>2, <1>3, PTL DEF CommissionSpec

LEMMA RebindingStep ==
  ASSUME CommissionInv, [CommissionNext]_komisiVars, NEW j \in Jamaah,
         jamaah[j].status \in {"terikat_agen", "tanpa_agen"}, jamaah'[j] # jamaah[j]
  PROVE  \/ \E a \in Agents \cup {NIHIL} : GantiKaitan(j, a)
         \/ \E m \in Movers : pindah[m].jamaah = j /\ PindahkanCommit(m)
<1>1. ASSUME NEW b \in Pesanan, BookingStep(b)
      PROVE  FALSE
  <2>1. ASSUME NEW S \in SUBSET Jamaah, NEW pic \in S, NEW a \in Agents \cup {NIHIL},
               NEW self \in {NIHIL, a}, Pesan(b, S, pic, a, self)
        PROVE  FALSE
    <3>1. jamaah' = Ikat(S, a)
      BY <2>1 DEF Pesan
    <3> QED
      BY <3>1, IkatBinds
  <2>2. jamaah' = jamaah
    BY <1>1, <2>1 DEF BookingStep, LunasBegin, LunasCommit, Mundur, BatalPax, Berangkat, Undur
  <2> QED
    BY <2>2
<1>2. ASSUME NEW i \in Jamaah, BindingStep(i)
      PROVE  \E a \in Agents \cup {NIHIL} : GantiKaitan(j, a)
  <2>1. ASSUME NEW k \in Kaitan, JamaahBaru(i, k)
        PROVE  FALSE
    BY <2>1, CommissionRests DEF JamaahBaru
  <2>2. ASSUME NEW a \in Agents \cup {NIHIL}, GantiKaitan(i, a)
        PROVE  GantiKaitan(j, a)
    <3>1. jamaah' = Bound(i, a)
      BY <2>2 DEF GantiKaitan
    <3>2. i = j
      BY <3>1, BoundIs
    <3> QED
      BY <2>2, <3>2
  <2>3. ASSUME NEW m \in Movers, NEW a \in Agents, PindahkanBegin(m, i, a)
        PROVE  FALSE
    BY <2>3 DEF PindahkanBegin
  <2> QED
    BY <1>2, <2>1, <2>2, <2>3 DEF BindingStep
<1>3. ASSUME NEW m \in Movers, PindahkanCommit(m)
      PROVE  pindah[m].jamaah = j
  <2>1. PICK i, a : i = pindah[m].jamaah /\ a = pindah[m].agen
    OBVIOUS
  <2>2. i \in Jamaah /\ a \in Agents \cup {NIHIL} /\ jamaah' = Bound(i, a)
    BY <1>3, <2>1, MovedRows DEF PindahkanCommit, MoveRow
  <2> QED
    BY <2>1, <2>2, BoundIs
<1>4. ASSUME NEW w \in Pencairan, PayoutStep(w)
      PROVE  FALSE
  BY <1>4 DEF PayoutStep, AjukanPencairan, SetujuiPencairan, TolakPencairan
<1>5. ~(\E m \in Movers : PindahkanFails(m)) /\ ~(\E a \in Suspendable : UbahStatus(a))
  BY DEF PindahkanFails, UbahStatus
<1>6. ~(\E u \in Uplines : GantiUpline(u[1], u[2])) /\ ~(UNCHANGED komisiVars)
  BY DEF GantiUpline, komisiVars
<1> QED
  BY <1>1, <1>2, <1>3, <1>4, <1>5, <1>6 DEF CommissionNext

(* A pilgrim bound to an agent, or to none for good, changes hands by an     *)
(* admin's override alone, never by booking with somebody else.              *)
THEOREM OnlyAdminsRebind == CommissionSpec => RebindingIsAnAdminsDecision
<1>1. CommissionInit => CommissionInv
  BY CommissionBegins
<1>2. CommissionInv /\ [CommissionNext]_komisiVars => CommissionInv'
  BY CommissionKept
<1>3. CommissionInv /\ [CommissionNext]_komisiVars =>
        [\A j \in Jamaah :
           jamaah[j].status \in {"terikat_agen", "tanpa_agen"} /\ jamaah'[j] # jamaah[j] =>
             \/ \E a \in Agents \cup {NIHIL} : GantiKaitan(j, a)
             \/ \E m \in Movers : pindah[m].jamaah = j /\ PindahkanCommit(m)]_komisiVars
  BY RebindingStep
<1> QED
  BY <1>1, <1>2, <1>3, PTL DEF CommissionSpec, RebindingIsAnAdminsDecision

-----------------------------------------------------------------------------
(* What a step does to a balance *)

(* A balance is the worth of the rows that count, less what payouts take.    *)
BalancesSay ==
  \A a \in Agents :
    /\ Tersedia(a) = SumFunctionOnSet(Worth, EarnedRows(a)) - SumFunctionOnSet(Taken(cair), Payouts(a))
    /\ SumFunctionOnSet(Worth, EarnedRows(a)) \in Nat
    /\ SumFunctionOnSet(Taken(cair), Payouts(a)) \in Nat
    /\ EarnedRows(a) \subseteq Rows /\ IsFiniteSet(EarnedRows(a))
    /\ Payouts(a) \subseteq Pencairan /\ IsFiniteSet(Payouts(a))
    /\ \A k \in Rows : Worth[k] \in Nat
    /\ \A w \in Pencairan : Taken(cair)[w] \in Nat

LEMMA BalancesSaid == CommissionInv => BalancesSay
BY BalanceIs DEF BalancesSay

LEMMA BalanceNext ==
  ASSUME CommissionInv', NEW a \in Agents, NEW E, E = EarnedRows(a)', NEW P, P = Payouts(a)'
  PROVE  /\ Tersedia(a)' = SumFunctionOnSet(Worth, E) - SumFunctionOnSet(Taken(cair'), P)
         /\ SumFunctionOnSet(Worth, E) \in Nat
         /\ SumFunctionOnSet(Taken(cair'), P) \in Nat
         /\ E \subseteq Rows /\ IsFiniteSet(E)
         /\ P \subseteq Pencairan /\ IsFiniteSet(P)
<1>1. CommissionInv' => BalancesSay'
  BY BalancesSaid, PTL
<1> QED
  BY <1>1 DEF BalancesSay, Worth, Taken

(* Rows that count stay, and payouts that count are none but those that did: *)
(* the balance does not fall.                                                *)
LEMMA BalanceHolds ==
  ASSUME CommissionInv, CommissionInv', NEW a \in Agents,
         EarnedRows(a) \subseteq EarnedRows(a)', Payouts(a)' \subseteq Payouts(a),
         \A w \in Payouts(a)' : cair'[w].nominal = cair[w].nominal
  PROVE  Tersedia(a)' >= Tersedia(a)
<1>1. PICK E, P : E = EarnedRows(a) /\ P = Payouts(a)
  OBVIOUS
<1>2. PICK E2, P2 : E2 = EarnedRows(a)' /\ P2 = Payouts(a)'
  OBVIOUS
<1>3. /\ Tersedia(a) = SumFunctionOnSet(Worth, E) - SumFunctionOnSet(Taken(cair), P)
      /\ SumFunctionOnSet(Worth, E) \in Nat /\ SumFunctionOnSet(Taken(cair), P) \in Nat
      /\ IsFiniteSet(E) /\ P \subseteq Pencairan /\ IsFiniteSet(P)
      /\ \A k \in Rows : Worth[k] \in Nat
      /\ \A w \in Pencairan : Taken(cair)[w] \in Nat
  BY <1>1, BalanceIs
<1>4. /\ Tersedia(a)' = SumFunctionOnSet(Worth, E2) - SumFunctionOnSet(Taken(cair'), P2)
      /\ SumFunctionOnSet(Worth, E2) \in Nat /\ SumFunctionOnSet(Taken(cair'), P2) \in Nat
      /\ E2 \subseteq Rows /\ IsFiniteSet(E2) /\ P2 \subseteq Pencairan /\ IsFiniteSet(P2)
  BY <1>2, BalanceNext
<1>5. SumFunctionOnSet(Worth, E) <= SumFunctionOnSet(Worth, E2)
  BY <1>1, <1>2, <1>3, <1>4, SumGrows
<1>6. SumFunctionOnSet(Taken(cair), P2) <= SumFunctionOnSet(Taken(cair), P)
  BY <1>1, <1>2, <1>3, SumGrows
<1>7. SumFunctionOnSet(Taken(cair'), P2) = SumFunctionOnSet(Taken(cair), P2)
  <2>1. PICK f, g : f = Taken(cair') /\ g = Taken(cair)
    OBVIOUS
  <2>2. \A w \in P2 : f[w] = g[w]
    BY <1>2, <1>4, <2>1 DEF Taken
  <2>3. SumFunctionOnSet(f, P2) = SumFunctionOnSet(g, P2)
    BY <1>4, <2>2, SumAgrees
  <2> QED
    BY <2>1, <2>3
<1> QED
  BY <1>3, <1>4, <1>5, <1>6, <1>7

(* An agent asks for no more than is left; whatever is decided on a payout   *)
(* takes nothing more from anybody.                                          *)
LEMMA PayoutsStayCovered ==
  ASSUME CommissionInv, CommissionInv', NEW w \in Pencairan, PayoutStep(w),
         NEW a \in Agents, Tersedia(a) >= 0
  PROVE  Tersedia(a)' >= 0
<1>0. Tersedia(a) \in Int /\ Tersedia(a)' \in Int
  <2>1. PICK E, P : E = EarnedRows(a)' /\ P = Payouts(a)'
    OBVIOUS
  <2> QED
    BY <2>1, BalanceIs, BalanceNext
<1>1. EarnedRows(a)' = EarnedRows(a)
  BY DEF EarnedRows, PayoutStep, AjukanPencairan, SetujuiPencairan, TolakPencairan
<1>2. ASSUME Payouts(a)' \subseteq Payouts(a),
             \A v \in Payouts(a)' : cair'[v].nominal = cair[v].nominal
      PROVE  Tersedia(a)' >= 0
  <2>1. Tersedia(a)' >= Tersedia(a)
    BY <1>1, <1>2, BalanceHolds
  <2> QED
    BY <1>0, <2>1
<1>3. ASSUME NEW s \in {"disetujui", "ditolak"}, cair[w].status = "pending",
             cair' = [cair EXCEPT ![w].status = s]
      PROVE  Tersedia(a)' >= 0
  <2>1. cair[w] \in PayoutRow
    BY <1>3, CommissionRests DEF NoPayout
  <2>2. PICK row : row = [cair[w] EXCEPT !.status = s]
    OBVIOUS
  <2>3. row.agen = cair[w].agen /\ row.nominal = cair[w].nominal
    BY <2>1, <2>2 DEF PayoutRow
  <2>4. cair' = [cair EXCEPT ![w] = row]
    BY <1>3, <2>2
  <2>5. cair'[w] = row /\ \A v \in Pencairan \ {w} : cair'[v] = cair[v]
    BY <2>4, CommissionRests
  <2> QED
    BY <1>2, <1>3, <2>3, <2>5 DEF Payouts
<1>4. ASSUME NEW b \in Agents, NEW n \in Amounts, AjukanPencairan(w, b, n)
      PROVE  Tersedia(a)' >= 0
  <2>1. PICK row : row = [agen |-> b, nominal |-> n, status |-> "pending"]
    OBVIOUS
  <2>2. /\ cair' = [cair EXCEPT ![w] = row] /\ cair[w].status = "none" /\ n <= Tersedia(b)
        /\ row.agen = b /\ row.nominal = n /\ row.status = "pending"
    BY <1>4, <2>1 DEF AjukanPencairan
  <2>3. cair'[w] = row /\ \A v \in Pencairan \ {w} : cair'[v] = cair[v]
    BY <2>2, CommissionRests
  <2>4. cair[w].agen = NIHIL
    <3>1. cair[w] = NoPayout
      BY <2>2, CommissionRests DEF PayoutRow
    <3> QED
      BY <3>1 DEF NoPayout
  <2>5. a # NIHIL
    BY AgentCommissionAssumption
  <2>6. CASE a # b
    BY <1>2, <2>2, <2>3, <2>4, <2>6 DEF Payouts
  <2>7. CASE a = b
    <3>1. PICK P, P2, f, g : /\ P = Payouts(a) /\ P2 = Payouts(a)'
                             /\ f = Taken(cair) /\ g = Taken(cair')
      OBVIOUS
    <3>2. w \notin P /\ P2 = P \cup {w}
      BY <2>2, <2>3, <2>4, <2>5, <2>7, <3>1 DEF Payouts
    <3>3. PICK E : E = EarnedRows(a)
      OBVIOUS
    <3>4. /\ Tersedia(a) = SumFunctionOnSet(Worth, E) - SumFunctionOnSet(f, P)
          /\ SumFunctionOnSet(Worth, E) \in Nat /\ SumFunctionOnSet(f, P) \in Nat
          /\ IsFiniteSet(P) /\ P \subseteq Pencairan /\ \A v \in Pencairan : f[v] \in Nat
      BY <3>1, <3>3, BalanceIs
    <3>5. /\ Tersedia(a)' = SumFunctionOnSet(Worth, E) - SumFunctionOnSet(g, P2)
          /\ IsFiniteSet(P2)
      BY <1>1, <3>1, <3>3, BalanceNext
    <3>6. g[w] = n /\ n \in Nat
      BY <2>2, <2>3, <3>1, AgentCommissionAssumption DEF Taken
    <3>7. \A v \in P : g[v] = f[v] /\ g[v] \in Nat
      BY <2>3, <3>1, <3>2, <3>4 DEF Taken
    <3>8. SumFunctionOnSet(g, P) = SumFunctionOnSet(f, P)
      BY <3>4, <3>7, SumAgrees
    <3>9. SumFunctionOnSet(g, P2) = g[w] + SumFunctionOnSet(g, P2 \ {w})
      <4>1. \A v \in P2 : g[v] \in Int
        BY <3>2, <3>6, <3>7
      <4> QED
        BY <3>2, <3>5, <4>1, SumSplit
    <3>10. SumFunctionOnSet(g, P2 \ {w}) = SumFunctionOnSet(g, P)
      <4>1. P2 \ {w} = P
        BY <3>2
      <4> QED
        BY <4>1, Zenon
    <3> QED
      BY <2>2, <2>7, <3>4, <3>5, <3>6, <3>8, <3>9, <3>10
  <2> QED
    BY <2>6, <2>7
<1> QED
  BY <1>3, <1>4 DEF PayoutStep, SetujuiPencairan, TolakPencairan

(* What rows of the table bring an agent is the sum of their worths.         *)
LEMMA BersihIsSum ==
  ASSUME CommissionInv, NEW S, NEW a, NEW departed, NEW L,
         L = {k \in S : k.penerima = a /\ k.booking \in departed},
         S \subseteq Rows, IsFiniteSet(S)
  PROVE  /\ Bersih(S, a, departed) = SumFunctionOnSet(Worth, L)
         /\ SumFunctionOnSet(Worth, L) \in Nat
         /\ L \subseteq Rows /\ IsFiniteSet(L)
<1>1. L \subseteq Rows /\ IsFiniteSet(L)
  BY FS_Subset
<1>2. MapThenSumSet(Nominal, L) = SumFunctionOnSet(Worth, L)
  BY <1>1, WorthIsSum
<1>3. \A k \in L : Worth[k] \in Nat
  BY <1>1, NominalIsNat DEF Worth
<1>4. SumFunctionOnSet(Worth, L) \in Nat
  BY <1>1, <1>3, SumIsNat
<1> QED
  BY <1>1, <1>2, <1>4 DEF Bersih

(* The rows moved leave the pilgrim's, and so no others in the table.        *)
LEMMA MovedRowsFit ==
  ASSUME CommissionInv, CommissionInv', NEW m \in Movers, PindahkanCommit(m)
  PROVE  /\ RowsOf(pindah[m].jamaah) \subseteq Rows /\ IsFiniteSet(RowsOf(pindah[m].jamaah))
         /\ Moved(m) \subseteq Rows /\ IsFiniteSet(Moved(m))
         /\ \A k \in Moved(m) : k.jamaah = pindah[m].jamaah
         /\ \A k \in RowsOf(pindah[m].jamaah) : k.jamaah = pindah[m].jamaah
<1>1. /\ RowsOf(pindah[m].jamaah) \subseteq Rows /\ IsFiniteSet(RowsOf(pindah[m].jamaah))
      /\ \A k \in RowsOf(pindah[m].jamaah) : k.jamaah = pindah[m].jamaah
  BY FS_Subset DEF CommissionInv, RowsOf
<1>2. Moved(m) \subseteq Rows /\ IsFiniteSet(Moved(m))
  BY FS_Subset DEF CommissionInv, PindahkanCommit
<1>3. ASSUME NEW k \in Moved(m)
      PROVE  k.jamaah = pindah[m].jamaah
  <2>1. PICK r \in RowsOf(pindah[m].jamaah) : k = [r EXCEPT !.penerima = Target(m, r)]
    BY <1>3 DEF Moved
  <2>2. r \in Rows /\ r.jamaah = pindah[m].jamaah
    BY <1>1, <2>1
  <2> QED
    BY <2>1, <2>2 DEF Rows
<1> QED
  BY <1>1, <1>2, <1>3

(* A move whose snapshot is as of now looked at the balance it leaves, and   *)
(* agents it does not look at lose nothing.                                  *)
LEMMA FreshMoveFits ==
  ASSUME CommissionInv, CommissionInv', NEW m \in Movers, PindahkanCommit(m),
         NEW a \in Agents, Tersedia(a) >= 0,
         pindah[m].saldo[a] = Tersedia(a), pindah[m].departed = berangkat
  PROVE  Tersedia(a)' >= 0
<1>1. PICK E, E2, R, G, P, j :
        /\ E = EarnedRows(a) /\ E2 = EarnedRows(a)' /\ P = Payouts(a) /\ j = pindah[m].jamaah
        /\ R = {k \in RowsOf(j) : k.penerima = a /\ k.booking \in berangkat}
        /\ G = {k \in Moved(m) : k.penerima = a /\ k.booking \in berangkat}
  OBVIOUS
<1>2. /\ Tersedia(a) = SumFunctionOnSet(Worth, E) - SumFunctionOnSet(Taken(cair), P)
      /\ SumFunctionOnSet(Worth, E) \in Nat /\ SumFunctionOnSet(Taken(cair), P) \in Nat
      /\ E \subseteq Rows /\ IsFiniteSet(E)
      /\ \A k \in Rows : Worth[k] \in Nat
  BY <1>1, BalanceIs
<1>3. /\ Tersedia(a)' = SumFunctionOnSet(Worth, E2) - SumFunctionOnSet(Taken(cair), P)
      /\ SumFunctionOnSet(Worth, E2) \in Nat /\ E2 \subseteq Rows /\ IsFiniteSet(E2)
  <2>1. cair' = cair
    BY DEF PindahkanCommit
  <2>2. P = Payouts(a)'
    BY <1>1, <2>1 DEF Payouts
  <2> QED
    BY <1>1, <2>1, <2>2, BalanceNext
<1>4. /\ RowsOf(j) \subseteq Rows /\ IsFiniteSet(RowsOf(j))
      /\ Moved(m) \subseteq Rows /\ IsFiniteSet(Moved(m))
      /\ \A k \in Moved(m) : k.jamaah = j
      /\ \A k \in RowsOf(j) : k.jamaah = j
  BY <1>1, MovedRowsFit
<1>5. /\ Bersih(RowsOf(j), a, berangkat) = SumFunctionOnSet(Worth, R)
      /\ SumFunctionOnSet(Worth, R) \in Nat /\ R \subseteq Rows /\ IsFiniteSet(R)
  <2>1. PICK S : S = RowsOf(j) /\ S \subseteq Rows /\ IsFiniteSet(S)
    BY <1>4
  <2>2. R = {k \in S : k.penerima = a /\ k.booking \in berangkat}
    BY <1>1, <2>1
  <2>3. /\ Bersih(S, a, berangkat) = SumFunctionOnSet(Worth, R)
        /\ SumFunctionOnSet(Worth, R) \in Nat /\ R \subseteq Rows /\ IsFiniteSet(R)
    BY <2>1, <2>2, BersihIsSum
  <2>4. Bersih(RowsOf(j), a, berangkat) = Bersih(S, a, berangkat)
    BY <2>1, Zenon
  <2> QED
    BY <2>3, <2>4
<1>6. /\ Bersih(Moved(m), a, berangkat) = SumFunctionOnSet(Worth, G)
      /\ SumFunctionOnSet(Worth, G) \in Nat /\ G \subseteq Rows /\ IsFiniteSet(G)
  BY <1>1, <1>4, BersihIsSum
<1>7. PICK K : K = E \ R
  OBVIOUS
<1>8. komisi' = (komisi \ RowsOf(j)) \cup Moved(m) /\ berangkat' = berangkat
  BY <1>1 DEF PindahkanCommit
<1>9. R \subseteq E /\ K \cap R = {} /\ K \cup R = E
  BY <1>1, <1>7 DEF EarnedRows, RowsOf
<1>10. K \cap G = {} /\ K \cup G = E2
  <2>1. \A k \in K : k \in komisi /\ k \notin RowsOf(j)
    BY <1>1, <1>7 DEF EarnedRows
  <2>2. \A k \in G : k.jamaah = j
    BY <1>1, <1>4
  <2>3. K \cap G = {}
    BY <2>1, <2>2 DEF RowsOf
  <2>4. K = {k \in komisi \ RowsOf(j) : k.penerima = a /\ k.booking \in berangkat}
    BY <1>1, <1>7 DEF EarnedRows
  <2>5. E2 = {k \in komisi' : k.penerima = a /\ k.booking \in berangkat}
    BY <1>1, <1>8 DEF EarnedRows
  <2> QED
    BY <1>1, <1>8, <2>3, <2>4, <2>5
<1>11. IsFiniteSet(K) /\ K \subseteq Rows /\ SumFunctionOnSet(Worth, K) \in Nat
  <2>1. IsFiniteSet(K) /\ K \subseteq Rows
    BY <1>2, <1>7, FS_Subset
  <2> QED
    BY <1>2, <2>1, SumIsNat
<1>12. SumFunctionOnSet(Worth, E) = SumFunctionOnSet(Worth, K) + SumFunctionOnSet(Worth, R)
  <2>1. \A k \in K \cup R : Worth[k] \in Int
    BY <1>2, <1>5, <1>11
  <2>2. SumFunctionOnSet(Worth, K \cup R) = SumFunctionOnSet(Worth, K) + SumFunctionOnSet(Worth, R)
    BY <1>5, <1>9, <1>11, <2>1, SumOfUnion
  <2>3. SumFunctionOnSet(Worth, K \cup R) = SumFunctionOnSet(Worth, E)
    BY <1>9, Zenon
  <2> QED
    BY <2>2, <2>3
<1>13. SumFunctionOnSet(Worth, E2) = SumFunctionOnSet(Worth, K) + SumFunctionOnSet(Worth, G)
  <2>1. \A k \in K \cup G : Worth[k] \in Int
    BY <1>2, <1>6, <1>11
  <2>2. SumFunctionOnSet(Worth, K \cup G) = SumFunctionOnSet(Worth, K) + SumFunctionOnSet(Worth, G)
    BY <1>6, <1>10, <1>11, <2>1, SumOfUnion
  <2>3. SumFunctionOnSet(Worth, K \cup G) = SumFunctionOnSet(Worth, E2)
    BY <1>10, Zenon
  <2> QED
    BY <2>2, <2>3
<1>14. CASE a \in {k.penerima : k \in Lost(m)}
  <2>1. SaldoSesudah(m, a) >= 0
    BY <1>14 DEF PindahkanCommit, BalancesFit
  <2>2. SaldoSesudah(m, a) = Tersedia(a) - Bersih(RowsOf(j), a, berangkat) + Bersih(Moved(m), a, berangkat)
    BY <1>1 DEF SaldoSesudah
  <2> QED
    BY <1>2, <1>3, <1>5, <1>6, <1>11, <1>12, <1>13, <2>1, <2>2
<1>15. CASE a \notin {k.penerima : k \in Lost(m)}
  <2>1. ASSUME NEW k \in R
        PROVE  k \in G
    <3>1. k \in RowsOf(j) /\ k \in Rows /\ k.penerima = a /\ k.booking \in berangkat
      BY <1>1, <1>5
    <3>2. Target(m, k) = a
      BY <1>1, <1>15, <3>1 DEF Lost
    <3>3. a # NIHIL
      BY AgentCommissionAssumption
    <3>4. PICK r : r = [k EXCEPT !.penerima = Target(m, k)]
      OBVIOUS
    <3>5. r = k
      BY <3>1, <3>2, <3>4 DEF Rows
    <3>6. r \in Moved(m)
      BY <1>1, <3>1, <3>2, <3>3, <3>4 DEF Moved
    <3> QED
      BY <1>1, <3>1, <3>5, <3>6
  <2>2. SumFunctionOnSet(Worth, R) <= SumFunctionOnSet(Worth, G)
    BY <1>2, <1>5, <1>6, <2>1, SumGrows
  <2> QED
    BY <1>2, <1>3, <1>5, <1>6, <1>11, <1>12, <1>13, <2>2
<1> QED
  BY <1>14, <1>15

LEMMA OverdraftStep ==
  ASSUME CommissionInv, CommissionInv', [CommissionNext]_komisiVars,
         NEW a \in Agents, Tersedia(a) >= 0, Tersedia(a)' < 0
  PROVE  \/ berangkat \ berangkat' # {}
         \/ \E m \in Movers :
              /\ pindah[m] # NoMove /\ pindah'[m] = NoMove
              /\ pindah[m].saldo[a] # Tersedia(a) \/ pindah[m].departed # berangkat
<1>0. Tersedia(a) \in Int /\ Tersedia(a)' \in Int
  <2>1. PICK E, P : E = EarnedRows(a)' /\ P = Payouts(a)'
    OBVIOUS
  <2> QED
    BY <2>1, BalanceIs, BalanceNext
<1>1. ASSUME komisi \subseteq komisi', berangkat \subseteq berangkat', cair' = cair
      PROVE  FALSE
  <2>1. EarnedRows(a) \subseteq EarnedRows(a)' /\ Payouts(a)' = Payouts(a)
    BY <1>1 DEF EarnedRows, Payouts
  <2>2. Tersedia(a)' >= Tersedia(a)
    BY <1>1, <2>1, BalanceHolds
  <2> QED
    BY <1>0, <2>2
<1>2. ASSUME NEW b \in Pesanan, BookingStep(b)
      PROVE  berangkat \ berangkat' # {}
  <2>1. komisi \subseteq komisi' /\ cair' = cair
    BY <1>2 DEF BookingStep, Pesan, LunasBegin, LunasCommit, Mundur, BatalPax, Berangkat, Undur
  <2> QED
    BY <1>1, <2>1
<1>3. ASSUME NEW w \in Pencairan, PayoutStep(w)
      PROVE  FALSE
  BY <1>0, <1>3, PayoutsStayCovered
<1>4. ASSUME NEW j \in Jamaah, BindingStep(j)
      PROVE  FALSE
  BY <1>1, <1>4 DEF BindingStep, JamaahBaru, GantiKaitan, PindahkanBegin
<1>5. ASSUME NEW m \in Movers, PindahkanCommit(m)
      PROVE  /\ pindah[m] # NoMove /\ pindah'[m] = NoMove
             /\ pindah[m].saldo[a] # Tersedia(a) \/ pindah[m].departed # berangkat
  <2>1. pindah[m] # NoMove /\ pindah'[m] = NoMove
    BY <1>5, CommissionRests DEF PindahkanCommit
  <2>2. ~(pindah[m].saldo[a] = Tersedia(a) /\ pindah[m].departed = berangkat)
    BY <1>0, <1>5, FreshMoveFits
  <2> QED
    BY <2>1, <2>2
<1>6. ASSUME NEW m \in Movers, PindahkanFails(m)
      PROVE  FALSE
  BY <1>1, <1>6 DEF PindahkanFails
<1>7. ASSUME NEW b \in Suspendable, UbahStatus(b)
      PROVE  FALSE
  BY <1>1, <1>7 DEF UbahStatus
<1>8. ASSUME NEW u \in Uplines, GantiUpline(u[1], u[2])
      PROVE  FALSE
  BY <1>1, <1>8 DEF GantiUpline
<1>9. CASE UNCHANGED komisiVars
  BY <1>1, <1>9 DEF komisiVars
<1> QED
  BY <1>2, <1>3, <1>4, <1>5, <1>6, <1>7, <1>8, <1>9 DEF CommissionNext

(* An agent's balance falls below zero only when a departure is put off, or  *)
(* through a move that looked at the balance before somebody changed it.     *)
THEOREM OnlyStaleMovesOverdraw == CommissionSpec => OverdrawnOnlyByStaleMove
<1>1. CommissionInit => CommissionInv
  BY CommissionBegins
<1>2. CommissionInv /\ [CommissionNext]_komisiVars => CommissionInv'
  BY CommissionKept
<1>3. CommissionInv /\ CommissionInv' /\ [CommissionNext]_komisiVars =>
        [\A a \in Agents :
           Tersedia(a) >= 0 /\ Tersedia(a)' < 0 =>
             \/ berangkat \ berangkat' # {}
             \/ \E m \in Movers :
                  /\ pindah[m] # NoMove /\ pindah'[m] = NoMove
                  /\ pindah[m].saldo[a] # Tersedia(a) \/ pindah[m].departed # berangkat]_komisiVars
  BY OverdraftStep
<1> QED
  BY <1>1, <1>2, <1>3, PTL DEF CommissionSpec, OverdrawnOnlyByStaleMove

-----------------------------------------------------------------------------
(* PublicCheckout: requests that may be sent again *)

SoldRow == [print : Prints, status : {"baru", "dp", "batal"}, held : BOOLEAN, hariIni : BOOLEAN]

RequestRow == [step : {"idle", "masuk", "locked", "committed"}, key : Keys \cup {NULL},
               print : Prints \cup {NULL}, booking : Bookings \cup {NULL}, replayed : BOOLEAN]

HitsRow == [count : Nat, first : Bookings \cup {NULL}]

AnswerRow == [key : Keys, print : Prints, booking : Bookings]

(* The booking stored under the key of a request, or of an answer.           *)
Stored(q) == IF q.print.jalur = "crm" THEN deal[q.key] ELSE toko[q.key]

(* A request that made its booking itself, and has yet to mail it.           *)
Fresh(q) == q.step = "committed" /\ ~ q.replayed /\ q.print.jalur = "web"

(* What a transaction that holds its locks, or has committed, can rely on.   *)
RequestFits(q) ==
  /\ q.step # "idle" => q.key \in Keys /\ q.print \in Prints
  /\ q.step \in {"masuk", "locked"} => ~ q.replayed
  /\ q.step = "locked" =>
       /\ Stored(q) = NULL
       /\ q.print.jalur = "crm" =>
            \A b \in Made : booking[b].print.jalur = "crm" => booking[b].print.lead # q.print.lead
  /\ q.step = "committed" =>
       /\ q.booking \in Made /\ booking[q.booking].print = q.print /\ Stored(q) = q.booking
       /\ Fresh(q) => mails[q.booking] = 0

(* What two requests may not have in common.                                 *)
Apart(x, y) ==
  /\ x.step = "locked" /\ y.step = "locked" =>
       /\ x.print.jalur = "crm" /\ y.print.jalur = "crm" =>
            x.key # y.key /\ x.print.lead # y.print.lead
       /\ x.print.jalur # "crm" /\ y.print.jalur # "crm" => x.print.form.jadwal # y.print.form.jadwal
  /\ Fresh(x) /\ Fresh(y) => x.booking # y.booking

(* Bookings of an account that were mailed.                                  *)
Mailed(a) == {b \in Made : mails[b] = 1 /\ booking[b].print.akun = a}

CheckoutTypes ==
  /\ booking \in [Bookings -> SoldRow \cup {NoBooking}]
  /\ toko \in [Keys -> Bookings \cup {NULL}] /\ deal \in [Keys -> Bookings \cup {NULL}]
  /\ hits \in [Accounts -> HitsRow]
  /\ request \in [Requests -> RequestRow]
  /\ answers \subseteq AnswerRow
  /\ mails \in [Bookings -> 0..1]

(* What is stored under a key was made, the one way or the other.            *)
StoresFit ==
  \A k \in Keys :
    /\ toko[k] # NULL => toko[k] \in Made /\ booking[toko[k]].print.jalur # "crm"
    /\ deal[k] # NULL => deal[k] \in Made /\ booking[deal[k]].print.jalur = "crm"

AnswersFit ==
  \A x \in answers : x.booking \in Made /\ booking[x.booking].print = x.print /\ Stored(x) = x.booking

CountsFit ==
  /\ \A b \in Bookings : mails[b] = 1 => b \in Made /\ booking[b].print.jalur = "web"
  /\ \A a \in Accounts : hits[a].count <= Cardinality(Mailed(a))

CheckoutInv ==
  /\ CheckoutTypes /\ StoresFit /\ AnswersFit /\ CountsFit /\ LeadConvertsOnce
  /\ \A r \in Requests : RequestFits(request[r])
  /\ \A r, q \in Requests : r # q => Apart(request[r], request[q])

LEMMA PrintIs ==
  ASSUME NEW p \in Prints
  PROVE  /\ p.jalur \in {"web", "agen", "crm"} /\ p.form \in Forms
         /\ p.form.jadwal \in Schedules /\ p.form.seats \in Nat
         /\ p.jalur = "crm" => p.lead \in Leads /\ p.akun = NULL
         /\ p.jalur # "crm" => p.lead = NULL /\ p.akun \in Accounts
<1>1. p.form \in Forms
  BY DEF Prints
<1>2. p.form.jadwal \in Schedules /\ p.form.seats \in Nat
  BY <1>1, CheckoutAssumption
<1> QED
  BY <1>1, <1>2 DEF Prints

LEMMA SoldIs ==
  ASSUME CheckoutTypes, NEW b \in Bookings
  PROVE  /\ b \in Made => booking[b] \in SoldRow /\ booking[b].print \in Prints
         /\ b \notin Made => booking[b] = NoBooking
<1>1. NoBooking.status = "none"
  BY DEF NoBooking
<1>2. booking[b] \in SoldRow \cup {NoBooking}
  BY DEF CheckoutTypes
<1> QED
  BY <1>1, <1>2 DEF Made, SoldRow

LEMMA CheckoutInvSays ==
  ASSUME CheckoutInv
  PROVE  CheckoutInvariant
<1>1. ASSUME NEW a \in Accounts
      PROVE  /\ Cardinality(Mailed(a)) <= Cardinality(Bookings)
             /\ Cardinality(Mailed(a)) <= Cardinality({b \in Made : booking[b].print.akun = a})
             /\ Cardinality(Mailed(a)) \in Nat /\ Cardinality(Bookings) \in Nat
             /\ hits[a].count \in Nat /\ hits[a].first \in Bookings \cup {NULL}
             /\ hits[a] = [count |-> hits[a].count, first |-> hits[a].first]
  <2>1. IsFiniteSet(Bookings) /\ Mailed(a) \subseteq Bookings
    BY CheckoutAssumption DEF Mailed, Made
  <2>2. /\ {b \in Made : booking[b].print.akun = a} \subseteq Bookings
        /\ Mailed(a) \subseteq {b \in Made : booking[b].print.akun = a}
    BY DEF Mailed, Made
  <2>3. IsFiniteSet(Mailed(a)) /\ IsFiniteSet({b \in Made : booking[b].print.akun = a})
    BY <2>1, <2>2, FS_Subset
  <2>4. hits[a] \in HitsRow
    BY DEF CheckoutInv, CheckoutTypes
  <2> QED
    BY <2>1, <2>2, <2>3, <2>4, FS_Subset, FS_CardinalityType DEF HitsRow
<1>2. hits \in [Accounts -> [count : 0..Cardinality(Bookings), first : {NULL} \cup Bookings]]
  <2>1. ASSUME NEW a \in Accounts
        PROVE  hits[a] \in [count : 0..Cardinality(Bookings), first : {NULL} \cup Bookings]
    <3>1. PICK c, f, m, n : /\ c = hits[a].count /\ f = hits[a].first
                            /\ m = Cardinality(Mailed(a)) /\ n = Cardinality(Bookings)
      OBVIOUS
    <3>2. c <= m
      BY <3>1 DEF CheckoutInv, CountsFit
    <3>3. m <= n /\ m \in Nat /\ n \in Nat /\ c \in Nat /\ f \in {NULL} \cup Bookings
      BY <1>1, <3>1
    <3>4. c \in 0..n
      BY <3>2, <3>3
    <3>5. hits[a] = [count |-> c, first |-> f]
      BY <1>1, <3>1
    <3> QED
      BY <3>1, <3>3, <3>4, <3>5
  <2>2. hits = [a \in Accounts |-> hits[a]]
    BY DEF CheckoutInv, CheckoutTypes
  <2> QED
    BY <2>1, <2>2
<1>3. ASSUME NEW r \in Requests
      PROVE  /\ request[r].step \in {"idle", "masuk", "locked", "committed"}
             /\ request[r].step = "committed" => request[r].booking \in Made
             /\ request[r].step = "locked" /\ Jalur(r) # "crm" => SameJadwal(r) = {}
  <2>1. request[r].step \in {"idle", "masuk", "locked", "committed"}
    BY DEF CheckoutInv, CheckoutTypes, RequestRow
  <2>2. request[r].step = "committed" => request[r].booking \in Made
    BY DEF CheckoutInv, RequestFits
  <2>3. request[r].step = "locked" /\ Jalur(r) # "crm" => SameJadwal(r) = {}
    BY DEF CheckoutInv, Apart, SameJadwal, Jalur, Jadwal
  <2> QED
    BY <2>1, <2>2, <2>3
<1>4. TypeOK
  BY <1>2, <1>3 DEF CheckoutInv, CheckoutTypes, TypeOK, SoldRow, AnswerRow
<1>5. AnswersAgree
  BY DEF CheckoutInv, AnswersFit, AnswersAgree, Stored
<1>6. RepeatsCostNothing
  <2>1. ASSUME NEW b \in Bookings
        PROVE  mails[b] <= IF b \in Made /\ booking[b].print.jalur = "web" THEN 1 ELSE 0
    <3>1. mails[b] \in 0..1 /\ (mails[b] = 1 => b \in Made /\ booking[b].print.jalur = "web")
      BY DEF CheckoutInv, CheckoutTypes, CountsFit
    <3> QED
      BY <3>1
  <2>2. ASSUME NEW a \in Accounts
        PROVE  hits[a].count <= Cardinality({b \in Made : booking[b].print.akun = a})
    <3>1. hits[a].count <= Cardinality(Mailed(a))
      BY DEF CheckoutInv, CountsFit
    <3>2. Cardinality({b \in Made : booking[b].print.akun = a}) \in Nat
      <4>1. IsFiniteSet({b \in Made : booking[b].print.akun = a})
        BY CheckoutAssumption, FS_Subset DEF Made
      <4> QED
        BY <4>1, FS_CardinalityType
    <3>3. PICK c, m, n : /\ c = hits[a].count /\ m = Cardinality(Mailed(a))
                         /\ n = Cardinality({b \in Made : booking[b].print.akun = a})
      OBVIOUS
    <3>4. c \in Nat /\ m \in Nat /\ n \in Nat /\ m <= n
      BY <1>1, <3>2, <3>3
    <3>5. c <= n
      BY <3>1, <3>3, <3>4
    <3> QED
      BY <3>3, <3>5
  <2> QED
    BY <2>1, <2>2 DEF RepeatsCostNothing
<1> QED
  BY <1>4, <1>5, <1>6 DEF CheckoutInv, CheckoutInvariant

LEMMA CheckoutRests ==
  ASSUME CheckoutInv
  PROVE  /\ booking \in [Bookings -> SoldRow \cup {NoBooking}]
         /\ toko \in [Keys -> Bookings \cup {NULL}] /\ deal \in [Keys -> Bookings \cup {NULL}]
         /\ hits \in [Accounts -> HitsRow] /\ request \in [Requests -> RequestRow]
         /\ answers \subseteq AnswerRow /\ mails \in [Bookings -> 0..1]
         /\ \A r \in Requests : RequestFits(request[r])
         /\ \A r, q \in Requests : r # q => Apart(request[r], request[q])
BY DEF CheckoutInv, CheckoutTypes

LEMMA CheckoutBegins ==
  ASSUME Init
  PROVE  CheckoutInv
<1>1. Made = {}
  BY DEF Init, Made, NoBooking
<1>2. NoRequest \in RequestRow /\ NoRequest.step = "idle"
  BY DEF NoRequest, RequestRow
<1>3. NoHits \in HitsRow /\ NoHits.count = 0
  BY DEF NoHits, HitsRow
<1>4. CheckoutTypes
  BY <1>2, <1>3 DEF Init, CheckoutTypes
<1>5. ASSUME NEW a \in Accounts
      PROVE  hits[a].count <= Cardinality(Mailed(a))
  <2>1. Mailed(a) = {} /\ hits[a].count = 0
    BY <1>1, <1>3 DEF Init, Mailed
  <2> QED
    BY <2>1, FS_EmptySet
<1>6. CountsFit
  BY <1>5 DEF Init, CountsFit
<1>7. \A r \in Requests : RequestFits(request[r])
  BY <1>2 DEF Init, RequestFits
<1>8. \A r, q \in Requests : Apart(request[r], request[q])
  BY <1>2 DEF Init, Apart, Fresh
<1> QED
  BY <1>1, <1>4, <1>6, <1>7, <1>8 DEF Init, CheckoutInv, StoresFit, AnswersFit, LeadConvertsOnce

(* Steps of one request that store nothing.                                  *)
LEMMA RequestMoves ==
  ASSUME CheckoutInv, NEW r \in Requests, NEW row \in RequestRow, RequestFits(row),
         \A q \in Requests \ {r} : Apart(row, request[q]),
         request' = [request EXCEPT ![r] = row],
         UNCHANGED <<booking, toko, deal, hits, answers, mails>>
  PROVE  CheckoutInv'
<1>1. /\ request' \in [Requests -> RequestRow] /\ request'[r] = row
      /\ \A q \in Requests \ {r} : request'[q] = request[q]
  BY CheckoutRests
<1>2. \A a : Mailed(a)' = Mailed(a)
  BY DEF Mailed, Made
<1>3. /\ CheckoutTypes' /\ StoresFit' /\ AnswersFit' /\ CountsFit' /\ LeadConvertsOnce'
  BY <1>1, <1>2 DEF CheckoutInv, CheckoutTypes, StoresFit, AnswersFit, CountsFit, LeadConvertsOnce, Made, Stored
<1>4. ASSUME NEW q \in Requests
      PROVE  RequestFits(request[q])'
  <2>1. PICK x : x = request'[q]
    OBVIOUS
  <2>2. RequestFits(x)
    BY <1>1, <2>1, CheckoutRests
  <2>3. RequestFits(x)'
    BY <2>2 DEF RequestFits, Stored, Made, Fresh
  <2> QED
    BY <2>1, <2>3
<1>5. \A x, y : Apart(x, y) => Apart(y, x)
  BY DEF Apart, Fresh
<1>6. \A p, q \in Requests : p # q => Apart(request'[p], request'[q])
  BY <1>1, <1>5, CheckoutRests
<1> QED
  BY <1>3, <1>4, <1>6 DEF CheckoutInv, Apart, Fresh

LEMMA ReceiveKeeps ==
  ASSUME CheckoutInv, NEW r \in Requests, NEW k \in Keys, NEW p \in Prints, Receive(r, k, p)
  PROVE  CheckoutInv'
<1>1. PICK row : row = [NoRequest EXCEPT !.step = "masuk", !.key = k, !.print = p]
  OBVIOUS
<1>2. /\ row \in RequestRow /\ row.step = "masuk" /\ row.key = k /\ row.print = p /\ ~ row.replayed
  BY <1>1 DEF NoRequest, RequestRow
<1>3. RequestFits(row) /\ \A x : Apart(row, x)
  BY <1>2 DEF RequestFits, Apart, Fresh
<1> QED
  BY <1>1, <1>2, <1>3, RequestMoves DEF Receive

LEMMA IdleFits ==
  ASSUME CheckoutInv
  PROVE  NoRequest \in RequestRow /\ RequestFits(NoRequest) /\ \A x : Apart(NoRequest, x)
<1>1. NoRequest \in RequestRow /\ NoRequest.step = "idle"
  BY DEF NoRequest, RequestRow
<1> QED
  BY <1>1 DEF RequestFits, Apart, Fresh

LEMMA RefuseKeeps ==
  ASSUME CheckoutInv, NEW r \in Requests, Refuse(r)
  PROVE  CheckoutInv'
BY IdleFits, RequestMoves DEF Refuse

(* A key found stored is answered from the store.                            *)
LEMMA ReplayKeeps ==
  ASSUME CheckoutInv, NEW r \in Requests, NEW b \in Bookings, request[r].step = "masuk",
         Stored(request[r]) = b, booking[b].print = request[r].print, Replay(r, b),
         UNCHANGED <<booking, toko, deal, hits, answers, mails>>
  PROVE  CheckoutInv'
<1>1. PICK q, row : q = request[r] /\ row = [q EXCEPT !.step = "committed", !.booking = b, !.replayed = TRUE]
  OBVIOUS
<1>2. q \in RequestRow /\ RequestFits(q)
  BY <1>1, CheckoutRests
<1>3. /\ row \in RequestRow /\ row.step = "committed" /\ row.key = q.key /\ row.print = q.print
      /\ row.booking = b /\ row.replayed
  BY <1>1, <1>2 DEF RequestRow
<1>4. b \in Made
  <2>1. q.key \in Keys /\ b # NULL
    BY <1>1, <1>2, CheckoutAssumption DEF RequestFits
  <2> QED
    BY <1>1, <2>1 DEF CheckoutInv, StoresFit, Stored
<1>5. RequestFits(row) /\ \A x : Apart(row, x)
  BY <1>1, <1>2, <1>3, <1>4 DEF RequestFits, Apart, Fresh, Stored
<1>6. request' = [request EXCEPT ![r] = row]
  BY <1>1 DEF Replay
<1> QED
  BY <1>3, <1>5, <1>6, RequestMoves

(* A key found absent is locked.                                             *)
LEMMA LockKeeps ==
  ASSUME CheckoutInv, NEW r \in Requests, request[r].step = "masuk", Stored(request[r]) = NULL,
         Jalur(r) # "crm" => SameJadwal(r) = {},
         Jalur(r) = "crm" => SameKey(r) = {} /\ LeadFree(r),
         Locked(r), UNCHANGED <<booking, toko, deal, hits, answers, mails>>
  PROVE  CheckoutInv'
<1>1. PICK q, row : q = request[r] /\ row = [q EXCEPT !.step = "locked"]
  OBVIOUS
<1>2. q \in RequestRow /\ RequestFits(q)
  BY <1>1, CheckoutRests
<1>3. /\ row \in RequestRow /\ row.step = "locked" /\ row.key = q.key /\ row.print = q.print
      /\ row.replayed = q.replayed
  BY <1>1, <1>2 DEF RequestRow
<1>4. RequestFits(row)
  BY <1>1, <1>2, <1>3 DEF RequestFits, Stored, LeadFree, Jalur
<1>5. \A x \in Requests \ {r} : Apart(row, request[x])
  BY <1>1, <1>3 DEF Apart, Fresh, SameJadwal, SameKey, LeadFree, Jalur, Jadwal
<1>6. request' = [request EXCEPT ![r] = row]
  BY <1>1 DEF Locked
<1> QED
  BY <1>3, <1>4, <1>5, <1>6, RequestMoves

LEMMA BeginKeeps ==
  ASSUME CheckoutInv, NEW r \in Requests, CheckoutBegin(r) \/ DealBegin(r)
  PROVE  CheckoutInv'
<1>1. PICK b : b = Stored(request[r])
  OBVIOUS
<1>2. request[r].step = "masuk" /\ LookUp(r, b) /\ UNCHANGED <<booking, toko, deal, hits, answers, mails>>
  BY <1>1 DEF CheckoutBegin, DealBegin, Stored, Jalur
<1>3. b \in Bookings \cup {NULL}
  <2>1. request[r].key \in Keys
    BY <1>2, CheckoutRests DEF RequestFits
  <2> QED
    BY <1>1, <2>1, CheckoutRests DEF Stored
<1>4. /\ Jalur(r) # "crm" => SameJadwal(r) = {}
      /\ Jalur(r) = "crm" /\ b = NULL => SameKey(r) = {} /\ LeadFree(r)
  BY <1>1 DEF CheckoutBegin, DealBegin, Stored, Jalur
<1>5. CASE b = NULL /\ Locked(r)
  BY <1>1, <1>2, <1>4, <1>5, LockKeeps
<1>6. CASE b # NULL /\ booking[b].print = request[r].print /\ Replay(r, b)
  BY <1>1, <1>2, <1>3, <1>6, ReplayKeeps
<1> QED
  BY <1>2, <1>5, <1>6 DEF LookUp

(* A booking is made and stored under a key that was absent: nobody else who *)
(* holds locks relied on the key, or on the lead.                            *)
LEMMA CommitKeeps ==
  ASSUME CheckoutInv, NEW r \in Requests, NEW b \in Bookings,
         CheckoutCommit(r, b) \/ DealCommit(r, b)
  PROVE  CheckoutInv'
<1>1. PICK q, row, sold : /\ q = request[r]
                          /\ row = [q EXCEPT !.step = "committed", !.booking = b]
                          /\ sold = [print |-> q.print, status |-> "baru", held |-> TRUE, hariIni |-> TRUE]
  OBVIOUS
<1>2. /\ q \in RequestRow /\ RequestFits(q) /\ q.step = "locked" /\ q.key \in Keys /\ q.print \in Prints
      /\ ~ q.replayed /\ Stored(q) = NULL /\ b \notin Made
  BY <1>1, CheckoutRests DEF RequestFits, CheckoutCommit, DealCommit
<1>3. /\ row \in RequestRow /\ row.step = "committed" /\ row.key = q.key /\ row.print = q.print
      /\ row.booking = b /\ ~ row.replayed
  BY <1>1, <1>2 DEF RequestRow
<1>4. sold \in SoldRow /\ sold.print = q.print /\ sold.status = "baru"
  BY <1>1, <1>2 DEF SoldRow
<1>5. /\ booking' = [booking EXCEPT ![b] = sold] /\ request' = [request EXCEPT ![r] = row]
      /\ UNCHANGED <<hits, answers, mails>>
      /\ IF q.print.jalur = "crm" THEN deal' = [deal EXCEPT ![q.key] = b] /\ toko' = toko
                                  ELSE toko' = [toko EXCEPT ![q.key] = b] /\ deal' = deal
  BY <1>1 DEF CheckoutCommit, DealCommit, Booked, Jalur
<1>6. /\ booking' \in [Bookings -> SoldRow \cup {NoBooking}] /\ booking'[b] = sold
      /\ \A c \in Bookings \ {b} : booking'[c] = booking[c]
      /\ request' \in [Requests -> RequestRow] /\ request'[r] = row
      /\ \A x \in Requests \ {r} : request'[x] = request[x]
      /\ Made' = Made \cup {b}
  BY <1>3, <1>4, <1>5, CheckoutRests DEF Made
<1>7. /\ toko' \in [Keys -> Bookings \cup {NULL}] /\ deal' \in [Keys -> Bookings \cup {NULL}]
      /\ \A k \in Keys : /\ toko'[k] = IF q.print.jalur # "crm" /\ k = q.key THEN b ELSE toko[k]
                         /\ deal'[k] = IF q.print.jalur = "crm" /\ k = q.key THEN b ELSE deal[k]
  BY <1>5, CheckoutRests
<1>8. CheckoutTypes'
  BY <1>5, <1>6, <1>7, CheckoutRests DEF CheckoutTypes
<1>9. StoresFit'
  <2> SUFFICES ASSUME NEW k \in Keys
               PROVE  /\ toko'[k] # NULL => toko'[k] \in Made' /\ booking'[toko'[k]].print.jalur # "crm"
                      /\ deal'[k] # NULL => deal'[k] \in Made' /\ booking'[deal'[k]].print.jalur = "crm"
    BY DEF StoresFit
  <2>1. /\ toko[k] # NULL => toko[k] \in Made /\ booking[toko[k]].print.jalur # "crm"
        /\ deal[k] # NULL => deal[k] \in Made /\ booking[deal[k]].print.jalur = "crm"
    BY DEF CheckoutInv, StoresFit
  <2>2. \A c \in Made : c \in Made' /\ booking'[c] = booking[c]
    BY <1>2, <1>6 DEF Made
  <2> QED
    BY <1>4, <1>6, <1>7, <2>1, <2>2
<1>10. \A c \in Made : c # b /\ booking'[c] = booking[c] /\ c \in Made'
  BY <1>2, <1>6 DEF Made
<1>11. AnswersFit'
  <2> SUFFICES ASSUME NEW x \in answers
               PROVE  x.booking \in Made' /\ booking'[x.booking].print = x.print /\ Stored(x)' = x.booking
    BY <1>5 DEF AnswersFit
  <2>1. x.booking \in Made /\ booking[x.booking].print = x.print /\ Stored(x) = x.booking /\ x.key \in Keys
    BY CheckoutRests DEF CheckoutInv, AnswersFit, AnswerRow
  <2>2. x.booking # NULL
    BY <2>1, CheckoutAssumption DEF Made
  <2>3. Stored(x)' = Stored(x)
    BY <1>2, <1>7, <2>1, <2>2 DEF Stored
  <2> QED
    BY <1>10, <2>1, <2>3
<1>12. mails[b] # 1
  BY <1>2 DEF CheckoutInv, CountsFit
<1>13. CountsFit'
  <2>1. \A a : Mailed(a)' = Mailed(a)
    BY <1>5, <1>6, <1>10, <1>12 DEF Mailed
  <2> QED
    BY <1>5, <1>10, <2>1 DEF CheckoutInv, CountsFit
<1>14. LeadConvertsOnce'
  <2> SUFFICES ASSUME NEW c \in Made', NEW d \in Made', booking'[c].print.jalur = "crm",
                      booking'[c].print.lead = booking'[d].print.lead
               PROVE  c = d
    BY DEF LeadConvertsOnce
  <2>1. booking'[d].print.jalur = "crm"
    <3>1. booking'[c].print \in Prints /\ booking'[d].print \in Prints
      BY <1>6, <1>8, SoldIs DEF Made, CheckoutTypes, SoldRow, NoBooking
    <3>2. booking'[c].print.lead \in Leads
      BY <3>1, PrintIs
    <3> QED
      BY <3>1, <3>2, PrintIs, CheckoutAssumption
  <2>2. \A e \in Made : q.print.jalur = "crm" /\ booking[e].print.jalur = "crm" => booking[e].print.lead # q.print.lead
    BY <1>2 DEF RequestFits
  <2>3. CASE c = b
    BY <1>4, <1>6, <1>10, <2>1, <2>2, <2>3
  <2>4. CASE d = b
    BY <1>4, <1>6, <1>10, <2>1, <2>2, <2>4
  <2>5. CASE c # b /\ d # b
    <3>1. c \in Made /\ d \in Made
      BY <1>6, <2>5
    <3> QED
      BY <1>10, <3>1 DEF CheckoutInv, LeadConvertsOnce
  <2> QED
    BY <2>3, <2>4, <2>5
<1>15. RequestFits(row)'
  <2>1. Stored(row)' = b
    BY <1>2, <1>3, <1>7 DEF Stored
  <2>2. Fresh(row) => mails'[b] = 0
    BY <1>5, <1>12, CheckoutRests
  <2> QED
    BY <1>2, <1>3, <1>4, <1>6, <2>1, <2>2 DEF RequestFits, Fresh
<1>16. ASSUME NEW x \in Requests \ {r}
       PROVE  RequestFits(request[x])'
  <2>1. PICK y : y = request[x]
    OBVIOUS
  <2>2. RequestFits(y) /\ Apart(q, y) /\ y \in RequestRow
    BY <1>1, <2>1, CheckoutRests
  <2>3. CASE y.step = "locked"
    <3>1. ~ (y.key = q.key /\ (y.print.jalur = "crm" <=> q.print.jalur = "crm"))
      <4>1. CASE q.print.jalur = "crm"
        BY <1>2, <2>2, <2>3, <4>1 DEF Apart
      <4>2. CASE q.print.jalur # "crm"
        <5>1. KeyFree(r)
          BY <1>1, <4>2 DEF CheckoutCommit, DealCommit, Jalur
        <5> QED
          BY <1>1, <2>1, <2>3, <4>2, <5>1 DEF KeyFree, SameKey, Jalur
      <4> QED
        BY <4>1, <4>2
    <3>2. y.key \in Keys /\ Stored(y) = NULL
      BY <2>2, <2>3 DEF RequestFits
    <3>3. Stored(y)' = NULL
      BY <1>7, <3>1, <3>2 DEF Stored
    <3>4. q.print.jalur = "crm" /\ y.print.jalur = "crm" => q.print.lead # y.print.lead
      BY <1>2, <2>2, <2>3 DEF Apart
    <3>5. ASSUME NEW c \in Made', y.print.jalur = "crm", booking'[c].print.jalur = "crm"
          PROVE  booking'[c].print.lead # y.print.lead
      <4>1. CASE c = b
        BY <1>4, <1>6, <3>4, <3>5, <4>1
      <4>2. CASE c # b
        BY <1>6, <1>10, <2>2, <2>3, <3>5, <4>2 DEF RequestFits
      <4> QED
        BY <4>1, <4>2
    <3>6. RequestFits(y)'
      BY <2>2, <2>3, <3>3, <3>5 DEF RequestFits
    <3> QED
      BY <1>6, <2>1, <3>6
  <2>4. CASE y.step = "committed"
    <3>1. y.key \in Keys /\ y.booking \in Made /\ Stored(y) = y.booking /\ y.booking # NULL
      BY <2>2, <2>4, CheckoutAssumption DEF RequestFits, Made
    <3>2. Stored(y)' = y.booking
      BY <1>2, <1>7, <3>1 DEF Stored
    <3>3. RequestFits(y)'
      BY <1>5, <1>10, <2>2, <2>4, <3>2 DEF RequestFits, Fresh
    <3> QED
      BY <1>6, <2>1, <3>3
  <2>5. CASE y.step \in {"idle", "masuk"}
    <3>1. RequestFits(y)'
      BY <2>2, <2>5 DEF RequestFits
    <3> QED
      BY <1>6, <2>1, <3>1
  <2> QED
    BY <2>2, <2>3, <2>4, <2>5 DEF RequestRow
<1>17. ASSUME NEW x \in Requests \ {r}
       PROVE  Apart(row, request[x]) /\ Apart(request[x], row)
  <2>1. Fresh(request[x]) => request[x].booking \in Made
    BY CheckoutRests DEF Fresh, RequestFits
  <2> QED
    BY <1>2, <1>3, <2>1 DEF Apart, Fresh
<1>18. ASSUME NEW x \in Requests, NEW y \in Requests, x # y
       PROVE  Apart(request'[x], request'[y])
  <2>1. CASE x = r
    BY <1>6, <1>17, <1>18, <2>1
  <2>2. CASE y = r
    BY <1>6, <1>17, <1>18, <2>2
  <2>3. CASE x # r /\ y # r
    BY <1>6, <1>18, <2>3, CheckoutRests
  <2> QED
    BY <2>1, <2>2, <2>3
<1>19. \A x \in Requests : RequestFits(request[x])'
  BY <1>6, <1>15, <1>16
<1> QED
  BY <1>8, <1>9, <1>11, <1>13, <1>14, <1>18, <1>19 DEF CheckoutInv, Apart, Fresh

(* The handler's end: a new booking of a customer is mailed and counted, an  *)
(* answer given again is not.                                                *)
LEMMA FinishKeeps ==
  ASSUME CheckoutInv, NEW r \in Requests, Finish(r)
  PROVE  CheckoutInv'
<1>1. PICK q, b, a, x : /\ q = request[r] /\ b = q.booking /\ a = q.print.akun
                        /\ x = [key |-> q.key, print |-> q.print, booking |-> b]
  OBVIOUS
<1>2. /\ q \in RequestRow /\ RequestFits(q) /\ q.step = "committed" /\ q.key \in Keys /\ q.print \in Prints
      /\ b \in Made /\ b \in Bookings /\ booking[b].print = q.print /\ Stored(q) = b
  BY <1>1, CheckoutRests DEF RequestFits, Finish, Made
<1>3. x \in AnswerRow /\ x.key = q.key /\ x.print = q.print /\ x.booking = b
  BY <1>1, <1>2 DEF AnswerRow
<1>4. /\ answers' = answers \cup {x} /\ request' = [request EXCEPT ![r] = NoRequest]
      /\ UNCHANGED <<booking, toko, deal>>
  BY <1>1 DEF Finish, Answered
<1>5. /\ request' \in [Requests -> RequestRow] /\ request'[r] = NoRequest
      /\ \A p \in Requests \ {r} : request'[p] = request[p]
  BY <1>4, CheckoutRests, IdleFits
<1>6. /\ Fresh(q) => mails[b] = 0 /\ a \in Accounts
      /\ IF Fresh(q) THEN hits' = Counted(a, b) /\ mails' = [mails EXCEPT ![b] = mails[b] + 1]
                     ELSE UNCHANGED <<hits, mails>>
  <2>1. Fresh(q) => mails[b] = 0 /\ a \in Accounts
    BY <1>1, <1>2, PrintIs DEF RequestFits, Fresh
  <2>2. Fresh(q) <=> Jalur(r) = "web" /\ ~ q.replayed
    BY <1>1, <1>2 DEF Fresh, Jalur
  <2> QED
    BY <1>1, <2>1, <2>2 DEF Finish
<1>7. /\ mails' \in [Bookings -> 0..1]
      /\ \A c \in Bookings : mails'[c] = IF Fresh(q) /\ c = b THEN 1 ELSE mails[c]
  <2>1. CASE Fresh(q)
    <3>1. mails' = [mails EXCEPT ![b] = 1]
      BY <1>6, <2>1
    <3> QED
      BY <1>2, <2>1, <3>1, CheckoutRests
  <2>2. CASE ~ Fresh(q)
    BY <1>6, <2>2, CheckoutRests
  <2> QED
    BY <2>1, <2>2
<1>8. /\ hits' \in [Accounts -> HitsRow]
      /\ \A c \in Accounts : hits'[c].count = IF Fresh(q) /\ c = a THEN hits[c].count + 1 ELSE hits[c].count
  <2>1. CASE Fresh(q)
    <3>1. PICK row : row = [count |-> hits[a].count + 1, first |-> IF hits[a].count = 0 THEN b ELSE hits[a].first]
      OBVIOUS
    <3>2. hits[a] \in HitsRow /\ a \in Accounts
      BY <1>6, <2>1, CheckoutRests
    <3>3. row \in HitsRow /\ row.count = hits[a].count + 1
      BY <1>2, <3>1, <3>2 DEF HitsRow
    <3>4. hits' = [hits EXCEPT ![a] = row]
      BY <1>6, <2>1, <3>1 DEF Counted
    <3> QED
      BY <2>1, <3>2, <3>3, <3>4, CheckoutRests
  <2>2. CASE ~ Fresh(q)
    BY <1>6, <2>2, CheckoutRests
  <2> QED
    BY <2>1, <2>2
<1>9. Made' = Made
  BY <1>4 DEF Made
<1>10. ASSUME NEW c \in Accounts
       PROVE  hits'[c].count <= Cardinality(Mailed(c)')
  <2>1. PICK M, M2 : M = Mailed(c) /\ M2 = Mailed(c)'
    OBVIOUS
  <2>2. IsFiniteSet(M) /\ Cardinality(M) \in Nat
    <3>1. M \subseteq Bookings
      BY <2>1 DEF Mailed, Made
    <3> QED
      BY <3>1, CheckoutAssumption, FS_Subset, FS_CardinalityType
  <2>3. PICK h : h = hits[c].count
    OBVIOUS
  <2>4. h \in Nat /\ h <= Cardinality(M)
    BY <2>1, <2>3, CheckoutRests DEF CheckoutInv, CountsFit, HitsRow
  <2>5. CASE Fresh(q) /\ c = a
    <3>1. b \notin M /\ M2 = M \cup {b}
      BY <1>1, <1>2, <1>4, <1>6, <1>7, <1>9, <2>1, <2>5 DEF Mailed, Made
    <3>2. Cardinality(M \cup {b}) = Cardinality(M) + 1
      BY <2>2, <3>1, FS_AddElement
    <3>3. hits'[c].count = h + 1
      BY <1>8, <2>3, <2>5
    <3> QED
      BY <2>1, <2>2, <2>4, <3>1, <3>2, <3>3
  <2>6. CASE ~ (Fresh(q) /\ c = a)
    <3>1. M2 = M
      BY <1>1, <1>2, <1>4, <1>7, <1>9, <2>1, <2>6 DEF Mailed, Made
    <3> QED
      BY <1>8, <2>1, <2>3, <2>4, <2>6, <3>1
  <2> QED
    BY <2>5, <2>6
<1>11. CountsFit'
  <2>1. \A c \in Bookings : mails'[c] = 1 => c \in Made' /\ booking'[c].print.jalur = "web"
    BY <1>2, <1>4, <1>7, <1>9 DEF CheckoutInv, CountsFit, Fresh
  <2> QED
    BY <1>10, <2>1 DEF CountsFit
<1>12. AnswersFit'
  <2> SUFFICES ASSUME NEW y \in answers'
               PROVE  y.booking \in Made /\ booking[y.booking].print = y.print /\ Stored(y) = y.booking
    BY <1>4, <1>9 DEF AnswersFit, Stored
  <2>1. CASE y = x
    BY <1>2, <1>3, <2>1 DEF Stored
  <2>2. CASE y \in answers
    BY <2>2 DEF CheckoutInv, AnswersFit
  <2> QED
    BY <1>4, <2>1, <2>2
<1>13. CheckoutTypes' /\ StoresFit' /\ LeadConvertsOnce'
  BY <1>3, <1>4, <1>5, <1>7, <1>8, <1>9, CheckoutRests
     DEF CheckoutInv, CheckoutTypes, StoresFit, LeadConvertsOnce
<1>14. ASSUME NEW p \in Requests
       PROVE  RequestFits(request[p])'
  <2>1. PICK y : y = request'[p]
    OBVIOUS
  <2>2. CASE p = r
    BY <1>5, <2>2 DEF RequestFits, NoRequest
  <2>3. CASE p # r
    <3>1. y = request[p] /\ RequestFits(y) /\ Apart(q, y)
      BY <1>1, <1>5, <2>1, <2>3, CheckoutRests
    <3>2. Fresh(y) => mails'[y.booking] = mails[y.booking]
      BY <1>1, <1>7, <3>1 DEF Apart, RequestFits, Fresh, Made
    <3>3. RequestFits(y)'
      BY <1>4, <1>9, <3>1, <3>2 DEF RequestFits, Stored, Fresh
    <3> QED
      BY <2>1, <3>3
  <2> QED
    BY <2>2, <2>3
<1>15. ASSUME NEW p \in Requests, NEW y \in Requests, p # y
       PROVE  Apart(request'[p], request'[y])
  <2>1. \A z : Apart(NoRequest, z) /\ Apart(z, NoRequest)
    BY DEF Apart, Fresh, NoRequest
  <2> QED
    BY <1>5, <1>15, <2>1, CheckoutRests
<1> QED
  BY <1>11, <1>12, <1>13, <1>14, <1>15 DEF CheckoutInv, Apart, Fresh

(* Steps that make no booking and answer nothing, and only forget requests   *)
(* and counts: what a booking was made for, and what is stored, stays.       *)
LEMMA ForgetKeeps ==
  ASSUME CheckoutInv, booking' \in [Bookings -> SoldRow \cup {NoBooking}],
         \A b \in Bookings : b \in Made' <=> b \in Made,
         \A b \in Made : booking'[b].print = booking[b].print,
         hits' \in [Accounts -> HitsRow], \A a \in Accounts : hits'[a].count <= hits[a].count,
         request' \in [Requests -> RequestRow],
         \A r \in Requests : request'[r] = request[r] \/ request'[r] = NoRequest,
         UNCHANGED <<toko, deal, answers, mails>>
  PROVE  CheckoutInv'
<1>1. Made' = Made
  BY DEF Made
<1>2. \A a : Mailed(a)' = Mailed(a)
  BY <1>1 DEF Mailed
<1>3. CheckoutTypes' /\ StoresFit' /\ AnswersFit' /\ LeadConvertsOnce'
  BY <1>1 DEF CheckoutInv, CheckoutTypes, StoresFit, AnswersFit, LeadConvertsOnce, Stored
<1>4. CountsFit'
  <2>1. ASSUME NEW a \in Accounts
        PROVE  hits'[a].count <= Cardinality(Mailed(a)')
    <3>1. PICK h, h2, n : h = hits[a].count /\ h2 = hits'[a].count /\ n = Cardinality(Mailed(a))
      OBVIOUS
    <3>2. h \in Nat /\ h2 \in Nat /\ h2 <= h /\ h <= n
      BY <3>1, CheckoutRests DEF CheckoutInv, CountsFit, HitsRow
    <3>3. n \in Nat
      <4>1. IsFiniteSet(Mailed(a))
        BY CheckoutAssumption, FS_Subset DEF Mailed, Made
      <4> QED
        BY <3>1, <4>1, FS_CardinalityType
    <3> QED
      BY <1>2, <3>1, <3>2, <3>3
  <2> QED
    BY <1>1, <2>1 DEF CheckoutInv, CountsFit
<1>5. ASSUME NEW r \in Requests
      PROVE  RequestFits(request[r])'
  <2>1. PICK y : y = request'[r]
    OBVIOUS
  <2>2. RequestFits(y)
    BY <2>1, CheckoutRests, IdleFits
  <2>3. RequestFits(y)'
    BY <1>1, <2>2 DEF RequestFits, Stored, Fresh
  <2> QED
    BY <2>1, <2>3
<1>6. ASSUME NEW r \in Requests, NEW q \in Requests, r # q
      PROVE  Apart(request'[r], request'[q])
  <2>1. \A z : Apart(NoRequest, z) /\ Apart(z, NoRequest)
    BY DEF Apart, Fresh, NoRequest
  <2> QED
    BY <1>6, <2>1, CheckoutRests
<1> QED
  BY <1>3, <1>4, <1>5, <1>6 DEF CheckoutInv, Apart, Fresh

LEMMA BecomesKeeps ==
  ASSUME CheckoutInv, NEW b \in Bookings, b \in Made, NEW row \in SoldRow, row.print = booking[b].print,
         Becomes(b, row)
  PROVE  CheckoutInv'
<1>1. /\ booking' = [booking EXCEPT ![b] = row]
      /\ UNCHANGED <<toko, deal, hits, request, answers, mails>>
  BY DEF Becomes
<1>2. /\ booking' \in [Bookings -> SoldRow \cup {NoBooking}] /\ booking'[b] = row
      /\ \A c \in Bookings \ {b} : booking'[c] = booking[c]
  BY <1>1, CheckoutRests
<1>3. \A c \in Bookings : c \in Made' <=> c \in Made
  BY <1>2 DEF Made, SoldRow
<1>4. \A a \in Accounts : hits'[a].count <= hits[a].count
  BY <1>1, CheckoutRests DEF HitsRow
<1> QED
  BY <1>1, <1>2, <1>3, <1>4, CheckoutRests, ForgetKeeps DEF Made

LEMMA BookingMovesKeep ==
  ASSUME CheckoutInv, NEW b \in Bookings,
         DayPasses(b) \/ HoldEnds(b) \/ BlockSeat(b) \/ Pay(b) \/ Cancel(b)
  PROVE  CheckoutInv' /\ Made' = Made
<1>1. b \in Made
  <2>1. NoBooking.status = "none" /\ ~ NoBooking.hariIni
    BY DEF NoBooking
  <2>2. booking[b].hariIni \/ booking[b].status \in {"baru", "dp"}
    BY DEF DayPasses, HoldEnds, BlockSeat, Pay, Cancel
  <2>3. booking[b] # NoBooking
    BY <2>1, <2>2
  <2> QED
    BY <2>3, SoldIs DEF CheckoutInv
<1>2. PICK o : o = booking[b]
  OBVIOUS
<1>3. o \in SoldRow
  BY <1>1, <1>2, SoldIs DEF CheckoutInv
<1>4. ASSUME NEW row \in SoldRow, row.print = o.print, Becomes(b, row)
      PROVE  CheckoutInv' /\ Made' = Made
  <2>1. CheckoutInv'
    BY <1>1, <1>2, <1>4, BecomesKeeps
  <2>2. \A c \in Bookings : c \in Made' <=> c \in Made
    BY <1>1, <1>4, CheckoutRests DEF Becomes, Made, SoldRow
  <2> QED
    BY <2>1, <2>2 DEF Made
<1>5. CASE DayPasses(b)
  <2>1. PICK row : row = [o EXCEPT !.hariIni = FALSE]
    OBVIOUS
  <2>2. row \in SoldRow /\ row.print = o.print /\ Becomes(b, row)
    BY <1>2, <1>3, <1>5, <2>1 DEF SoldRow, DayPasses
  <2> QED
    BY <1>4, <2>2
<1>6. CASE HoldEnds(b)
  <2>1. PICK row : row = [o EXCEPT !.held = FALSE]
    OBVIOUS
  <2>2. row \in SoldRow /\ row.print = o.print /\ Becomes(b, row)
    BY <1>2, <1>3, <1>6, <2>1 DEF SoldRow, HoldEnds
  <2> QED
    BY <1>4, <2>2
<1>7. CASE BlockSeat(b)
  <2>1. PICK row : row = [o EXCEPT !.held = TRUE]
    OBVIOUS
  <2>2. row \in SoldRow /\ row.print = o.print /\ Becomes(b, row)
    BY <1>2, <1>3, <1>7, <2>1 DEF SoldRow, BlockSeat
  <2> QED
    BY <1>4, <2>2
<1>8. CASE Pay(b)
  <2>1. PICK row : row = [o EXCEPT !.status = "dp", !.held = TRUE]
    OBVIOUS
  <2>2. row \in SoldRow /\ row.print = o.print /\ Becomes(b, row)
    BY <1>2, <1>3, <1>8, <2>1 DEF SoldRow, Pay
  <2> QED
    BY <1>4, <2>2
<1>9. CASE Cancel(b)
  <2>1. PICK row : row = [o EXCEPT !.status = "batal", !.held = FALSE]
    OBVIOUS
  <2>2. row \in SoldRow /\ row.print = o.print /\ Becomes(b, row)
    BY <1>2, <1>3, <1>9, <2>1 DEF SoldRow, Cancel
  <2> QED
    BY <1>4, <2>2
<1> QED
  BY <1>5, <1>6, <1>7, <1>8, <1>9

LEMMA CheckoutKept ==
  ASSUME CheckoutInv, [Next]_vars
  PROVE  CheckoutInv'
<1>0. NoHits \in HitsRow /\ NoHits.count = 0
  BY DEF NoHits, HitsRow
<1>1. ASSUME NEW a \in Accounts, WindowEnds(a)
      PROVE  CheckoutInv'
  <2>1. hits' \in [Accounts -> HitsRow] /\ \A c \in Accounts : hits'[c].count <= hits[c].count
    BY <1>0, <1>1, CheckoutRests DEF WindowEnds, HitsRow
  <2> QED
    BY <1>1, <2>1, CheckoutRests, ForgetKeeps DEF WindowEnds, Made
<1>2. CASE Restart
  <2>1. hits' \in [Accounts -> HitsRow] /\ \A c \in Accounts : hits'[c].count <= hits[c].count
    BY <1>0, <1>2, CheckoutRests DEF Restart, HitsRow
  <2>2. request' \in [Requests -> RequestRow] /\ \A r \in Requests : request'[r] = NoRequest
    BY <1>2, IdleFits DEF Restart
  <2> QED
    BY <1>2, <2>1, <2>2, CheckoutRests, ForgetKeeps DEF Restart, Made
<1>3. CASE UNCHANGED vars
  <2>1. \A c \in Accounts : hits'[c].count <= hits[c].count
    BY <1>3, CheckoutRests DEF HitsRow, vars
  <2> QED
    BY <1>3, <2>1, CheckoutRests, ForgetKeeps DEF vars, Made
<1> QED
  BY <1>1, <1>2, <1>3, ReceiveKeeps, RefuseKeeps, BeginKeeps, CommitKeeps, FinishKeeps, BookingMovesKeep DEF Next

(* However often a request is sent and wherever the server stops: one        *)
(* booking per key and per lead, the one that was asked for, and no cost for *)
(* repeats.                                                                  *)
THEOREM CheckoutStaysRight == Spec => [](CheckoutInv /\ CheckoutInvariant)
<1>1. Init => CheckoutInv
  BY CheckoutBegins
<1>2. CheckoutInv /\ [Next]_vars => CheckoutInv'
  BY CheckoutKept
<1>3. CheckoutInv => CheckoutInvariant
  BY CheckoutInvSays
<1> QED
  BY <1>1, <1>2, <1>3, PTL DEF Spec

-----------------------------------------------------------------------------
(* What an account may hold and book *)

SeatsIn(table) == [b \in Bookings |-> table[b].print.form.seats]

(* The bookings SeatDitahan counts, and those DibuatHariIni counts.          *)
Held(a, S) == {b \in Made : /\ booking[b].print.akun = a /\ booking[b].print.form.jadwal \in S
                            /\ booking[b].status = "baru" /\ booking[b].held}

Recent(a) == {b \in Made : booking[b].print.akun = a /\ booking[b].hariIni}

LEMMA SeatsAreSum ==
  ASSUME NEW table, NEW S, S \subseteq Bookings
  PROVE  MapThenSumSet(LAMBDA b : table[b].print.form.seats, S) = SumFunctionOnSet(SeatsIn(table), S)
<1> DEFINE Adds(g) == g = [s \in SUBSET S |-> IF s = {} THEN 0 ELSE table[Chosen(s)].print.form.seats + g[s \ {Chosen(s)}]]
           h == CHOOSE g : Adds(g)
           f == SeatsIn(table)
<1>1. MapThenSumSet(LAMBDA b : table[b].print.form.seats, S) = h[S]
  BY DEF MapThenSumSet, MapThenFoldSet, Chosen
<1>2. \A s \in SUBSET S : s # {} => f[Chosen(s)] = table[Chosen(s)].print.form.seats
  BY ChosenIsIn DEF SeatsIn
<1> HIDE DEF f
<1>3. ASSUME NEW g
      PROVE  Adds(g) <=> Adder(g, f, S)
  <2>1. [s \in SUBSET S |-> IF s = {} THEN 0 ELSE table[Chosen(s)].print.form.seats + g[s \ {Chosen(s)}]]
          = [s \in SUBSET S |-> IF s = {} THEN 0 ELSE f[Chosen(s)] + g[s \ {Chosen(s)}]]
    BY <1>2
  <2> QED
    BY <2>1 DEF Adder
<1> HIDE DEF Adds
<1>4. IsFiniteSet(S)
  BY CheckoutAssumption, FS_Subset
<1>5. Adder(AnAdder(f, S), f, S)
  BY <1>4, AdderExists
<1>6. Adder(h, f, S)
  BY <1>3, <1>5
<1>7. h[S] = AnAdder(f, S)[S]
  BY <1>4, <1>5, <1>6, AddersAgree
<1> QED
  BY <1>1, <1>7, SumIsAdders DEF f

(* In every state what is counted are these sets.                            *)
CountsSay ==
  \A a \in Accounts : \A S \in SUBSET Schedules :
    /\ SeatDitahan(a, S) = SumFunctionOnSet(SeatsIn(booking), Held(a, S))
    /\ Held(a, S) \subseteq Bookings
    /\ DibuatHariIni(a) = Cardinality(Recent(a)) /\ Recent(a) \subseteq Bookings

LEMMA CountsSaid == CountsSay
<1>1. ASSUME NEW a \in Accounts, NEW S \in SUBSET Schedules
      PROVE  /\ SeatDitahan(a, S) = SumFunctionOnSet(SeatsIn(booking), Held(a, S))
             /\ Held(a, S) \subseteq Bookings
  <2>1. Held(a, S) \subseteq Bookings
    BY DEF Held, Made
  <2>2. MapThenSumSet(LAMBDA b : booking[b].print.form.seats, Held(a, S)) = SumFunctionOnSet(SeatsIn(booking), Held(a, S))
    BY <2>1, SeatsAreSum
  <2> QED
    BY <2>1, <2>2 DEF SeatDitahan, Held
<1>2. \A a \in Accounts : DibuatHariIni(a) = Cardinality(Recent(a)) /\ Recent(a) \subseteq Bookings
  BY DEF DibuatHariIni, Recent, Made
<1> QED
  BY <1>1, <1>2 DEF CountsSay

(* A new booking adds its own seats to those its account holds.              *)
LEMMA SeatsAdded ==
  ASSUME CheckoutInv, NEW b \in Bookings, b \notin Made, NEW sold \in SoldRow,
         sold.status = "baru", sold.held, booking' = [booking EXCEPT ![b] = sold],
         NEW a \in Accounts, sold.print.akun = a,
         NEW S \in SUBSET Schedules, sold.print.form.jadwal \in S
  PROVE  SeatDitahan(a, S)' = SeatDitahan(a, S) + sold.print.form.seats
         /\ SeatDitahan(a, S) \in Nat
<1>1. /\ booking'[b] = sold /\ \A c \in Bookings \ {b} : booking'[c] = booking[c]
      /\ Made' = Made \cup {b}
  BY CheckoutRests DEF Made, SoldRow
<1>2. PICK H, f, g, n : /\ H = Held(a, S) /\ f = SeatsIn(booking) /\ g = SeatsIn(booking')
                        /\ n = sold.print.form.seats
  OBVIOUS
<1>3. PICK H2 : H2 = Held(a, S)'
  OBVIOUS
<1>4. H2 = H \cup {b} /\ b \notin H
  BY <1>1, <1>2, <1>3 DEF Held, Made
<1>5. SeatDitahan(a, S) = SumFunctionOnSet(f, H) /\ H \subseteq Bookings
  BY <1>2, CountsSaid DEF CountsSay
<1>6. SeatDitahan(a, S)' = SumFunctionOnSet(g, H2) /\ H2 \subseteq Bookings
  <2>1. CountsSay'
    BY CountsSaid, PTL
  <2> QED
    BY <1>2, <1>3, <2>1 DEF CountsSay, SeatsIn
<1>7. IsFiniteSet(H) /\ IsFiniteSet(H2)
  BY <1>5, <1>6, CheckoutAssumption, FS_Subset
<1>8. n \in Nat
  BY <1>2, PrintIs DEF SoldRow
<1>9. \A c \in H : f[c] \in Nat /\ g[c] = f[c]
  <2> SUFFICES ASSUME NEW c \in H PROVE f[c] \in Nat /\ g[c] = f[c]
    OBVIOUS
  <2>1. c \in Made /\ c \in Bookings /\ c # b
    BY <1>2, <1>4, <1>5 DEF Held
  <2>2. booking[c].print \in Prints /\ booking'[c] = booking[c]
    BY <1>1, <2>1, SoldIs DEF CheckoutInv
  <2>3. booking[c].print.form.seats \in Nat
    BY <2>2, PrintIs
  <2> QED
    BY <1>2, <2>1, <2>2, <2>3 DEF SeatsIn
<1>10. g[b] = n
  BY <1>1, <1>2 DEF SeatsIn
<1>11. SumFunctionOnSet(g, H) = SumFunctionOnSet(f, H) /\ SumFunctionOnSet(f, H) \in Nat
  BY <1>7, <1>9, SumAgrees, SumIsNat
<1>12. SumFunctionOnSet(g, H2) = g[b] + SumFunctionOnSet(g, H2 \ {b})
  <2>1. \A c \in H2 : g[c] \in Int
    BY <1>4, <1>8, <1>9, <1>10
  <2> QED
    BY <1>4, <1>7, <2>1, SumSplit
<1>13. SumFunctionOnSet(g, H2 \ {b}) = SumFunctionOnSet(g, H)
  <2>1. H2 \ {b} = H
    BY <1>4
  <2> QED
    BY <2>1, Zenon
<1> QED
  BY <1>2, <1>5, <1>6, <1>8, <1>10, <1>11, <1>12, <1>13

LEMMA AdmissionStep ==
  ASSUME CheckoutInv, [Next]_vars, NEW a \in Accounts, NEW s \in Schedules,
         NEW b \in Made' \ Made, booking'[b].print.jalur = "web", booking'[b].print.akun = a,
         booking'[b].print.form.jadwal = s
  PROVE  /\ DibuatHariIni(a)' <= BookingHarian
         /\ SeatDitahan(a, {s})' <= SeatPerJadwal /\ SeatDitahan(a, Schedules)' <= SeatTotal
<1>1. ASSUME booking' = booking
      PROVE  FALSE
  BY <1>1 DEF Made
<1>2. PICK r \in Requests, c \in Bookings : CheckoutCommit(r, c) \/ DealCommit(r, c)
  <2>1. ASSUME NEW c \in Bookings, DayPasses(c) \/ HoldEnds(c) \/ BlockSeat(c) \/ Pay(c) \/ Cancel(c)
        PROVE  FALSE
    BY <2>1, BookingMovesKeep
  <2>2. ASSUME NEW r \in Requests, CheckoutBegin(r) \/ DealBegin(r) \/ Refuse(r) \/ Finish(r)
        PROVE  FALSE
    BY <1>1, <2>2 DEF CheckoutBegin, DealBegin, Refuse, Finish, Answered
  <2>3. ASSUME NEW r \in Requests, NEW k \in Keys, NEW p \in Prints, Receive(r, k, p)
        PROVE  FALSE
    BY <1>1, <2>3 DEF Receive
  <2>4. ~ (\E x \in Accounts : WindowEnds(x)) /\ ~ Restart /\ ~ UNCHANGED vars
    BY <1>1 DEF WindowEnds, Restart, vars
  <2> QED
    BY <2>1, <2>2, <2>3, <2>4 DEF Next
<1>3. PICK p, sold : /\ p = request[r].print
                     /\ sold = [print |-> p, status |-> "baru", held |-> TRUE, hariIni |-> TRUE]
  OBVIOUS
<1>4. p \in Prints
  BY <1>2, <1>3, CheckoutRests DEF RequestFits, CheckoutCommit, DealCommit
<1>5. sold \in SoldRow /\ sold.print = p /\ sold.status = "baru" /\ sold.held /\ sold.hariIni
  BY <1>3, <1>4 DEF SoldRow
<1>6. booking' = [booking EXCEPT ![c] = sold] /\ c \notin Made
  BY <1>2, <1>3 DEF CheckoutCommit, DealCommit, Booked
<1>7. /\ booking'[c] = sold /\ \A d \in Bookings \ {c} : booking'[d] = booking[d]
      /\ Made' = Made \cup {c}
  BY <1>5, <1>6, CheckoutRests DEF Made
<1>8. b = c /\ p.jalur = "web" /\ p.akun = a /\ p.form.jadwal = s
  BY <1>5, <1>7
<1>9. WithinLimits(p)
  BY <1>2, <1>3, <1>8 DEF CheckoutCommit, DealCommit, Jalur
<1>10. PICK n : n = p.form.seats
  OBVIOUS
<1>11. n \in Nat /\ SeatPerJadwal \in Nat /\ SeatTotal \in Nat /\ BookingHarian \in Nat
  BY <1>4, <1>10, PrintIs, CheckoutAssumption
<1>12. SeatDitahan(a, {s})' <= SeatPerJadwal
  <2>1. SeatDitahan(a, {s})' = SeatDitahan(a, {s}) + n /\ SeatDitahan(a, {s}) \in Nat
    BY <1>5, <1>6, <1>8, <1>10, SeatsAdded
  <2>2. SeatDitahan(a, {s}) + n <= SeatPerJadwal
    BY <1>8, <1>9, <1>10 DEF WithinLimits, SeatsFit
  <2> QED
    BY <2>1, <2>2
<1>13. SeatDitahan(a, Schedules)' <= SeatTotal
  <2>1. SeatDitahan(a, Schedules)' = SeatDitahan(a, Schedules) + n /\ SeatDitahan(a, Schedules) \in Nat
    BY <1>5, <1>6, <1>8, <1>10, SeatsAdded
  <2>2. SeatDitahan(a, Schedules) + n <= SeatTotal
    BY <1>8, <1>9, <1>10 DEF WithinLimits, SeatsFit
  <2> QED
    BY <2>1, <2>2
<1>14. DibuatHariIni(a)' <= BookingHarian
  <2>1. PICK D, D2 : D = Recent(a) /\ D2 = Recent(a)'
    OBVIOUS
  <2>2. D2 = D \cup {c} /\ c \notin D
    BY <1>5, <1>6, <1>7, <1>8, <2>1 DEF Recent, Made
  <2>3. DibuatHariIni(a) = Cardinality(D) /\ D \subseteq Bookings
    BY <2>1, CountsSaid DEF CountsSay
  <2>4. DibuatHariIni(a)' = Cardinality(D2)
    BY <2>1 DEF DibuatHariIni, Recent
  <2>5. IsFiniteSet(D) /\ Cardinality(D) \in Nat
    BY <2>3, CheckoutAssumption, FS_Subset, FS_CardinalityType
  <2>6. Cardinality(D2) = Cardinality(D) + 1
    BY <2>2, <2>5, FS_AddElement
  <2>7. Cardinality(D) < BookingHarian
    BY <1>8, <1>9, <2>3 DEF WithinLimits
  <2> QED
    BY <1>11, <2>4, <2>5, <2>6, <2>7
<1> QED
  BY <1>12, <1>13, <1>14

(* However many requests of an account run at once, no booking of a customer *)
(* takes the account over a limit.                                           *)
THEOREM LimitsHold == Spec => AdmissionsWithinLimits
<1>1. Init => CheckoutInv
  BY CheckoutBegins
<1>2. CheckoutInv /\ [Next]_vars => CheckoutInv'
  BY CheckoutKept
<1>3. CheckoutInv /\ [Next]_vars =>
        [\A a \in Accounts, s \in Schedules :
           (\E b \in Made' \ Made : LET p == booking'[b].print IN p.jalur = "web" /\ p.akun = a /\ p.form.jadwal = s)
             => /\ DibuatHariIni(a)' <= BookingHarian
                /\ SeatDitahan(a, {s})' <= SeatPerJadwal /\ SeatDitahan(a, Schedules)' <= SeatTotal]_vars
  BY AdmissionStep
<1> QED
  BY <1>1, <1>2, <1>3, PTL DEF Spec, AdmissionsWithinLimits

=============================================================================
