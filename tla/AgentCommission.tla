-------------------------- MODULE AgentCommission ---------------------------
(***************************************************************************)
(* internal/komisi and internal/agen, second half: which agent a pilgrim   *)
(* is bound to, the commissions a paid booking earns, moving them to       *)
(* another agent, and paying an agent's balance out.                       *)
(*                                                                         *)
(* Two transactions are two steps. A payment that completes a booking took *)
(* its snapshot of the agents before it reaches the commission, where it   *)
(* reads the pilgrims' bindings under a lock. A move of commissions takes  *)
(* its snapshot of commissions, departures and payouts when it has locked  *)
(* the pilgrim, and locks the agents who lose a commission only later.     *)
(* Every other transaction locks before it reads and is one step.          *)
(*                                                                         *)
(* Agents become and stop being active and change their upline as they do  *)
(* in AgentAccounts; a booking is paid and drops back as its payments and  *)
(* its bill say; a schedule's date may be edited. Repeat-order commission  *)
(* and cashback are switched off in the program and left out. Amounts are  *)
(* counted in units of the smallest one.                                   *)
(***************************************************************************)
EXTENDS Integers, FiniteSets, FiniteSetsExt

CONSTANTS
  Agents,         \* accounts that are or were agents
  Suspendable,    \* agents an admin suspends and reactivates
  Uplines,        \* pairs <<agent, upline or NIHIL>> the accounts may get
  Jamaah,         \* pilgrims
  Infant,         \* pilgrims who travel as infants
  SelfOf,         \* SelfOf[a]: the pilgrim with the NIK of agent a, or NIHIL
  Pesanan,
  Pencairan,      \* ids of pengajuan_pencairan
  Amounts,        \* amounts an agent asks for
  Langsung,       \* snapshot_komisi_langsung of a booking
  Pembinaan,      \* snapshot_bonus_pembinaan of a booking
  Movers,         \* concurrent requests that rebind a pilgrim with commissions
  NIHIL

ASSUME AgentCommissionAssumption ==
  /\ Suspendable \subseteq Agents
  /\ Uplines \subseteq Agents \X (Agents \cup {NIHIL})
  /\ Infant \subseteq Jamaah
  /\ SelfOf \in [Agents -> Jamaah \cup {NIHIL}]
  /\ Amounts \subseteq Nat \ {0}
  /\ Langsung \in Nat /\ Pembinaan \in Nat
  /\ NIHIL \notin Agents \cup Jamaah
  /\ IsFiniteSet(Jamaah) /\ IsFiniteSet(Pencairan)   \* tables have finitely many rows

VARIABLES
  agen,      \* agen[a]: aktif, and upline
  jamaah,    \* jamaah[j]: kaitan_status and the agent bound to
  pesanan,   \* pesanan[b]: status, active pax, self: the agent who booked himself
  berangkat, \* bookings whose schedule has departed
  komisi,    \* rows of transaksi_komisi
  cair,      \* cair[w]: agent, amount and status of a payout
  lunas,     \* lunas[b]: the agents as a payment being completed sees them
  pindah     \* pindah[m]: an open move: pilgrim, new agent, and its snapshot

komisiVars == <<agen, jamaah, pesanan, berangkat, komisi, cair, lunas, pindah>>

NoMove == [jamaah |-> NIHIL, agen |-> NIHIL, upline |-> NIHIL, departed |-> {},
           saldo |-> [a \in Agents |-> 0]]

NoPayout == [agen |-> NIHIL, nominal |-> 0, status |-> "none"]

Unbound == [status |-> "belum_ditentukan", agen |-> NIHIL]

CommissionInit ==
  /\ agen = [a \in Agents |-> [aktif |-> TRUE, upline |-> NIHIL]]
  /\ jamaah = [j \in Jamaah |-> [status |-> "absent", agen |-> NIHIL]]
  /\ pesanan = [b \in Pesanan |-> [status |-> "absent", pax |-> {}, self |-> NIHIL]]
  /\ berangkat = {}
  /\ komisi = {}
  /\ cair = [w \in Pencairan |-> NoPayout]
  /\ lunas = [b \in Pesanan |-> NIHIL]
  /\ pindah = [m \in Movers |-> NoMove]

Moving == {pindah[m].jamaah : m \in Movers}

Active(a) == a # NIHIL /\ agen[a].aktif

-----------------------------------------------------------------------------
(* Binding a pilgrim to an agent *)

(* An admin records a pilgrim and may say at once which agent he is of.      *)
JamaahBaru(j, kaitan) ==
  /\ jamaah[j].status = "absent"
  /\ kaitan.status = "terikat_agen" => Active(kaitan.agen)
  /\ jamaah' = [jamaah EXCEPT ![j] = kaitan]
  /\ UNCHANGED <<agen, pesanan, berangkat, komisi, cair, lunas, pindah>>

(* Fault: whoever books last is the agent.                                   *)
IkatLast(S, a) ==
  [j \in Jamaah |-> IF j \in S /\ a # NIHIL
                    THEN [status |-> "terikat_agen", agen |-> a] ELSE jamaah[j]]

(* IkatRombongan: who is bound already, or for good to nobody, stays so.     *)
Ikat(S, a) ==
  [j \in Jamaah |->
     IF j \in S /\ a # NIHIL /\ jamaah[j].status = "belum_ditentukan"
     THEN [status |-> "terikat_agen", agen |-> a] ELSE jamaah[j]]

(* A booking is made, or a draft finalized, with pax S of whom pic is the    *)
(* first. New pilgrims are recorded unbound. The agent is, by the desk, the  *)
(* first pilgrim's; online or by CRM, an active recruiter or referrer or     *)
(* none; on the agents' portal, the active agent, who may travel himself.    *)
Pesan(b, S, pic, a, self) ==
  /\ pesanan[b].status = "absent"
  /\ pic \in S /\ S \cap Moving = {}
  /\ \A j \in S : jamaah[j].status # "absent"
  /\ a \in {NIHIL, jamaah[pic].agen} \cup {x \in Agents : agen[x].aktif}
  /\ self # NIHIL => self = a /\ Active(a) /\ SelfOf[a] = pic
  /\ jamaah' = Ikat(S, a)
  /\ pesanan' = [pesanan EXCEPT ![b] = [status |-> "belum_lunas", pax |-> S, self |-> self]]
  /\ UNCHANGED <<agen, berangkat, komisi, cair, lunas, pindah>>

-----------------------------------------------------------------------------
(* Commissions *)

(* The payment's transaction reads; the agents it will see are those of now. *)
LunasBegin(b) ==
  /\ pesanan[b].status = "belum_lunas" /\ lunas[b] = NIHIL
  /\ lunas' = [lunas EXCEPT ![b] = agen]
  /\ UNCHANGED <<agen, jamaah, pesanan, berangkat, komisi, cair, pindah>>

(* Who sold this pax: himself, or the agent the pilgrim is bound to.         *)
Seller(b, j) ==
  IF pesanan[b].self # NIHIL /\ SelfOf[pesanan[b].self] = j
  THEN pesanan[b].self ELSE jamaah[j].agen

(* Rows ProcessBookingLunas writes for one pax; infants earn nothing.        *)
Earned(b, j, seen) ==
  LET a == Seller(b, j) IN
  IF a = NIHIL \/ j \in Infant THEN {} ELSE
  LET up == seen[a].upline IN
  {[booking |-> b, jamaah |-> j, jenis |-> "langsung", penerima |-> x] :
      x \in {y \in {a} : seen[y].aktif /\ Langsung > 0}}
  \cup
  {[booking |-> b, jamaah |-> j, jenis |-> "pembinaan", penerima |-> x] :
      x \in {y \in {up} \ {NIHIL} : seen[y].aktif /\ Pembinaan > 0}}

(* A row that is there already stays (UNIQUE pax, kind and recipient).       *)
LunasCommit(b) ==
  /\ lunas[b] # NIHIL
  /\ pesanan[b].pax \cap Moving = {}
  /\ pesanan' = [pesanan EXCEPT ![b].status = "lunas"]
  /\ komisi' = komisi \cup UNION {Earned(b, j, lunas[b]) : j \in pesanan[b].pax}
  /\ lunas' = [lunas EXCEPT ![b] = NIHIL]
  /\ UNCHANGED <<agen, jamaah, berangkat, cair, pindah>>

(* The bill grows, or a payment is rejected: not paid any more.              *)
Mundur(b) ==
  /\ pesanan[b].status = "lunas"
  /\ pesanan' = [pesanan EXCEPT ![b].status = "belum_lunas"]
  /\ UNCHANGED <<agen, jamaah, berangkat, komisi, cair, lunas, pindah>>

(* A pax cancels; what was earned stays the agent's.                         *)
BatalPax(b, j) ==
  /\ j \in pesanan[b].pax /\ lunas[b] = NIHIL
  /\ pesanan' = [pesanan EXCEPT ![b].pax = @ \ {j}]
  /\ UNCHANGED <<agen, jamaah, berangkat, komisi, cair, lunas, pindah>>

-----------------------------------------------------------------------------
(* Balances and payouts *)

Nominal(k) == IF k.jenis = "langsung" THEN Langsung ELSE Pembinaan

(* What the rows of S bring an agent, when these bookings have departed.     *)
Bersih(S, a, departed) ==
  MapThenSumSet(Nominal, {k \in S : k.penerima = a /\ k.booking \in departed})

(* HitungSaldo: earned on departed schedules, less paid out and asked for.   *)
Tersedia(a) ==
  Bersih(komisi, a, berangkat)
  - MapThenSumSet(LAMBDA w : cair[w].nominal,
                  {w \in Pencairan : cair[w].agen = a /\ cair[w].status # "ditolak"})

AjukanPencairan(w, a, n) ==
  /\ cair[w].status = "none"
  /\ agen[a].aktif
  /\ ~\E v \in Pencairan : cair[v].agen = a /\ cair[v].status = "pending"
  /\ n <= Tersedia(a)
  /\ cair' = [cair EXCEPT ![w] = [agen |-> a, nominal |-> n, status |-> "pending"]]
  /\ UNCHANGED <<agen, jamaah, pesanan, berangkat, komisi, lunas, pindah>>

(* The balance is looked at again: it must bear this payout.                 *)
SetujuiPencairan(w) ==
  /\ cair[w].status = "pending"
  /\ Tersedia(cair[w].agen) >= 0
  /\ cair' = [cair EXCEPT ![w].status = "disetujui"]
  /\ UNCHANGED <<agen, jamaah, pesanan, berangkat, komisi, lunas, pindah>>

TolakPencairan(w) ==
  /\ cair[w].status = "pending"
  /\ cair' = [cair EXCEPT ![w].status = "ditolak"]
  /\ UNCHANGED <<agen, jamaah, pesanan, berangkat, komisi, lunas, pindah>>

-----------------------------------------------------------------------------
(* gantiKaitanTx and pindahkanKomisiTx *)

RowsOf(j) == {k \in komisi : k.jamaah = j}

Bound(j, a) ==
  [jamaah EXCEPT ![j] = IF a = NIHIL THEN [status |-> "tanpa_agen", agen |-> NIHIL]
                                    ELSE [status |-> "terikat_agen", agen |-> a]]

(* Fault: the commissions were looked for when the page was opened.          *)
GantiKaitanUnchecked(j, a) ==
  /\ jamaah[j].status # "absent" /\ j \notin Moving
  /\ IF a = NIHIL THEN jamaah[j].status # "tanpa_agen" ELSE Active(a) /\ jamaah[j].agen # a
  /\ jamaah' = Bound(j, a)
  /\ UNCHANGED <<agen, pesanan, berangkat, komisi, cair, lunas, pindah>>

(* Without commissions the pilgrim is just bound anew, or to nobody.         *)
GantiKaitan(j, a) ==
  /\ jamaah[j].status # "absent" /\ j \notin Moving
  /\ RowsOf(j) = {}
  /\ IF a = NIHIL THEN jamaah[j].status # "tanpa_agen" ELSE Active(a) /\ jamaah[j].agen # a
  /\ jamaah' = Bound(j, a)
  /\ UNCHANGED <<agen, pesanan, berangkat, komisi, cair, lunas, pindah>>

(* The pilgrim is locked; what is read from now on is as of now.             *)
PindahkanBegin(m, j, a) ==
  /\ pindah[m] = NoMove /\ j \notin Moving
  /\ RowsOf(j) # {}
  /\ Active(a) /\ jamaah[j].agen # a
  /\ pindah' = [pindah EXCEPT ![m] =
       [jamaah |-> j, agen |-> a, upline |-> agen[a].upline, departed |-> berangkat,
        saldo |-> [x \in Agents |-> Tersedia(x)]]]
  /\ UNCHANGED <<agen, jamaah, pesanan, berangkat, komisi, cair, lunas>>

(* Where a row goes: NIHIL for a bonus that has no recipient, a deleted row.  *)
Target(m, k) == IF k.jenis = "langsung" THEN pindah[m].agen ELSE pindah[m].upline

(* Rows their recipient loses, and what is left of them after the move.      *)
Lost(m) == {k \in RowsOf(pindah[m].jamaah) : Target(m, k) # k.penerima}

Moved(m) == {[k EXCEPT !.penerima = Target(m, k)] :
               k \in {r \in RowsOf(pindah[m].jamaah) : Target(m, r) # NIHIL}}

(* Two rows of a pax and kind cannot go to the same recipient (UNIQUE).      *)
RowsCollide(m) ==
  \E k, r \in RowsOf(pindah[m].jamaah) :
     /\ k # r /\ k.booking = r.booking /\ k.jenis = r.jenis
     /\ Target(m, k) # NIHIL

(* Fault: the agents who lose a commission are not asked.                    *)
UnheardFits(m) == TRUE

(* HitungSaldo after the updates: the snapshot, but for the rows just moved, *)
(* those the agent gains (the new agent's upline, say) as well as the lost.  *)
SaldoSesudah(m, a) ==
  pindah[m].saldo[a] - Bersih(RowsOf(pindah[m].jamaah), a, pindah[m].departed)
                     + Bersih(Moved(m), a, pindah[m].departed)

(* The balance of nobody who loses a commission may be negative afterwards.  *)
BalancesFit(m) ==
  \A a \in {k.penerima : k \in Lost(m)} : SaldoSesudah(m, a) >= 0

PindahkanCommit(m) ==
  /\ pindah[m] # NoMove
  /\ ~RowsCollide(m) /\ BalancesFit(m)
  /\ komisi' = (komisi \ RowsOf(pindah[m].jamaah)) \cup Moved(m)
  /\ jamaah' = Bound(pindah[m].jamaah, pindah[m].agen)
  /\ pindah' = [pindah EXCEPT ![m] = NoMove]
  /\ UNCHANGED <<agen, pesanan, berangkat, cair, lunas>>

PindahkanFails(m) ==
  /\ pindah[m] # NoMove
  /\ RowsCollide(m) \/ ~BalancesFit(m)
  /\ pindah' = [pindah EXCEPT ![m] = NoMove]
  /\ UNCHANGED <<agen, jamaah, pesanan, berangkat, komisi, cair, lunas>>

-----------------------------------------------------------------------------
(* Accounts and schedules *)

UbahStatus(a) ==
  /\ agen' = [agen EXCEPT ![a].aktif = ~@]
  /\ UNCHANGED <<jamaah, pesanan, berangkat, komisi, cair, lunas, pindah>>

GantiUpline(a, up) ==
  /\ up \in {NIHIL} \cup {x \in Agents : agen[x].aktif}
  /\ agen' = [agen EXCEPT ![a].upline = up]
  /\ UNCHANGED <<jamaah, pesanan, berangkat, komisi, cair, lunas, pindah>>

Berangkat(b) ==
  /\ pesanan[b].status # "absent"
  /\ berangkat' = berangkat \cup {b}
  /\ UNCHANGED <<agen, jamaah, pesanan, komisi, cair, lunas, pindah>>

(* An admin moves the departure to a later day.                              *)
Undur(b) ==
  /\ berangkat' = berangkat \ {b}
  /\ UNCHANGED <<agen, jamaah, pesanan, komisi, cair, lunas, pindah>>

-----------------------------------------------------------------------------
Kaitan == {Unbound, [status |-> "tanpa_agen", agen |-> NIHIL]}
            \cup {[status |-> "terikat_agen", agen |-> a] : a \in Agents}

BookingStep(b) ==
  \/ \E S \in SUBSET Jamaah : \E pic \in S, a \in Agents \cup {NIHIL} :
       \E self \in {NIHIL, a} : Pesan(b, S, pic, a, self)
  \/ LunasBegin(b) \/ LunasCommit(b) \/ Mundur(b)
  \/ \E j \in Jamaah : BatalPax(b, j)
  \/ Berangkat(b) \/ Undur(b)

PayoutStep(w) ==
  \/ \E a \in Agents, n \in Amounts : AjukanPencairan(w, a, n)
  \/ SetujuiPencairan(w) \/ TolakPencairan(w)

BindingStep(j) ==
  \/ \E k \in Kaitan : JamaahBaru(j, k)
  \/ \E a \in Agents \cup {NIHIL} : GantiKaitan(j, a)
  \/ \E m \in Movers, a \in Agents : PindahkanBegin(m, j, a)

CommissionNext ==
  \/ \E b \in Pesanan : BookingStep(b)
  \/ \E w \in Pencairan : PayoutStep(w)
  \/ \E j \in Jamaah : BindingStep(j)
  \/ \E m \in Movers : PindahkanCommit(m) \/ PindahkanFails(m)
  \/ \E a \in Suspendable : UbahStatus(a)
  \/ \E u \in Uplines : GantiUpline(u[1], u[2])

CommissionSpec == CommissionInit /\ [][CommissionNext]_komisiVars

-----------------------------------------------------------------------------
(* Properties *)

Rows == [booking : Pesanan, jamaah : Jamaah, jenis : {"langsung", "pembinaan"}, penerima : Agents]

(* Every column holds one of the values of its type, and a pilgrim has an    *)
(* agent exactly when his status says so.                                    *)
CommissionTypeOK ==
  /\ agen \in [Agents -> [aktif : BOOLEAN, upline : Agents \cup {NIHIL}]]
  /\ jamaah \in [Jamaah -> Kaitan \cup {[status |-> "absent", agen |-> NIHIL]}]
  /\ pesanan \in [Pesanan -> [status : {"absent", "belum_lunas", "lunas"},
                               pax : SUBSET Jamaah, self : Agents \cup {NIHIL}]]
  /\ berangkat \subseteq Pesanan
  /\ komisi \subseteq Rows
  /\ \A w \in Pencairan : cair[w] = NoPayout \/
       cair[w] \in [agen : Agents, nominal : Amounts, status : {"pending", "disetujui", "ditolak"}]
  /\ \A b \in Pesanan : lunas[b] = NIHIL \/
       lunas[b] \in [Agents -> [aktif : BOOLEAN, upline : Agents \cup {NIHIL}]]

(* However payments, rebindings and moves interleave, the commission on a    *)
(* pilgrim is where his binding points; unbound pilgrims earned nobody any.  *)
(* Not so for the pax who is the selling agent himself.                      *)
CommissionFollowsBinding ==
  \A k \in komisi :
    pesanan[k.booking].self = NIHIL =>
      /\ jamaah[k.jamaah].status = "terikat_agen"
      /\ k.jenis = "langsung" => k.penerima = jamaah[k.jamaah].agen

(* A pilgrim once bound, or declared without an agent, changes hands by an   *)
(* admin's override alone, whoever books with him later.                     *)
RebindingIsAnAdminsDecision ==
  [][\A j \in Jamaah :
       jamaah[j].status \in {"terikat_agen", "tanpa_agen"} /\ jamaah'[j] # jamaah[j] =>
         \/ \E a \in Agents \cup {NIHIL} : GantiKaitan(j, a)
         \/ \E m \in Movers : pindah[m].jamaah = j /\ PindahkanCommit(m)]_komisiVars

(* An agent's balance falls below zero only when a departure is put off, or  *)
(* through a move whose snapshot was older than the agent's last payout,     *)
(* move or departure.                                                        *)
OverdrawnOnlyByStaleMove ==
  [][\A a \in Agents :
       Tersedia(a) >= 0 /\ Tersedia(a)' < 0 =>
         \/ berangkat \ berangkat' # {}
         \/ \E m \in Movers :
              /\ pindah[m] # NoMove /\ pindah'[m] = NoMove
              /\ pindah[m].saldo[a] # Tersedia(a) \/ pindah[m].departed # berangkat]_komisiVars

(* In every state: the types, and commissions that are where the pilgrims'   *)
(* bindings point.                                                           *)
CommissionInvariant == CommissionTypeOK /\ CommissionFollowsBinding
=============================================================================
