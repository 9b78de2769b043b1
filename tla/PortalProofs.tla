---------------------------- MODULE PortalProofs ----------------------------
(***************************************************************************)
(* Proofs about what customers and agents do outside their bookings: for   *)
(* any accounts, sessions, documents, letters and pilgrims, and as many    *)
(* requests at the same time as there are, each component keeps what the   *)
(* run of MCPortal checks on a small instance. The components share no     *)
(* table: each has an inductive invariant of its own.                      *)
(***************************************************************************)
EXTENDS MCPortal, FiniteSetTheorems, TLAPS

-----------------------------------------------------------------------------
(* AgentAccounts: recruiters, applications and decisions *)

AccountRow ==
  [status : Agent \cup {"absent", "tidak_aktif", "pengajuan"},
   direkrut : Accounts \cup {NULL}, upline : Accounts \cup {NULL}]

Override ==
  [akun : Accounts \cup {NULL}, baru : Accounts \cup {NULL},
   next : Accounts \cup {NULL}, locked : SUBSET Accounts, hops : 0..MaxHops]

(* The decision an account's status comes from. *)
DecisionOf(status) ==
  CASE status = "pengajuan" -> "menunggu"
    [] status \in Agent -> "disetujui"
    [] OTHER -> "ditolak"

(* An account and its applications agree. *)
AccountFine(row, s) ==
  /\ row \in AccountRow /\ s \in Seq(Cycles)
  /\ row.status \in Agent => row.upline = row.direkrut
  /\ \A n \in 1 .. Len(s) - 1 : s[n].keputusan = "ditolak"
  /\ s # <<>> => s[Len(s)].keputusan = DecisionOf(row.status)
  /\ s = <<>> => row.status \in {"absent", "tidak_aktif"}

(* The recruiters an override has read, beside the account it is about. *)
Read(g) == g.locked \ {g.akun}

(* What an override has read is the chain of recruiters that begins with the *)
(* new one, leads to the next to be read and does not contain the account:   *)
(* every group with the new one and the recruiter of each that was read      *)
(* contains them all, and the next.                                          *)
Follows(g) ==
  \A S \in SUBSET (Accounts \cup {NULL}) :
    g.baru \in S /\ (\A c \in S \cap Read(g) : akun[c].direkrut \in S) =>
      Read(g) \subseteq S /\ g.next \in S

(* An open override has locked its account and what it has read, which are   *)
(* as many accounts as it has counted.                                       *)
Walks(g) ==
  g # NoOverride =>
    /\ g.akun \in g.locked /\ g.akun # NULL /\ g.baru # NULL /\ g.next # g.akun
    /\ g.baru \in Read(g) \cup {g.next}
    /\ \A c \in Read(g) : akun[c].direkrut \in Read(g) \cup {g.next}
    /\ Cardinality(Read(g)) = g.hops
    /\ Follows(g)

(* The whole inductive invariant: accounts by themselves; recruiters that    *)
(* are registered; overrides that share no lock, hold no unregistered        *)
(* account and know the chain they have walked.                              *)
AccountsInv ==
  /\ akun \in [Accounts -> AccountRow] /\ siklus \in [Accounts -> Seq(Cycles)]
  /\ ganti \in [Overriders -> Override]
  /\ \A a \in Accounts : AccountFine(akun[a], siklus[a])
  /\ \A a \in Accounts : akun[a].direkrut # NULL => akun[akun[a].direkrut].status # "absent"
  /\ \A o \in Overriders : Walks(ganti[o])
  /\ \A o \in Overriders : \A c \in ganti[o].locked : akun[c].status # "absent"
  /\ \A o \in Overriders : ganti[o].next # NULL => akun[ganti[o].next].status # "absent"
  /\ \A o, p \in Overriders : o # p => ganti[o].locked \cap ganti[p].locked = {}
  /\ RecruitersFormNoCycle

LEMMA AccountsInvSays ==
  ASSUME AccountsInv
  PROVE  AccountsInvariant
<1>1. AccountsTypeOK
  BY DEF AccountsInv, AccountsTypeOK, AccountRow, Override
<1>2. RecruitersFormNoCycle
  BY DEF AccountsInv
<1>3. UplineIsRecruiter
  BY DEF AccountsInv, AccountFine, UplineIsRecruiter
<1>4. StatusIsLastDecision
  <2>1. ASSUME NEW a \in Accounts
        PROVE  /\ \A n \in 1 .. Len(siklus[a]) - 1 : siklus[a][n].keputusan = "ditolak"
               /\ siklus[a] # <<>> =>
                    Latest(a).keputusan = CASE akun[a].status = "pengajuan" -> "menunggu"
                                            [] akun[a].status \in Agent -> "disetujui"
                                            [] OTHER -> "ditolak"
               /\ siklus[a] = <<>> => akun[a].status \in {"absent", "tidak_aktif"}
    <3>1. AccountFine(akun[a], siklus[a])
      BY DEF AccountsInv
    <3> QED
      BY <3>1 DEF AccountFine, DecisionOf, Latest
  <2> QED
    BY <2>1 DEF StatusIsLastDecision
<1> QED
  BY <1>1, <1>2, <1>3, <1>4 DEF AccountsInvariant

LEMMA AccountsBegin ==
  ASSUME AccountsInit
  PROVE  AccountsInv
<1> DEFINE free == [status |-> "absent", direkrut |-> NULL, upline |-> NULL]
           agent == [status |-> "aktif", direkrut |-> NULL, upline |-> NULL]
           first == [status |-> "terverifikasi", bukti |-> TRUE,
                     keputusan |-> "disetujui", nominal |-> TRUE]
<1>1. first \in Cycles
  BY DEF Cycles, Settled
<1>2. <<first>> \in Seq(Cycles) /\ <<>> \in Seq(Cycles)
  BY <1>1
<1>3. NoOverride \in Override /\ NoOverride.locked = {}
  BY AgentAccountsAssumption DEF NoOverride, Override
<1>4. \A a \in Accounts :
        /\ akun[a] = IF a \in FirstAgents THEN agent ELSE free
        /\ siklus[a] = IF a \in FirstAgents THEN <<first>> ELSE <<>>
  BY DEF AccountsInit
<1>5. AccountFine(free, <<>>)
  BY <1>2 DEF AccountFine, AccountRow, Agent
<1>6. AccountFine(agent, <<first>>)
  BY <1>2 DEF AccountFine, AccountRow, Agent, DecisionOf
<1>7. \A a \in Accounts : AccountFine(akun[a], siklus[a])
  BY <1>4, <1>5, <1>6
<1>8. akun \in [Accounts -> AccountRow] /\ siklus \in [Accounts -> Seq(Cycles)]
  BY <1>7 DEF AccountsInit, AccountFine
<1>9. \A a \in Accounts : akun[a].direkrut = NULL
  BY <1>4
<1>10. ASSUME NEW S \in (SUBSET Accounts) \ {{}}
       PROVE  \E a \in S : akun[a].direkrut \notin S
  <2>1. PICK a \in S : TRUE
    OBVIOUS
  <2>2. akun[a].direkrut = NULL /\ NULL \notin S
    BY <1>9, AgentAccountsAssumption
  <2> QED
    BY <2>2
<1>11. RecruitersFormNoCycle
  BY <1>10 DEF RecruitersFormNoCycle
<1>12. ganti \in [Overriders -> Override] /\ \A o \in Overriders : ganti[o] = NoOverride
  BY <1>3 DEF AccountsInit
<1>13. NoOverride.locked = {} /\ NoOverride.next = NULL
  BY DEF NoOverride
<1>14. \A o \in Overriders : Walks(ganti[o])
  BY <1>12 DEF Walks
<1> QED
  BY <1>12, <1>13, <1>14, <1>7, <1>8, <1>9, <1>11 DEF AccountsInv

-----------------------------------------------------------------------------
(* Steps that leave the recruiters alone *)

(* One application's row is replaced by another of its type. *)
LEMMA ReplacedCycle ==
  ASSUME NEW s \in Seq(Cycles), NEW n \in 1 .. Len(s), NEW c \in Cycles
  PROVE  LET t == [s EXCEPT ![n] = c] IN
         /\ t \in Seq(Cycles) /\ Len(t) = Len(s) /\ t[n] = c
         /\ \A m \in 1 .. Len(s) : m # n => t[m] = s[m]
OBVIOUS

(* Accounts that agree with the applications in f. *)
AllFine(f) ==
  f \in [Accounts -> Seq(Cycles)] /\ \A a \in Accounts : AccountFine(akun[a], f[a])

WithCycle(f, a, n, c) == [f EXCEPT ![a] = [f[a] EXCEPT ![n] = c]]

(* A payment changes without the decision. *)
LEMMA PaymentMovesAlone ==
  ASSUME NEW f, AllFine(f), NEW a \in Accounts, NEW n \in 1 .. Len(f[a]),
         NEW c \in Cycles, c.keputusan = f[a][n].keputusan
  PROVE  AllFine(WithCycle(f, a, n, c))
<1> DEFINE s == f[a]
           t == [s EXCEPT ![n] = c]
<1>1. s \in Seq(Cycles) /\ AccountFine(akun[a], s)
  BY DEF AllFine
<1>2. /\ t \in Seq(Cycles) /\ Len(t) = Len(s) /\ t[n] = c
      /\ \A m \in 1 .. Len(s) : m # n => t[m] = s[m]
  BY <1>1, ReplacedCycle
<1> HIDE DEF t
<1>3. \A m \in 1 .. Len(s) : t[m].keputusan = s[m].keputusan
  BY <1>2
<1>4. Len(s) \in Nat /\ (s = <<>> <=> Len(s) = 0) /\ (t = <<>> <=> Len(t) = 0)
  BY <1>1, <1>2
<1>5. AccountFine(akun[a], t)
  BY <1>1, <1>2, <1>3, <1>4 DEF AccountFine
<1>6. WithCycle(f, a, n, c) = [f EXCEPT ![a] = t]
  BY DEF WithCycle, t
<1> QED
  BY <1>2, <1>5, <1>6 DEF AllFine

(* The latest application is decided as the account's new row says. *)
LEMMA LatestIsDecided ==
  ASSUME NEW f, AllFine(f), NEW a \in Accounts, f[a] # <<>>,
         NEW c \in Cycles, NEW row \in AccountRow,
         row.status \in Agent => row.upline = row.direkrut,
         c.keputusan = DecisionOf(row.status)
  PROVE  LET g == WithCycle(f, a, Len(f[a]), c) IN
         /\ g \in [Accounts -> Seq(Cycles)]
         /\ AccountFine(row, g[a])
         /\ \A b \in Accounts \ {a} : AccountFine(akun[b], g[b])
<1> DEFINE s == f[a]
           t == [s EXCEPT ![Len(s)] = c]
<1>1. s \in Seq(Cycles) /\ AccountFine(akun[a], s)
  BY DEF AllFine
<1>2. Len(s) \in 1 .. Len(s)
  BY <1>1
<1>3. /\ t \in Seq(Cycles) /\ Len(t) = Len(s) /\ t[Len(s)] = c
      /\ \A m \in 1 .. Len(s) : m # Len(s) => t[m] = s[m]
  BY <1>1, <1>2, ReplacedCycle
<1> HIDE DEF t
<1>4. \A m \in 1 .. Len(t) - 1 : t[m].keputusan = "ditolak"
  BY <1>1, <1>2, <1>3 DEF AccountFine
<1>5. t # <<>> /\ t[Len(t)].keputusan = DecisionOf(row.status)
  BY <1>2, <1>3
<1>6. AccountFine(row, t)
  BY <1>3, <1>4, <1>5 DEF AccountFine
<1>7. WithCycle(f, a, Len(f[a]), c) = [f EXCEPT ![a] = t]
  BY DEF WithCycle, t
<1> QED
  BY <1>3, <1>6, <1>7 DEF AllFine

(* A new application follows rejected ones only. *)
LEMMA ApplicationsAddUp ==
  ASSUME NEW s \in Seq(Cycles), NEW old, AccountFine(old, s), old.status = "tidak_aktif",
         NEW c \in Cycles, c.keputusan = "menunggu",
         NEW row \in AccountRow, row.status = "pengajuan"
  PROVE  AccountFine(row, Append(s, c))
<1> DEFINE t == Append(s, c)
<1>1. /\ t \in Seq(Cycles) /\ Len(t) = Len(s) + 1 /\ t[Len(t)] = c
      /\ \A m \in 1 .. Len(s) : t[m] = s[m]
      /\ Len(s) \in Nat /\ (s = <<>> <=> Len(s) = 0) /\ t # <<>>
  OBVIOUS
<1> HIDE DEF t
<1>2. DecisionOf("tidak_aktif") = "ditolak" /\ DecisionOf("pengajuan") = "menunggu"
  BY DEF DecisionOf, Agent
<1>3. \A m \in 1 .. Len(s) : s[m].keputusan = "ditolak"
  BY <1>1, <1>2 DEF AccountFine
<1>4. AccountFine(row, t)
  BY <1>1, <1>2, <1>3 DEF AccountFine, Agent
<1> QED
  BY <1>4 DEF t

(* An override still knows the chain it has read while its rows stay. *)
LEMMA WalkRests ==
  ASSUME NEW o \in Overriders, ganti'[o] = ganti[o], ganti[o] \in Override, Walks(ganti[o]),
         \A c \in ganti[o].locked : akun'[c].direkrut = akun[c].direkrut
  PROVE  Walks(ganti[o])'
<1>1. PICK g : g = ganti[o]
  OBVIOUS
<1>2. Walks(g) /\ \A c \in Read(g) : akun'[c].direkrut = akun[c].direkrut
  BY <1>1 DEF Read
<1>3. CASE g = NoOverride
  BY <1>1, <1>3 DEF Walks
<1>4. CASE g # NoOverride
  <2>1. Follows(g)'
    BY <1>2, <1>4 DEF Walks, Follows
  <2>2. Walks(g)'
    BY <1>2, <2>1 DEF Walks
  <2> QED
    BY <1>1, <2>2 DEF Walks, Follows
<1> QED
  BY <1>3, <1>4

(* What most steps are: the rows of accounts change, nobody's recruiter does.*)
AccountsMove ==
  /\ ganti' = ganti
  /\ akun' \in [Accounts -> AccountRow] /\ siklus' \in [Accounts -> Seq(Cycles)]
  /\ \A a \in Accounts :
       /\ AccountFine(akun'[a], siklus'[a])
       /\ akun'[a].direkrut = akun[a].direkrut
       /\ akun[a].status # "absent" => akun'[a].status # "absent"

LEMMA AccountsMoveKeeps ==
  ASSUME AccountsInv, AccountsMove
  PROVE  AccountsInv'
<1>1. \A a \in Accounts : akun'[a].direkrut # NULL => akun'[akun'[a].direkrut].status # "absent"
  BY DEF AccountsInv, AccountsMove, AccountRow
<1>2. ASSUME NEW o \in Overriders
      PROVE  /\ Walks(ganti[o])'
             /\ \A c \in ganti'[o].locked : akun'[c].status # "absent"
             /\ ganti'[o].next # NULL => akun'[ganti'[o].next].status # "absent"
  <2>1. ganti'[o] = ganti[o] /\ Walks(ganti[o]) /\ ganti[o] \in Override
    BY DEF AccountsInv, AccountsMove
  <2>2. \A c \in ganti[o].locked : c \in Accounts /\ akun'[c].direkrut = akun[c].direkrut
    BY <2>1 DEF AccountsMove, Override
  <2>3. Walks(ganti[o])'
    BY <2>1, <2>2, WalkRests
  <2>4. /\ \A c \in ganti[o].locked : akun[c].status # "absent"
        /\ ganti[o].next # NULL => akun[ganti[o].next].status # "absent"
    BY DEF AccountsInv
  <2> QED
    BY <2>1, <2>2, <2>3, <2>4 DEF AccountsMove, Override
<1>3. RecruitersFormNoCycle'
  <2>1. ASSUME NEW S \in (SUBSET Accounts) \ {{}}, Cardinality(S) <= MaxHops + 1
        PROVE  \E a \in S : akun'[a].direkrut \notin S
    BY <2>1 DEF AccountsInv, AccountsMove, RecruitersFormNoCycle
  <2> QED
    BY <2>1 DEF RecruitersFormNoCycle
<1>4. \A o, p \in Overriders : o # p => ganti'[o].locked \cap ganti'[p].locked = {}
  BY DEF AccountsInv, AccountsMove
<1>5. ganti' \in [Overriders -> Override]
  BY DEF AccountsInv, AccountsMove
<1> QED
  BY <1>1, <1>2, <1>3, <1>4, <1>5 DEF AccountsInv, AccountsMove

(* A payment moves, its account and decision stay. *)
LEMMA PaymentMoves ==
  ASSUME AccountsInv, NEW a \in Accounts, NEW n \in DOMAIN siklus[a],
         NEW c \in Cycles, c.keputusan = siklus[a][n].keputusan,
         siklus' = WithCycle(siklus, a, n, c), akun' = akun, ganti' = ganti
  PROVE  AccountsMove
<1>1. AllFine(siklus) /\ akun \in [Accounts -> AccountRow]
  BY DEF AccountsInv, AllFine
<1>2. siklus[a] \in Seq(Cycles) /\ n \in 1 .. Len(siklus[a])
  BY <1>1 DEF AllFine
<1>3. AllFine(WithCycle(siklus, a, n, c))
  BY <1>1, <1>2, PaymentMovesAlone
<1>4. siklus' \in [Accounts -> Seq(Cycles)] /\ \A b \in Accounts : AccountFine(akun[b], siklus'[b])
  BY <1>3 DEF AllFine
<1> QED
  BY <1>1, <1>4 DEF AccountsMove

(* An application is decided and its account gets a new status. *)
LEMMA DecisionMoves ==
  ASSUME AccountsInv, NEW f, AllFine(f), NEW a \in Accounts, f[a] # <<>>,
         NEW c \in Cycles, NEW row \in AccountRow,
         row.status \in Agent => row.upline = row.direkrut,
         row.status # "absent", row.direkrut = akun[a].direkrut,
         c.keputusan = DecisionOf(row.status),
         siklus' = WithCycle(f, a, Len(f[a]), c),
         akun' = [akun EXCEPT ![a] = row], ganti' = ganti
  PROVE  AccountsMove
<1>1. akun \in [Accounts -> AccountRow]
  BY DEF AccountsInv
<1>2. /\ siklus' \in [Accounts -> Seq(Cycles)]
      /\ AccountFine(row, siklus'[a])
      /\ \A b \in Accounts \ {a} : AccountFine(akun[b], siklus'[b])
  BY LatestIsDecided
<1>3. akun' \in [Accounts -> AccountRow] /\ akun'[a] = row /\ \A b \in Accounts \ {a} : akun'[b] = akun[b]
  BY <1>1
<1> QED
  BY <1>2, <1>3 DEF AccountsMove

LEMMA UploadMoves ==
  ASSUME AccountsInv, NEW a \in Accounts, NEW n \in DOMAIN siklus[a], Upload(a, n)
  PROVE  AccountsMove
<1>1. siklus[a] \in Seq(Cycles) /\ n \in 1 .. Len(siklus[a]) /\ siklus[a][n] \in Cycles
  BY DEF AccountsInv
<1>2. PICK c : c = [siklus[a][n] EXCEPT
                      !.bukti = TRUE,
                      !.status = IF siklus[a][n].status = "ditolak" THEN "menunggu_verifikasi"
                                 ELSE siklus[a][n].status]
  OBVIOUS
<1>3. c \in Cycles /\ c.keputusan = siklus[a][n].keputusan
  BY <1>1, <1>2 DEF Cycles
<1>4. siklus' = WithCycle(siklus, a, n, c) /\ akun' = akun /\ ganti' = ganti
  BY <1>2 DEF Upload, WithCycle
<1> QED
  BY <1>3, <1>4, PaymentMoves

LEMMA PaymentStatusMoves ==
  ASSUME AccountsInv, NEW a \in Accounts, NEW n \in DOMAIN siklus[a],
         VerifikasiPembayaran(a, n) \/ TolakPembayaran(a, n)
  PROVE  AccountsMove
<1>1. siklus[a] \in Seq(Cycles) /\ n \in 1 .. Len(siklus[a]) /\ siklus[a][n] \in Cycles
  BY DEF AccountsInv
<1>2. ASSUME NEW status \in {"terverifikasi", "ditolak"},
             siklus' = WithStatus(a, n, status), akun' = akun, ganti' = ganti
      PROVE  AccountsMove
  <2>1. PICK c : c = [siklus[a][n] EXCEPT !.status = status]
    OBVIOUS
  <2>2. c \in Cycles /\ c.keputusan = siklus[a][n].keputusan
    BY <1>1, <2>1 DEF Cycles, Settled
  <2>3. siklus' = WithCycle(siklus, a, n, c)
    BY <1>2, <2>1 DEF WithStatus, WithCycle
  <2> QED
    BY <1>2, <2>2, <2>3, PaymentMoves
<1> QED
  BY <1>2 DEF VerifikasiPembayaran, TolakPembayaran

(* What the decisions on an application share: the applications f, in which  *)
(* at most the payment of the latest has changed.                            *)
LEMMA ApprovalMoves ==
  ASSUME AccountsInv, NEW f, AllFine(f), NEW a \in Accounts, f[a] # <<>>,
         akun' = Activated(a), siklus' = Decided(f, a, "disetujui"), ganti' = ganti
  PROVE  AccountsMove
<1>1. akun \in [Accounts -> AccountRow] /\ akun[a] \in AccountRow
  BY DEF AccountsInv
<1>2. f[a] \in Seq(Cycles) /\ Len(f[a]) \in 1 .. Len(f[a]) /\ f[a][Len(f[a])] \in Cycles
  BY DEF AllFine
<1>3. PICK row : row = [akun[a] EXCEPT !.status = "aktif", !.upline = akun[a].direkrut]
  OBVIOUS
<1>4. row \in AccountRow /\ row.status = "aktif" /\ row.upline = row.direkrut
      /\ row.direkrut = akun[a].direkrut
  BY <1>1, <1>3 DEF AccountRow, Agent
<1>5. PICK c : c = [f[a][Len(f[a])] EXCEPT !.keputusan = "disetujui"]
  OBVIOUS
<1>6. c \in Cycles /\ c.keputusan = DecisionOf(row.status)
  BY <1>2, <1>4, <1>5 DEF Cycles, DecisionOf, Agent
<1>7. siklus' = WithCycle(f, a, Len(f[a]), c)
  BY <1>5 DEF Decided, WithCycle
<1>8. akun' = [akun EXCEPT ![a] = row]
  BY <1>3 DEF Activated
<1> QED
  BY <1>4, <1>6, <1>7, <1>8, DecisionMoves

LEMMA RejectionMoves ==
  ASSUME AccountsInv, NEW a \in Accounts, Tolak(a)
  PROVE  AccountsMove
<1>1. akun[a] \in AccountRow /\ AllFine(siklus)
  BY DEF AccountsInv, AllFine
<1>2. akun[a].status = "pengajuan" /\ AccountFine(akun[a], siklus[a])
  BY <1>1 DEF Tolak, Applies, AllFine
<1>3. siklus[a] # <<>> /\ siklus[a] \in Seq(Cycles)
  BY <1>2 DEF AccountFine
<1>4. Len(siklus[a]) \in 1 .. Len(siklus[a]) /\ siklus[a][Len(siklus[a])] \in Cycles
  BY <1>3
<1>5. PICK row : row = [akun[a] EXCEPT !.status = "tidak_aktif"]
  OBVIOUS
<1>6. row \in AccountRow /\ row.status = "tidak_aktif" /\ row.direkrut = akun[a].direkrut
  BY <1>1, <1>5 DEF AccountRow
<1>7. PICK c : c = [siklus[a][Len(siklus[a])] EXCEPT !.keputusan = "ditolak"]
  OBVIOUS
<1>8. c \in Cycles /\ c.keputusan = DecisionOf(row.status) /\ row.status \notin Agent
  BY <1>4, <1>6, <1>7 DEF Cycles, DecisionOf, Agent
<1>9. siklus' = WithCycle(siklus, a, Len(siklus[a]), c)
  BY <1>7 DEF Tolak, Decided, WithCycle
<1>10. akun' = [akun EXCEPT ![a] = row] /\ ganti' = ganti
  BY <1>5 DEF Tolak
<1>11. PICK f : f = siklus
  OBVIOUS
<1> QED
  BY <1>1, <1>3, <1>6, <1>8, <1>9, <1>10, <1>11, DecisionMoves

(* The application of an account that applies or owes is there to decide. *)
LEMMA ThereIsALatest ==
  ASSUME AccountsInv, NEW a \in Accounts, Applies(a) \/ Owes(a)
  PROVE  siklus[a] # <<>> /\ siklus[a] \in Seq(Cycles) /\ Len(siklus[a]) \in DOMAIN siklus[a]
<1>1. AccountFine(akun[a], siklus[a])
  BY DEF AccountsInv
<1>2. siklus[a] # <<>> /\ siklus[a] \in Seq(Cycles)
  BY <1>1 DEF AccountFine, Applies, Owes
<1> QED
  BY <1>2

LEMMA ApproveMoves ==
  ASSUME AccountsInv, NEW f, AllFine(f), NEW a \in Accounts, f[a] # <<>>,
         Approve(a, f), ganti' = ganti
  PROVE  AccountsMove
<1>1. CASE Applies(a)
  BY <1>1, ApprovalMoves DEF Approve
<1>2. CASE ~ Applies(a)
  <2>1. akun' = akun /\ siklus' = f
    BY <1>2 DEF Approve
  <2> QED
    BY <2>1 DEF AllFine, AccountsMove, AccountsInv
<1> QED
  BY <1>1, <1>2

(* The payment of the latest application is settled on the way. *)
LEMMA ApproveSettledMoves ==
  ASSUME AccountsInv, NEW a \in Accounts, Applies(a) \/ Owes(a),
         NEW status \in Settled, Approve(a, WithStatus(a, Len(siklus[a]), status)), ganti' = ganti
  PROVE  AccountsMove
<1>1. AllFine(siklus)
  BY DEF AccountsInv, AllFine
<1>2. siklus[a] # <<>> /\ siklus[a] \in Seq(Cycles) /\ Len(siklus[a]) \in 1 .. Len(siklus[a])
  BY ThereIsALatest
<1>3. PICK n : n = Len(siklus[a])
  OBVIOUS
<1>4. PICK c : c = [siklus[a][n] EXCEPT !.status = status]
  OBVIOUS
<1>5. siklus[a][n] \in Cycles
  BY <1>2, <1>3
<1>6. c \in Cycles /\ c.keputusan = siklus[a][n].keputusan
  BY <1>4, <1>5 DEF Cycles
<1>7. PICK f : f = WithStatus(a, Len(siklus[a]), status)
  OBVIOUS
<1>8. f = WithCycle(siklus, a, n, c)
  BY <1>3, <1>4, <1>7 DEF WithStatus, WithCycle
<1>9. AllFine(f)
  BY <1>1, <1>2, <1>3, <1>6, <1>8, PaymentMovesAlone
<1>10. f[a] = [siklus[a] EXCEPT ![n] = c]
  BY <1>1, <1>8 DEF WithCycle, AllFine
<1>11. f[a] # <<>>
  BY <1>2, <1>3, <1>10
<1>12. Approve(a, f)
  BY <1>7
<1> QED
  BY <1>9, <1>11, <1>12, ApproveMoves

LEMMA RowMovesAlone ==
  ASSUME AccountsInv, NEW a \in Accounts, NEW row \in AccountRow, AccountFine(row, siklus[a]),
         row.direkrut = akun[a].direkrut, row.status # "absent",
         akun' = [akun EXCEPT ![a] = row], siklus' = siklus, ganti' = ganti
  PROVE  AccountsMove
<1>1. akun \in [Accounts -> AccountRow] /\ siklus \in [Accounts -> Seq(Cycles)]
  BY DEF AccountsInv
<1>2. akun' \in [Accounts -> AccountRow] /\ akun'[a] = row
      /\ \A b \in Accounts \ {a} : akun'[b] = akun[b]
  BY <1>1
<1>3. \A b \in Accounts : AccountFine(akun'[b], siklus'[b])
  BY <1>2 DEF AccountsInv
<1> QED
  BY <1>1, <1>2, <1>3 DEF AccountsMove

LEMMA AjukanMoves ==
  ASSUME AccountsInv, NEW a \in Accounts, NEW fee \in Fees, Ajukan(a, fee)
  PROVE  AccountsMove
<1>1. /\ akun \in [Accounts -> AccountRow] /\ akun[a] \in AccountRow
      /\ siklus \in [Accounts -> Seq(Cycles)] /\ siklus[a] \in Seq(Cycles)
      /\ AccountFine(akun[a], siklus[a]) /\ akun[a].status = "tidak_aktif"
  BY DEF AccountsInv, Ajukan
<1>2. PICK row : row = [akun[a] EXCEPT !.status = "pengajuan"]
  OBVIOUS
<1>3. row \in AccountRow /\ row.status = "pengajuan" /\ row.direkrut = akun[a].direkrut
  BY <1>1, <1>2 DEF AccountRow
<1>4. PICK c : c = [status |-> IF fee THEN "menunggu_verifikasi" ELSE "terverifikasi",
                    bukti |-> FALSE, keputusan |-> "menunggu", nominal |-> fee]
  OBVIOUS
<1>5. fee \in BOOLEAN
  BY AgentAccountsAssumption
<1>6. c \in Cycles /\ c.keputusan = "menunggu"
  BY <1>4, <1>5 DEF Cycles, Settled
<1>7. PICK t : t = Append(siklus[a], c)
  OBVIOUS
<1>8. AccountFine(row, t) /\ t \in Seq(Cycles)
  BY <1>1, <1>3, <1>6, <1>7, ApplicationsAddUp
<1>9. /\ akun' = [akun EXCEPT ![a] = row] /\ siklus' = [siklus EXCEPT ![a] = t]
      /\ ganti' = ganti
  BY <1>2, <1>4, <1>7 DEF Ajukan
<1>10. /\ akun' \in [Accounts -> AccountRow] /\ siklus' \in [Accounts -> Seq(Cycles)]
       /\ akun'[a] = row /\ siklus'[a] = t
       /\ \A b \in Accounts \ {a} : akun'[b] = akun[b] /\ siklus'[b] = siklus[b]
  BY <1>1, <1>3, <1>8, <1>9
<1> QED
  BY <1>1, <1>3, <1>8, <1>9, <1>10 DEF AccountsMove, AccountsInv

LEMMA UbahStatusMoves ==
  ASSUME AccountsInv, NEW a \in Accounts, UbahStatus(a)
  PROVE  AccountsMove
<1>1. /\ akun[a] \in AccountRow /\ AccountFine(akun[a], siklus[a]) /\ akun[a].status \in Agent
  BY DEF AccountsInv, UbahStatus
<1>2. PICK status \in Agent : akun' = [akun EXCEPT ![a].status = status]
  BY DEF UbahStatus
<1>3. PICK row : row = [akun[a] EXCEPT !.status = status]
  OBVIOUS
<1>4. /\ row \in AccountRow /\ row.status = status /\ row.direkrut = akun[a].direkrut
      /\ row.upline = akun[a].upline
  BY <1>1, <1>3 DEF AccountRow
<1>5. AccountFine(row, siklus[a]) /\ row.status # "absent"
  BY <1>1, <1>4 DEF AccountFine, DecisionOf, Agent
<1>6. akun' = [akun EXCEPT ![a] = row] /\ siklus' = siklus /\ ganti' = ganti
  BY <1>2, <1>3 DEF UbahStatus
<1> QED
  BY <1>4, <1>5, <1>6, RowMovesAlone

LEMMA SetujuiMoves ==
  ASSUME AccountsInv, NEW a \in Accounts, Setujui(a)
  PROVE  AccountsMove
<1>1. Applies(a)
  BY DEF Setujui
<1>2. AllFine(siklus) /\ siklus[a] # <<>>
  BY <1>1, ThereIsALatest DEF AccountsInv, AllFine
<1>3. PICK f : f = siklus
  OBVIOUS
<1> QED
  BY <1>2, <1>3, ApprovalMoves DEF Setujui

LEMMA DecisionScreenMoves ==
  ASSUME AccountsInv, NEW a \in Accounts,
         \/ KeputusanSetujui(a) \/ KeputusanBebaskan(a) \/ KeputusanMintaUnggahUlang(a)
         \/ KeputusanTolak(a) \/ KeputusanBayarMenyusul(a)
  PROVE  AccountsMove
<1>1. CASE KeputusanSetujui(a)
  <2>1. Applies(a) \/ Owes(a)
    BY <1>1 DEF KeputusanSetujui
  <2>2. ganti' = ganti
    BY <1>1 DEF KeputusanSetujui
  <2>3. CASE Approve(a, siklus)
    <3>1. AllFine(siklus) /\ siklus[a] # <<>>
      BY <2>1, ThereIsALatest DEF AccountsInv, AllFine
    <3>2. PICK f : f = siklus
      OBVIOUS
    <3>3. Approve(a, f)
      BY <2>3, <3>2
    <3> QED
      BY <2>2, <3>1, <3>2, <3>3, ApproveMoves
  <2>4. CASE Approve(a, WithStatus(a, Len(siklus[a]), "terverifikasi"))
    BY <2>1, <2>2, <2>4, ApproveSettledMoves DEF Settled
  <2> QED
    BY <1>1, <2>3, <2>4 DEF KeputusanSetujui
<1>2. CASE KeputusanBebaskan(a)
  BY <1>2, ApproveSettledMoves DEF KeputusanBebaskan, Settled
<1>3. CASE KeputusanMintaUnggahUlang(a)
  <2>1. Len(siklus[a]) \in DOMAIN siklus[a]
    BY <1>3, ThereIsALatest DEF KeputusanMintaUnggahUlang
  <2>2. PICK n : n = Len(siklus[a])
    OBVIOUS
  <2>3. TolakPembayaran(a, n)
    BY <1>3, <2>2 DEF KeputusanMintaUnggahUlang
  <2> QED
    BY <2>1, <2>2, <2>3, PaymentStatusMoves
<1>4. CASE KeputusanTolak(a)
  BY <1>4, RejectionMoves DEF KeputusanTolak
<1>5. CASE KeputusanBayarMenyusul(a)
  BY <1>5, SetujuiMoves DEF KeputusanBayarMenyusul
<1> QED
  BY <1>1, <1>2, <1>3, <1>4, <1>5

-----------------------------------------------------------------------------
(* Steps that give an account another recruiter *)

(* What a recruiter's change does to the accounts alone. *)
RecruiterMoves(a, row) ==
  /\ akun' = [akun EXCEPT ![a] = row] /\ siklus' = siklus
  /\ AccountFine(row, siklus[a])
  /\ row.status # "absent"
  /\ row.direkrut # NULL => akun[row.direkrut].status # "absent"

(* What stays true of the accounts. *)
LEMMA RecruiterMovesAccounts ==
  ASSUME AccountsInv, NEW a \in Accounts, NEW row \in AccountRow, RecruiterMoves(a, row)
  PROVE  /\ akun' \in [Accounts -> AccountRow] /\ siklus' \in [Accounts -> Seq(Cycles)]
         /\ \A b \in Accounts : AccountFine(akun'[b], siklus'[b])
         /\ \A b \in Accounts : akun[b].status # "absent" => akun'[b].status # "absent"
         /\ akun'[a] = row /\ \A b \in Accounts \ {a} : akun'[b] = akun[b]
         /\ \A b \in Accounts :
              akun'[b].direkrut # NULL => akun'[akun'[b].direkrut].status # "absent"
<1>1. akun \in [Accounts -> AccountRow] /\ siklus \in [Accounts -> Seq(Cycles)]
  BY DEF AccountsInv
<1>2. /\ akun' \in [Accounts -> AccountRow] /\ siklus' = siklus
      /\ akun'[a] = row /\ \A b \in Accounts \ {a} : akun'[b] = akun[b]
  BY <1>1 DEF RecruiterMoves
<1>3. \A b \in Accounts : AccountFine(akun'[b], siklus'[b])
  BY <1>2 DEF RecruiterMoves, AccountsInv
<1>4. \A b \in Accounts : akun[b].status # "absent" => akun'[b].status # "absent"
  BY <1>2 DEF RecruiterMoves
<1>5. \A b \in Accounts : akun'[b].direkrut # NULL => akun'[b].direkrut \in Accounts
  BY <1>2 DEF AccountRow
<1>6. \A b \in Accounts : akun'[b].direkrut # NULL => akun[akun'[b].direkrut].status # "absent"
  BY <1>2 DEF RecruiterMoves, AccountsInv
<1>7. \A b \in Accounts :
        akun'[b].direkrut # NULL => akun'[akun'[b].direkrut].status # "absent"
  BY <1>4, <1>5, <1>6
<1> QED
  BY <1>1, <1>2, <1>3, <1>4, <1>7

(* An override that does not hold the account knows its chain as before. *)
LEMMA OthersWalkOn ==
  ASSUME AccountsInv, NEW a \in Accounts, NEW row \in AccountRow, RecruiterMoves(a, row),
         NEW o \in Overriders, ganti'[o] = ganti[o], a \notin ganti[o].locked
  PROVE  /\ Walks(ganti[o])'
         /\ \A c \in ganti'[o].locked : akun'[c].status # "absent"
         /\ ganti'[o].next # NULL => akun'[ganti'[o].next].status # "absent"
<1>1. Walks(ganti[o]) /\ ganti[o] \in Override
  BY DEF AccountsInv
<1>2. /\ \A b \in Accounts : akun[b].status # "absent" => akun'[b].status # "absent"
      /\ \A b \in Accounts \ {a} : akun'[b] = akun[b]
  BY RecruiterMovesAccounts
<1>3. \A c \in ganti[o].locked : c \in Accounts \ {a}
  BY <1>1 DEF Override
<1>4. Walks(ganti[o])'
  BY <1>1, <1>2, <1>3, WalkRests
<1>5. /\ \A c \in ganti[o].locked : akun[c].status # "absent"
      /\ ganti[o].next # NULL => akun[ganti[o].next].status # "absent"
  BY DEF AccountsInv
<1> QED
  BY <1>1, <1>2, <1>3, <1>4, <1>5 DEF Override

(* No cycle, if the small groups an account joins with its recruiter have a  *)
(* member that was recruited from outside and is not that account.           *)
LEMMA NoNewCycle ==
  ASSUME AccountsInv, NEW a \in Accounts, NEW row \in AccountRow, RecruiterMoves(a, row),
         \A S \in SUBSET Accounts :
            Cardinality(S) <= MaxHops + 1 /\ a \in S /\ row.direkrut \in S =>
            \E b \in S \ {a} : akun[b].direkrut \notin S
  PROVE  RecruitersFormNoCycle'
<1>1. akun'[a] = row /\ \A b \in Accounts \ {a} : akun'[b] = akun[b]
  BY RecruiterMovesAccounts
<1>2. ASSUME NEW S \in (SUBSET Accounts) \ {{}}, Cardinality(S) <= MaxHops + 1
      PROVE  \E b \in S : akun'[b].direkrut \notin S
  <2>1. CASE a \in S /\ row.direkrut \in S
    BY <1>1, <1>2, <2>1
  <2>2. CASE a \in S /\ row.direkrut \notin S
    BY <1>1, <2>2
  <2>3. CASE a \notin S
    BY <1>1, <1>2, <2>3 DEF AccountsInv, RecruitersFormNoCycle
  <2> QED
    BY <2>1, <2>2, <2>3
<1> QED
  BY <1>2 DEF RecruitersFormNoCycle

(* A part of a small group is small. *)
LEMMA SmallerGroup ==
  ASSUME NEW S \in SUBSET Accounts, NEW T \in SUBSET S, Cardinality(S) <= MaxHops + 1
  PROVE  IsFiniteSet(T) /\ Cardinality(T) <= MaxHops + 1
<1>1. IsFiniteSet(S)
  BY FS_Subset, AgentAccountsAssumption
<1>2. /\ IsFiniteSet(T) /\ Cardinality(T) \in Nat /\ Cardinality(S) \in Nat
      /\ Cardinality(T) <= Cardinality(S)
  BY <1>1, FS_Subset, FS_CardinalityType
<1> QED
  BY <1>2, AgentAccountsAssumption

(* The next account of a chain has not been read before. *)
LEMMA NextIsNew ==
  ASSUME AccountsInv, NEW g \in Override, g # NoOverride, Walks(g)
  PROVE  IsFiniteSet(Read(g)) /\ g.next \notin Read(g)
<1>1. Read(g) \in SUBSET Accounts
  BY DEF Read, Override
<1>2. IsFiniteSet(Read(g))
  BY <1>1, FS_Subset, AgentAccountsAssumption
<1>3. Cardinality(Read(g)) <= MaxHops + 1
  BY AgentAccountsAssumption DEF Walks, Override
<1>4. ASSUME g.next \in Read(g)
      PROVE  FALSE
  <2>1. PICK b \in Read(g) : akun[b].direkrut \notin Read(g)
    BY <1>1, <1>3, <1>4 DEF AccountsInv, RecruitersFormNoCycle
  <2> QED
    BY <1>4, <2>1 DEF Walks
<1> QED
  BY <1>2, <1>4

LEMMA RegisterKeeps ==
  ASSUME AccountsInv, NEW a \in Accounts, NEW r \in Accounts \cup {NULL}, Register(a, r)
  PROVE  AccountsInv'
<1> DEFINE row == [status |-> "tidak_aktif", direkrut |-> r, upline |-> NULL]
<1>1. row \in AccountRow /\ row.status = "tidak_aktif" /\ row.direkrut = r
  BY DEF AccountRow
<1>2. akun' = [akun EXCEPT ![a] = row] /\ siklus' = siklus /\ ganti' = ganti
  BY DEF Register
<1> HIDE DEF row
<1>3. AccountFine(akun[a], siklus[a]) /\ akun[a].status = "absent"
  BY DEF AccountsInv, Register
<1>4. AccountFine(row, siklus[a])
  BY <1>1, <1>3 DEF AccountFine, DecisionOf, Agent
<1>5. RecruiterMoves(a, row)
  BY <1>1, <1>2, <1>4 DEF RecruiterMoves, Register
<1>6. \A o \in Overriders : a \notin ganti[o].locked
  BY <1>3 DEF AccountsInv
<1>7. ASSUME NEW o \in Overriders
      PROVE  /\ Walks(ganti[o])'
             /\ \A c \in ganti'[o].locked : akun'[c].status # "absent"
             /\ ganti'[o].next # NULL => akun'[ganti'[o].next].status # "absent"
  BY <1>1, <1>2, <1>5, <1>6, OthersWalkOn
<1>8. ASSUME NEW S \in SUBSET Accounts, Cardinality(S) <= MaxHops + 1, a \in S, r \in S
      PROVE  \E b \in S \ {a} : akun[b].direkrut \notin S
  <2>1. r # a
    BY <1>3, <1>8, AgentAccountsAssumption DEF Register
  <2>2. S \ {a} \in (SUBSET Accounts) \ {{}} /\ Cardinality(S \ {a}) <= MaxHops + 1
    BY <1>8, <2>1, SmallerGroup
  <2>3. PICK b \in S \ {a} : akun[b].direkrut \notin S \ {a}
    BY <2>2 DEF AccountsInv, RecruitersFormNoCycle
  <2>4. akun[b].direkrut # a
    BY <1>3, AgentAccountsAssumption DEF AccountsInv
  <2> QED
    BY <2>3, <2>4
<1>9. RecruitersFormNoCycle'
  BY <1>1, <1>5, <1>8, NoNewCycle
<1>10. /\ akun' \in [Accounts -> AccountRow] /\ siklus' \in [Accounts -> Seq(Cycles)]
       /\ \A b \in Accounts : AccountFine(akun'[b], siklus'[b])
       /\ \A b \in Accounts :
              akun'[b].direkrut # NULL => akun'[akun'[b].direkrut].status # "absent"
  BY <1>1, <1>5, RecruiterMovesAccounts
<1> QED
  BY <1>2, <1>7, <1>9, <1>10 DEF AccountsInv

(* The account's row under another recruiter is as good as before. *)
LEMMA RecruitedRow ==
  ASSUME AccountsInv, NEW a \in Accounts, NEW r \in Accounts \cup {NULL},
         akun[a].status # "absent", akun' = Recruited(a, r), siklus' = siklus,
         r # NULL => akun[r].status # "absent"
  PROVE  \E row \in AccountRow : RecruiterMoves(a, row) /\ row.direkrut = r
<1>1. akun[a] \in AccountRow /\ AccountFine(akun[a], siklus[a])
  BY DEF AccountsInv
<1>2. PICK row : row = [akun[a] EXCEPT !.direkrut = r,
                          !.upline = IF akun[a].status \in Agent THEN r ELSE akun[a].upline]
  OBVIOUS
<1>3. /\ row \in AccountRow /\ row.direkrut = r /\ row.status = akun[a].status
      /\ row.status \in Agent => row.upline = r
  BY <1>1, <1>2 DEF AccountRow
<1>4. AccountFine(row, siklus[a])
  BY <1>1, <1>3 DEF AccountFine
<1>5. akun' = [akun EXCEPT ![a] = row]
  BY <1>2 DEF Recruited
<1>6. RecruiterMoves(a, row)
  BY <1>3, <1>4, <1>5 DEF RecruiterMoves
<1> QED
  BY <1>3, <1>6

LEMMA LepasKeeps ==
  ASSUME AccountsInv, NEW a \in Accounts, LepasAgenAkun(a)
  PROVE  AccountsInv'
<1>1. akun' = Recruited(a, NULL) /\ siklus' = siklus /\ ganti' = ganti
      /\ akun[a].status # "absent" /\ a \notin Locked
  BY DEF LepasAgenAkun
<1>2. PICK row \in AccountRow : RecruiterMoves(a, row) /\ row.direkrut = NULL
  BY <1>1, RecruitedRow
<1>3. \A o \in Overriders : a \notin ganti[o].locked
  BY <1>1 DEF Locked
<1>4. ASSUME NEW o \in Overriders
      PROVE  /\ Walks(ganti[o])'
             /\ \A c \in ganti'[o].locked : akun'[c].status # "absent"
             /\ ganti'[o].next # NULL => akun'[ganti'[o].next].status # "absent"
  BY <1>1, <1>2, <1>3, OthersWalkOn
<1>5. RecruitersFormNoCycle'
  <2>1. \A S \in SUBSET Accounts : ~ (a \in S /\ row.direkrut \in S)
    BY <1>2, AgentAccountsAssumption
  <2> QED
    BY <1>2, <2>1, NoNewCycle
<1>6. /\ akun' \in [Accounts -> AccountRow] /\ siklus' \in [Accounts -> Seq(Cycles)]
      /\ \A b \in Accounts : AccountFine(akun'[b], siklus'[b])
      /\ \A b \in Accounts :
             akun'[b].direkrut # NULL => akun'[akun'[b].direkrut].status # "absent"
  BY <1>2, RecruiterMovesAccounts
<1> QED
  BY <1>1, <1>4, <1>5, <1>6 DEF AccountsInv

(* The chain was read without meeting the account, and locked on the way: it *)
(* ends outside any group that the account is in, or it makes the group too  *)
(* large.                                                                    *)
LEMMA CommitKeeps ==
  ASSUME AccountsInv, NEW o \in Overriders, GantiAgenAkunCommit(o)
  PROVE  AccountsInv'
<1> DEFINE g == ganti[o]
           L == Read(g)
<1>1. /\ g # NoOverride /\ ~Looks(g) /\ akun' = Recruited(g.akun, g.baru)
      /\ ganti' = [ganti EXCEPT ![o] = NoOverride] /\ siklus' = siklus
  BY DEF GantiAgenAkunCommit
<1>2. g \in Override /\ ganti \in [Overriders -> Override] /\ Walks(g)
  BY DEF AccountsInv
<1>3. /\ g.akun \in g.locked /\ g.akun \in Accounts /\ g.baru \in Accounts
      /\ L \subseteq Accounts /\ g.akun \notin L
  BY <1>1, <1>2 DEF Walks, Override, Read
<1>4. \A c \in g.locked : akun[c].status # "absent"
  BY DEF AccountsInv
<1>5. PICK a, r : a = g.akun /\ r = g.baru
  OBVIOUS
<1>6. akun[r].status # "absent"
  <2>1. r \in g.locked \/ r = g.next
    BY <1>1, <1>2, <1>5 DEF Walks, Read
  <2>2. g.next # NULL => akun[g.next].status # "absent"
    BY DEF AccountsInv
  <2>3. r # NULL
    BY <1>1, <1>2, <1>5 DEF Walks
  <2> QED
    BY <1>4, <2>1, <2>2, <2>3
<1>7. PICK row \in AccountRow : RecruiterMoves(a, row) /\ row.direkrut = r
  BY <1>1, <1>3, <1>4, <1>5, <1>6, RecruitedRow
<1>8. ASSUME NEW S \in SUBSET Accounts, Cardinality(S) <= MaxHops + 1, a \in S, r \in S
      PROVE  \E b \in S \ {a} : akun[b].direkrut \notin S
  <2>1. CASE g.next = NULL
    <3>1. S \cap L \in (SUBSET Accounts) \ {{}} /\ Cardinality(S \cap L) <= MaxHops + 1
      <4>1. r \in L
        BY <1>1, <1>2, <1>5, <2>1 DEF Walks
      <4> QED
        BY <1>3, <1>8, <4>1, SmallerGroup
    <3>2. PICK b \in S \cap L : akun[b].direkrut \notin S \cap L
      BY <3>1 DEF AccountsInv, RecruitersFormNoCycle
    <3>3. akun[b].direkrut \in L \cup {NULL} /\ b # a
      BY <1>1, <1>2, <1>3, <1>5, <2>1, <3>2 DEF Walks
    <3>4. NULL \notin S
      BY <1>8, AgentAccountsAssumption
    <3> QED
      BY <3>2, <3>3, <3>4
  <2>2. CASE g.next # NULL
    <3>1. g.hops = MaxHops
      BY <1>1, <1>2, <2>2, AgentAccountsAssumption DEF Looks, Override
    <3>2. /\ IsFiniteSet(L) /\ Cardinality(L) = MaxHops /\ g.next \notin L
          /\ g.next # a /\ a \notin L
      BY <1>1, <1>2, <1>3, <1>5, <3>1, NextIsNew DEF Walks
    <3>3. ASSUME \A b \in S \ {a} : akun[b].direkrut \in S
          PROVE  FALSE
      <4>1. L \subseteq S /\ g.next \in S
        <5>1. Follows(g) /\ S \in SUBSET (Accounts \cup {NULL})
          BY <1>1, <1>2 DEF Walks
        <5>2. g.baru \in S /\ \A c \in S \cap Read(g) : akun[c].direkrut \in S
          BY <1>3, <1>5, <1>8, <3>3
        <5> QED
          BY <5>1, <5>2 DEF Follows
      <4>2. IsFiniteSet(L \cup {g.next}) /\ Cardinality(L \cup {g.next}) = MaxHops + 1
        BY <3>2, FS_AddElement
      <4>3. PICK T : T = (L \cup {g.next}) \cup {a}
        OBVIOUS
      <4>4. Cardinality(T) = MaxHops + 2
        <5>1. a \notin L \cup {g.next}
          BY <3>2
        <5>2. Cardinality(T) = (MaxHops + 1) + 1
          BY <4>2, <4>3, <5>1, FS_AddElement
        <5> QED
          BY <5>2, AgentAccountsAssumption
      <4>5. T \in SUBSET S
        BY <1>8, <4>1, <4>3
      <4>6. Cardinality(T) <= MaxHops + 1
        BY <1>8, <4>5, SmallerGroup
      <4> QED
        BY <4>4, <4>6, AgentAccountsAssumption
    <3> QED
      BY <3>3
  <2> QED
    BY <2>1, <2>2
<1>9. RecruitersFormNoCycle'
  BY <1>3, <1>5, <1>7, <1>8, NoNewCycle
<1>10. ganti'[o] = NoOverride /\ \A p \in Overriders \ {o} : ganti'[p] = ganti[p]
  BY <1>1, <1>2
<1>11. NoOverride \in Override /\ NoOverride.locked = {} /\ NoOverride.next = NULL
  BY AgentAccountsAssumption DEF NoOverride, Override
<1>12. ASSUME NEW p \in Overriders
       PROVE  /\ Walks(ganti[p])'
              /\ \A c \in ganti'[p].locked : akun'[c].status # "absent"
              /\ ganti'[p].next # NULL => akun'[ganti'[p].next].status # "absent"
  <2>1. CASE p = o
    BY <1>10, <1>11, <2>1 DEF Walks
  <2>2. CASE p # o
    <3>1. a \notin ganti[p].locked
      BY <1>3, <1>5, <2>2 DEF AccountsInv
    <3> QED
      BY <1>3, <1>5, <1>7, <1>10, <2>2, <3>1, OthersWalkOn
  <2> QED
    BY <2>1, <2>2
<1>13. \A p, q \in Overriders : p # q => ganti'[p].locked \cap ganti'[q].locked = {}
  BY <1>10, <1>11 DEF AccountsInv
<1>14. ganti' \in [Overriders -> Override]
  BY <1>1, <1>2, <1>11
<1>15. /\ akun' \in [Accounts -> AccountRow] /\ siklus' \in [Accounts -> Seq(Cycles)]
       /\ \A b \in Accounts : AccountFine(akun'[b], siklus'[b])
       /\ \A b \in Accounts :
              akun'[b].direkrut # NULL => akun'[akun'[b].direkrut].status # "absent"
  BY <1>3, <1>5, <1>7, RecruiterMovesAccounts
<1> QED
  BY <1>9, <1>12, <1>13, <1>14, <1>15 DEF AccountsInv

-----------------------------------------------------------------------------
(* Steps of an override that only lock *)

(* One override's record changes to one that knows its chain and shares no   *)
(* lock with the others.                                                     *)
LEMMA OverrideKeeps ==
  ASSUME AccountsInv, NEW o \in Overriders, NEW h \in Override,
         akun' = akun, siklus' = siklus, ganti' = [ganti EXCEPT ![o] = h], Walks(h),
         \A c \in h.locked : akun[c].status # "absent",
         h.next # NULL => akun[h.next].status # "absent",
         \A p \in Overriders \ {o} : h.locked \cap ganti[p].locked = {}
  PROVE  AccountsInv'
<1>1. ganti \in [Overriders -> Override]
  BY DEF AccountsInv
<1>2. /\ ganti' \in [Overriders -> Override] /\ ganti'[o] = h
      /\ \A p \in Overriders \ {o} : ganti'[p] = ganti[p]
  BY <1>1
<1>3. ASSUME NEW p \in Overriders
      PROVE  /\ Walks(ganti[p])'
             /\ \A c \in ganti'[p].locked : akun'[c].status # "absent"
             /\ ganti'[p].next # NULL => akun'[ganti'[p].next].status # "absent"
  <2>1. CASE p = o
    BY <1>2, <2>1 DEF Walks, Follows
  <2>2. CASE p # o
    BY <1>2, <2>2 DEF Walks, Follows, AccountsInv
  <2> QED
    BY <2>1, <2>2
<1>4. \A p, q \in Overriders : p # q => ganti'[p].locked \cap ganti'[q].locked = {}
  BY <1>2 DEF AccountsInv
<1>5. RecruitersFormNoCycle'
  BY DEF AccountsInv, RecruitersFormNoCycle
<1>6. \A a \in Accounts :
        /\ AccountFine(akun'[a], siklus'[a])
        /\ akun'[a].direkrut # NULL => akun'[akun'[a].direkrut].status # "absent"
  BY DEF AccountsInv
<1> QED
  BY <1>2, <1>3, <1>4, <1>5, <1>6 DEF AccountsInv

LEMMA GivenUpKeeps ==
  ASSUME AccountsInv, NEW o \in Overriders, akun' = akun, siklus' = siklus,
         ganti' = [ganti EXCEPT ![o] = NoOverride]
  PROVE  AccountsInv'
<1>1. PICK h : h = NoOverride
  OBVIOUS
<1>2. h \in Override /\ h.locked = {} /\ h.next = NULL /\ Walks(h)
  BY <1>1, AgentAccountsAssumption DEF NoOverride, Override, Walks
<1>3. ganti' = [ganti EXCEPT ![o] = h]
  BY <1>1
<1> QED
  BY <1>2, <1>3, OverrideKeeps

LEMMA BeginKeeps ==
  ASSUME AccountsInv, NEW o \in Overriders, NEW a \in Accounts, NEW r \in Accounts,
         GantiAgenAkunBegin(o, a, r)
  PROVE  AccountsInv'
<1> DEFINE h == [akun |-> a, baru |-> r, next |-> r, locked |-> {a}, hops |-> 0]
<1>1. /\ h \in Override /\ h.akun = a /\ h.baru = r /\ h.next = r /\ h.locked = {a}
      /\ h.hops = 0
  BY AgentAccountsAssumption DEF Override
<1>2. /\ ganti' = [ganti EXCEPT ![o] = h] /\ akun' = akun /\ siklus' = siklus
      /\ akun[a].status # "absent" /\ akun[r].status # "absent" /\ r # a /\ a \notin Locked
  BY DEF GantiAgenAkunBegin
<1> HIDE DEF h
<1>3. Walks(h)
  <2>1. Read(h) = {}
    BY <1>1 DEF Read
  <2> QED
    BY <1>1, <1>2, <2>1, FS_EmptySet, AgentAccountsAssumption DEF Walks, Follows
<1>4. \A p \in Overriders \ {o} : h.locked \cap ganti[p].locked = {}
  BY <1>1, <1>2 DEF Locked
<1>5. PICK k : k = h
  OBVIOUS
<1> QED
  BY <1>1, <1>2, <1>3, <1>4, <1>5, OverrideKeeps

LEMMA WalkKeeps ==
  ASSUME AccountsInv, NEW o \in Overriders, GantiAgenAkunWalk(o)
  PROVE  AccountsInv'
<1> DEFINE g == ganti[o]
           above == akun[g.next].direkrut
<1>1. /\ g.next # NULL /\ g.hops < MaxHops
      /\ FreeToRead(o, g.next) /\ akun' = akun /\ siklus' = siklus
      /\ ganti' = [ganti EXCEPT ![o] =
           IF above = g.akun THEN NoOverride
           ELSE [g EXCEPT !.next = above, !.hops = g.hops + 1,
                          !.locked = g.locked \cup {g.next}]]
  BY DEF GantiAgenAkunWalk, Looks
<1>2. g \in Override /\ Walks(g)
  BY DEF AccountsInv
<1>3. g.next \in Accounts /\ akun[g.next].status # "absent" /\ akun \in [Accounts -> AccountRow]
  BY <1>1, <1>2 DEF AccountsInv, Override
<1>4. above \in Accounts \cup {NULL} /\ (above # NULL => akun[above].status # "absent")
  BY <1>3 DEF AccountsInv, AccountRow
<1>5. CASE above = g.akun
  BY <1>1, <1>5, GivenUpKeeps
<1>6. CASE above # g.akun
  <2>1. PICK n : n = g.next
    OBVIOUS
  <2>2. PICK up : up = above
    OBVIOUS
  <2>3. PICK h : h = [g EXCEPT !.next = up, !.hops = g.hops + 1,
                              !.locked = g.locked \cup {n}]
    OBVIOUS
  <2>4. /\ h \in Override /\ h.akun = g.akun /\ h.baru = g.baru /\ h.next = up
        /\ h.locked = g.locked \cup {n} /\ h.hops = g.hops + 1
    <3>1. g.hops + 1 \in 0..MaxHops
      BY <1>1, <1>2, AgentAccountsAssumption DEF Override
    <3> QED
      BY <1>2, <1>3, <1>4, <2>1, <2>2, <2>3, <3>1 DEF Override
  <2>5. g # NoOverride
    BY <1>1 DEF NoOverride
  <2>6. Walks(h)
    <3>1. /\ g.akun \in g.locked /\ g.akun # NULL /\ g.baru # NULL /\ n # g.akun
          /\ g.baru \in Read(g) \cup {n}
          /\ \A c \in Read(g) : akun[c].direkrut \in Read(g) \cup {n}
          /\ Cardinality(Read(g)) = g.hops /\ Follows(g)
      BY <1>2, <2>1, <2>5 DEF Walks
    <3>2. Read(h) = Read(g) \cup {n}
      BY <2>4, <3>1 DEF Read
    <3>3. IsFiniteSet(Read(g)) /\ n \notin Read(g)
      BY <1>2, <2>1, <2>5, NextIsNew
    <3>4. Cardinality(Read(h)) = h.hops
      BY <2>4, <3>1, <3>2, <3>3, FS_AddElement
    <3>5. Follows(h)
      <4>1. ASSUME NEW S \in SUBSET (Accounts \cup {NULL}), h.baru \in S,
                   \A c \in S \cap Read(h) : akun[c].direkrut \in S
            PROVE  Read(h) \subseteq S /\ h.next \in S
        <5>1. Read(g) \subseteq S /\ n \in S
          BY <2>1, <2>4, <3>1, <3>2, <4>1 DEF Follows
        <5>2. up \in S
          BY <2>1, <2>2, <3>2, <4>1, <5>1
        <5> QED
          BY <2>4, <3>2, <5>1, <5>2
      <4> QED
        BY <4>1 DEF Follows
    <3>6. \A c \in Read(h) : akun[c].direkrut \in Read(h) \cup {up}
      BY <2>1, <2>2, <3>1, <3>2
    <3> QED
      BY <1>6, <2>2, <2>4, <3>1, <3>2, <3>4, <3>5, <3>6 DEF Walks
  <2>7. \A c \in h.locked : akun[c].status # "absent"
    BY <1>3, <2>1, <2>4 DEF AccountsInv
  <2>8. \A p \in Overriders \ {o} : h.locked \cap ganti[p].locked = {}
    BY <1>1, <2>1, <2>4 DEF AccountsInv, FreeToRead
  <2>9. ganti' = [ganti EXCEPT ![o] = h]
    BY <1>1, <1>6, <2>1, <2>2, <2>3
  <2> QED
    BY <1>1, <1>4, <2>2, <2>4, <2>6, <2>7, <2>8, <2>9, OverrideKeeps
<1> QED
  BY <1>5, <1>6

(* Every step of every account and override keeps the invariant. *)
LEMMA AccountsNextKeeps ==
  ASSUME AccountsInv, [AccountsNext]_accountVars
  PROVE  AccountsInv'
<1>1. ASSUME NEW a \in Accounts, AccountStep(a)
      PROVE  AccountsInv'
  <2>1. ASSUME NEW r \in Accounts \cup {NULL}, Register(a, r)
        PROVE  AccountsInv'
    BY <2>1, RegisterKeeps
  <2>2. ASSUME NEW fee \in Fees, Ajukan(a, fee)
        PROVE  AccountsInv'
    BY <2>2, AjukanMoves, AccountsMoveKeeps
  <2>3. CASE UploadBuktiAkun(a)
    <3>1. siklus[a] \in Seq(Cycles)
      BY DEF AccountsInv
    <3>2. Len(siklus[a]) \in DOMAIN siklus[a]
      BY <2>3, <3>1 DEF UploadBuktiAkun
    <3>3. PICK n : n = Len(siklus[a])
      OBVIOUS
    <3>4. Upload(a, n)
      BY <2>3, <3>3 DEF UploadBuktiAkun
    <3> QED
      BY <3>2, <3>3, <3>4, UploadMoves, AccountsMoveKeeps
  <2>4. CASE UploadBuktiAdmin(a)
    BY <2>4, UploadMoves, AccountsMoveKeeps DEF UploadBuktiAdmin
  <2>5. ASSUME NEW n \in DOMAIN siklus[a],
               VerifikasiPembayaran(a, n) \/ TolakPembayaran(a, n)
        PROVE  AccountsInv'
    BY <2>5, PaymentStatusMoves, AccountsMoveKeeps
  <2>6. CASE Setujui(a)
    BY <2>6, SetujuiMoves, AccountsMoveKeeps
  <2>7. CASE Tolak(a)
    BY <2>7, RejectionMoves, AccountsMoveKeeps
  <2>8. CASE UbahStatus(a)
    BY <2>8, UbahStatusMoves, AccountsMoveKeeps
  <2>9. CASE \/ KeputusanSetujui(a) \/ KeputusanBebaskan(a) \/ KeputusanMintaUnggahUlang(a)
             \/ KeputusanTolak(a) \/ KeputusanBayarMenyusul(a)
    BY <2>9, DecisionScreenMoves, AccountsMoveKeeps
  <2>10. CASE LepasAgenAkun(a)
    BY <2>10, LepasKeeps
  <2> QED
    BY <1>1, <2>1, <2>2, <2>3, <2>4, <2>5, <2>6, <2>7, <2>8, <2>9, <2>10 DEF AccountStep
<1>2. ASSUME NEW o \in Overriders, OverrideStep(o)
      PROVE  AccountsInv'
  <2>1. ASSUME NEW a \in Accounts, NEW r \in Accounts, GantiAgenAkunBegin(o, a, r)
        PROVE  AccountsInv'
    BY <2>1, BeginKeeps
  <2>2. CASE GantiAgenAkunWalk(o)
    BY <2>2, WalkKeeps
  <2>3. CASE GantiAgenAkunCommit(o)
    BY <2>3, CommitKeeps
  <2>4. CASE GantiAgenAkunFails(o)
    BY <2>4, GivenUpKeeps DEF GantiAgenAkunFails
  <2> QED
    BY <1>2, <2>1, <2>2, <2>3, <2>4 DEF OverrideStep
<1>3. CASE UNCHANGED accountVars
  <2>1. AccountsMove
    BY <1>3 DEF accountVars, AccountsMove, AccountsInv
  <2> QED
    BY <2>1, AccountsMoveKeeps
<1> QED
  BY <1>1, <1>2, <1>3 DEF AccountsNext

(* Whatever registrations, decisions and concurrent overrides do: recruiters *)
(* form no cycle of a length that an override's limit would let it see, an   *)
(* agent's upline is his recruiter, and an account's status is what the last *)
(* decision on its applications made it.                                     *)
THEOREM AccountsStayInOrder == AccountsSpec => []AccountsInvariant
<1>1. AccountsInit => AccountsInv
  BY AccountsBegin
<1>2. AccountsInv /\ [AccountsNext]_accountVars => AccountsInv'
  BY AccountsNextKeeps
<1>3. AccountsInv => AccountsInvariant
  BY AccountsInvSays
<1> QED
  BY <1>1, <1>2, <1>3, PTL DEF AccountsSpec

-----------------------------------------------------------------------------
(* CustomerSessions: logins, links, changes and resets of a password *)

SessionRow == [status : {"none", "aktif", "mati"}, sandi : 0..MaxSandi, lolos : BOOLEAN]

ChangeRow ==
  [step : {"idle", "mulai", "dicabut", "dimatikan", "dipakai", "disetel"},
   keep : {NIL} \cup Sesi, link : {NIL} \cup Tautan]

(* A change that has revoked the sessions: those open now are the one it     *)
(* keeps, and those that slip past it.                                       *)
RevokedFine ==
  \A g \in Ganti : setel[g].step \in {"dicabut", "dimatikan"} =>
    \A k \in Sesi : Aktif(k) => k = setel[g].keep \/ sesi[k].lolos

(* A change keeps a session; a reset has a link of its own, used up, that    *)
(* has not set a password.                                                   *)
ChangesFine ==
  /\ \A g \in Ganti : setel[g].step \in {"mulai", "dicabut", "dimatikan"} => setel[g].keep \in Sesi
  /\ \A g \in Ganti : setel[g].step = "dipakai" =>
       setel[g].link \in Tautan /\ tautan[setel[g].link] = "terpakai"
  /\ \A g, h \in Ganti :
       setel[g].step = "dipakai" /\ setel[h].step = "dipakai" /\ g # h => setel[g].link # setel[h].link

CustomerTyped ==
  /\ sandi \in 1..MaxSandi
  /\ sesi \in [Sesi -> SessionRow]
  /\ tautan \in [Tautan -> {"none", "aktif", "terpakai", "menyetel"}]
  /\ masuk \in [Masuk -> 0..MaxSandi]
  /\ setel \in [Ganti -> ChangeRow]
  /\ \A t, u \in Tautan : tautan[t] = "aktif" /\ tautan[u] = "aktif" => t = u

CustomerInv == CustomerTyped /\ ChangesFine /\ RevokedFine /\ OldSessionsEnd

LEMMA CustomerInvSays ==
  ASSUME CustomerInv
  PROVE  CustomerInvariant
<1>1. CustomerTypeOK
  BY DEF CustomerInv, CustomerTyped, CustomerTypeOK, SessionRow, ChangeRow
<1>2. LinkSetsOnce
  BY DEF CustomerInv, ChangesFine, LinkSetsOnce
<1> QED
  BY <1>1, <1>2 DEF CustomerInv, CustomerInvariant

LEMMA CustomerBegins ==
  ASSUME CustomerInit
  PROVE  CustomerInv
<1>1. NoSession \in SessionRow /\ NoSession.status = "none"
  BY CustomerAssumption DEF NoSession, SessionRow
<1>2. NoChange \in ChangeRow /\ NoChange.step = "idle"
  BY DEF NoChange, ChangeRow
<1>3. CustomerTyped
  BY <1>1, <1>2, CustomerAssumption DEF CustomerInit, CustomerTyped
<1>4. \A g \in Ganti : setel[g].step = "idle"
  BY <1>2 DEF CustomerInit
<1>5. \A k \in Sesi : ~ Aktif(k)
  BY <1>1 DEF CustomerInit, Aktif
<1> QED
  BY <1>3, <1>4, <1>5 DEF CustomerInv, ChangesFine, RevokedFine, OldSessionsEnd

(* Sessions that end leave the others as they are. *)
LEMMA EndedSessions ==
  ASSUME NEW K, sesi \in [Sesi -> SessionRow]
  PROVE  /\ Ended(K) \in [Sesi -> SessionRow]
         /\ \A k \in Sesi : Ended(K)[k].status = "aktif" =>
              Aktif(k) /\ k \notin K /\ Ended(K)[k] = sesi[k]
<1>1. \A k \in Sesi : sesi[k] \in SessionRow /\ [sesi[k] EXCEPT !.status = "mati"] \in SessionRow
                      /\ [sesi[k] EXCEPT !.status = "mati"].status = "mati"
  BY DEF SessionRow
<1> QED
  BY <1>1 DEF Ended, Aktif

(* Steps that only end sessions, keep everything else of the sessions, and   *)
(* do not let a change pass its revocation.                                  *)
SessionsOnlyEnd ==
  /\ sandi' = sandi
  /\ sesi' \in [Sesi -> SessionRow]
  /\ \A k \in Sesi : sesi'[k].status = "aktif" => sesi'[k] = sesi[k]

LEMMA OnlyEndingIsFine ==
  ASSUME CustomerInv, SessionsOnlyEnd,
         \A g \in Ganti : setel[g].step = "disetel" => setel'[g].step = "disetel",
         \A g \in Ganti : setel'[g].step \in {"dicabut", "dimatikan"} =>
            setel[g].step \in {"dicabut", "dimatikan"} /\ setel'[g].keep = setel[g].keep
  PROVE  RevokedFine' /\ OldSessionsEnd'
<1>1. \A k \in Sesi : Aktif(k)' => Aktif(k) /\ sesi'[k] = sesi[k]
  BY DEF SessionsOnlyEnd, Aktif
<1>2. RevokedFine'
  BY <1>1 DEF CustomerInv, RevokedFine
<1>3. OldSessionsEnd'
  BY <1>1 DEF CustomerInv, OldSessionsEnd, SessionsOnlyEnd
<1> QED
  BY <1>2, <1>3

LEMMA LoginsKeep ==
  ASSUME CustomerInv, NEW l \in Masuk, LoginRead(l) \/ LoginFails(l)
  PROVE  CustomerInv'
<1>1. /\ sandi' = sandi /\ sesi' = sesi /\ tautan' = tautan /\ setel' = setel
      /\ masuk' \in [Masuk -> 0..MaxSandi]
  BY CustomerAssumption DEF LoginRead, LoginFails, CustomerInv, CustomerTyped
<1> QED
  BY <1>1 DEF CustomerInv, CustomerTyped, ChangesFine, RevokedFine, OldSessionsEnd, Aktif

LEMMA LoginEndKeeps ==
  ASSUME CustomerInv, NEW l \in Masuk, NEW k \in Sesi, LoginEnd(l, k)
  PROVE  CustomerInv'
<1> DEFINE row == [status |-> "aktif", sandi |-> masuk[l], lolos |-> masuk[l] # sandi \/ Changing]
<1>1. /\ sesi' = [sesi EXCEPT ![k] = row] /\ masuk' = [masuk EXCEPT ![l] = 0]
      /\ sandi' = sandi /\ tautan' = tautan /\ setel' = setel
  BY DEF LoginEnd
<1>2. masuk[l] \in 0..MaxSandi /\ sesi \in [Sesi -> SessionRow]
  BY DEF CustomerInv, CustomerTyped
<1>3. (masuk[l] # sandi \/ Changing) \in BOOLEAN
  BY DEF Changing
<1>4. row \in SessionRow /\ row.sandi = masuk[l] /\ (row.lolos <=> (masuk[l] # sandi \/ Changing))
  BY <1>2, <1>3 DEF SessionRow
<1> HIDE DEF row
<1>5. sesi' \in [Sesi -> SessionRow] /\ sesi'[k] = row /\ \A j \in Sesi \ {k} : sesi'[j] = sesi[j]
  BY <1>1, <1>2, <1>4
<1>6. masuk' \in [Masuk -> 0..MaxSandi]
  BY <1>1, CustomerAssumption DEF CustomerInv, CustomerTyped
<1>7. CustomerTyped' /\ ChangesFine'
  BY <1>1, <1>5, <1>6 DEF CustomerInv, CustomerTyped, ChangesFine
<1>8. RevokedFine'
  <2>1. ASSUME NEW g \in Ganti, setel[g].step \in {"dicabut", "dimatikan"}, NEW j \in Sesi, Aktif(j)'
        PROVE  j = setel[g].keep \/ sesi'[j].lolos
    BY <1>4, <1>5, <2>1 DEF CustomerInv, RevokedFine, Aktif, Changing
  <2> QED
    BY <1>1, <2>1 DEF RevokedFine
<1>9. OldSessionsEnd'
  BY <1>1, <1>4, <1>5 DEF CustomerInv, OldSessionsEnd, Aktif
<1> QED
  BY <1>7, <1>8, <1>9 DEF CustomerInv

LEMMA LinksKeep ==
  ASSUME CustomerInv, NEW t \in Tautan, IssueToken(t) \/ TokenExpires(t)
  PROVE  CustomerInv'
<1> DEFINE Links == {"none", "aktif", "terpakai", "menyetel"}
<1>0. tautan \in [Tautan -> Links]
  BY DEF CustomerInv, CustomerTyped
<1>1. /\ sandi' = sandi /\ sesi' = sesi /\ setel' = setel /\ masuk' = masuk
      /\ tautan' \in [Tautan -> Links]
      /\ \A u \in Tautan : tautan'[u] = "aktif" => u = t
      /\ \A u \in Tautan : tautan[u] = "terpakai" => tautan'[u] = "terpakai"
  <2>1. CASE IssueToken(t)
    <3>1. /\ UsedUp \in [Tautan -> Links]
          /\ \A u \in Tautan : UsedUp[u] # "aktif"
          /\ \A u \in Tautan : tautan[u] = "terpakai" => UsedUp[u] = "terpakai"
      BY <1>0 DEF UsedUp
    <3> QED
      BY <2>1, <3>1 DEF IssueToken
  <2>2. CASE TokenExpires(t)
    BY <1>0, <2>2 DEF TokenExpires, CustomerInv, CustomerTyped
  <2> QED
    BY <2>1, <2>2
<1>2. CustomerTyped'
  BY <1>1 DEF CustomerInv, CustomerTyped
<1>3. ChangesFine'
  BY <1>1 DEF CustomerInv, ChangesFine
<1> QED
  BY <1>1, <1>2, <1>3 DEF CustomerInv, RevokedFine, OldSessionsEnd, Aktif

(* One change moves on: its row is replaced by another of its type. *)
LEMMA ChangeRowMoves ==
  ASSUME CustomerTyped, NEW g \in Ganti, NEW row \in ChangeRow, setel' = [setel EXCEPT ![g] = row]
  PROVE  /\ setel' \in [Ganti -> ChangeRow] /\ setel'[g] = row
         /\ \A h \in Ganti \ {g} : setel'[h] = setel[h]
BY DEF CustomerTyped

LEMMA SessionEndsKeeps ==
  ASSUME CustomerInv, NEW k \in Sesi, SessionEnds(k)
  PROVE  CustomerInv'
<1>1. /\ sesi' = Ended({k}) /\ sandi' = sandi /\ tautan' = tautan /\ masuk' = masuk /\ setel' = setel
      /\ sesi \in [Sesi -> SessionRow]
  BY DEF SessionEnds, CustomerInv, CustomerTyped
<1>2. SessionsOnlyEnd
  BY <1>1, EndedSessions DEF SessionsOnlyEnd
<1>3. RevokedFine' /\ OldSessionsEnd'
  BY <1>1, <1>2, OnlyEndingIsFine
<1>4. CustomerTyped' /\ ChangesFine'
  BY <1>1, <1>2 DEF CustomerInv, CustomerTyped, ChangesFine, SessionsOnlyEnd
<1> QED
  BY <1>3, <1>4 DEF CustomerInv

LEMMA ChangeBeginKeeps ==
  ASSUME CustomerInv, NEW g \in Ganti, NEW k \in Sesi, ChangeBegin(g, k)
  PROVE  CustomerInv'
<1>1. PICK row : row = [step |-> "mulai", keep |-> k, link |-> NIL]
  OBVIOUS
<1>2. row \in ChangeRow /\ row.step = "mulai" /\ row.keep = k
  BY <1>1 DEF ChangeRow
<1>3. /\ setel' = [setel EXCEPT ![g] = row] /\ sandi' = sandi /\ sesi' = sesi
      /\ tautan' = tautan /\ masuk' = masuk /\ setel[g].step = "idle"
  BY <1>1 DEF ChangeBegin
<1>4. CustomerTyped
  BY DEF CustomerInv
<1>5. /\ setel' \in [Ganti -> ChangeRow] /\ setel'[g] = row
      /\ \A h \in Ganti \ {g} : setel'[h] = setel[h]
  BY <1>2, <1>3, <1>4, ChangeRowMoves
<1>6. CustomerTyped' /\ ChangesFine'
  BY <1>2, <1>3, <1>4, <1>5 DEF CustomerInv, CustomerTyped, ChangesFine
<1>7. SessionsOnlyEnd
  BY <1>3, <1>4 DEF SessionsOnlyEnd, CustomerTyped
<1>8. RevokedFine' /\ OldSessionsEnd'
  BY <1>2, <1>3, <1>5, <1>7, OnlyEndingIsFine
<1> QED
  BY <1>6, <1>8 DEF CustomerInv

LEMMA RevokeKeeps ==
  ASSUME CustomerInv, NEW g \in Ganti, RevokeOtherSessions(g)
  PROVE  CustomerInv'
<1>1. PICK row : row = [setel[g] EXCEPT !.step = "dicabut"]
  OBVIOUS
<1>2. /\ setel' = [setel EXCEPT ![g] = row] /\ sandi' = sandi /\ sesi' = Ended(Sesi \ {setel[g].keep})
      /\ tautan' = tautan /\ masuk' = masuk /\ setel[g].step = "mulai"
  BY <1>1 DEF RevokeOtherSessions, Step
<1>3. CustomerTyped /\ setel[g] \in ChangeRow /\ sesi \in [Sesi -> SessionRow]
  BY DEF CustomerInv, CustomerTyped
<1>4. row \in ChangeRow /\ row.step = "dicabut" /\ row.keep = setel[g].keep
  BY <1>1, <1>3 DEF ChangeRow
<1>5. /\ setel' \in [Ganti -> ChangeRow] /\ setel'[g] = row
      /\ \A h \in Ganti \ {g} : setel'[h] = setel[h]
  BY <1>2, <1>3, <1>4, ChangeRowMoves
<1>6. /\ sesi' \in [Sesi -> SessionRow]
      /\ \A k \in Sesi : Aktif(k)' => Aktif(k) /\ k = setel[g].keep /\ sesi'[k] = sesi[k]
  BY <1>2, <1>3, EndedSessions DEF Aktif
<1>7. CustomerTyped' /\ ChangesFine'
  BY <1>2, <1>3, <1>4, <1>5, <1>6 DEF CustomerInv, CustomerTyped, ChangesFine
<1>8. RevokedFine'
  BY <1>4, <1>5, <1>6 DEF CustomerInv, RevokedFine
<1>9. OldSessionsEnd'
  <2>1. \A h \in Ganti : setel[h].step = "disetel" => setel'[h].step = "disetel"
    BY <1>2, <1>5
  <2> QED
    BY <1>2, <1>6, <2>1 DEF CustomerInv, OldSessionsEnd
<1> QED
  BY <1>7, <1>8, <1>9 DEF CustomerInv

LEMMA InvalidateKeeps ==
  ASSUME CustomerInv, NEW g \in Ganti, InvalidateTokens(g)
  PROVE  CustomerInv'
<1>1. PICK row : row = [setel[g] EXCEPT !.step = "dimatikan"]
  OBVIOUS
<1>2. /\ setel' = [setel EXCEPT ![g] = row] /\ sandi' = sandi /\ sesi' = sesi
      /\ tautan' = UsedUp /\ masuk' = masuk /\ setel[g].step = "dicabut"
  BY <1>1 DEF InvalidateTokens, Step
<1>3. CustomerTyped /\ setel[g] \in ChangeRow
  BY DEF CustomerInv, CustomerTyped
<1>4. row \in ChangeRow /\ row.step = "dimatikan" /\ row.keep = setel[g].keep
  BY <1>1, <1>3 DEF ChangeRow
<1>5. /\ setel' \in [Ganti -> ChangeRow] /\ setel'[g] = row
      /\ \A h \in Ganti \ {g} : setel'[h] = setel[h]
  BY <1>2, <1>3, <1>4, ChangeRowMoves
<1>6. /\ tautan' \in [Tautan -> {"none", "aktif", "terpakai", "menyetel"}]
      /\ \A u \in Tautan : tautan'[u] # "aktif"
      /\ \A u \in Tautan : tautan[u] = "terpakai" => tautan'[u] = "terpakai"
  BY <1>2, <1>3 DEF UsedUp, CustomerTyped
<1>7. CustomerTyped' /\ ChangesFine'
  BY <1>2, <1>3, <1>4, <1>5, <1>6 DEF CustomerInv, CustomerTyped, ChangesFine
<1>8. SessionsOnlyEnd
  BY <1>2, <1>3 DEF SessionsOnlyEnd, CustomerTyped
<1>9. RevokedFine' /\ OldSessionsEnd'
  BY <1>2, <1>4, <1>5, <1>8, OnlyEndingIsFine
<1> QED
  BY <1>7, <1>9 DEF CustomerInv

(* The new password: what is open is the session that changed it, or slips   *)
(* past.                                                                     *)
LEMMA SetPasswordKeeps ==
  ASSUME CustomerInv, NEW g \in Ganti, SetPassword(g)
  PROVE  CustomerInv'
<1>1. PICK row : row = NoChange
  OBVIOUS
<1>2. PICK k : k = setel[g].keep
  OBVIOUS
<1>3. /\ setel' = [setel EXCEPT ![g] = row] /\ sandi' = sandi + 1 /\ sandi < MaxSandi
      /\ sesi' = [sesi EXCEPT ![k].lolos = TRUE]
      /\ tautan' = tautan /\ masuk' = masuk /\ setel[g].step = "dimatikan"
  BY <1>1, <1>2 DEF SetPassword
<1>4. CustomerTyped /\ sesi \in [Sesi -> SessionRow] /\ k \in Sesi
  BY <1>2, <1>3 DEF CustomerInv, CustomerTyped, ChangesFine
<1>5. row \in ChangeRow /\ row.step = "idle"
  BY <1>1 DEF ChangeRow, NoChange
<1>6. /\ setel' \in [Ganti -> ChangeRow] /\ setel'[g] = row
      /\ \A h \in Ganti \ {g} : setel'[h] = setel[h]
  BY <1>3, <1>4, <1>5, ChangeRowMoves
<1>7. /\ sesi' \in [Sesi -> SessionRow] /\ sesi'[k].lolos /\ sesi'[k].status = sesi[k].status
      /\ \A j \in Sesi \ {k} : sesi'[j] = sesi[j]
  BY <1>3, <1>4 DEF SessionRow
<1>8. sandi' \in 1..MaxSandi
  BY <1>3, <1>4, CustomerAssumption DEF CustomerTyped
<1>9. CustomerTyped' /\ ChangesFine'
  BY <1>3, <1>4, <1>5, <1>6, <1>7, <1>8 DEF CustomerInv, CustomerTyped, ChangesFine
<1>10. \A j \in Sesi : Aktif(j)' => sesi'[j].lolos
  BY <1>2, <1>3, <1>7 DEF CustomerInv, RevokedFine, Aktif
<1> QED
  BY <1>9, <1>10 DEF CustomerInv, RevokedFine, OldSessionsEnd

LEMMA ConsumeKeeps ==
  ASSUME CustomerInv, NEW g \in Ganti, NEW t \in Tautan, ConsumeToken(g, t)
  PROVE  CustomerInv'
<1>1. PICK row : row = [step |-> "dipakai", keep |-> NIL, link |-> t]
  OBVIOUS
<1>2. row \in ChangeRow /\ row.step = "dipakai" /\ row.link = t
  BY <1>1 DEF ChangeRow
<1>3. /\ setel' = [setel EXCEPT ![g] = row] /\ sandi' = sandi /\ sesi' = sesi
      /\ tautan' = [tautan EXCEPT ![t] = "terpakai"] /\ masuk' = masuk
      /\ setel[g].step = "idle" /\ tautan[t] = "aktif"
  BY <1>1 DEF ConsumeToken
<1>4. CustomerTyped
  BY DEF CustomerInv
<1>5. /\ setel' \in [Ganti -> ChangeRow] /\ setel'[g] = row
      /\ \A h \in Ganti \ {g} : setel'[h] = setel[h]
  BY <1>2, <1>3, <1>4, ChangeRowMoves
<1>6. /\ tautan' \in [Tautan -> {"none", "aktif", "terpakai", "menyetel"}]
      /\ tautan'[t] = "terpakai" /\ \A u \in Tautan \ {t} : tautan'[u] = tautan[u]
  BY <1>3, <1>4 DEF CustomerTyped
<1>7. \A h \in Ganti : setel[h].step = "dipakai" => setel[h].link # t
  BY <1>3 DEF CustomerInv, ChangesFine
<1>8. CustomerTyped'
  BY <1>3, <1>4, <1>5, <1>6 DEF CustomerTyped
<1>9. ChangesFine'
  BY <1>2, <1>3, <1>5, <1>6, <1>7 DEF CustomerInv, ChangesFine
<1>10. SessionsOnlyEnd
  BY <1>3, <1>4 DEF SessionsOnlyEnd, CustomerTyped
<1>11. RevokedFine' /\ OldSessionsEnd'
  BY <1>2, <1>3, <1>5, <1>10, OnlyEndingIsFine
<1> QED
  BY <1>8, <1>9, <1>11 DEF CustomerInv

LEMMA ResetSetsKeeps ==
  ASSUME CustomerInv, NEW g \in Ganti, ResetSets(g)
  PROVE  CustomerInv'
<1>1. PICK row : row = [setel[g] EXCEPT !.step = "disetel"]
  OBVIOUS
<1>2. PICK t : t = setel[g].link
  OBVIOUS
<1>3. /\ setel' = [setel EXCEPT ![g] = row] /\ sandi' = sandi + 1 /\ sandi < MaxSandi /\ sesi' = sesi
      /\ tautan' = [tautan EXCEPT ![t] = "menyetel"] /\ masuk' = masuk /\ setel[g].step = "dipakai"
  BY <1>1, <1>2 DEF ResetSets, Step
<1>4. CustomerTyped /\ setel[g] \in ChangeRow /\ t \in Tautan
  BY <1>2, <1>3 DEF CustomerInv, CustomerTyped, ChangesFine
<1>5. row \in ChangeRow /\ row.step = "disetel"
  BY <1>1, <1>4 DEF ChangeRow
<1>6. /\ setel' \in [Ganti -> ChangeRow] /\ setel'[g] = row
      /\ \A h \in Ganti \ {g} : setel'[h] = setel[h]
  BY <1>3, <1>4, <1>5, ChangeRowMoves
<1>7. /\ tautan' \in [Tautan -> {"none", "aktif", "terpakai", "menyetel"}]
      /\ tautan'[t] = "menyetel" /\ \A u \in Tautan \ {t} : tautan'[u] = tautan[u]
  BY <1>3, <1>4 DEF CustomerTyped
<1>8. sandi' \in 1..MaxSandi
  BY <1>3, <1>4, CustomerAssumption DEF CustomerTyped
<1>9. CustomerTyped'
  BY <1>3, <1>4, <1>6, <1>7, <1>8 DEF CustomerTyped
<1>10. ChangesFine'
  BY <1>2, <1>3, <1>5, <1>6, <1>7 DEF CustomerInv, ChangesFine
<1>11. RevokedFine'
  BY <1>3, <1>5, <1>6 DEF CustomerInv, RevokedFine, Aktif
<1>12. OldSessionsEnd'
  BY <1>5, <1>6 DEF OldSessionsEnd
<1> QED
  BY <1>9, <1>10, <1>11, <1>12 DEF CustomerInv

(* A change that ends, its revocation lost or not: nothing is left open that *)
(* does not slip past.                                                       *)
LEMMA ResetEndsKeeps ==
  ASSUME CustomerInv, NEW g \in Ganti, RevokeAllSessions(g) \/ RevocationLost(g)
  PROVE  CustomerInv'
<1>1. PICK row : row = NoChange
  OBVIOUS
<1>2. row \in ChangeRow /\ row.step = "idle"
  BY <1>1 DEF ChangeRow, NoChange
<1>3. /\ setel' = [setel EXCEPT ![g] = row] /\ sandi' = sandi /\ tautan' = tautan /\ masuk' = masuk
      /\ sesi' \in {Ended(Sesi), [k \in Sesi |-> IF Aktif(k) THEN [sesi[k] EXCEPT !.lolos = TRUE] ELSE sesi[k]]}
  BY <1>1 DEF RevokeAllSessions, RevocationLost
<1>4. CustomerTyped /\ sesi \in [Sesi -> SessionRow]
  BY DEF CustomerInv, CustomerTyped
<1>5. /\ setel' \in [Ganti -> ChangeRow] /\ setel'[g] = row
      /\ \A h \in Ganti \ {g} : setel'[h] = setel[h]
  BY <1>2, <1>3, <1>4, ChangeRowMoves
<1>6. sesi' \in [Sesi -> SessionRow] /\ \A k \in Sesi : Aktif(k)' => sesi'[k].lolos
  <2>1. CASE sesi' = Ended(Sesi)
    BY <1>4, <2>1, EndedSessions DEF Aktif
  <2>2. CASE sesi' = [k \in Sesi |-> IF Aktif(k) THEN [sesi[k] EXCEPT !.lolos = TRUE] ELSE sesi[k]]
    <3>1. \A k \in Sesi : sesi[k] \in SessionRow /\ [sesi[k] EXCEPT !.lolos = TRUE] \in SessionRow
                          /\ [sesi[k] EXCEPT !.lolos = TRUE].lolos
      BY <1>4 DEF SessionRow
    <3> QED
      BY <2>2, <3>1 DEF Aktif
  <2> QED
    BY <1>3, <2>1, <2>2
<1>7. CustomerTyped' /\ ChangesFine'
  BY <1>2, <1>3, <1>4, <1>5, <1>6 DEF CustomerInv, CustomerTyped, ChangesFine
<1> QED
  BY <1>6, <1>7 DEF CustomerInv, RevokedFine, OldSessionsEnd

LEMMA ChangeFailsKeeps ==
  ASSUME CustomerInv, NEW g \in Ganti, ChangeFails(g)
  PROVE  CustomerInv'
<1>1. PICK row : row = NoChange
  OBVIOUS
<1>2. row \in ChangeRow /\ row.step = "idle"
  BY <1>1 DEF ChangeRow, NoChange
<1>3. /\ setel' = [setel EXCEPT ![g] = row] /\ sandi' = sandi /\ sesi' = sesi /\ tautan' = tautan
      /\ masuk' = masuk /\ setel[g].step # "disetel"
  BY <1>1 DEF ChangeFails
<1>4. CustomerTyped
  BY DEF CustomerInv
<1>5. /\ setel' \in [Ganti -> ChangeRow] /\ setel'[g] = row
      /\ \A h \in Ganti \ {g} : setel'[h] = setel[h]
  BY <1>2, <1>3, <1>4, ChangeRowMoves
<1>6. CustomerTyped' /\ ChangesFine'
  BY <1>2, <1>3, <1>4, <1>5 DEF CustomerInv, CustomerTyped, ChangesFine
<1>7. SessionsOnlyEnd
  BY <1>3, <1>4 DEF SessionsOnlyEnd, CustomerTyped
<1>8. RevokedFine' /\ OldSessionsEnd'
  BY <1>2, <1>3, <1>5, <1>7, OnlyEndingIsFine
<1> QED
  BY <1>6, <1>8 DEF CustomerInv

LEMMA CustomerNextKeeps ==
  ASSUME CustomerInv, [CustomerNext]_customerVars
  PROVE  CustomerInv'
<1>1. ASSUME NEW l \in Masuk, LoginRead(l) \/ LoginFails(l) \/ \E k \in Sesi : LoginEnd(l, k)
      PROVE  CustomerInv'
  BY <1>1, LoginsKeep, LoginEndKeeps
<1>2. ASSUME NEW k \in Sesi, SessionEnds(k)
      PROVE  CustomerInv'
  BY <1>2, SessionEndsKeeps
<1>3. ASSUME NEW t \in Tautan, IssueToken(t) \/ TokenExpires(t)
      PROVE  CustomerInv'
  BY <1>3, LinksKeep
<1>4. ASSUME NEW g \in Ganti,
             \/ RevokeOtherSessions(g) \/ InvalidateTokens(g) \/ SetPassword(g)
             \/ ResetSets(g) \/ RevokeAllSessions(g) \/ RevocationLost(g) \/ ChangeFails(g)
             \/ \E k \in Sesi : ChangeBegin(g, k)
             \/ \E t \in Tautan : ConsumeToken(g, t)
      PROVE  CustomerInv'
  BY <1>4, RevokeKeeps, InvalidateKeeps, SetPasswordKeeps, ResetSetsKeeps, ResetEndsKeeps,
     ChangeFailsKeeps, ChangeBeginKeeps, ConsumeKeeps
<1>5. CASE UNCHANGED customerVars
  BY <1>5 DEF customerVars, CustomerInv, CustomerTyped, ChangesFine, RevokedFine, OldSessionsEnd, Aktif
<1> QED
  BY <1>1, <1>2, <1>3, <1>4, <1>5 DEF CustomerNext

(* No session is left over from an old password and no link sets a second    *)
(* one, whatever logins, changes and resets overlap and wherever they fail   *)
(* (customer/service.go ChangePassword, ResetPassword).                      *)
THEOREM OldSessionsDoEnd == CustomerSpec => []CustomerInvariant
<1>1. CustomerInit => CustomerInv
  BY CustomerBegins
<1>2. CustomerInv /\ [CustomerNext]_customerVars => CustomerInv'
  BY CustomerNextKeeps
<1>3. CustomerInv => CustomerInvariant
  BY CustomerInvSays
<1> QED
  BY <1>1, <1>2, <1>3, PTL DEF CustomerSpec

-----------------------------------------------------------------------------
(* PilgrimDocuments: versions of a document and their reviews *)

DocumentRow ==
  [versi : 0..MaxVersi, isi : {KOSONG} \cup Berkas,
   status : {"none", "submitted", "approved", "rejected"}]

(* A row that is version v of the document. *)
IsVersion(row, v) ==
  row \in DocumentRow /\ row.versi = v /\ row.isi \in Berkas /\ row.status # "none"

(* The archive holds every version but the current one, and whoever reviews  *)
(* a version looks at its file.                                              *)
DocumentsInv ==
  /\ pesanan \in {"aktif", "batal"}
  /\ dok \in DocumentRow /\ (dok.versi # 0 => IsVersion(dok, dok.versi))
  /\ arsip \in Seq(DocumentRow)
  /\ Len(arsip) = (IF dok.versi = 0 THEN 0 ELSE dok.versi - 1)
  /\ \A v \in 1 .. Len(arsip) : IsVersion(arsip[v], v)
  /\ kirim \in [Pengirim -> {KOSONG} \cup Berkas]
  /\ tinjau \in [Peninjau -> DocumentRow]
  /\ \A a \in Peninjau : tinjau[a].versi # 0 =>
       tinjau[a].versi <= dok.versi /\ tinjau[a].isi = Versi(tinjau[a].versi).isi

LEMMA DocumentsInvSays ==
  ASSUME DocumentsInv
  PROVE  DocumentsTypeOK
<1>1. dok.versi \in 0..MaxVersi /\ MaxVersi \in Nat
  BY DocumentsAssumption DEF DocumentsInv, DocumentRow
<1>2. \A v \in 1..dok.versi : IsVersion(Versi(v), v)
  BY <1>1 DEF DocumentsInv, Versi
<1>3. \A v \in 1..dok.versi : /\ Versi(v).versi = v /\ Versi(v).isi \in Berkas
                              /\ Versi(v).status \in {"submitted", "approved", "rejected"}
  BY <1>2 DEF IsVersion, DocumentRow
<1>4. \A a \in Peninjau : tinjau[a].versi \in 0..dok.versi
  BY <1>1 DEF DocumentsInv, DocumentRow
<1> QED
  BY <1>1, <1>3, <1>4 DEF DocumentsInv, DocumentsTypeOK

LEMMA DocumentsBegin ==
  ASSUME DocumentsInit
  PROVE  DocumentsInv
<1>1. NoDocument \in DocumentRow /\ NoDocument.versi = 0
  BY DocumentsAssumption DEF NoDocument, DocumentRow
<1> QED
  BY <1>1 DEF DocumentsInit, DocumentsInv

(* A new version: the current row goes to the end of the archive as it is,   *)
(* and every version keeps its row.                                          *)
LEMMA UpsertArchives ==
  ASSUME DocumentsInv, NEW f \in Berkas, Upsert(f, dok)
  PROVE  /\ dok' \in DocumentRow /\ IsVersion(dok', dok'.versi) /\ dok'.versi = dok.versi + 1
         /\ arsip' \in Seq(DocumentRow) /\ Len(arsip') = dok.versi
         /\ \A v \in 1 .. Len(arsip') : IsVersion(arsip'[v], v)
         /\ \A v \in 1 .. dok.versi : Versi(v)' = Versi(v)
<1>1. dok.versi \in 0..MaxVersi /\ MaxVersi \in Nat /\ dok.versi < MaxVersi
  BY DocumentsAssumption DEF DocumentsInv, DocumentRow, Upsert
<1>2. /\ dok' \in DocumentRow /\ dok'.versi = dok.versi + 1 /\ dok'.isi = f
      /\ dok'.status = "submitted"
  BY <1>1 DEF Upsert, DocumentRow
<1>3. IsVersion(dok', dok'.versi)
  BY <1>2 DEF IsVersion
<1>4. /\ arsip' \in Seq(DocumentRow) /\ Len(arsip') = dok.versi
      /\ \A v \in 1 .. dok.versi : arsip'[v] = Versi(v) /\ IsVersion(Versi(v), v)
  <2>1. CASE dok.versi = 0
    BY <1>1, <2>1 DEF Upsert, DocumentsInv
  <2>2. CASE dok.versi # 0
    <3>1. /\ arsip' = Append(arsip, dok) /\ arsip \in Seq(DocumentRow) /\ Len(arsip) = dok.versi - 1
          /\ dok \in DocumentRow /\ IsVersion(dok, dok.versi)
      BY <2>2 DEF Upsert, DocumentsInv
    <3>2. /\ arsip' \in Seq(DocumentRow) /\ Len(arsip') = dok.versi
          /\ arsip'[dok.versi] = dok /\ \A v \in 1 .. dok.versi - 1 : arsip'[v] = arsip[v]
      BY <1>1, <2>2, <3>1
    <3>3. \A v \in 1 .. dok.versi - 1 : Versi(v) = arsip[v] /\ IsVersion(arsip[v], v)
      BY <1>1, <3>1 DEF Versi, DocumentsInv
    <3>4. Versi(dok.versi) = dok
      BY DEF Versi
    <3>5. ASSUME NEW v \in 1 .. dok.versi
          PROVE  arsip'[v] = Versi(v) /\ IsVersion(Versi(v), v)
      <4>1. CASE v = dok.versi
        BY <3>1, <3>2, <3>4, <4>1
      <4>2. CASE v # dok.versi
        <5>1. v \in 1 .. dok.versi - 1
          BY <1>1, <3>5, <4>2
        <5> QED
          BY <3>2, <3>3, <5>1
      <4> QED
        BY <4>1, <4>2
    <3> QED
      BY <3>2, <3>5
  <2> QED
    BY <2>1, <2>2
<1>5. \A v \in 1 .. dok.versi : Versi(v)' = arsip'[v]
  BY <1>1, <1>2 DEF Versi
<1> QED
  BY <1>2, <1>3, <1>4, <1>5

LEMMA UpsertKeeps ==
  ASSUME DocumentsInv, NEW f \in Berkas, Upsert(f, dok), pesanan' = pesanan, tinjau' = tinjau,
         kirim' \in [Pengirim -> {KOSONG} \cup Berkas]
  PROVE  DocumentsInv'
<1>1. /\ dok' \in DocumentRow /\ IsVersion(dok', dok'.versi) /\ dok'.versi = dok.versi + 1
      /\ arsip' \in Seq(DocumentRow) /\ Len(arsip') = dok.versi
      /\ \A v \in 1 .. Len(arsip') : IsVersion(arsip'[v], v)
      /\ \A v \in 1 .. dok.versi : Versi(v)' = Versi(v)
  BY UpsertArchives
<1>2. dok.versi \in Nat /\ tinjau \in [Peninjau -> DocumentRow]
  BY DocumentsAssumption DEF DocumentsInv, DocumentRow
<1>3. ASSUME NEW a \in Peninjau, tinjau[a].versi # 0
      PROVE  tinjau'[a].versi <= dok'.versi /\ tinjau'[a].isi = (Versi(tinjau[a].versi).isi)'
  <2>1. PICK v : v = tinjau[a].versi
    OBVIOUS
  <2>2. v \in 1 .. dok.versi /\ tinjau[a].isi = Versi(v).isi
    BY <1>2, <1>3, <2>1, DocumentsAssumption DEF DocumentsInv, DocumentRow
  <2>3. Versi(v)' = Versi(v)
    BY <1>1, <2>2
  <2> QED
    BY <1>1, <1>2, <2>1, <2>2, <2>3
<1> QED
  BY <1>1, <1>2, <1>3 DEF DocumentsInv

(* A review of the version that was looked at: its file stays. *)
LEMMA ReviewDecides ==
  ASSUME DocumentsInv, NEW a \in Peninjau, NEW status \in {"approved", "rejected"},
         UpdateStatus(a, status)
  PROVE  /\ dok' \in DocumentRow /\ IsVersion(dok', dok'.versi) /\ dok.versi # 0
         /\ dok'.versi = dok.versi /\ dok'.isi = dok.isi /\ arsip' = arsip
         /\ tinjau[a].versi = dok.versi /\ tinjau[a].isi = dok.isi /\ tinjau'[a] = NoDocument
         /\ tinjau' \in [Peninjau -> DocumentRow]
         /\ \A b \in Peninjau \ {a} : tinjau'[b] = tinjau[b]
<1>1. /\ dok \in DocumentRow /\ dok' = [dok EXCEPT !.status = status]
      /\ tinjau' = [tinjau EXCEPT ![a] = NoDocument] /\ tinjau \in [Peninjau -> DocumentRow]
      /\ tinjau[a].versi = dok.versi /\ tinjau[a].versi > 0 /\ arsip' = arsip
  BY DEF UpdateStatus, Reviewed, DocumentsInv
<1>2. NoDocument \in DocumentRow
  BY DocumentsAssumption DEF NoDocument, DocumentRow
<1>3. dok.versi # 0 /\ IsVersion(dok, dok.versi)
  BY <1>1 DEF DocumentsInv, DocumentRow
<1>4. dok' \in DocumentRow /\ dok'.versi = dok.versi /\ dok'.isi = dok.isi /\ dok'.status = status
  BY <1>1 DEF DocumentRow
<1>5. IsVersion(dok', dok'.versi)
  BY <1>3, <1>4 DEF IsVersion
<1>6. tinjau[a].isi = dok.isi
  BY <1>1, <1>3 DEF DocumentsInv, Versi
<1> QED
  BY <1>1, <1>2, <1>3, <1>4, <1>5, <1>6

LEMMA UpdateStatusKeeps ==
  ASSUME DocumentsInv, NEW a \in Peninjau, NEW status \in {"approved", "rejected"},
         UpdateStatus(a, status)
  PROVE  DocumentsInv'
<1>1. /\ dok' \in DocumentRow /\ IsVersion(dok', dok'.versi) /\ dok.versi # 0
      /\ dok'.versi = dok.versi /\ dok'.isi = dok.isi /\ arsip' = arsip
      /\ tinjau[a].versi = dok.versi /\ tinjau[a].isi = dok.isi /\ tinjau'[a] = NoDocument
      /\ tinjau' \in [Peninjau -> DocumentRow]
      /\ \A b \in Peninjau \ {a} : tinjau'[b] = tinjau[b]
  BY ReviewDecides
<1>2. \A v : Versi(v)'.isi = Versi(v).isi
  BY <1>1 DEF Versi
<1>3. ASSUME NEW b \in Peninjau, tinjau'[b].versi # 0
      PROVE  tinjau'[b].versi <= dok'.versi /\ tinjau'[b].isi = (Versi(tinjau[b].versi).isi)'
  <2>1. b # a /\ tinjau'[b] = tinjau[b]
    BY <1>1, <1>3 DEF NoDocument
  <2> QED
    BY <1>1, <1>3, <2>1 DEF DocumentsInv, Versi
<1>4. pesanan' = pesanan /\ kirim' = kirim
  BY DEF UpdateStatus, Reviewed
<1> QED
  BY <1>1, <1>3, <1>4 DEF DocumentsInv

(* Steps that leave the document alone: whoever reviews looks at it as it is,*)
(* or at nothing.                                                            *)
LEMMA DocumentRests ==
  ASSUME DocumentsInv, dok' = dok, arsip' = arsip, pesanan' \in {"aktif", "batal"},
         kirim' \in [Pengirim -> {KOSONG} \cup Berkas],
         tinjau' \in [Peninjau -> DocumentRow],
         \A a \in Peninjau : tinjau'[a] \in {tinjau[a], dok, NoDocument}
  PROVE  DocumentsInv'
<1>1. ASSUME NEW a \in Peninjau, tinjau'[a].versi # 0
      PROVE  tinjau'[a].versi <= dok'.versi /\ tinjau'[a].isi = (Versi(tinjau[a].versi).isi)'
  <2>1. CASE tinjau'[a] = tinjau[a]
    BY <1>1, <2>1 DEF DocumentsInv, Versi
  <2>2. CASE tinjau'[a] = dok
    BY <2>2, DocumentsAssumption DEF DocumentsInv, DocumentRow, Versi
  <2>3. CASE tinjau'[a] = NoDocument
    BY <1>1, <2>3 DEF NoDocument
  <2> QED
    BY <2>1, <2>2, <2>3
<1> QED
  BY <1>1 DEF DocumentsInv

LEMMA DocumentsNextKeeps ==
  ASSUME DocumentsInv, [DocumentsNext]_documentVars
  PROVE  DocumentsInv'
<1>0. /\ NoDocument \in DocumentRow /\ dok \in DocumentRow /\ tinjau \in [Peninjau -> DocumentRow]
      /\ kirim \in [Pengirim -> {KOSONG} \cup Berkas] /\ pesanan \in {"aktif", "batal"}
  BY DocumentsAssumption DEF NoDocument, DocumentRow, DocumentsInv
<1>1. ASSUME NEW c \in Pengirim, KirimEnd(c)
      PROVE  DocumentsInv'
  <2>1. PICK f : f = kirim[c]
    OBVIOUS
  <2>2. f \in Berkas /\ Upsert(f, dok) /\ pesanan' = pesanan /\ tinjau' = tinjau
    BY <1>0, <1>1, <2>1 DEF KirimEnd
  <2>3. kirim' \in [Pengirim -> {KOSONG} \cup Berkas]
    BY <1>0, <1>1 DEF KirimEnd
  <2> QED
    BY <2>2, <2>3, UpsertKeeps
<1>2. ASSUME NEW c \in Pengirim, KirimFails(c) \/ \E f \in Berkas : KirimCheck(c, f)
      PROVE  DocumentsInv'
  <2>1. kirim' \in [Pengirim -> {KOSONG} \cup Berkas]
    BY <1>0, <1>2 DEF KirimFails, KirimCheck
  <2> QED
    BY <1>0, <1>2, <2>1, DocumentRests DEF KirimFails, KirimCheck
<1>3. ASSUME NEW f \in Berkas, AdminUpsert(f)
      PROVE  DocumentsInv'
  BY <1>0, <1>3, UpsertKeeps DEF AdminUpsert
<1>4. ASSUME NEW a \in Peninjau, Review(a) \/ ReviewConflicts(a)
      PROVE  DocumentsInv'
  <2>1. tinjau' \in [Peninjau -> DocumentRow]
        /\ \A b \in Peninjau : tinjau'[b] \in {tinjau[b], dok, NoDocument}
    BY <1>0, <1>4 DEF Review, ReviewConflicts
  <2> QED
    BY <1>0, <1>4, <2>1, DocumentRests DEF Review, ReviewConflicts
<1>5. ASSUME NEW a \in Peninjau, NEW status \in {"approved", "rejected"}, UpdateStatus(a, status)
      PROVE  DocumentsInv'
  BY <1>5, UpdateStatusKeeps
<1>6. CASE PesananBatal \/ UNCHANGED documentVars
  BY <1>0, <1>6, DocumentRests DEF PesananBatal, documentVars
<1> QED
  BY <1>1, <1>2, <1>3, <1>4, <1>5, <1>6 DEF DocumentsNext

(* Every version has its file and a review's status, and the archive holds   *)
(* all of them but the current one (dokumen/repository.go Upsert).           *)
THEOREM DocumentsStayTyped == DocumentsSpec => [](DocumentsInv /\ DocumentsTypeOK)
<1>1. DocumentsInit => DocumentsInv
  BY DocumentsBegin
<1>2. DocumentsInv /\ [DocumentsNext]_documentVars => DocumentsInv'
  BY DocumentsNextKeeps
<1>3. DocumentsInv => DocumentsTypeOK
  BY DocumentsInvSays
<1> QED
  BY <1>1, <1>2, <1>3, PTL DEF DocumentsSpec

(* What VersionsKeepTheirReview says of one step and one version. *)
VersionKept(v) ==
  /\ Versi(v)'.isi = Versi(v).isi
  /\ Versi(v)'.status # Versi(v).status =>
       \E a \in Peninjau : /\ tinjau[a].versi = v /\ tinjau[a].isi = Versi(v).isi
                           /\ tinjau'[a] = NoDocument

LEMMA StepsKeepVersions ==
  ASSUME DocumentsInv, [DocumentsNext]_documentVars, NEW v \in 1..MaxVersi, v <= dok.versi
  PROVE  VersionKept(v)
<1>0. v \in 1 .. dok.versi /\ dok.versi \in Nat
  BY DocumentsAssumption DEF DocumentsInv, DocumentRow
<1>1. ASSUME NEW f \in Berkas, Upsert(f, dok)
      PROVE  VersionKept(v)
  <2>1. Versi(v)' = Versi(v)
    BY <1>0, <1>1, UpsertArchives
  <2> QED
    BY <2>1 DEF VersionKept
<1>2. ASSUME NEW c \in Pengirim, KirimEnd(c)
      PROVE  VersionKept(v)
  <2>1. PICK f : f = kirim[c]
    OBVIOUS
  <2>2. f \in Berkas /\ Upsert(f, dok)
    BY <1>2, <2>1 DEF KirimEnd, DocumentsInv
  <2> QED
    BY <1>1, <2>2
<1>3. ASSUME NEW a \in Peninjau, NEW status \in {"approved", "rejected"}, UpdateStatus(a, status)
      PROVE  VersionKept(v)
  <2>1. /\ dok'.versi = dok.versi /\ dok'.isi = dok.isi /\ arsip' = arsip
        /\ tinjau[a].versi = dok.versi /\ tinjau[a].isi = dok.isi /\ tinjau'[a] = NoDocument
    BY <1>3, ReviewDecides
  <2>2. CASE v = dok.versi
    BY <2>1, <2>2 DEF VersionKept, Versi
  <2>3. CASE v # dok.versi
    BY <2>1, <2>3 DEF VersionKept, Versi
  <2> QED
    BY <2>2, <2>3
<1>4. CASE dok' = dok /\ arsip' = arsip
  BY <1>4 DEF VersionKept, Versi
<1>5. ASSUME NEW c \in Pengirim, KirimFails(c) \/ \E f \in Berkas : KirimCheck(c, f)
      PROVE  dok' = dok /\ arsip' = arsip
  BY <1>5 DEF KirimFails, KirimCheck
<1>6. ASSUME NEW a \in Peninjau, Review(a) \/ ReviewConflicts(a)
      PROVE  dok' = dok /\ arsip' = arsip
  BY <1>6 DEF Review, ReviewConflicts
<1>7. PesananBatal \/ UNCHANGED documentVars => dok' = dok /\ arsip' = arsip
  BY DEF PesananBatal, documentVars
<1> QED
  BY <1>1, <1>2, <1>3, <1>4, <1>5, <1>6, <1>7 DEF DocumentsNext, AdminUpsert

(* Replacing a document while it is reviewed never gives the new file the    *)
(* old one's approval (dokumen/repository.go UpdateDokumenStatus).           *)
THEOREM ReviewsStay == DocumentsSpec => VersionsKeepTheirReview
<1>1. DocumentsSpec => []DocumentsInv
  BY DocumentsStayTyped, PTL
<1>2. DocumentsInv /\ [DocumentsNext]_documentVars =>
        [\A v \in 1..MaxVersi : v <= dok.versi =>
           /\ Versi(v)'.isi = Versi(v).isi
           /\ Versi(v)'.status # Versi(v).status =>
                \E a \in Peninjau : /\ tinjau[a].versi = v /\ tinjau[a].isi = Versi(v).isi
                                    /\ tinjau'[a] = NoDocument]_documentVars
  BY StepsKeepVersions DEF VersionKept
<1> QED
  BY <1>1, <1>2, PTL DEF DocumentsSpec, VersionsKeepTheirReview

-----------------------------------------------------------------------------
(* PilgrimLetters: the brand's counter and the letters' numbers *)

FormRow == [nomor : 0..MaxNomor, dari : 0..MaxNomor, lengkap : BOOLEAN, ada : BOOLEAN]

(* A form never lowers the counter it was checked against. *)
LettersInv ==
  /\ LettersTypeOK /\ LetterNumbersDiffer
  /\ \A p \in Pengatur : atur[p].ada => atur[p].nomor >= atur[p].dari

LEMMA LettersBegin ==
  ASSUME LettersInit
  PROVE  LettersInv
<1>1. NoForm \in FormRow /\ ~ NoForm.ada
  BY LettersAssumption DEF NoForm, FormRow
<1>2. merek \in [nomor : 0..MaxNomor, lengkap : BOOLEAN] /\ merek.nomor = 0
  BY LettersAssumption DEF LettersInit
<1>3. LettersTypeOK
  BY <1>1, <1>2, LettersAssumption DEF LettersInit, LettersTypeOK, FormRow
<1> QED
  BY <1>1, <1>3 DEF LettersInit, LettersInv, LetterNumbersDiffer

(* Steps that move no number. *)
LEMMA NumbersRest ==
  ASSUME LettersInv, surat' = surat, merek' = merek, turun' = turun,
         bayar' \in {"baru", "dp", "batal"}, unduh' \in [Pengunduh -> {TANPA} \cup Surat],
         atur' \in [Pengatur -> FormRow],
         \A p \in Pengatur : atur'[p].ada => atur'[p].nomor >= atur'[p].dari
  PROVE  LettersInv'
BY DEF LettersInv, LettersTypeOK, LetterNumbersDiffer, FormRow

LEMMA SimpanKeeps ==
  ASSUME LettersInv, NEW p \in Pengatur, SimpanPengaturan(p)
  PROVE  LettersInv'
<1>1. /\ surat \in [Surat -> 0..MaxNomor] /\ atur \in [Pengatur -> FormRow] /\ atur[p] \in FormRow
      /\ merek \in [nomor : 0..MaxNomor, lengkap : BOOLEAN] /\ turun \subseteq 1..MaxNomor
      /\ \A l \in Surat : surat[l] \in 0..merek.nomor \cup turun
      /\ atur[p].ada /\ atur[p].nomor >= atur[p].dari
  BY DEF LettersInv, LettersTypeOK, FormRow, SimpanPengaturan
<1>2. PICK n : n = atur[p].nomor
  OBVIOUS
<1>3. /\ n \in 0..MaxNomor /\ merek' \in [nomor : 0..MaxNomor, lengkap : BOOLEAN] /\ merek'.nomor = n
  BY <1>1, <1>2 DEF SimpanPengaturan, FormRow
<1>4. \A k : k \in turun' <=> k \in turun \/ (k \in {surat[l] : l \in Surat} /\ k > n)
  <2>1. atur[p].dari \in 0..MaxNomor /\ \A k \in {surat[l] : l \in Surat} : k \in 0..MaxNomor
    BY <1>1 DEF FormRow
  <2>2. \A k \in {surat[l] : l \in Surat} : (k > n /\ k > atur[p].dari) <=> (k > n)
    BY <1>1, <1>2, <1>3, <2>1, LettersAssumption
  <2>3. turun' = turun \cup {k \in {surat[l] : l \in Surat} : k > n /\ k > atur[p].dari}
    BY <1>2 DEF SimpanPengaturan
  <2> QED
    BY <2>2, <2>3
<1>5. turun' \subseteq 1..MaxNomor /\ turun \subseteq turun'
  <2>1. \A k \in {surat[l] : l \in Surat} : k > n => k \in 1..MaxNomor
    BY <1>1, <1>3, LettersAssumption
  <2>2. \A k : k \in turun => k \in 1..MaxNomor
    BY <1>1
  <2> QED
    BY <1>4, <2>1, <2>2
<1>6. \A l \in Surat : surat[l] \in 0..n \cup turun'
  BY <1>1, <1>3, <1>4, LettersAssumption
<1>7. NoForm \in FormRow /\ ~ NoForm.ada
  BY LettersAssumption DEF NoForm, FormRow
<1>8. /\ atur' \in [Pengatur -> FormRow]
      /\ \A q \in Pengatur : atur'[q].ada => atur'[q].nomor >= atur'[q].dari
  BY <1>1, <1>7 DEF SimpanPengaturan, LettersInv
<1>9. LettersTypeOK'
  BY <1>3, <1>5, <1>6, <1>8 DEF SimpanPengaturan, LettersInv, LettersTypeOK, FormRow
<1>10. LetterNumbersDiffer'
  BY <1>5 DEF SimpanPengaturan, LettersInv, LetterNumbersDiffer
<1> QED
  BY <1>8, <1>9, <1>10 DEF LettersInv

(* The next number is nobody's, unless the counter was taken back behind it. *)
LEMMA TerbitKeeps ==
  ASSUME LettersInv, NEW d \in Pengunduh, Terbit(d)
  PROVE  LettersInv'
<1>1. /\ surat \in [Surat -> 0..MaxNomor] /\ unduh \in [Pengunduh -> {TANPA} \cup Surat]
      /\ merek \in [nomor : 0..MaxNomor, lengkap : BOOLEAN] /\ turun \subseteq 1..MaxNomor
      /\ \A l \in Surat : surat[l] \in 0..merek.nomor \cup turun
      /\ turun' = turun /\ atur' = atur /\ bayar' = bayar
  BY DEF LettersInv, LettersTypeOK, Terbit
<1>2. unduh' \in [Pengunduh -> {TANPA} \cup Surat]
  BY <1>1 DEF Terbit
<1>3. PICK l : l = unduh[d]
  OBVIOUS
<1>4. l \in Surat
  BY <1>1, <1>3 DEF Terbit
<1>5. CASE surat[l] # 0
  <2>1. surat' = surat /\ merek' = merek
    BY <1>3, <1>5 DEF Terbit
  <2> QED
    BY <1>1, <1>2, <2>1, NumbersRest DEF LettersInv, LettersTypeOK, FormRow
<1>6. CASE surat[l] = 0
  <2>1. /\ surat' = [surat EXCEPT ![l] = merek.nomor + 1] /\ merek' = [merek EXCEPT !.nomor = merek.nomor + 1]
        /\ merek.nomor < MaxNomor
    BY <1>3, <1>6 DEF Terbit
  <2>2. PICK n : n = merek.nomor
    OBVIOUS
  <2>3. n \in Nat /\ n < MaxNomor /\ MaxNomor \in Nat
    BY <1>1, <2>1, <2>2, LettersAssumption
  <2>4. merek' \in [nomor : 0..MaxNomor, lengkap : BOOLEAN] /\ merek'.nomor = n + 1
    BY <1>1, <2>1, <2>2, <2>3
  <2>5. /\ surat' \in [Surat -> 0..MaxNomor] /\ surat'[l] = n + 1
        /\ \A m \in Surat \ {l} : surat'[m] = surat[m]
    <3>1. n + 1 \in 0..MaxNomor /\ surat' = [surat EXCEPT ![l] = n + 1]
      BY <2>1, <2>2, <2>3
    <3> QED
      BY <1>1, <1>4, <3>1
  <2>6. \A m \in Surat : surat'[m] \in 0..(n + 1) \cup turun
    BY <1>1, <2>2, <2>3, <2>5
  <2>7. LettersTypeOK'
    BY <1>1, <1>2, <2>4, <2>5, <2>6 DEF LettersInv, LettersTypeOK
  <2>8. \A m \in Surat : surat[m] = n + 1 => n + 1 \in turun
    BY <1>1, <2>2, <2>3
  <2>9. LetterNumbersDiffer'
    BY <1>1, <2>5, <2>8 DEF LettersInv, LetterNumbersDiffer
  <2> QED
    BY <1>1, <2>7, <2>9 DEF LettersInv
<1> QED
  BY <1>5, <1>6

LEMMA LettersNextKeeps ==
  ASSUME LettersInv, [LettersNext]_letterVars
  PROVE  LettersInv'
<1>0. /\ NoForm \in FormRow /\ ~ NoForm.ada
      /\ atur \in [Pengatur -> FormRow] /\ unduh \in [Pengunduh -> {TANPA} \cup Surat]
      /\ bayar \in {"baru", "dp", "batal"} /\ merek.nomor \in 0..MaxNomor
      /\ \A p \in Pengatur : atur[p].ada => atur[p].nomor >= atur[p].dari
  BY LettersAssumption DEF NoForm, FormRow, LettersInv, LettersTypeOK
<1>1. ASSUME NEW p \in Pengatur, SimpanPengaturan(p)
      PROVE  LettersInv'
  BY <1>1, SimpanKeeps
<1>2. ASSUME NEW p \in Pengatur, PutFails(p)
      PROVE  LettersInv'
  <2>1. /\ atur' \in [Pengatur -> FormRow]
        /\ \A q \in Pengatur : atur'[q].ada => atur'[q].nomor >= atur'[q].dari
    BY <1>0, <1>2 DEF PutFails
  <2> QED
    BY <1>0, <1>2, <2>1, NumbersRest DEF PutFails
<1>3. ASSUME NEW p \in Pengatur, NEW n \in 0..MaxNomor, NEW lengkap \in BOOLEAN, PutCheck(p, n, lengkap)
      PROVE  LettersInv'
  <2>1. PICK row : row = [nomor |-> n, dari |-> merek.nomor, lengkap |-> lengkap, ada |-> TRUE]
    OBVIOUS
  <2>2. row \in FormRow /\ row.nomor = n /\ row.dari = merek.nomor
    BY <1>0, <2>1 DEF FormRow
  <2>3. atur' = [atur EXCEPT ![p] = row] /\ n >= merek.nomor
    BY <1>3, <2>1 DEF PutCheck
  <2>4. /\ atur' \in [Pengatur -> FormRow]
        /\ \A q \in Pengatur : atur'[q].ada => atur'[q].nomor >= atur'[q].dari
    BY <1>0, <2>2, <2>3
  <2> QED
    BY <1>0, <1>3, <2>4, NumbersRest DEF PutCheck
<1>4. ASSUME NEW d \in Pengunduh, Terbit(d)
      PROVE  LettersInv'
  BY <1>4, TerbitKeeps
<1>5. ASSUME NEW d \in Pengunduh, UnduhFails(d) \/ \E l \in Surat : UnduhCheck(d, l)
      PROVE  LettersInv'
  <2>1. unduh' \in [Pengunduh -> {TANPA} \cup Surat]
    BY <1>0, <1>5 DEF UnduhFails, UnduhCheck
  <2> QED
    BY <1>0, <1>5, <2>1, NumbersRest DEF UnduhFails, UnduhCheck
<1>6. ASSUME NEW status \in {"baru", "dp", "batal"}, BayarMoves(status)
      PROVE  LettersInv'
  BY <1>0, <1>6, NumbersRest DEF BayarMoves
<1>7. CASE UNCHANGED letterVars
  BY <1>0, <1>7, NumbersRest DEF letterVars
<1> QED
  BY <1>1, <1>2, <1>3, <1>4, <1>5, <1>6, <1>7 DEF LettersNext

(* Two letters have the same number only if the brand's counter was taken    *)
(* back behind it (surat/handler.go Put, surat/repository.go Terbit).        *)
THEOREM LettersDiffer == LettersSpec => [](LettersTypeOK /\ LetterNumbersDiffer)
<1>1. LettersInit => LettersInv
  BY LettersBegin
<1>2. LettersInv /\ [LettersNext]_letterVars => LettersInv'
  BY LettersNextKeeps
<1>3. LettersInv => LettersTypeOK /\ LetterNumbersDiffer
  BY DEF LettersInv
<1> QED
  BY <1>1, <1>2, <1>3, PTL DEF LettersSpec

-----------------------------------------------------------------------------
(* PilgrimRecords: pilgrims, the bookings that find them, and their forms *)

DeskRow == [kerja : {"idle", "ubah", "isi", "pesan"}, j : Orang \cup {NIHIL},
            ke : Merek \cup {NIHIL}, dulu : Nat]

(* A NIK has one record per brand. *)
OneHolder ==
  \A j, k \in Rows :
    orang[j].brand = orang[k].brand /\ orang[j].nik = orang[k].nik /\ orang[j].nik # NIHIL => j = k

(* A request that has passed its checks: the record exists; a booking's is   *)
(* of the brand it was checked for, or was moved since; a form that saw      *)
(* bookings leaves the brand as it is, unless somebody else moved the record.*)
RequestFine(q) ==
  /\ q.kerja # "idle" => q.j \in Rows
  /\ q.kerja = "pesan" => q.ke \in Merek /\ (orang[q.j].brand = q.ke \/ orang[q.j].balap)
  /\ q.kerja = "ubah" => q.ke \in Merek
  /\ q.kerja = "ubah" /\ q.dulu > 0 =>
       PesananOf(q.j) # {} /\ (orang[q.j].brand = q.ke \/ orang[q.j].balap)

RecordsInv ==
  /\ orang \in [Orang -> JamaahRows \cup {NIHIL}]
  /\ pesan \in [Pesanan -> PaxRows \cup {NIHIL}]
  /\ meja \in [Meja -> DeskRow]
  /\ OneHolder
  /\ \A p \in Pesanan : pesan[p] # NIHIL => pesan[p].j \in Rows
  /\ BookedInTheirBrand
  /\ \A m \in Meja : RequestFine(meja[m])

(* A row of jamaah is one. *)
LEMMA RowsAreRecords ==
  ASSUME RecordsInv, NEW j \in Rows
  PROVE  j \in Orang /\ orang[j] \in JamaahRows
BY DEF RecordsInv, Rows

LEMMA RecordsInvSays ==
  ASSUME RecordsInv
  PROVE  RecordsInvariant
<1>1. ASSUME NEW j \in Rows
      PROVE  /\ orang[j].brand \in Merek /\ orang[j].nama \in Nama
             /\ orang[j].nik \in NIKs /\ orang[j].hp \in HPs
             /\ NIKFree(orang[j].brand, orang[j].nik, j)
  <2>1. orang[j] \in JamaahRows
    BY <1>1, RowsAreRecords
  <2>2. NIKFree(orang[j].brand, orang[j].nik, j)
    BY <1>1 DEF RecordsInv, OneHolder, NIKFree, In
  <2> QED
    BY <2>1, <2>2 DEF JamaahRows
<1>2. \A p \in Pesanan : pesan[p] # NIHIL => pesan[p].j \in Rows /\ pesan[p].brand \in Merek
  BY DEF RecordsInv, PaxRows
<1>3. \A m \in Meja : meja[m].kerja \in {"idle", "ubah", "isi", "pesan"}
  BY DEF RecordsInv, DeskRow
<1> QED
  BY <1>1, <1>2, <1>3 DEF RecordsInv, RecordsInvariant, RecordsTypeOK

LEMMA IdleIsFine == Idle \in DeskRow /\ RequestFine(Idle)
BY DEF Idle, DeskRow, RequestFine

LEMMA RecordsBegin ==
  ASSUME RecordsInit
  PROVE  RecordsInv
<1>1. Rows = {}
  BY DEF RecordsInit, Rows
<1> QED
  BY <1>1, IdleIsFine DEF RecordsInit, RecordsInv, OneHolder, BookedInTheirBrand

LEMMA BookingsCounted ==
  ASSUME NEW j
  PROVE  /\ Cardinality(PesananOf(j)) \in Nat
         /\ Cardinality(PesananOf(j)) > 0 <=> PesananOf(j) # {}
<1>1. IsFiniteSet(PesananOf(j))
  BY RecordsAssumption, FS_Subset DEF PesananOf
<1> QED
  BY <1>1, FS_CardinalityType, FS_EmptySet

(* Steps of requests alone: whatever passed its checks is fine. *)
LEMMA RequestMoves ==
  ASSUME RecordsInv, orang' = orang, pesan' = pesan, meja' \in [Meja -> DeskRow],
         \A m \in Meja : meja'[m] = meja[m] \/ RequestFine(meja[m])'
  PROVE  RecordsInv'
<1>1. Rows' = Rows
  BY DEF Rows
<1>2. ASSUME NEW m \in Meja
      PROVE  RequestFine(meja[m])'
  <2>1. CASE meja'[m] = meja[m]
    BY <1>1, <2>1 DEF RecordsInv, RequestFine, PesananOf
  <2> QED
    BY <2>1
<1>3. OneHolder' /\ BookedInTheirBrand'
  BY <1>1 DEF RecordsInv, OneHolder, BookedInTheirBrand
<1> QED
  BY <1>1, <1>2, <1>3 DEF RecordsInv

(* One request moves on. *)
LEMMA OneRequestMoves ==
  ASSUME RecordsInv, orang' = orang, pesan' = pesan, NEW m \in Meja, NEW q \in DeskRow,
         meja' = [meja EXCEPT ![m] = q], RequestFine(q)
  PROVE  RecordsInv'
<1>1. meja \in [Meja -> DeskRow]
  BY DEF RecordsInv
<1>2. meja' \in [Meja -> DeskRow] /\ meja'[m] = q /\ \A n \in Meja \ {m} : meja'[n] = meja[n]
  BY <1>1
<1>3. RequestFine(meja[m])'
  BY <1>2 DEF RequestFine, Rows, PesananOf
<1> QED
  BY <1>2, <1>3, RequestMoves

LEMMA RequestEnds ==
  ASSUME RecordsInv, orang' = orang, pesan' = pesan, NEW m \in Meja, meja' = [meja EXCEPT ![m] = Idle]
  PROVE  RecordsInv'
<1>1. PICK q : q = Idle
  OBVIOUS
<1> QED
  BY <1>1, IdleIsFine, OneRequestMoves

LEMMA UpdateCheckKeeps ==
  ASSUME RecordsInv, NEW m \in Meja, NEW j \in Orang, NEW ke \in Merek, UpdateCheck(m, j, ke)
  PROVE  RecordsInv'
<1>1. PICK q : q = [kerja |-> "ubah", j |-> j, ke |-> ke, dulu |-> Cardinality(PesananOf(j))]
  OBVIOUS
<1>2. q \in DeskRow /\ q.kerja = "ubah" /\ q.j = j /\ q.ke = ke /\ q.dulu = Cardinality(PesananOf(j))
  BY <1>1, BookingsCounted DEF DeskRow
<1>3. /\ meja' = [meja EXCEPT ![m] = q] /\ orang' = orang /\ pesan' = pesan /\ j \in Rows
      /\ ke # orang[j].brand => PesananOf(j) = {}
  BY <1>1 DEF UpdateCheck, CekPindahBrand
<1>4. RequestFine(q)
  BY <1>2, <1>3, BookingsCounted DEF RequestFine
<1> QED
  BY <1>2, <1>3, <1>4, OneRequestMoves

LEMMA OtherChecksKeep ==
  ASSUME RecordsInv, NEW m \in Meja,
         \/ \E p \in Pesanan : SimpanDataCheck(m, p)
         \/ \E j \in Orang, brand \in Merek : DeskCheck(m, j, brand)
  PROVE  RecordsInv'
<1>1. ASSUME NEW p \in Pesanan, SimpanDataCheck(m, p)
      PROVE  RecordsInv'
  <2>1. PICK q : q = [Idle EXCEPT !.kerja = "isi", !.j = pesan[p].j]
    OBVIOUS
  <2>2. pesan[p].j \in Rows /\ pesan[p].j \in Orang
    BY <1>1, RowsAreRecords DEF RecordsInv, SimpanDataCheck
  <2>3. q \in DeskRow /\ q.kerja = "isi" /\ q.j = pesan[p].j
    BY <2>1, <2>2 DEF Idle, DeskRow
  <2>4. RequestFine(q)
    BY <2>2, <2>3 DEF RequestFine
  <2>5. meja' = [meja EXCEPT ![m] = q] /\ orang' = orang /\ pesan' = pesan
    BY <1>1, <2>1 DEF SimpanDataCheck
  <2> QED
    BY <2>3, <2>4, <2>5, OneRequestMoves
<1>2. ASSUME NEW j \in Orang, NEW brand \in Merek, DeskCheck(m, j, brand)
      PROVE  RecordsInv'
  <2>1. PICK q : q = [Idle EXCEPT !.kerja = "pesan", !.j = j, !.ke = brand]
    OBVIOUS
  <2>2. q \in DeskRow /\ q.kerja = "pesan" /\ q.j = j /\ q.ke = brand
    BY <2>1 DEF Idle, DeskRow
  <2>3. RequestFine(q)
    BY <1>2, <2>2 DEF RequestFine, DeskCheck, JamaahExistsForBrand, In
  <2>4. meja' = [meja EXCEPT ![m] = q] /\ orang' = orang /\ pesan' = pesan
    BY <1>2, <2>1 DEF DeskCheck
  <2> QED
    BY <2>2, <2>3, <2>4, OneRequestMoves
<1> QED
  BY <1>1, <1>2

-----------------------------------------------------------------------------
(* A record that is made or changed *)

(* A record's row is replaced, or made: nobody else holds its NIK, and it is *)
(* moved from its brand only marked, or unbooked and not looked at.          *)
RecordWritten(j, row) ==
  /\ orang' = [orang EXCEPT ![j] = row]
  /\ \A k \in Rows \ {j} : orang[k].brand = row.brand => row.nik = NIHIL \/ orang[k].nik # row.nik
  /\ j \in Rows => \/ row.balap
                   \/ /\ row.brand = orang[j].brand
                      /\ ~ orang[j].balap
                   \/ /\ PesananOf(j) = {} /\ ~ LookedAt(j)

LEMMA RecordWrittenKeeps ==
  ASSUME RecordsInv, NEW j \in Orang, NEW row \in JamaahRows, RecordWritten(j, row)
  PROVE  /\ orang' \in [Orang -> JamaahRows \cup {NIHIL}]
         /\ Rows' = Rows \cup {j} /\ orang'[j] = row
         /\ \A k \in Orang \ {j} : orang'[k] = orang[k]
         /\ OneHolder'
         /\ \A p \in Pesanan : pesan[p] # NIHIL =>
              \/ orang'[pesan[p].j].brand = pesan[p].brand
              \/ orang'[pesan[p].j].balap
         /\ \A m \in Meja : /\ meja[m].kerja # "idle" => meja[m].j \in Rows'
                            /\ meja[m].kerja \in {"pesan", "ubah"} => meja[m].ke \in Merek
                            /\ meja[m].kerja = "pesan" \/ (meja[m].kerja = "ubah" /\ meja[m].dulu > 0) =>
                                 \/ orang'[meja[m].j].brand = meja[m].ke
                                 \/ orang'[meja[m].j].balap
<1>1. orang \in [Orang -> JamaahRows \cup {NIHIL}]
  BY DEF RecordsInv
<1>2. /\ orang' \in [Orang -> JamaahRows \cup {NIHIL}] /\ orang'[j] = row
      /\ \A k \in Orang \ {j} : orang'[k] = orang[k]
  BY <1>1 DEF RecordWritten
<1>3. row # NIHIL
  BY RowsAssumption
<1>4. Rows' = Rows \cup {j}
  BY <1>2, <1>3 DEF Rows
<1>5. OneHolder'
  <2>1. ASSUME NEW k \in Rows', NEW l \in Rows',
               orang'[k].brand = orang'[l].brand, orang'[k].nik = orang'[l].nik, orang'[k].nik # NIHIL
        PROVE  k = l
    <3>1. CASE k = j
      BY <1>2, <1>4, <2>1, <3>1 DEF RecordWritten, Rows
    <3>2. CASE l = j
      BY <1>2, <1>4, <2>1, <3>2 DEF RecordWritten, Rows
    <3>3. CASE k # j /\ l # j
      BY <1>2, <1>4, <2>1, <3>3 DEF RecordsInv, OneHolder, Rows
    <3> QED
      BY <3>1, <3>2, <3>3
  <2> QED
    BY <2>1 DEF OneHolder
<1>6. ASSUME NEW p \in Pesanan, pesan[p] # NIHIL
      PROVE  \/ orang'[pesan[p].j].brand = pesan[p].brand
             \/ orang'[pesan[p].j].balap
  <2>1. /\ pesan[p].j \in Rows /\ pesan[p].j \in Orang
        /\ (orang[pesan[p].j].brand = pesan[p].brand \/ orang[pesan[p].j].balap)
    BY <1>6, RowsAreRecords DEF RecordsInv, BookedInTheirBrand
  <2>2. CASE pesan[p].j # j
    BY <1>2, <2>1, <2>2
  <2>3. CASE pesan[p].j = j
    <3>1. p \in PesananOf(j)
      BY <1>6, <2>3 DEF PesananOf
    <3> QED
      BY <1>2, <2>1, <2>3, <3>1 DEF RecordWritten
  <2> QED
    BY <2>2, <2>3
<1>7. ASSUME NEW m \in Meja
      PROVE  /\ meja[m].kerja # "idle" => meja[m].j \in Rows'
             /\ meja[m].kerja \in {"pesan", "ubah"} => meja[m].ke \in Merek
             /\ meja[m].kerja = "pesan" \/ (meja[m].kerja = "ubah" /\ meja[m].dulu > 0) =>
                  \/ orang'[meja[m].j].brand = meja[m].ke
                  \/ orang'[meja[m].j].balap
  <2>1. RequestFine(meja[m])
    BY DEF RecordsInv
  <2>2. /\ meja[m].kerja # "idle" => meja[m].j \in Rows'
        /\ meja[m].kerja \in {"pesan", "ubah"} => meja[m].ke \in Merek
    BY <1>4, <2>1 DEF RequestFine
  <2>3. ASSUME meja[m].kerja = "pesan" \/ (meja[m].kerja = "ubah" /\ meja[m].dulu > 0)
        PROVE  orang'[meja[m].j].brand = meja[m].ke \/ orang'[meja[m].j].balap
    <3>1. /\ meja[m].j \in Rows /\ meja[m].j \in Orang
          /\ (orang[meja[m].j].brand = meja[m].ke \/ orang[meja[m].j].balap)
      BY <2>1, <2>3, RowsAreRecords DEF RequestFine
    <3>2. CASE meja[m].j # j
      BY <1>2, <3>1, <3>2
    <3>3. CASE meja[m].j = j
      <4>1. LookedAt(j) \/ PesananOf(j) # {}
        BY <2>1, <2>3, <3>3 DEF RequestFine, LookedAt
      <4> QED
        BY <1>2, <3>1, <3>3, <4>1 DEF RecordWritten
    <3> QED
      BY <3>2, <3>3
  <2> QED
    BY <2>2, <2>3
<1> QED
  BY <1>2, <1>4, <1>5, <1>6, <1>7

(* Such a step keeps everything, if the requests go on or end, and bookings  *)
(* stay or one is added for a record of its brand.                           *)
LEMMA RecordStepKeeps ==
  ASSUME RecordsInv, NEW j \in Orang, NEW row \in JamaahRows, RecordWritten(j, row),
         \A m \in Meja : meja'[m] \in {meja[m], Idle}, meja' \in [Meja -> DeskRow],
         pesan' \in [Pesanan -> PaxRows \cup {NIHIL}],
         \A p \in Pesanan : \/ pesan'[p] = pesan[p]
                            \/ /\ pesan[p] = NIHIL /\ pesan'[p].j = j /\ pesan'[p].brand = row.brand
  PROVE  RecordsInv'
<1>1. /\ orang' \in [Orang -> JamaahRows \cup {NIHIL}]
      /\ Rows' = Rows \cup {j} /\ orang'[j] = row
      /\ OneHolder'
      /\ \A p \in Pesanan : pesan[p] # NIHIL =>
           \/ orang'[pesan[p].j].brand = pesan[p].brand
           \/ orang'[pesan[p].j].balap
      /\ \A m \in Meja : /\ meja[m].kerja # "idle" => meja[m].j \in Rows'
                         /\ meja[m].kerja \in {"pesan", "ubah"} => meja[m].ke \in Merek
                         /\ meja[m].kerja = "pesan" \/ (meja[m].kerja = "ubah" /\ meja[m].dulu > 0) =>
                              \/ orang'[meja[m].j].brand = meja[m].ke
                              \/ orang'[meja[m].j].balap
  BY RecordWrittenKeeps
<1>2. \A p \in Pesanan : pesan'[p] # NIHIL => pesan'[p].j \in Rows'
  BY <1>1 DEF RecordsInv
<1>3. BookedInTheirBrand'
  BY <1>1 DEF BookedInTheirBrand
<1>4. \A k : PesananOf(k) \subseteq PesananOf(k)'
  <2>1. ASSUME NEW k, NEW p \in Pesanan, pesan[p] # NIHIL, pesan[p].j = k
        PROVE  pesan'[p] # NIHIL /\ pesan'[p].j = k
    BY <2>1
  <2> QED
    BY <2>1 DEF PesananOf
<1>5. ASSUME NEW m \in Meja
      PROVE  RequestFine(meja[m])'
  <2>1. CASE meja'[m] = Idle
    BY <2>1 DEF RequestFine, Idle
  <2>2. CASE meja'[m] = meja[m]
    <3>1. RequestFine(meja[m])
      BY DEF RecordsInv
    <3> QED
      BY <1>1, <1>4, <2>2, <3>1 DEF RequestFine
  <2> QED
    BY <2>1, <2>2
<1> QED
  BY <1>1, <1>2, <1>3, <1>5 DEF RecordsInv

-----------------------------------------------------------------------------
(* The actions that write a record *)

LEMMA NewRecord ==
  ASSUME NEW brand \in Merek, NEW nama \in Nama, NEW nik \in NIKs, NEW hp \in HPs
  PROVE  /\ Record(brand, nama, nik, hp) \in JamaahRows
         /\ Record(brand, nama, nik, hp).brand = brand
         /\ Record(brand, nama, nik, hp).nama = nama
         /\ Record(brand, nama, nik, hp).nik = nik
         /\ ~ Record(brand, nama, nik, hp).balap
BY DEF Record, JamaahRows

(* A booking adds a row for the pilgrim it found or made. *)
LEMMA BookedRow ==
  ASSUME RecordsInv, NEW p \in Pesanan, NEW j \in Orang, NEW brand \in Merek,
         NEW nama \in Nama \cup {NIHIL}, NEW nik \in NIKs, Booked(p, j, brand, nama, nik)
  PROVE  /\ pesan' \in [Pesanan -> PaxRows \cup {NIHIL}]
         /\ pesan[p] = NIHIL /\ pesan'[p] # NIHIL /\ pesan'[p].j = j /\ pesan'[p].brand = brand
         /\ pesan'[p].nama = nama /\ pesan'[p].nik = nik
         /\ \A o \in Pesanan \ {p} : pesan'[o] = pesan[o]
<1>1. PICK row : row = [j |-> j, brand |-> brand, nama |-> nama, nik |-> nik]
  OBVIOUS
<1>2. row \in PaxRows /\ row.j = j /\ row.brand = brand /\ row.nama = nama /\ row.nik = nik
  BY <1>1 DEF PaxRows
<1>3. pesan' = [pesan EXCEPT ![p] = row] /\ pesan[p] = NIHIL /\ pesan \in [Pesanan -> PaxRows \cup {NIHIL}]
  BY <1>1 DEF Booked, RecordsInv
<1>4. row # NIHIL
  BY <1>2, RowsAssumption
<1> QED
  BY <1>2, <1>3, <1>4

(* A new record, with or without a booking. *)
LEMMA NewRecordKeeps ==
  ASSUME RecordsInv, NEW j \in Orang, NEW brand \in Merek, NEW nama \in Nama, NEW nik \in NIKs,
         NEW hp \in HPs, orang[j] = NIHIL, orang' = [orang EXCEPT ![j] = Record(brand, nama, nik, hp)],
         NIKFree(brand, nik, j), meja' = meja, pesan' \in [Pesanan -> PaxRows \cup {NIHIL}],
         \A p \in Pesanan : \/ pesan'[p] = pesan[p]
                            \/ /\ pesan[p] = NIHIL /\ pesan'[p].j = j /\ pesan'[p].brand = brand
  PROVE  RecordsInv'
<1>1. PICK row : row = Record(brand, nama, nik, hp)
  OBVIOUS
<1>2. row \in JamaahRows /\ row.brand = brand /\ row.nik = nik
  BY <1>1, NewRecord
<1>3. j \notin Rows
  BY DEF Rows
<1>4. RecordWritten(j, row)
  BY <1>1, <1>2, <1>3 DEF RecordWritten, NIKFree, In
<1>5. meja' \in [Meja -> DeskRow]
  BY DEF RecordsInv
<1> QED
  BY <1>2, <1>4, <1>5, RecordStepKeeps

LEMMA CreateKeeps ==
  ASSUME RecordsInv, NEW j \in Orang, NEW brand \in Merek, NEW nama \in Nama, NEW nik \in NIKs,
         NEW hp \in HPs, CreateJamaah(j, brand, nama, nik, hp)
  PROVE  RecordsInv'
<1>1. pesan' = pesan /\ pesan \in [Pesanan -> PaxRows \cup {NIHIL}]
  BY DEF CreateJamaah, RecordsInv
<1> QED
  BY <1>1, NewRecordKeeps DEF CreateJamaah

LEMMA WebBooksNewKeeps ==
  ASSUME RecordsInv, NEW p \in Pesanan, NEW j \in Orang, NEW brand \in Merek, NEW nama \in Nama,
         NEW nik \in NIKs, NEW hp \in HPs, WebBooksNew(p, j, brand, nama, nik, hp)
  PROVE  RecordsInv'
<1>1. /\ pesan' \in [Pesanan -> PaxRows \cup {NIHIL}]
      /\ pesan[p] = NIHIL /\ pesan'[p].j = j /\ pesan'[p].brand = brand
      /\ \A o \in Pesanan \ {p} : pesan'[o] = pesan[o]
  BY BookedRow DEF WebBooksNew
<1>2. NIKFree(brand, nik, j)
  BY DEF WebBooksNew, Holder, NIKFree
<1>3. /\ orang[j] = NIHIL /\ orang' = [orang EXCEPT ![j] = Record(brand, nama, nik, hp)] /\ meja' = meja
  BY DEF WebBooksNew
<1>4. \A o \in Pesanan : \/ pesan'[o] = pesan[o]
                        \/ /\ pesan[o] = NIHIL /\ pesan'[o].j = j /\ pesan'[o].brand = brand
  BY <1>1
<1> QED
  BY <1>1, <1>2, <1>3, <1>4, NewRecordKeeps

LEMMA CrmBooksNewKeeps ==
  ASSUME RecordsInv, NEW p \in Pesanan, NEW j \in Orang, NEW brand \in Merek, NEW nama \in Nama,
         NEW hp \in HPs, CrmBooksNew(p, j, brand, nama, hp)
  PROVE  RecordsInv'
<1>0. NIHIL \in NIKs
  BY DEF NIKs
<1>1. /\ pesan' \in [Pesanan -> PaxRows \cup {NIHIL}]
      /\ pesan[p] = NIHIL /\ pesan'[p].j = j /\ pesan'[p].brand = brand
      /\ \A o \in Pesanan \ {p} : pesan'[o] = pesan[o]
  BY <1>0, BookedRow DEF CrmBooksNew
<1>2. NIKFree(brand, NIHIL, j)
  BY DEF NIKFree
<1>3. /\ orang[j] = NIHIL /\ orang' = [orang EXCEPT ![j] = Record(brand, nama, NIHIL, hp)] /\ meja' = meja
  BY DEF CrmBooksNew
<1>4. \A o \in Pesanan : \/ pesan'[o] = pesan[o]
                        \/ /\ pesan[o] = NIHIL /\ pesan'[o].j = j /\ pesan'[o].brand = brand
  BY <1>1
<1> QED
  BY <1>0, <1>1, <1>2, <1>3, <1>4, NewRecordKeeps

(* The record found is used as it is, but for a NIK it did not have.         *)
LEMMA WebBooksKeeps ==
  ASSUME RecordsInv, NEW p \in Pesanan, NEW j \in Orang, NEW brand \in Merek, NEW nama \in Nama,
         NEW nik \in NIKs, WebBooks(p, j, brand, nama, nik)
  PROVE  RecordsInv'
<1>1. /\ pesan' \in [Pesanan -> PaxRows \cup {NIHIL}]
      /\ pesan[p] = NIHIL /\ pesan'[p].j = j /\ pesan'[p].brand = brand
      /\ \A o \in Pesanan \ {p} : pesan'[o] = pesan[o]
  BY BookedRow DEF WebBooks
<1>2. j \in Rows /\ orang[j].brand = brand /\ Holder(brand, nik) \subseteq {j} /\ orang[j] \in JamaahRows
  BY RowsAreRecords DEF WebBooks, Found, In
<1>3. PICK n : n = IF orang[j].nik = NIHIL THEN nik ELSE orang[j].nik
  OBVIOUS
<1>4. PICK row : row = [orang[j] EXCEPT !.nik = n]
  OBVIOUS
<1>5. /\ row \in JamaahRows /\ row.brand = brand /\ row.nik = n
      /\ row.balap = orang[j].balap
  BY <1>2, <1>3, <1>4 DEF JamaahRows
<1>6. orang' = [orang EXCEPT ![j] = row]
  BY <1>3, <1>4 DEF WebBooks
<1>7. \A k \in Rows \ {j} : orang[k].brand = row.brand => row.nik = NIHIL \/ orang[k].nik # row.nik
  <2>1. CASE orang[j].nik = NIHIL
    BY <1>2, <1>3, <1>5, <2>1 DEF Holder, In
  <2>2. CASE orang[j].nik # NIHIL
    BY <1>2, <1>3, <1>5, <2>2 DEF RecordsInv, OneHolder
  <2> QED
    BY <2>1, <2>2
<1>8. RecordWritten(j, row)
  BY <1>2, <1>5, <1>6, <1>7 DEF RecordWritten
<1>9. meja' = meja /\ meja' \in [Meja -> DeskRow]
  BY DEF WebBooks, RecordsInv
<1> QED
  BY <1>1, <1>5, <1>8, <1>9, RecordStepKeeps

(* The customer's form. *)
LEMMA SimpanDataKeeps ==
  ASSUME RecordsInv, NEW m \in Meja, NEW hp \in HPs, SimpanDataJamaah(m, hp)
  PROVE  RecordsInv'
<1>1. PICK j : j = meja[m].j
  OBVIOUS
<1>2. j \in Rows /\ j \in Orang /\ orang[j] \in JamaahRows
  BY <1>1, RowsAreRecords DEF RecordsInv, RequestFine, SimpanDataJamaah
<1>3. PICK row : row = [orang[j] EXCEPT !.hp = hp]
  OBVIOUS
<1>4. /\ row \in JamaahRows /\ row.brand = orang[j].brand /\ row.nik = orang[j].nik
      /\ row.balap = orang[j].balap
  BY <1>2, <1>3 DEF JamaahRows
<1>5. orang' = [orang EXCEPT ![j] = row]
  BY <1>1, <1>3 DEF SimpanDataJamaah
<1>6. \A k \in Rows \ {j} : orang[k].brand = row.brand => row.nik = NIHIL \/ orang[k].nik # row.nik
  BY <1>2, <1>4 DEF RecordsInv, OneHolder
<1>7. RecordWritten(j, row)
  BY <1>2, <1>4, <1>5, <1>6 DEF RecordWritten
<1>8. /\ meja' \in [Meja -> DeskRow] /\ \A n \in Meja : meja'[n] \in {meja[n], Idle}
      /\ pesan' = pesan /\ pesan' \in [Pesanan -> PaxRows \cup {NIHIL}]
  BY IdleIsFine DEF SimpanDataJamaah, RecordsInv
<1> QED
  BY <1>2, <1>4, <1>7, <1>8, RecordStepKeeps

(* The admin's form: it moves a booked pilgrim, or one that was just looked  *)
(* at, only marked.                                                          *)
LEMMA UpdateEndKeeps ==
  ASSUME RecordsInv, NEW m \in Meja, NEW nama \in Nama, NEW nik \in NIKs, NEW hp \in HPs,
         UpdateEnd(m, nama, nik, hp)
  PROVE  RecordsInv'
<1>1. PICK j, ke, dulu : j = meja[m].j /\ ke = meja[m].ke /\ dulu = meja[m].dulu
  OBVIOUS
<1>2. /\ RequestFine(meja[m]) /\ meja[m].kerja = "ubah" /\ dulu \in Nat
  BY <1>1 DEF RecordsInv, UpdateEnd, DeskRow
<1>3. /\ j \in Rows /\ j \in Orang /\ orang[j] \in JamaahRows /\ ke \in Merek
      /\ dulu > 0 => PesananOf(j) # {} /\ (orang[j].brand = ke \/ orang[j].balap)
  BY <1>1, <1>2, RowsAreRecords DEF RequestFine
<1>4. PICK mark : mark = (orang[j].balap \/ (ke # orang[j].brand /\
                            (LookedAt(j) \/ Cardinality(PesananOf(j)) > dulu)))
  OBVIOUS
<1>5. mark \in BOOLEAN
  BY <1>3, <1>4 DEF JamaahRows
<1>6. PICK row : row = [Record(ke, nama, nik, hp) EXCEPT !.balap = mark]
  OBVIOUS
<1>7. row \in JamaahRows /\ row.brand = ke /\ row.nik = nik /\ row.balap = mark
  BY <1>3, <1>5, <1>6 DEF Record, JamaahRows
<1>8. orang' = [orang EXCEPT ![j] = row] /\ NIKFree(ke, nik, j)
  BY <1>1, <1>4, <1>6 DEF UpdateEnd
<1>9. row.balap \/ (row.brand = orang[j].brand /\ ~ orang[j].balap) \/ (PesananOf(j) = {} /\ ~ LookedAt(j))
  <2>1. CASE orang[j].balap
    BY <1>4, <1>7, <2>1
  <2>2. CASE ~ orang[j].balap /\ ke = orang[j].brand
    BY <1>7, <2>2
  <2>3. CASE ~ orang[j].balap /\ ke # orang[j].brand
    <3>1. dulu = 0
      BY <1>2, <1>3, <2>3
    <3>2. PesananOf(j) # {} => Cardinality(PesananOf(j)) > dulu
      BY <3>1, BookingsCounted
    <3> QED
      BY <1>4, <1>7, <2>3, <3>2
  <2> QED
    BY <2>1, <2>2, <2>3
<1>10. RecordWritten(j, row)
  BY <1>3, <1>7, <1>8, <1>9 DEF RecordWritten, NIKFree, In
<1>11. /\ meja' \in [Meja -> DeskRow] /\ \A n \in Meja : meja'[n] \in {meja[n], Idle}
       /\ pesan' = pesan /\ pesan' \in [Pesanan -> PaxRows \cup {NIHIL}]
  BY IdleIsFine DEF UpdateEnd, RecordsInv
<1> QED
  BY <1>3, <1>7, <1>10, <1>11, RecordStepKeeps

(* A record without bookings goes, and with it whatever has looked at it. *)
LEMMA DeleteKeeps ==
  ASSUME RecordsInv, NEW j \in Orang, DeleteJamaah(j)
  PROVE  RecordsInv'
<1>1. /\ orang' = [orang EXCEPT ![j] = NIHIL] /\ pesan' = pesan /\ PesananOf(j) = {}
      /\ meja' = [m \in Meja |-> IF meja[m].j = j THEN Idle ELSE meja[m]]
      /\ orang \in [Orang -> JamaahRows \cup {NIHIL}] /\ meja \in [Meja -> DeskRow]
  BY DEF DeleteJamaah, RecordsInv
<1>2. /\ orang' \in [Orang -> JamaahRows \cup {NIHIL}] /\ orang'[j] = NIHIL
      /\ \A k \in Orang \ {j} : orang'[k] = orang[k]
  BY <1>1
<1>3. Rows' = Rows \ {j}
  BY <1>2 DEF Rows
<1>4. OneHolder'
  BY <1>2, <1>3 DEF OneHolder, RecordsInv, Rows
<1>5. \A p \in Pesanan : pesan[p] # NIHIL => pesan[p].j \in Rows /\ pesan[p].j \in Orang /\ pesan[p].j # j
  BY <1>1, RowsAreRecords DEF PesananOf, RecordsInv
<1>6. /\ \A p \in Pesanan : pesan'[p] # NIHIL => pesan'[p].j \in Rows'
      /\ BookedInTheirBrand'
  BY <1>1, <1>2, <1>3, <1>5 DEF BookedInTheirBrand, RecordsInv
<1>7. meja' \in [Meja -> DeskRow]
  BY <1>1, IdleIsFine
<1>8. ASSUME NEW m \in Meja
      PROVE  RequestFine(meja[m])'
  <2>1. CASE meja[m].j = j
    <3>1. meja'[m] = Idle
      BY <1>1, <2>1
    <3> QED
      BY <3>1 DEF RequestFine, Idle
  <2>2. CASE meja[m].j # j
    <3>1. meja'[m] = meja[m] /\ RequestFine(meja[m])
      BY <1>1, <2>2 DEF RecordsInv
    <3>2. meja[m].kerja # "idle" => meja[m].j \in Rows' /\ orang'[meja[m].j] = orang[meja[m].j]
      BY <1>2, <1>3, <2>2, <3>1, RowsAreRecords DEF RequestFine
    <3>3. \A k : PesananOf(k)' = PesananOf(k)
      BY <1>1 DEF PesananOf
    <3> QED
      BY <3>1, <3>2, <3>3 DEF RequestFine
  <2> QED
    BY <2>1, <2>2
<1> QED
  BY <1>1, <1>2, <1>4, <1>6, <1>7, <1>8 DEF RecordsInv

-----------------------------------------------------------------------------
(* The actions that only book *)

LEMMA OnlyBookingKeeps ==
  ASSUME RecordsInv, NEW p \in Pesanan, NEW j \in Rows, NEW brand \in Merek,
         NEW nama \in Nama \cup {NIHIL}, NEW nik \in NIKs, Booked(p, j, brand, nama, nik),
         orang[j].brand = brand \/ orang[j].balap, orang' = orang,
         meja' \in [Meja -> DeskRow], \A m \in Meja : meja'[m] \in {meja[m], Idle}
  PROVE  RecordsInv'
<1>1. j \in Orang
  BY RowsAreRecords
<1>2. /\ pesan' \in [Pesanan -> PaxRows \cup {NIHIL}]
      /\ pesan[p] = NIHIL /\ pesan'[p].j = j /\ pesan'[p].brand = brand
      /\ \A o \in Pesanan \ {p} : pesan'[o] = pesan[o]
  BY <1>1, BookedRow
<1>3. Rows' = Rows /\ OneHolder'
  BY DEF Rows, OneHolder, RecordsInv
<1>4. /\ \A o \in Pesanan : pesan'[o] # NIHIL => pesan'[o].j \in Rows'
      /\ BookedInTheirBrand'
  BY <1>2, <1>3 DEF BookedInTheirBrand, RecordsInv
<1>5. \A k : PesananOf(k) \subseteq PesananOf(k)'
  BY <1>2 DEF PesananOf
<1>6. ASSUME NEW m \in Meja
      PROVE  RequestFine(meja[m])'
  <2>1. CASE meja'[m] = Idle
    BY <2>1 DEF RequestFine, Idle
  <2>2. CASE meja'[m] = meja[m]
    <3>1. RequestFine(meja[m])
      BY DEF RecordsInv
    <3> QED
      BY <1>3, <1>5, <2>2, <3>1 DEF RequestFine
  <2> QED
    BY <2>1, <2>2
<1> QED
  BY <1>2, <1>3, <1>4, <1>6 DEF RecordsInv

LEMMA DeskBooksKeeps ==
  ASSUME RecordsInv, NEW m \in Meja, NEW p \in Pesanan, DeskBooks(m, p)
  PROVE  RecordsInv'
<1>1. PICK j, ke : j = meja[m].j /\ ke = meja[m].ke
  OBVIOUS
<1>2. j \in Rows /\ ke \in Merek /\ (orang[j].brand = ke \/ orang[j].balap)
  BY <1>1 DEF RecordsInv, RequestFine, DeskBooks
<1>3. /\ meja' \in [Meja -> DeskRow] /\ \A n \in Meja : meja'[n] \in {meja[n], Idle}
      /\ Booked(p, j, ke, NIHIL, NIHIL) /\ orang' = orang /\ NIHIL \in NIKs
  BY <1>1, IdleIsFine DEF DeskBooks, RecordsInv, NIKs
<1> QED
  BY <1>2, <1>3, OnlyBookingKeeps

LEMMA AgentBooksKeeps ==
  ASSUME RecordsInv, NEW p \in Pesanan, NEW j \in Orang, NEW brand \in Merek, NEW nama \in Nama,
         NEW nik \in NIKs, AgentBooks(p, j, brand, nama, nik)
  PROVE  RecordsInv'
<1>1. PICK n : n = orang[j].nik
  OBVIOUS
<1>2. /\ j \in Rows /\ orang[j].brand = brand /\ n \in NIKs /\ Booked(p, j, brand, nama, n)
      /\ orang' = orang /\ meja' = meja /\ meja \in [Meja -> DeskRow]
  BY <1>1 DEF AgentBooks, In, NIKs, RecordsInv
<1> QED
  BY <1>2, OnlyBookingKeeps

LEMMA CrmBooksKeeps ==
  ASSUME RecordsInv, NEW p \in Pesanan, NEW j \in Orang, NEW brand \in Merek, NEW hp \in HPs,
         CrmBooks(p, j, brand, hp)
  PROVE  RecordsInv'
<1>1. j \in Rows /\ orang[j].brand = brand
  BY DEF CrmBooks, Phone, In
<1>2. /\ NIHIL \in NIKs /\ Booked(p, j, brand, NIHIL, NIHIL)
      /\ orang' = orang /\ meja' = meja /\ meja \in [Meja -> DeskRow]
  BY DEF CrmBooks, NIKs, RecordsInv
<1> QED
  BY <1>1, <1>2, OnlyBookingKeeps

LEMMA RecordsNextKeeps ==
  ASSUME RecordsInv, [RecordsNext]_recordVars
  PROVE  RecordsInv'
<1>1. ASSUME NEW j \in Orang, NEW brand \in Merek, NEW nama \in Nama, NEW nik \in NIKs, NEW hp \in HPs,
             \/ CreateJamaah(j, brand, nama, nik, hp)
             \/ \E p \in Pesanan : WebBooksNew(p, j, brand, nama, nik, hp)
      PROVE  RecordsInv'
  BY <1>1, CreateKeeps, WebBooksNewKeeps
<1>2. ASSUME NEW j \in Orang, DeleteJamaah(j)
      PROVE  RecordsInv'
  BY <1>2, DeleteKeeps
<1>3. ASSUME NEW m \in Meja, RequestFails(m)
      PROVE  RecordsInv'
  BY <1>3, RequestEnds DEF RequestFails
<1>4. ASSUME NEW m \in Meja, NEW j \in Orang, NEW brand \in Merek,
             UpdateCheck(m, j, brand) \/ DeskCheck(m, j, brand)
      PROVE  RecordsInv'
  BY <1>4, UpdateCheckKeeps, OtherChecksKeep
<1>5. ASSUME NEW m \in Meja, NEW nama \in Nama, NEW nik \in NIKs, NEW hp \in HPs,
             UpdateEnd(m, nama, nik, hp)
      PROVE  RecordsInv'
  BY <1>5, UpdateEndKeeps
<1>6. ASSUME NEW m \in Meja, NEW p \in Pesanan, SimpanDataCheck(m, p) \/ DeskBooks(m, p)
      PROVE  RecordsInv'
  BY <1>6, OtherChecksKeep, DeskBooksKeeps
<1>7. ASSUME NEW m \in Meja, NEW hp \in HPs, SimpanDataJamaah(m, hp)
      PROVE  RecordsInv'
  BY <1>7, SimpanDataKeeps
<1>8. ASSUME NEW p \in Pesanan, NEW j \in Orang, NEW brand \in Merek,
             \/ \E nama \in Nama, nik \in NIKs : WebBooks(p, j, brand, nama, nik) \/ AgentBooks(p, j, brand, nama, nik)
             \/ \E hp \in HPs : \/ CrmBooks(p, j, brand, hp)
                                \/ \E nama \in Nama : CrmBooksNew(p, j, brand, nama, hp)
      PROVE  RecordsInv'
  BY <1>8, WebBooksKeeps, AgentBooksKeeps, CrmBooksKeeps, CrmBooksNewKeeps
<1>9. CASE UNCHANGED recordVars
  BY <1>9, RequestMoves DEF recordVars, RecordsInv
<1> QED
  BY <1>1, <1>2, <1>3, <1>4, <1>5, <1>6, <1>7, <1>8, <1>9 DEF RecordsNext

(* One holder per NIK and brand, a record for every booking, and bookings in *)
(* the brand of their pilgrims, however forms and bookings overlap           *)
(* (jamaah/repository.go Update, booking/repository.go).                     *)
THEOREM RecordsStayInOrder == RecordsSpec => [](RecordsInv /\ RecordsInvariant)
<1>1. RecordsInit => RecordsInv
  BY RecordsBegin
<1>2. RecordsInv /\ [RecordsNext]_recordVars => RecordsInv'
  BY RecordsNextKeeps
<1>3. RecordsInv => RecordsInvariant
  BY RecordsInvSays
<1> QED
  BY <1>1, <1>2, <1>3, PTL DEF RecordsSpec

-----------------------------------------------------------------------------
(* Who is booked *)

(* What NamesAreBooked says of a booking. *)
NameIsBooked(p) ==
  pesan[p] = NIHIL /\ pesan'[p] # NIHIL /\ pesan'[p].nama # NIHIL =>
    LET j == pesan'[p].j
    IN /\ orang'[j].nama = pesan'[p].nama
       /\ Holder(pesan'[p].brand, pesan'[p].nik) \subseteq {j}

(* A booking that is made finds the name and the only holder of the NIK. *)
LEMMA FindersBookNames ==
  ASSUME RecordsInv, NEW p \in Pesanan, NEW q \in Pesanan, NEW j \in Orang, NEW brand \in Merek,
         NEW nama \in Nama \cup {NIHIL}, NEW nik \in NIKs, Booked(q, j, brand, nama, nik),
         nama # NIHIL => orang'[j].nama = nama /\ Holder(brand, nik) \subseteq {j}
  PROVE  NameIsBooked(p)
<1>1. /\ pesan'[q].j = j /\ pesan'[q].brand = brand /\ pesan'[q].nama = nama /\ pesan'[q].nik = nik
      /\ \A o \in Pesanan \ {q} : pesan'[o] = pesan[o]
  BY BookedRow
<1>2. CASE p = q
  BY <1>1, <1>2 DEF NameIsBooked
<1>3. CASE p # q
  BY <1>1, <1>3 DEF NameIsBooked
<1> QED
  BY <1>2, <1>3

LEMMA StepsBookNames ==
  ASSUME RecordsInv, [RecordsNext]_recordVars, NEW p \in Pesanan
  PROVE  NameIsBooked(p)
<1>0. NIHIL \in NIKs /\ orang \in [Orang -> JamaahRows \cup {NIHIL}] /\ NIHIL \notin Nama
  BY RecordsAssumption DEF NIKs, RecordsInv
<1>1. CASE pesan' = pesan
  BY <1>1 DEF NameIsBooked
<1>2. ASSUME NEW q \in Pesanan, NEW j \in Orang, NEW brand \in Merek, NEW nama \in Nama, NEW nik \in NIKs,
             NEW hp \in HPs, WebBooksNew(q, j, brand, nama, nik, hp)
      PROVE  NameIsBooked(p)
  <2>1. orang'[j] = Record(brand, nama, nik, hp)
    BY <1>0, <1>2 DEF WebBooksNew
  <2>2. orang'[j].nama = nama
    BY <2>1, NewRecord
  <2> QED
    BY <1>2, <2>2, FindersBookNames DEF WebBooksNew
<1>3. ASSUME NEW q \in Pesanan, NEW j \in Orang, NEW brand \in Merek, NEW nama \in Nama, NEW nik \in NIKs,
             WebBooks(q, j, brand, nama, nik)
      PROVE  NameIsBooked(p)
  <2>1. orang[j] \in JamaahRows /\ orang[j].nama = nama /\ Holder(brand, nik) \subseteq {j}
    BY <1>3, RowsAreRecords DEF WebBooks, Found, In
  <2>2. orang'[j].nama = nama
    BY <1>0, <1>3, <2>1 DEF WebBooks, JamaahRows
  <2> QED
    BY <1>3, <2>1, <2>2, FindersBookNames DEF WebBooks
<1>4. ASSUME NEW q \in Pesanan, NEW j \in Orang, NEW brand \in Merek, NEW nama \in Nama, NEW nik \in NIKs,
             AgentBooks(q, j, brand, nama, nik)
      PROVE  NameIsBooked(p)
  <2>1. PICK n : n = orang[j].nik
    OBVIOUS
  <2>2. /\ j \in Rows /\ orang[j].brand = brand /\ orang'[j].nama = nama
        /\ n \in NIKs /\ Booked(q, j, brand, nama, n)
    BY <1>4, <2>1 DEF AgentBooks, In, NIKs
  <2>3. Holder(brand, n) \subseteq {j}
    BY <2>1, <2>2 DEF Holder, In, RecordsInv, OneHolder
  <2> QED
    BY <2>2, <2>3, FindersBookNames
<1>5. ASSUME NEW q \in Pesanan, NEW j \in Orang, NEW brand \in Merek, Booked(q, j, brand, NIHIL, NIHIL)
      PROVE  NameIsBooked(p)
  BY <1>0, <1>5, FindersBookNames
<1>6. ASSUME NEW m \in Meja, NEW q \in Pesanan, DeskBooks(m, q)
      PROVE  NameIsBooked(p)
  <2>1. PICK j, ke : j = meja[m].j /\ ke = meja[m].ke
    OBVIOUS
  <2>2. j \in Orang /\ ke \in Merek /\ Booked(q, j, ke, NIHIL, NIHIL)
    BY <1>6, <2>1, RowsAreRecords DEF DeskBooks, RecordsInv, RequestFine
  <2> QED
    BY <1>5, <2>2
<1>7. ASSUME NEW j \in Orang, NEW brand \in Merek, NEW nama \in Nama, NEW nik \in NIKs, NEW hp \in HPs,
             CreateJamaah(j, brand, nama, nik, hp)
      PROVE  pesan' = pesan
  BY <1>7 DEF CreateJamaah
<1>8. ASSUME NEW j \in Orang, DeleteJamaah(j)
      PROVE  pesan' = pesan
  BY <1>8 DEF DeleteJamaah
<1>9. ASSUME NEW m \in Meja,
             \/ RequestFails(m)
             \/ \E j \in Orang, brand \in Merek : UpdateCheck(m, j, brand) \/ DeskCheck(m, j, brand)
             \/ \E nama \in Nama, nik \in NIKs, hp \in HPs : UpdateEnd(m, nama, nik, hp)
             \/ \E q \in Pesanan : SimpanDataCheck(m, q)
             \/ \E hp \in HPs : SimpanDataJamaah(m, hp)
      PROVE  pesan' = pesan
  BY <1>9 DEF RequestFails, UpdateCheck, DeskCheck, UpdateEnd, SimpanDataCheck, SimpanDataJamaah
<1>10. ASSUME NEW q \in Pesanan, NEW j \in Orang, NEW brand \in Merek, NEW hp \in HPs,
              CrmBooks(q, j, brand, hp) \/ \E nama \in Nama : CrmBooksNew(q, j, brand, nama, hp)
       PROVE  NameIsBooked(p)
  BY <1>5, <1>10 DEF CrmBooks, CrmBooksNew
<1>11. UNCHANGED recordVars => pesan' = pesan
  BY DEF recordVars
<1> QED
  BY <1>1, <1>2, <1>3, <1>4, <1>6, <1>7, <1>8, <1>9, <1>10, <1>11 DEF RecordsNext

(* Knowing a NIK books nobody else: who is booked by name has that name, and *)
(* is the NIK's holder if there is one (resolveAnggotaPublik, resolvePaxAgen)*)
THEOREM NamesBooked == RecordsSpec => NamesAreBooked
<1>1. RecordsSpec => []RecordsInv
  BY RecordsStayInOrder, PTL
<1>2. RecordsInv /\ [RecordsNext]_recordVars =>
        [\A p \in Pesanan : pesan[p] = NIHIL /\ pesan'[p] # NIHIL /\ pesan'[p].nama # NIHIL =>
           LET j == pesan'[p].j
           IN /\ orang'[j].nama = pesan'[p].nama
              /\ Holder(pesan'[p].brand, pesan'[p].nik) \subseteq {j}]_recordVars
  BY StepsBookNames DEF NameIsBooked
<1> QED
  BY <1>1, <1>2, PTL DEF RecordsSpec, NamesAreBooked

-----------------------------------------------------------------------------
(* The composition of the five *)

(* Together they still are what each of them is. *)
LEMMA PartsAreThemselves ==
  PortalSpec => /\ AccountsSpec /\ CustomerSpec /\ DocumentsSpec /\ LettersSpec /\ RecordsSpec
<1>1. PortalInit =>
        AccountsInit /\ CustomerInit /\ DocumentsInit /\ LettersInit /\ RecordsInit
  BY DEF PortalInit
<1>2. ChainsNext => AccountsNext
  BY DEF ChainsNext, AccountsNext, AccountStep
<1>3. [PortalNext]_<<part, accountVars, customerVars, documentVars, letterVars, recordVars>> =>
        /\ [AccountsNext]_accountVars
        /\ [CustomerNext]_customerVars
        /\ [DocumentsNext]_documentVars
        /\ [LettersNext]_letterVars
        /\ [RecordsNext]_recordVars
  BY <1>2 DEF PortalNext
<1> QED
  BY <1>1, <1>3, PTL DEF PortalSpec, AccountsSpec, CustomerSpec, DocumentsSpec, LettersSpec, RecordsSpec

(* Documents and letters in the composition: a file and a status for every   *)
(* version, and numbers that differ unless the counter was taken back while  *)
(* one was issued.                                                           *)
THEOREM PapersStayInOrder == PortalSpec => []PapersInvariant
<1>1. DocumentsTypeOK /\ LettersTypeOK /\ LetterNumbersDiffer => PapersInvariant
  BY DEF PapersInvariant
<1> QED
  BY <1>1, PartsAreThemselves, DocumentsStayTyped, LettersDiffer, PTL
=============================================================================
