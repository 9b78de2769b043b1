--------------------------- MODULE AgentAccounts ----------------------------
(***************************************************************************)
(* internal/agen, first half: who recruited an account, its application to *)
(* become an agent with the registration fee, the admins' decisions, and   *)
(* the override of the recruiter.                                          *)
(*                                                                         *)
(* Every transaction here locks its rows before it reads anything else and *)
(* is one step, except the override of a recruiter: it locks the account   *)
(* and then, one row at a time, the chain of recruiters above the new one. *)
(* MySQL ends a deadlock by rolling one transaction back, so an override   *)
(* may fail between any two of its locks.                                  *)
(*                                                                         *)
(* Left out: the applicant's particulars and the proof's picture, the NIK  *)
(* that may not belong to two agents, the brand that restricts which admin *)
(* may act, and the log rows nothing reads back.                           *)
(***************************************************************************)
EXTENDS Integers, Sequences, FiniteSets

CONSTANTS
  Accounts,       \* ids of customer_accounts
  FirstAgents,    \* accounts that are active agents initially
  Overriders,     \* concurrent requests of admins that replace a recruiter
  Fees,           \* whether the brand asks a registration fee (BOOLEAN values)
  MaxHops,        \* recruiters an override reads before it stops looking (50)
  MaxCycles,      \* bound: applications of one account
  NULL

ASSUME AgentAccountsAssumption ==
  /\ IsFiniteSet(Accounts) /\ FirstAgents \subseteq Accounts
  /\ Fees \subseteq BOOLEAN
  /\ MaxHops \in Nat \ {0} /\ MaxCycles \in Nat \ {0}
  /\ NULL \notin Accounts

VARIABLES
  akun,      \* akun[a]: status_agen, direkrut (recruiter) and upline
  siklus,    \* siklus[a]: the account's rows of pembayaran_pendaftaran_agen
  ganti      \* ganti[o]: an open override: its account, new recruiter, locks
             \* and how many rows of the chain it has read

accountVars == <<akun, siklus, ganti>>

Agent == {"aktif", "nonaktif"}

Settled == {"terverifikasi", "dibebaskan"}

NoOverride == [akun |-> NULL, baru |-> NULL, next |-> NULL, locked |-> {}, hops |-> 0]

Latest(a) == siklus[a][Len(siklus[a])]

Final(c) == c.status \in Settled

(* Rows of accounts an override holds: everybody else waits for them.        *)
Locked == UNION {ganti[o].locked : o \in Overriders}

AccountsInit ==
  /\ akun   = [a \in Accounts |->
                 [status |-> IF a \in FirstAgents THEN "aktif" ELSE "absent",
                  direkrut |-> NULL, upline |-> NULL]]
  /\ siklus = [a \in Accounts |->
                 IF a \in FirstAgents
                 THEN <<[status |-> "terverifikasi", bukti |-> TRUE,
                         keputusan |-> "disetujui", nominal |-> TRUE]>>
                 ELSE <<>>]
  /\ ganti  = [o \in Overriders |-> NoOverride]

-----------------------------------------------------------------------------
(* The account holder *)

(* The referral code of an active agent binds the account for life; any     *)
(* other code is ignored.                                                    *)
Register(a, r) ==
  /\ akun[a].status = "absent"
  /\ r # NULL => akun[r].status = "aktif" /\ r \notin Locked
  /\ akun' = [akun EXCEPT ![a] = [status |-> "tidak_aktif", direkrut |-> r, upline |-> NULL]]
  /\ UNCHANGED <<siklus, ganti>>

(* Without a fee the payment counts as verified at once.                     *)
Ajukan(a, fee) ==
  /\ akun[a].status = "tidak_aktif" /\ a \notin Locked
  /\ Len(siklus[a]) < MaxCycles
  /\ akun' = [akun EXCEPT ![a].status = "pengajuan"]
  /\ siklus' = [siklus EXCEPT ![a] = Append(@,
       [status |-> IF fee THEN "menunggu_verifikasi" ELSE "terverifikasi",
        bukti |-> FALSE, keputusan |-> "menunggu", nominal |-> fee])]
  /\ UNCHANGED ganti

(* insertUpload: a rejected payment waits for verification again.            *)
Upload(a, n) ==
  /\ siklus[a][n].keputusan # "ditolak"
  /\ ~Final(siklus[a][n])
  /\ siklus' = [siklus EXCEPT
       ![a][n].bukti = TRUE,
       ![a][n].status = IF @ = "ditolak" THEN "menunggu_verifikasi" ELSE @]
  /\ UNCHANGED <<akun, ganti>>

UploadBuktiAkun(a) == siklus[a] # <<>> /\ Upload(a, Len(siklus[a]))

-----------------------------------------------------------------------------
(* The admins: any row of the payments, whatever became of its application *)

UploadBuktiAdmin(a) == \E n \in DOMAIN siklus[a] : Upload(a, n)

WithStatus(a, n, status) == [siklus EXCEPT ![a][n].status = status]

VerifikasiPembayaran(a, n) ==
  /\ ~Final(siklus[a][n])
  /\ siklus' = WithStatus(a, n, "terverifikasi")
  /\ UNCHANGED <<akun, ganti>>

TolakPembayaran(a, n) ==
  /\ siklus[a][n].status = "menunggu_verifikasi"
  /\ siklus' = WithStatus(a, n, "ditolak")
  /\ UNCHANGED <<akun, ganti>>

Activated(a) ==
  [akun EXCEPT ![a] = [@ EXCEPT !.status = "aktif", !.upline = akun[a].direkrut]]

(* catatKeputusan: the decision belongs to the latest application.           *)
Decided(s, a, keputusan) == [s EXCEPT ![a][Len(s[a])].keputusan = keputusan]

Applies(a) == akun[a].status = "pengajuan" /\ a \notin Locked

(* Approval does not wait for the payment.                                   *)
Setujui(a) ==
  /\ Applies(a)
  /\ akun' = Activated(a)
  /\ siklus' = Decided(siklus, a, "disetujui")
  /\ UNCHANGED ganti

Tolak(a) ==
  /\ Applies(a)
  /\ akun' = [akun EXCEPT ![a].status = "tidak_aktif"]
  /\ siklus' = Decided(siklus, a, "ditolak")
  /\ UNCHANGED ganti

UbahStatus(a) ==
  /\ akun[a].status \in Agent /\ a \notin Locked
  /\ \E status \in Agent : akun' = [akun EXCEPT ![a].status = status]
  /\ UNCHANGED <<siklus, ganti>>

-----------------------------------------------------------------------------
(* The decision screen: one action on an application, or on the open bill   *)
(* of an agent approved before paying                                        *)

Owes(a) ==
  /\ akun[a].status = "aktif" /\ a \notin Locked
  /\ siklus[a] # <<>>
  /\ Latest(a).keputusan = "disetujui" /\ ~Final(Latest(a)) /\ Latest(a).nominal

(* An application is approved along with its payment, an agent's bill alone. *)
Approve(a, s) ==
  IF Applies(a) THEN akun' = Activated(a) /\ siklus' = Decided(s, a, "disetujui")
                ELSE akun' = akun /\ siklus' = s

KeputusanSetujui(a) ==
  /\ Applies(a) \/ Owes(a)
  /\ \/ Final(Latest(a)) /\ Approve(a, siklus)
     \/ /\ Latest(a).status = "menunggu_verifikasi" /\ Latest(a).bukti
        /\ Approve(a, WithStatus(a, Len(siklus[a]), "terverifikasi"))
  /\ UNCHANGED ganti

KeputusanBebaskan(a) ==
  /\ Applies(a) \/ Owes(a)
  /\ ~Final(Latest(a))
  /\ Approve(a, WithStatus(a, Len(siklus[a]), "dibebaskan"))
  /\ UNCHANGED ganti

KeputusanMintaUnggahUlang(a) ==
  /\ Applies(a) \/ Owes(a)
  /\ TolakPembayaran(a, Len(siklus[a]))

KeputusanTolak(a) == Applies(a) /\ Tolak(a)

KeputusanBayarMenyusul(a) ==
  /\ Applies(a)
  /\ ~Final(Latest(a)) /\ Latest(a).nominal
  /\ Setujui(a)

-----------------------------------------------------------------------------
(* gantiAgenAkunTx *)

(* Who already is an agent gets the new recruiter as upline too.             *)
Recruited(a, r) ==
  [akun EXCEPT ![a].direkrut = r,
               ![a].upline = IF akun[a].status \in Agent THEN r ELSE @]

GantiAgenAkunBegin(o, a, r) ==
  /\ ganti[o] = NoOverride
  /\ akun[a].status # "absent" /\ a \notin Locked
  /\ r # a /\ akun[r].status = "aktif"
  /\ ganti' = [ganti EXCEPT ![o] =
       [akun |-> a, baru |-> r, next |-> r, locked |-> {a}, hops |-> 0]]
  /\ UNCHANGED <<akun, siklus>>

(* There is a recruiter left to read, and the limit is not reached.          *)
Looks(g) == g.next # NULL /\ g.hops < MaxHops

(* Row locks: an account on the chain waits for whoever else locked it.      *)
FreeToRead(o, c) == \A p \in Overriders \ {o} : c \notin ganti[p].locked

(* Fault: the chain is read without locking it.                              *)
GantiAgenAkunWalkUnlocked(o) ==
  LET g == ganti[o]
      above == akun[g.next].direkrut IN
  /\ Looks(g)
  /\ ganti' = [ganti EXCEPT ![o] =
       IF above = g.akun THEN NoOverride ELSE [g EXCEPT !.next = above, !.hops = @ + 1]]
  /\ UNCHANGED <<akun, siklus>>

(* The next account of the chain; the account itself in it ends the request. *)
GantiAgenAkunWalk(o) ==
  LET g == ganti[o]
      above == akun[g.next].direkrut IN
  /\ Looks(g)
  /\ FreeToRead(o, g.next)
  /\ ganti' = [ganti EXCEPT ![o] =
       IF above = g.akun THEN NoOverride
       ELSE [g EXCEPT !.next = above, !.hops = @ + 1, !.locked = @ \cup {g.next}]]
  /\ UNCHANGED <<akun, siklus>>

(* The account was not met: the chain has ended, or the limit was reached,   *)
(* which is no error. The same recruiter again changes nothing.              *)
GantiAgenAkunCommit(o) ==
  LET g == ganti[o] IN
  /\ g # NoOverride /\ ~Looks(g)
  /\ akun' = Recruited(g.akun, g.baru)
  /\ ganti' = [ganti EXCEPT ![o] = NoOverride]
  /\ UNCHANGED siklus

(* A lock wait that times out, or the victim of a deadlock.                  *)
GantiAgenAkunFails(o) ==
  /\ Looks(ganti[o])
  /\ ~FreeToRead(o, ganti[o].next)
  /\ ganti' = [ganti EXCEPT ![o] = NoOverride]
  /\ UNCHANGED <<akun, siklus>>

LepasAgenAkun(a) ==
  /\ akun[a].status # "absent" /\ a \notin Locked
  /\ akun' = Recruited(a, NULL)
  /\ UNCHANGED <<siklus, ganti>>

-----------------------------------------------------------------------------
AccountStep(a) ==
  \/ \E r \in Accounts \cup {NULL} : Register(a, r)
  \/ \E fee \in Fees : Ajukan(a, fee)
  \/ UploadBuktiAkun(a) \/ UploadBuktiAdmin(a)
  \/ \E n \in DOMAIN siklus[a] : VerifikasiPembayaran(a, n) \/ TolakPembayaran(a, n)
  \/ Setujui(a) \/ Tolak(a) \/ UbahStatus(a)
  \/ KeputusanSetujui(a) \/ KeputusanBebaskan(a) \/ KeputusanMintaUnggahUlang(a)
  \/ KeputusanTolak(a) \/ KeputusanBayarMenyusul(a)
  \/ LepasAgenAkun(a)

OverrideStep(o) ==
  \/ \E a, r \in Accounts : GantiAgenAkunBegin(o, a, r)
  \/ GantiAgenAkunWalk(o) \/ GantiAgenAkunCommit(o) \/ GantiAgenAkunFails(o)

AccountsNext ==
  \/ \E a \in Accounts : AccountStep(a)
  \/ \E o \in Overriders : OverrideStep(o)

AccountsSpec == AccountsInit /\ [][AccountsNext]_accountVars

-----------------------------------------------------------------------------
(* Properties *)

Cycles == [status : Settled \cup {"menunggu_verifikasi", "ditolak"}, bukti : BOOLEAN,
           keputusan : {"menunggu", "disetujui", "ditolak"}, nominal : BOOLEAN]

(* Every column holds one of the values of its type, and a row is locked by  *)
(* one override at most.                                                     *)
AccountsTypeOK ==
  /\ akun \in [Accounts ->
       [status : Agent \cup {"absent", "tidak_aktif", "pengajuan"},
        direkrut : Accounts \cup {NULL}, upline : Accounts \cup {NULL}]]
  /\ siklus \in [Accounts -> Seq(Cycles)]
  /\ ganti \in [Overriders ->
       [akun : Accounts \cup {NULL}, baru : Accounts \cup {NULL},
        next : Accounts \cup {NULL}, locked : SUBSET Accounts, hops : 0..MaxHops]]
  /\ \A o, p \in Overriders : o # p => ganti[o].locked \cap ganti[p].locked = {}

(* However registrations and overrides interleave, nobody is his own         *)
(* recruiter's recruiter, as far as an override looks: a group with a cycle, *)
(* where everybody was recruited from inside, is too large for the limit.    *)
RecruitersFormNoCycle ==
  \A S \in (SUBSET Accounts) \ {{}} :
    Cardinality(S) <= MaxHops + 1 => \E a \in S : akun[a].direkrut \notin S

(* The bonus of an agent's sales goes to who recruited him, also after the   *)
(* recruiter was replaced before, during or after the application.           *)
UplineIsRecruiter ==
  \A a \in Accounts : akun[a].status \in Agent => akun[a].upline = akun[a].direkrut

(* The account's status is what the last application's decision made it, and *)
(* every application before it was rejected.                                 *)
StatusIsLastDecision ==
  \A a \in Accounts :
    /\ \A n \in 1 .. Len(siklus[a]) - 1 : siklus[a][n].keputusan = "ditolak"
    /\ siklus[a] # <<>> =>
         Latest(a).keputusan = CASE akun[a].status = "pengajuan" -> "menunggu"
                                 [] akun[a].status \in Agent -> "disetujui"
                                 [] OTHER -> "ditolak"
    /\ siklus[a] = <<>> => akun[a].status \in {"absent", "tidak_aktif"}

(* In every state: recruiters without a cycle within the limit, uplines that *)
(* are the recruiters, and statuses that are the last decision's, whatever   *)
(* overrides and decisions run at the same time.                             *)
AccountsInvariant ==
  AccountsTypeOK /\ RecruitersFormNoCycle /\ UplineIsRecruiter /\ StatusIsLastDecision
=============================================================================
