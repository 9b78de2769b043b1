-------------------------- MODULE CustomerSessions --------------------------
(***************************************************************************)
(* internal/customer: the sessions of a customer, the links to set a       *)
(* forgotten password, and the two ways to a new password, for one         *)
(* account. Accounts share nothing here.                                   *)
(*                                                                         *)
(* Changing a password revokes the other sessions and the links, and then  *)
(* sets it; a reset uses the link up, sets the password and then revokes   *)
(* the sessions. Each of these is a statement of its own, with nothing     *)
(* around them: a request that fails stops between two of them, and a      *)
(* login, which reads the password in one statement and opens its session  *)
(* in another, runs among them.                                            *)
(*                                                                         *)
(* Passwords are numbered in the order they are set. E-mails, limits on    *)
(* failed attempts and the profile are left out (AgentAccounts has the     *)
(* registration).                                                          *)
(***************************************************************************)
EXTENDS Integers, FiniteSets

CONSTANTS
  Sesi,       \* ids of customer_sessions
  Tautan,     \* ids of customer_tokens, purpose PurposeResetPass
  Masuk,      \* logins running at the same time
  Ganti,      \* changes and resets running at the same time
  MaxSandi,   \* bound on passwords set
  NIL

ASSUME CustomerAssumption == MaxSandi \in Nat \ {0} /\ NIL \notin Sesi \cup Tautan

VARIABLES
  sandi,    \* customer_accounts.password_hash: the number of the password
  sesi,     \* sessions: status, the password they were opened with, lolos
  tautan,   \* links: "menyetel" once they have set a password
  masuk,    \* logins: the password a login has proved, 0 for none
  setel     \* changes and resets: step, the session kept, the link used

customerVars == <<sandi, sesi, tautan, masuk, setel>>

NoSession == [status |-> "none", sandi |-> 0, lolos |-> FALSE]
NoChange == [step |-> "idle", keep |-> NIL, link |-> NIL]

CustomerInit ==
  /\ sandi = 1
  /\ sesi = [k \in Sesi |-> NoSession]
  /\ tautan = [t \in Tautan |-> "none"]
  /\ masuk = [l \in Masuk |-> 0]
  /\ setel = [g \in Ganti |-> NoChange]

Aktif(k) == sesi[k].status = "aktif"

-----------------------------------------------------------------------------
(* Sessions *)

(* Login: GetByEmail and the comparison with the password read.              *)
LoginRead(l) ==
  /\ masuk[l] = 0
  /\ masuk' = [masuk EXCEPT ![l] = sandi]
  /\ UNCHANGED <<sandi, sesi, tautan, setel>>

(* A change has revoked the sessions and not set its password yet.           *)
Changing == \E g \in Ganti : setel[g].step \in {"dicabut", "dimatikan"}

(* CreateSession. lolos: the session slips past the change that is running,  *)
(* or past the one that ran since the login read the password.               *)
LoginEnd(l, k) ==
  /\ masuk[l] # 0 /\ sesi[k].status = "none"
  /\ sesi' = [sesi EXCEPT ![k] =
       [status |-> "aktif", sandi |-> masuk[l], lolos |-> masuk[l] # sandi \/ Changing]]
  /\ masuk' = [masuk EXCEPT ![l] = 0]
  /\ UNCHANGED <<sandi, tautan, setel>>

LoginFails(l) ==
  /\ masuk[l] # 0
  /\ masuk' = [masuk EXCEPT ![l] = 0]
  /\ UNCHANGED <<sandi, sesi, tautan, setel>>

Ended(K) == [k \in Sesi |-> IF k \in K /\ Aktif(k) THEN [sesi[k] EXCEPT !.status = "mati"] ELSE sesi[k]]

(* Logout, or a session that is older than SessionTTL.                       *)
SessionEnds(k) ==
  /\ Aktif(k)
  /\ sesi' = Ended({k})
  /\ UNCHANGED <<sandi, tautan, masuk, setel>>

-----------------------------------------------------------------------------
(* Links *)

UsedUp == [t \in Tautan |-> IF tautan[t] = "aktif" THEN "terpakai" ELSE tautan[t]]

(* ForgotPassword, IssueToken: one transaction that first uses the others up.*)
IssueToken(t) ==
  /\ tautan[t] = "none"
  /\ tautan' = [UsedUp EXCEPT ![t] = "aktif"]
  /\ UNCHANGED <<sandi, sesi, masuk, setel>>

TokenExpires(t) ==
  /\ tautan[t] = "aktif"
  /\ tautan' = [tautan EXCEPT ![t] = "terpakai"]
  /\ UNCHANGED <<sandi, sesi, masuk, setel>>

-----------------------------------------------------------------------------
(* ChangePassword *)

Step(g, step) == setel' = [setel EXCEPT ![g].step = step]

(* RequireCustomer reads the account with its password, which is proved.     *)
ChangeBegin(g, k) ==
  /\ setel[g].step = "idle" /\ Aktif(k)
  /\ setel' = [setel EXCEPT ![g] = [step |-> "mulai", keep |-> k, link |-> NIL]]
  /\ UNCHANGED <<sandi, sesi, tautan, masuk>>

(* Fault: only the session that asks is looked at.                           *)
RevokeOtherSessionsNone(g) ==
  /\ setel[g].step = "mulai" /\ Step(g, "dicabut")
  /\ UNCHANGED <<sandi, sesi, tautan, masuk>>

RevokeOtherSessions(g) ==
  /\ setel[g].step = "mulai" /\ Step(g, "dicabut")
  /\ sesi' = Ended(Sesi \ {setel[g].keep})
  /\ UNCHANGED <<sandi, tautan, masuk>>

InvalidateTokens(g) ==
  /\ setel[g].step = "dicabut" /\ Step(g, "dimatikan")
  /\ tautan' = UsedUp
  /\ UNCHANGED <<sandi, sesi, masuk>>

(* The session that asked stays: lolos.                                      *)
SetPassword(g) ==
  /\ setel[g].step = "dimatikan" /\ sandi < MaxSandi
  /\ sandi' = sandi + 1
  /\ sesi' = [sesi EXCEPT ![setel[g].keep].lolos = TRUE]
  /\ setel' = [setel EXCEPT ![g] = NoChange]
  /\ UNCHANGED <<tautan, masuk>>

-----------------------------------------------------------------------------
(* ResetPassword *)

ConsumeToken(g, t) ==
  /\ setel[g].step = "idle" /\ tautan[t] = "aktif"
  /\ tautan' = [tautan EXCEPT ![t] = "terpakai"]
  /\ setel' = [setel EXCEPT ![g] = [step |-> "dipakai", keep |-> NIL, link |-> t]]
  /\ UNCHANGED <<sandi, sesi, masuk>>

(* The link has now set a password.                                          *)
ResetSets(g) ==
  /\ setel[g].step = "dipakai" /\ sandi < MaxSandi
  /\ sandi' = sandi + 1 /\ Step(g, "disetel")
  /\ tautan' = [tautan EXCEPT ![setel[g].link] = "menyetel"]
  /\ UNCHANGED <<sesi, masuk>>

RevokeAllSessions(g) ==
  /\ setel[g].step = "disetel"
  /\ sesi' = Ended(Sesi)
  /\ setel' = [setel EXCEPT ![g] = NoChange]
  /\ UNCHANGED <<sandi, tautan, masuk>>

(* An error of RevokeAllSessions is not looked at: whatever is open stays.   *)
RevocationLost(g) ==
  /\ setel[g].step = "disetel"
  /\ sesi' = [k \in Sesi |-> IF Aktif(k) THEN [sesi[k] EXCEPT !.lolos = TRUE] ELSE sesi[k]]
  /\ setel' = [setel EXCEPT ![g] = NoChange]
  /\ UNCHANGED <<sandi, tautan, masuk>>

(* A statement fails, or the server stops.                                   *)
ChangeFails(g) ==
  /\ setel[g].step \in {"mulai", "dicabut", "dimatikan", "dipakai"}
  /\ setel' = [setel EXCEPT ![g] = NoChange]
  /\ UNCHANGED <<sandi, sesi, tautan, masuk>>

-----------------------------------------------------------------------------
CustomerNext ==
  \/ \E l \in Masuk : LoginRead(l) \/ LoginFails(l) \/ \E k \in Sesi : LoginEnd(l, k)
  \/ \E k \in Sesi : SessionEnds(k)
  \/ \E t \in Tautan : IssueToken(t) \/ TokenExpires(t)
  \/ \E g \in Ganti : \/ RevokeOtherSessions(g) \/ InvalidateTokens(g) \/ SetPassword(g)
                      \/ ResetSets(g) \/ RevokeAllSessions(g) \/ RevocationLost(g) \/ ChangeFails(g)
                      \/ \E k \in Sesi : ChangeBegin(g, k)
                      \/ \E t \in Tautan : ConsumeToken(g, t)

CustomerSpec == CustomerInit /\ [][CustomerNext]_customerVars

-----------------------------------------------------------------------------
(* What is checked *)

(* Every variable keeps its type, and at most one link is good at a time.    *)
CustomerTypeOK ==
  /\ sandi \in 1..MaxSandi
  /\ sesi \in [Sesi -> [status : {"none", "aktif", "mati"}, sandi : 0..MaxSandi, lolos : BOOLEAN]]
  /\ tautan \in [Tautan -> {"none", "aktif", "terpakai", "menyetel"}]
  /\ masuk \in [Masuk -> 0..MaxSandi]
  /\ setel \in [Ganti -> [step : {"idle", "mulai", "dicabut", "dimatikan", "dipakai", "disetel"},
                          keep : {NIL} \cup Sesi, link : {NIL} \cup Tautan]]
  /\ \A t, u \in Tautan : tautan[t] = "aktif" /\ tautan[u] = "aktif" => t = u

(* A link sets a password once, however many requests bring it at the same   *)
(* time and whichever of them fail (ConsumeToken).                           *)
LinkSetsOnce == \A g \in Ganti : setel[g].step = "dipakai" => tautan[setel[g].link] # "menyetel"

(* A session outlives the password it was opened with only if it is the one  *)
(* that changed it, or slipped past the change by overlapping it, or the     *)
(* revocation of a reset was lost or is still to come: the order of the      *)
(* statements of ChangePassword and ResetPassword, and failures between      *)
(* them, leave no other session behind.                                      *)
OldSessionsEnd ==
  \A k \in Sesi : Aktif(k) /\ sesi[k].sandi # sandi
                   => sesi[k].lolos \/ \E g \in Ganti : setel[g].step = "disetel"

(* In every state: no session left over from an old password, and no link    *)
(* that could set a second one, whatever logins, changes and resets overlap. *)
CustomerInvariant == CustomerTypeOK /\ OldSessionsEnd /\ LinkSetsOnce
=============================================================================
