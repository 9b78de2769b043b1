---------------------------- MODULE AdminSessions ----------------------------
(***************************************************************************)
(* internal/identity: logging in, refreshing and logging out, and the      *)
(* cache of account states RequireAuth asks, for one account of the back   *)
(* office. Accounts share nothing here, so one stands for all of them.     *)
(*                                                                         *)
(* Login and refresh read the account, its version and its roles in        *)
(* queries of their own, with no transaction around them; the directory    *)
(* (AdminDirectory) changes the account between any two of them, and       *)
(* counts a version up and revokes the refresh tokens with every change.   *)
(* A request whose verdict is not in the cache reads the account first and *)
(* stores what it read later, while others do the same.                    *)
(*                                                                         *)
(* Every writer of an account's roles sets its old column `role` in the    *)
(* same transaction (rbac.ReplaceUserRoles), so that column is a function  *)
(* of the roles (Legacy). The tokens carry it and the brand as they were   *)
(* when the account was read, before its version; a history mark, `dari`,  *)
(* keeps the version of that moment.                                       *)
(*                                                                         *)
(* Signatures, e-mail addresses, passwords and the limits on failed        *)
(* attempts are left out: a login is one that gave the password. Roles     *)
(* stand for the permissions they give.                                    *)
(***************************************************************************)
EXTENDS Integers, FiniteSets

CONSTANTS
  Brands,       \* what admin_users.brand_id may be
  RoleSets,     \* role sets an account may hold
  CsSaja,       \* the role set that is Customer Service and no other
  Refreshes,    \* ids of admin_refresh_tokens
  Logins,       \* concurrent requests to log in or to refresh
  Loaders,      \* concurrent requests that load the account's state
  MaxVersion,   \* bound on perm_version
  MaxAccess,    \* bound on access tokens that have not expired
  TAKADA

ASSUME SessionsAssumption ==
  /\ MaxVersion \in Nat \ {0} /\ MaxAccess \in Nat \ {0}
  /\ TAKADA \notin Brands \cup RoleSets /\ CsSaja \in RoleSets

VARIABLES
  akun,       \* admin_users: aktif, brand, roles, pver
  refresh,    \* refresh[k]: status of a refresh token
  access,     \* claims of the access tokens in use: brand, role, roles (TAKADA: none),
              \* pver; and dari, the version of the account they were made from
  issuing,    \* issuing[q]: how far a login or refresh is, and what it has read
  cache,      \* userStatusCache's entry: ada, aktif, pver, tua (older than its TTL)
  loading,    \* loading[l]: an account state read and not yet stored
  resetting   \* a password is set and the sessions are not yet revoked

svars == <<akun, refresh, access, issuing, cache, loading, resetting>>

NoLogin == [step |-> "idle", kind |-> "login", brand |-> TAKADA, role |-> TAKADA, roles |-> TAKADA,
            pver |-> 0, dari |-> 0]
NoEntry == [ada |-> FALSE, aktif |-> FALSE, pver |-> 0, tua |-> FALSE]
NoLoad == [ada |-> FALSE, aktif |-> FALSE, pver |-> 0]

SessionsInit ==
  /\ akun \in [aktif : {TRUE}, brand : Brands, roles : RoleSets, pver : {1}]
  /\ refresh = [k \in Refreshes |-> "absent"]
  /\ access = {}
  /\ issuing = [q \in Logins |-> NoLogin]
  /\ cache = NoEntry
  /\ loading = [l \in Loaders |-> NoLoad]
  /\ resetting = FALSE

-----------------------------------------------------------------------------
(* What the directory does to the account *)

(* admin_users.role of an account with these roles.                          *)
Legacy(roles) == IF roles = CsSaja THEN "cs" ELSE "admin"

(* RevokeAllRefreshTokens                                                    *)
Revoked == [k \in Refreshes |->
  IF refresh[k] = "aktif" THEN "mati" ELSE refresh[k]]

Revised(row) ==
  /\ akun' = row /\ refresh' = Revoked
  /\ UNCHANGED <<access, issuing, cache, loading, resetting>>

(* Update and SetUserRoles: other roles or another brand, or the same again. *)
ChangeAccess(brand, roles) ==
  /\ akun.pver < MaxVersion
  /\ Revised([akun EXCEPT !.brand = brand, !.roles = roles, !.pver = @ + 1])

Deactivate ==
  /\ akun.aktif /\ akun.pver < MaxVersion
  /\ Revised([akun EXCEPT !.aktif = FALSE, !.pver = @ + 1])

Reactivate ==
  /\ ~akun.aktif
  /\ akun' = [akun EXCEPT !.aktif = TRUE]
  /\ UNCHANGED <<refresh, access, issuing, cache, loading, resetting>>

(* ResetPassword, ChangeOwnPassword: two statements, the second may fail.    *)
SetPassword ==
  /\ ~resetting /\ resetting' = TRUE
  /\ UNCHANGED <<akun, refresh, access, issuing, cache, loading>>

EndSessions ==
  /\ resetting /\ resetting' = FALSE
  /\ refresh' \in {Revoked, refresh}
  /\ UNCHANGED <<akun, access, issuing, cache, loading>>

-----------------------------------------------------------------------------
(* Login and refresh *)

Unchanged == UNCHANGED <<akun, refresh, access, cache, loading, resetting>>

(* What GetByEmail and GetByID read of the account, version and roles not.   *)
Known(read) == [read EXCEPT !.step = "known", !.brand = akun.brand, !.role = Legacy(akun.roles),
                            !.dari = akun.pver]

(* Login's GetByEmail: an active account, whose password was given.          *)
LoginRead(q) ==
  /\ issuing[q].step = "idle"
  /\ akun.aktif
  /\ issuing' = [issuing EXCEPT ![q] = Known(NoLogin)]
  /\ Unchanged

(* IsRefreshTokenActive, before the account is read.                         *)
RefreshCheck(q, k) ==
  /\ issuing[q].step = "idle"
  /\ refresh[k] = "aktif"
  /\ issuing' = [issuing EXCEPT ![q] = [NoLogin EXCEPT !.step = "checked", !.kind = "refresh"]]
  /\ Unchanged

RefreshRead(q) ==
  /\ issuing[q].step = "checked"
  /\ issuing' = [issuing EXCEPT ![q] =
       IF akun.aktif THEN Known(issuing[q]) ELSE NoLogin]
  /\ Unchanged

(* GetUserAccess reads the version first, then the roles.                    *)
ReadVersion(q) ==
  /\ issuing[q].step = "known"
  /\ issuing' = [issuing EXCEPT ![q].step = "versioned", ![q].pver = akun.pver]
  /\ Unchanged

ReadRoles(q) ==
  /\ issuing[q].step = "versioned"
  /\ issuing' = [issuing EXCEPT ![q].step = "ready", ![q].roles = akun.roles]
  /\ Unchanged

(* Any of its queries fails: the login goes on without roles and version.    *)
AccessFails(q) ==
  /\ issuing[q].step \in {"known", "versioned"}
  /\ issuing' = [issuing EXCEPT ![q].step = "ready", ![q].roles = TAKADA, ![q].pver = 0]
  /\ Unchanged

(* The claims of the token, with a version.                                  *)
Signed(read, pver) == [brand |-> read.brand, role |-> read.role, roles |-> read.roles,
                       pver |-> pver, dari |-> read.dari]

(* Fault: the newest version is signed.                                      *)
IssueNewest(q) ==
  LET read == issuing[q] IN
  /\ read.step = "ready"
  /\ Cardinality(access) < MaxAccess
  /\ access' = access \cup {Signed(read, akun.pver)}
  /\ issuing' = [issuing EXCEPT ![q] = NoLogin]
  /\ UNCHANGED <<akun, refresh, cache, loading, resetting>>

(* The tokens are signed; a login saves its refresh token first.             *)
Issue(q) ==
  LET read == issuing[q] IN
  /\ read.step = "ready"
  /\ Cardinality(access) < MaxAccess
  /\ access' = access \cup {Signed(read, read.pver)}
  /\ IF read.kind = "refresh" THEN UNCHANGED refresh
     ELSE \E k \in Refreshes :
            /\ refresh[k] = "absent"
            /\ refresh' = [refresh EXCEPT ![k] = "aktif"]
  /\ issuing' = [issuing EXCEPT ![q] = NoLogin]
  /\ UNCHANGED <<akun, cache, loading, resetting>>

(* Logout, or time, ends a refresh token; time ends an access token.         *)
EndRefresh(k) ==
  /\ refresh[k] = "aktif"
  /\ refresh' = [refresh EXCEPT ![k] = "mati"]
  /\ UNCHANGED <<akun, access, issuing, cache, loading, resetting>>

ExpireAccess(t) ==
  /\ access' = access \ {t}
  /\ UNCHANGED <<akun, refresh, issuing, cache, loading, resetting>>

-----------------------------------------------------------------------------
(* userStatusCache *)

(* Fault: an entry is good for ever.                                         *)
NeedsLoadOnce(t) == ~cache.ada \/ t.pver > cache.pver

(* No entry, an old one, or one older than the token.                        *)
NeedsLoad(t) == ~cache.ada \/ cache.tua \/ t.pver > cache.pver

(* allow's answer for a token, given an account state.                       *)
Allows(state, t) == state.aktif /\ (t.pver = 0 \/ t.pver = state.pver)

LoadBegin(l, t) ==
  /\ ~loading[l].ada
  /\ NeedsLoad(t)
  /\ loading' = [loading EXCEPT ![l] = [ada |-> TRUE, aktif |-> akun.aktif, pver |-> akun.pver]]
  /\ UNCHANGED <<akun, refresh, access, issuing, cache, resetting>>

LoadEnd(l) ==
  /\ loading[l].ada
  /\ cache' = [ada |-> TRUE, aktif |-> loading[l].aktif, pver |-> loading[l].pver, tua |-> FALSE]
  /\ loading' = [loading EXCEPT ![l] = NoLoad]
  /\ UNCHANGED <<akun, refresh, access, issuing, resetting>>

(* The entry gets older than userStatusTTL.                                  *)
Age ==
  /\ cache.ada /\ ~cache.tua
  /\ cache' = [cache EXCEPT !.tua = TRUE]
  /\ UNCHANGED <<akun, refresh, access, issuing, loading, resetting>>

(* The process stops and starts again: what it had in memory is gone.        *)
Restart ==
  /\ cache' = NoEntry
  /\ loading' = [l \in Loaders |-> NoLoad]
  /\ issuing' = [q \in Logins |-> NoLogin]
  /\ resetting' = FALSE
  /\ UNCHANGED <<akun, refresh, access>>

-----------------------------------------------------------------------------
LoginStep(q) ==
  \/ LoginRead(q) \/ (\E k \in Refreshes : RefreshCheck(q, k)) \/ RefreshRead(q)
  \/ ReadVersion(q) \/ ReadRoles(q) \/ AccessFails(q) \/ Issue(q)

SessionsNext ==
  \/ \E brand \in Brands, roles \in RoleSets : ChangeAccess(brand, roles)
  \/ Deactivate \/ Reactivate \/ SetPassword \/ EndSessions
  \/ \E q \in Logins : LoginStep(q)
  \/ \E k \in Refreshes : EndRefresh(k)
  \/ \E t \in access : ExpireAccess(t)
  \/ \E l \in Loaders, t \in access : LoadBegin(l, t)
  \/ \E l \in Loaders : LoadEnd(l)
  \/ Age \/ Restart

(* Time passes, and a query that was sent is answered.                       *)
SessionsFairness == WF_svars(Age) /\ \A l \in Loaders : WF_svars(LoadEnd(l))

SessionsSpec == SessionsInit /\ [][SessionsNext]_svars /\ SessionsFairness

-----------------------------------------------------------------------------
(* Properties *)

Legacies == {"cs", "admin"}

(* Every record holds values of its type, and neither a token nor the cache  *)
(* knows a version the account has not reached.                              *)
SessionsTypeOK ==
  /\ akun \in [aktif : BOOLEAN, brand : Brands, roles : RoleSets,
               pver : 1..MaxVersion]
  /\ refresh \in [Refreshes -> {"absent", "aktif", "mati"}]
  /\ access \subseteq [brand : Brands, role : Legacies, roles : RoleSets \cup {TAKADA},
                        pver : 0..akun.pver, dari : 0..akun.pver]
  /\ issuing \in [Logins -> [step : {"idle", "checked", "known", "versioned", "ready"},
                             kind : {"login", "refresh"}, brand : Brands \cup {TAKADA},
                             role : Legacies \cup {TAKADA}, roles : RoleSets \cup {TAKADA},
                             pver : 0..akun.pver, dari : 0..akun.pver]]
  /\ cache \in [ada : BOOLEAN, aktif : BOOLEAN, pver : 0..akun.pver, tua : BOOLEAN]
  /\ loading \in [Loaders -> [ada : BOOLEAN, aktif : BOOLEAN, pver : 0..akun.pver]]

(* However the queries of a login or refresh interleave with changes of the  *)
(* account, a token of the account's version carries its roles, and also its *)
(* brand and its role of the old column, unless that change came between the *)
(* query for the account and the one for the version: such a token passes    *)
(* with what the account was before.                                         *)
ClaimsMatchVersion ==
  \A t \in access : t.pver = akun.pver =>
    /\ t.roles = akun.roles
    /\ t.dari = t.pver => t.brand = akun.brand /\ t.role = Legacy(akun.roles)

(* Once an account stops changing, the cache's verdicts on its tokens become *)
(* those of the database for good, whatever slow loads stored in between.    *)
VerdictsCatchUp ==
  <>[](\A t \in access : ~NeedsLoad(t) => (Allows(cache, t) <=> Allows(akun, t)))

(* In every state: the types, and tokens whose claims are those of their     *)
(* version, whatever changed between the queries they were made from.        *)
SessionsInvariant == SessionsTypeOK /\ ClaimsMatchVersion
=============================================================================
