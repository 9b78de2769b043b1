--------------------------- MODULE AdminDirectory ---------------------------
(***************************************************************************)
(* internal/adminuser, internal/rbac and internal/orgunit: the users of    *)
(* the back office, the roles they hold, the divisions and teams of the    *)
(* holding company and who is assigned to them.                            *)
(*                                                                         *)
(* Every transaction locks the user, or the unit and its parent, before it *)
(* reads anything else, and shares the units it assigns until it commits;  *)
(* it is one step. The exception is a change that takes the super admin    *)
(* role, or an account that has it, away: it locks its user first and all  *)
(* active super admins later, and MySQL rolls one of two such changes back *)
(* when each waits for the other.                                          *)
(*                                                                         *)
(* Names, e-mail addresses and positions are left out, and so is that      *)
(* nobody deactivates or deletes himself. The roles' own tables have no    *)
(* operations.                                                             *)
(***************************************************************************)
EXTENDS Integers, FiniteSets

CONSTANTS
  Users,          \* ids of admin_users, never reused
  Units,          \* ids of org_unit, never reused
  Roles,          \* slugs of roles
  Super,          \* super_admin_grup
  HoldingOnly,    \* roles of scope 'holding'
  BrandOnly,      \* roles of scope 'brand'
  DivisiAsal,     \* DivisiAsal[r]: roles.divisi_id, or TIADA
  BrandIds,
  FirstDivisi,    \* divisions that exist initially
  Removers,         \* concurrent requests that take a super admin away
  TIADA

ASSUME DirectoryAssumption ==
  /\ Super \in Roles
  /\ HoldingOnly \subseteq Roles /\ BrandOnly \subseteq Roles
  /\ FirstDivisi \subseteq Units
  /\ DivisiAsal \in [Roles -> FirstDivisi \cup {TIADA}]
  /\ TIADA \notin Users \cup Units \cup BrandIds

VARIABLES
  users,     \* users[u]: status, brand (TIADA: holding), roles, units, riwayat
  units,     \* units[n]: jenis, induk, aktif
  removing   \* removing[a]: an open removal: its user and the row it writes

directoryVars == <<users, units, removing>>

NoUser == [status |-> "absent", brand |-> TIADA, roles |-> {}, units |-> {}, riwayat |-> FALSE]

NoUnit == [jenis |-> "absent", induk |-> TIADA, aktif |-> FALSE]

NoRemoval == [user |-> TIADA, row |-> NoUser]

Exists(u) == users[u].status \in {"aktif", "nonaktif"}

ActiveSuper(u) == users[u].status = "aktif" /\ Super \in users[u].roles

(* Rows of users held by open removals, and units they share.                *)
LockedUsers == {removing[a].user : a \in Removers} \ {TIADA}
SharedUnits == UNION {removing[a].row.units : a \in Removers}

(* The first user is the super admin the migrations create.                  *)
DirectoryInit ==
  /\ \E root \in Users :
       users = [u \in Users |->
         IF u = root THEN [NoUser EXCEPT !.status = "aktif", !.roles = {Super}] ELSE NoUser]
  /\ units = [n \in Units |->
       IF n \in FirstDivisi THEN [jenis |-> "divisi", induk |-> TIADA, aktif |-> TRUE] ELSE NoUnit]
  /\ removing = [a \in Removers |-> NoRemoval]

-----------------------------------------------------------------------------
(* What a user's row must satisfy *)

(* ValidateRolesScope                                                        *)
ScopeFits(row) ==
  /\ row.roles # {}
  /\ row.brand # TIADA => row.roles \cap HoldingOnly = {}
  /\ row.brand = TIADA => row.roles \cap BrandOnly = {}

DivisiOf(n) == IF units[n].induk = TIADA THEN n ELSE units[n].induk

(* ValidateUnitsForRoles                                                     *)
UnitsFitRoles(row) ==
  /\ row.brand # TIADA => row.units = {}
  /\ Super \notin row.roles =>
       \A n \in row.units : DivisiOf(n) \in {DivisiAsal[r] : r \in row.roles}

(* replaceKeanggotaan: a unit one joins exists and is active.                *)
UnitsJoinable(before, row) ==
  \A n \in row.units : units[n].jenis # "absent" /\ (units[n].aktif \/ n \in before)

(* A row of a role set, a brand and units an admin may send.                 *)
Sent(u, brand, roles, S) == [users[u] EXCEPT !.brand = brand, !.roles = roles, !.units = S]

(* The super admin is taken away from an active user by this row.            *)
Demotes(u, row) == ActiveSuper(u) /\ Super \notin row.roles

-----------------------------------------------------------------------------
(* Users *)

Write(u, row) ==
  /\ users' = [users EXCEPT ![u] = row]
  /\ UNCHANGED units

CreateUser(u) ==
  /\ users[u].status = "absent"
  /\ \E brand \in BrandIds \cup {TIADA}, roles \in SUBSET Roles, S \in SUBSET Units :
       LET row == [Sent(u, brand, roles, S) EXCEPT !.status = "aktif"] IN
       /\ ScopeFits(row) /\ UnitsFitRoles(row) /\ UnitsJoinable({}, row)
       /\ Write(u, row) /\ UNCHANGED removing

UpdateUser(u) ==
  /\ Exists(u) /\ u \notin LockedUsers
  /\ \E brand \in BrandIds \cup {TIADA}, roles \in SUBSET Roles, S \in SUBSET Units :
       LET row == Sent(u, brand, roles, S) IN
       /\ ScopeFits(row) /\ UnitsFitRoles(row) /\ UnitsJoinable(users[u].units, row)
       /\ ~Demotes(u, row)
       /\ Write(u, row) /\ UNCHANGED removing

(* The assignments a user has must fit the new roles too.                    *)
SetUserRoles(u, roles) ==
  LET row == [users[u] EXCEPT !.roles = roles] IN
  /\ Exists(u) /\ u \notin LockedUsers
  /\ ScopeFits(row) /\ UnitsFitRoles(row)
  /\ ~Demotes(u, row)
  /\ Write(u, row) /\ UNCHANGED removing

SetStatus(u, status) ==
  /\ Exists(u) /\ u \notin LockedUsers
  /\ status = "nonaktif" => ~ActiveSuper(u)
  /\ Write(u, [users[u] EXCEPT !.status = status]) /\ UNCHANGED removing

(* Foreign keys, and payments he verified, keep a user with a history.       *)
DeleteUser(u) ==
  /\ Exists(u) /\ u \notin LockedUsers
  /\ ~users[u].riwayat /\ ~ActiveSuper(u)
  /\ Write(u, [NoUser EXCEPT !.status = "deleted"]) /\ UNCHANGED removing

(* The user does something that refers to him (a booking, a payment, ...).   *)
ActsSomewhere(u) ==
  /\ users[u].status = "aktif" /\ u \notin LockedUsers
  /\ Write(u, [users[u] EXCEPT !.riwayat = TRUE]) /\ UNCHANGED removing

(* What the four operations write on an active super admin they take away.   *)
RemovalRows(u) ==
  {[users[u] EXCEPT !.status = "nonaktif"]}
  \cup (IF users[u].riwayat THEN {} ELSE {[NoUser EXCEPT !.status = "deleted"]})
  \cup {row \in {Sent(u, brand, roles, S) :
                   brand \in BrandIds \cup {TIADA}, roles \in SUBSET Roles, S \in SUBSET Units} :
          /\ Super \notin row.roles
          /\ ScopeFits(row) /\ UnitsFitRoles(row) /\ UnitsJoinable(users[u].units, row)}

(* The user is locked, what is sent was validated, its units are shared.     *)
RemovalBegin(a, u) ==
  /\ removing[a] = NoRemoval
  /\ ActiveSuper(u) /\ u \notin LockedUsers
  /\ \E row \in RemovalRows(u) : removing' = [removing EXCEPT ![a] = [user |-> u, row |-> row]]
  /\ UNCHANGED <<users, units>>

(* Fault: super admins of any status count.                                  *)
OtherSuperOfAnyStatus(a, u) == \E v \in Users \ {u} : Super \in users[v].roles

(* EnsureOtherActiveSuperAdmin: all of them locked, another one left.        *)
OtherSuperLocked(a, u) ==
  /\ \A b \in Removers \ {a} : ~(removing[b].user # TIADA /\ ActiveSuper(removing[b].user))
  /\ \E v \in Users \ {u} : ActiveSuper(v)

RemovalCommit(a) ==
  LET u == removing[a].user IN
  /\ u # TIADA
  /\ OtherSuperLocked(a, u)
  /\ Write(u, removing[a].row)
  /\ removing' = [removing EXCEPT ![a] = NoRemoval]

(* Nobody else is left, or the transaction lost a deadlock.                  *)
RemovalFails(a) ==
  /\ removing[a] # NoRemoval
  /\ ~OtherSuperLocked(a, removing[a].user)
  /\ removing' = [removing EXCEPT ![a] = NoRemoval]
  /\ UNCHANGED <<users, units>>

-----------------------------------------------------------------------------
(* Divisions and teams *)

Members(n) == {u \in Users : n \in users[u].units}

Teams(d) == {n \in Units : units[n].induk = d}

(* Fault: an admin may be assigning somebody to the unit.                    *)
UnitUnshared(n) == TRUE

(* Row lock: assignments in progress keep a unit from changing.              *)
UnitFree(n) == n \notin SharedUnits

(* validateParent: a division has no parent, a team an active division.      *)
ParentFits(jenis, induk) ==
  IF jenis = "divisi" THEN induk = TIADA
  ELSE /\ induk # TIADA /\ UnitFree(induk)
       /\ units[induk].jenis = "divisi" /\ units[induk].aktif

SetUnit(n, unit) ==
  /\ units' = [units EXCEPT ![n] = unit]
  /\ UNCHANGED <<users, removing>>

CreateUnit(n, jenis, induk) ==
  /\ units[n].jenis = "absent"
  /\ ParentFits(jenis, induk)
  /\ SetUnit(n, [jenis |-> jenis, induk |-> induk, aktif |-> TRUE])

(* A team moves to another division only while it has no members; a change   *)
(* of name alone is not modelled.                                            *)
MoveUnit(n, induk) ==
  /\ units[n].jenis # "absent" /\ UnitFree(n)
  /\ induk # units[n].induk
  /\ ParentFits(units[n].jenis, induk)
  /\ Members(n) = {}
  /\ SetUnit(n, [units[n] EXCEPT !.induk = induk])

ActivateUnit(n) ==
  /\ units[n].jenis # "absent" /\ UnitFree(n)
  /\ units[n].jenis = "tim" => UnitFree(units[n].induk) /\ units[units[n].induk].aktif
  /\ SetUnit(n, [units[n] EXCEPT !.aktif = TRUE])

DeactivateUnit(n) ==
  /\ units[n].jenis # "absent" /\ UnitFree(n)
  /\ ~\E t \in Teams(n) : units[t].aktif
  /\ SetUnit(n, [units[n] EXCEPT !.aktif = FALSE])

DeleteUnit(n) ==
  /\ units[n].jenis # "absent" /\ UnitFree(n)
  /\ Teams(n) = {} /\ Members(n) = {}
  /\ \A r \in Roles : DivisiAsal[r] # n
  /\ SetUnit(n, NoUnit)

-----------------------------------------------------------------------------
UserStep(u) ==
  \/ CreateUser(u) \/ UpdateUser(u)
  \/ \E roles \in SUBSET Roles : SetUserRoles(u, roles)
  \/ \E status \in {"aktif", "nonaktif"} : SetStatus(u, status)
  \/ DeleteUser(u) \/ ActsSomewhere(u)

RemovalStep(a) ==
  (\E u \in Users : RemovalBegin(a, u)) \/ RemovalCommit(a) \/ RemovalFails(a)

UnitStep(n) ==
  \/ \E jenis \in {"divisi", "tim"}, induk \in Units \cup {TIADA} : CreateUnit(n, jenis, induk)
  \/ \E induk \in Units : MoveUnit(n, induk)
  \/ ActivateUnit(n) \/ DeactivateUnit(n) \/ DeleteUnit(n)

DirectoryNext ==
  \/ \E u \in Users : UserStep(u)
  \/ \E a \in Removers : RemovalStep(a)
  \/ \E n \in Units : UnitStep(n)

DirectorySpec == DirectoryInit /\ [][DirectoryNext]_directoryVars

-----------------------------------------------------------------------------
(* Properties *)

(* Every column holds one of the values of its type, and the tree has two    *)
(* levels: teams under divisions.                                            *)
DirectoryTypeOK ==
  /\ users \in [Users -> [status : {"absent", "aktif", "nonaktif", "deleted"},
                          brand : BrandIds \cup {TIADA}, roles : SUBSET Roles,
                          units : SUBSET Units, riwayat : BOOLEAN]]
  /\ units \in [Units -> [jenis : {"absent", "divisi", "tim"},
                          induk : Units \cup {TIADA}, aktif : BOOLEAN]]
  /\ \A n \in Units :
       IF units[n].jenis = "tim" THEN units[n].induk \in {d \in Units : units[d].jenis = "divisi"}
                                 ELSE units[n].induk = TIADA
  /\ \A a \in Removers : removing[a].user \in Users \cup {TIADA}

(* However deactivations, deletions and changes of roles overlap, an active  *)
(* super admin is left.                                                      *)
SuperAdminRemains == \E u \in Users : ActiveSuper(u)

(* Whatever changes, a user's role, a team's division or an assignment, all  *)
(* assigned units exist and lie in the division of a role the user holds.    *)
AssignmentsFitRoles ==
  \A u \in Users :
    /\ \A n \in users[u].units : units[n].jenis # "absent"
    /\ UnitsFitRoles(users[u])

(* An active team belongs to an active division.                             *)
ActiveTeamInActiveDivision ==
  \A n \in Units : units[n].jenis = "tim" /\ units[n].aktif => units[units[n].induk].aktif

(* Nobody is assigned anew to a unit that was deactivated, or deleted,       *)
(* between the check of the assignment and its writing.                      *)
JoinsActiveUnits ==
  [][\A u \in Users : \A n \in users'[u].units \ users[u].units : units[n].aktif]_directoryVars

(* In every state: an active super admin, memberships that fit the member's  *)
(* roles and exist, and no active team in a division that is not, whatever   *)
(* two admins change at the same time.                                       *)
DirectoryInvariant ==
  DirectoryTypeOK /\ SuperAdminRemains /\ AssignmentsFitRoles /\ ActiveTeamInActiveDivision
=============================================================================
