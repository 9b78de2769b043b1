-------------------------- MODULE BackOfficeProofs --------------------------
(***************************************************************************)
(* Proofs about what the back office administers: for any users, roles and *)
(* units, and as many requests at the same time as there are, what the     *)
(* directory keeps, what the tokens of an account say of it, and what the  *)
(* packages of the catalogue are put together from.                        *)
(***************************************************************************)
EXTENDS AdminDirectory, AdminSessions, PackageCatalogue, TLAPS

-----------------------------------------------------------------------------
(* AdminDirectory: users, their roles, and the units they are assigned to *)

UserRow ==
  [status : {"absent", "aktif", "nonaktif", "deleted"}, brand : BrandIds \cup {TIADA},
   roles : SUBSET Roles, units : SUBSET Units, riwayat : BOOLEAN]

UnitRow == [jenis : {"absent", "divisi", "tim"}, induk : Units \cup {TIADA}, aktif : BOOLEAN]

RemovalRow == [user : Users \cup {TIADA}, row : UserRow]

(* The assignments of a row, existing units of its roles' divisions.         *)
RowFits(row) == UnitsFitRoles(row) /\ \A n \in row.units : units[n].jenis # "absent"

(* An open removal: what it writes fits still, and joins active units only.  *)
RemovalFits(g) ==
  /\ RowFits(g.row)
  /\ g.user # TIADA => ActiveSuper(g.user) /\ UnitsJoinable(users[g.user].units, g.row)

TreeFine(n) ==
  IF units[n].jenis = "tim"
  THEN /\ units[n].induk \in Units /\ units[units[n].induk].jenis = "divisi"
       /\ units[n].aktif => units[units[n].induk].aktif
  ELSE units[n].induk = TIADA

(* Removals of different users are open: nobody else changes their rows, and *)
(* nobody changes the units they assign.                                     *)
DirectoryInv ==
  /\ users \in [Users -> UserRow] /\ units \in [Units -> UnitRow]
  /\ removing \in [Removers -> RemovalRow]
  /\ \A n \in Units : TreeFine(n)
  /\ \A u \in Users : RowFits(users[u])
  /\ SuperAdminRemains
  /\ \A a \in Removers : RemovalFits(removing[a])
  /\ \A a, b \in Removers : a # b /\ removing[a].user # TIADA => removing[a].user # removing[b].user

LEMMA DirectoryInvSays ==
  ASSUME DirectoryInv
  PROVE  DirectoryInvariant
<1>1. DirectoryTypeOK
  <2>1. \A n \in Units :
          IF units[n].jenis = "tim" THEN units[n].induk \in {d \in Units : units[d].jenis = "divisi"}
                                    ELSE units[n].induk = TIADA
    BY DEF DirectoryInv, TreeFine
  <2>2. \A a \in Removers : removing[a].user \in Users \cup {TIADA}
    BY DEF DirectoryInv, RemovalRow
  <2> QED
    BY <2>1, <2>2 DEF DirectoryInv, DirectoryTypeOK, UserRow, UnitRow
<1>2. AssignmentsFitRoles
  BY DEF DirectoryInv, RowFits, AssignmentsFitRoles
<1>3. ActiveTeamInActiveDivision
  BY DEF DirectoryInv, TreeFine, ActiveTeamInActiveDivision
<1> QED
  BY <1>1, <1>2, <1>3 DEF DirectoryInv, DirectoryInvariant

LEMMA NoUserFits ==
  /\ NoUser \in UserRow /\ RowFits(NoUser)
  /\ NoRemoval \in RemovalRow /\ RemovalFits(NoRemoval) /\ NoRemoval.user = TIADA
<1>1. NoUser \in UserRow /\ NoUser.units = {} /\ NoUser.brand = TIADA
  BY DEF NoUser, UserRow
<1>2. RowFits(NoUser)
  BY <1>1 DEF RowFits, UnitsFitRoles
<1> QED
  BY <1>1, <1>2, DirectoryAssumption DEF NoRemoval, RemovalRow, RemovalFits

LEMMA DirectoryBegins ==
  ASSUME DirectoryInit
  PROVE  DirectoryInv
<1>1. PICK root \in Users :
        users = [u \in Users |->
          IF u = root THEN [NoUser EXCEPT !.status = "aktif", !.roles = {Super}] ELSE NoUser]
  BY DEF DirectoryInit
<1>2. PICK first : first = [NoUser EXCEPT !.status = "aktif", !.roles = {Super}]
  OBVIOUS
<1>3. first \in UserRow /\ first.units = {} /\ first.status = "aktif" /\ Super \in first.roles
  BY <1>2, NoUserFits, DirectoryAssumption DEF NoUser, UserRow
<1>4. \A u \in Users : users[u] = IF u = root THEN first ELSE NoUser
  BY <1>1, <1>2
<1>5. RowFits(first)
  BY <1>3 DEF RowFits, UnitsFitRoles
<1>6. users \in [Users -> UserRow] /\ \A u \in Users : RowFits(users[u])
  BY <1>1, <1>2, <1>3, <1>5, NoUserFits
<1>7. ActiveSuper(root)
  BY <1>3, <1>4 DEF ActiveSuper
<1>8. PICK d : d = [jenis |-> "divisi", induk |-> TIADA, aktif |-> TRUE]
  OBVIOUS
<1>9. d \in UnitRow /\ d.jenis = "divisi" /\ d.induk = TIADA
      /\ NoUnit \in UnitRow /\ NoUnit.jenis = "absent" /\ NoUnit.induk = TIADA
  BY <1>8 DEF UnitRow, NoUnit
<1>10. units = [n \in Units |-> IF n \in FirstDivisi THEN d ELSE NoUnit]
  BY <1>8 DEF DirectoryInit
<1>11. units \in [Units -> UnitRow] /\ \A n \in Units : TreeFine(n)
  BY <1>9, <1>10 DEF TreeFine
<1>12. /\ removing \in [Removers -> RemovalRow] /\ \A a \in Removers : RemovalFits(removing[a])
       /\ \A a \in Removers : removing[a].user = TIADA
  BY NoUserFits DEF DirectoryInit
<1> QED
  BY <1>6, <1>7, <1>11, <1>12 DEF DirectoryInv, SuperAdminRemains

-----------------------------------------------------------------------------
(* Users *)

(* One user's row is written: it fits, an active super admin is left, and no *)
(* removal of that user stays open.                                          *)
Written(u, row) ==
  /\ Write(u, row)
  /\ RowFits(row)
  /\ (ActiveSuper(u) => row.status = "aktif" /\ Super \in row.roles)
     \/ \E v \in Users \ {u} : ActiveSuper(v)
  /\ removing' \in [Removers -> RemovalRow]
  /\ \A a \in Removers : \/ removing'[a] = removing[a] /\ removing[a].user # u
                         \/ removing'[a] = NoRemoval

LEMMA WrittenKeeps ==
  ASSUME DirectoryInv, NEW u \in Users, NEW row \in UserRow, Written(u, row)
  PROVE  DirectoryInv'
<1>1. /\ users' \in [Users -> UserRow] /\ users'[u] = row /\ units' = units
      /\ \A v \in Users \ {u} : users'[v] = users[v]
  BY DEF DirectoryInv, Written, Write
<1>2. \A n \in Units : TreeFine(n)'
  BY <1>1 DEF DirectoryInv, TreeFine
<1>3. \A v \in Users : RowFits(users[v])'
  BY <1>1 DEF DirectoryInv, Written, RowFits, UnitsFitRoles, DivisiOf
<1>4. SuperAdminRemains'
  <2>1. PICK w \in Users : ActiveSuper(w)
    BY DEF DirectoryInv, SuperAdminRemains
  <2>2. CASE \E v \in Users \ {u} : ActiveSuper(v)
    BY <1>1, <2>2 DEF SuperAdminRemains, ActiveSuper
  <2>3. CASE ~ \E v \in Users \ {u} : ActiveSuper(v)
    BY <1>1, <2>1, <2>3 DEF SuperAdminRemains, ActiveSuper, Written
  <2> QED
    BY <2>2, <2>3
<1>5. ASSUME NEW a \in Removers
      PROVE  RemovalFits(removing[a])'
  <2>1. CASE removing'[a] = NoRemoval
    <3>1. NoRemoval.row = NoUser /\ NoUser.units = {} /\ NoUser.brand = TIADA /\ NoRemoval.user = TIADA
      BY DEF NoRemoval, NoUser
    <3> QED
      BY <2>1, <3>1 DEF RemovalFits, RowFits, UnitsFitRoles
  <2>2. CASE removing'[a] = removing[a] /\ removing[a].user # u
    <3>1. RemovalFits(removing[a]) /\ removing[a] \in RemovalRow
      BY DEF DirectoryInv
    <3>2. removing[a].user # TIADA => users'[removing[a].user] = users[removing[a].user]
      BY <1>1, <2>2, <3>1 DEF RemovalRow
    <3> QED
      BY <1>1, <2>2, <3>1, <3>2 DEF RemovalFits, ActiveSuper, RowFits, UnitsFitRoles, UnitsJoinable, DivisiOf
  <2> QED
    BY <2>1, <2>2 DEF Written
<1>6. \A a, b \in Removers : a # b /\ removing'[a].user # TIADA => removing'[a].user # removing'[b].user
  BY NoUserFits DEF DirectoryInv, Written
<1>7. units' \in [Units -> UnitRow] /\ removing' \in [Removers -> RemovalRow]
  BY <1>1 DEF DirectoryInv, Written
<1> QED
  BY <1>1, <1>2, <1>3, <1>4, <1>5, <1>6, <1>7 DEF DirectoryInv

(* Who is not locked has no open removal. *)
LEMMA UnlockedHasNone ==
  ASSUME DirectoryInv, NEW u \in Users, u \notin LockedUsers, removing' = removing
  PROVE  /\ removing' \in [Removers -> RemovalRow]
         /\ \A a \in Removers : removing'[a] = removing[a] /\ removing[a].user # u
BY DirectoryAssumption DEF DirectoryInv, LockedUsers

LEMMA SentRow ==
  ASSUME DirectoryInv, NEW u \in Users, NEW brand \in BrandIds \cup {TIADA},
         NEW roles \in SUBSET Roles, NEW S \in SUBSET Units
  PROVE  /\ Sent(u, brand, roles, S) \in UserRow
         /\ Sent(u, brand, roles, S).units = S /\ Sent(u, brand, roles, S).roles = roles
         /\ Sent(u, brand, roles, S).brand = brand
         /\ Sent(u, brand, roles, S).status = users[u].status
         /\ users[u] \in UserRow
BY DEF DirectoryInv, Sent, UserRow

LEMMA CreateUserKeeps ==
  ASSUME DirectoryInv, NEW u \in Users, CreateUser(u)
  PROVE  DirectoryInv'
<1>0. PICK brand \in BrandIds \cup {TIADA}, roles \in SUBSET Roles, S \in SUBSET Units :
        LET row == [Sent(u, brand, roles, S) EXCEPT !.status = "aktif"]
        IN  /\ UnitsFitRoles(row) /\ UnitsJoinable({}, row)
            /\ Write(u, row) /\ removing' = removing
  BY DEF CreateUser
<1>1. PICK sent : sent = Sent(u, brand, roles, S)
  OBVIOUS
<1>2. PICK row : row = [sent EXCEPT !.status = "aktif"]
  OBVIOUS
<1>3. sent \in UserRow
  BY <1>1, SentRow
<1>4. row \in UserRow
  BY <1>2, <1>3 DEF UserRow
<1>5. /\ users[u].status = "absent" /\ UnitsFitRoles(row) /\ UnitsJoinable({}, row)
      /\ Write(u, row) /\ removing' = removing
  BY <1>0, <1>1, <1>2 DEF CreateUser
<1>6. RowFits(row)
  BY <1>5 DEF RowFits, UnitsJoinable
<1>7. ~ ActiveSuper(u)
  BY <1>5 DEF ActiveSuper
<1>8. /\ removing' \in [Removers -> RemovalRow]
      /\ \A a \in Removers : removing'[a] = removing[a] /\ removing[a].user # u
  BY <1>5, <1>7, DirectoryAssumption DEF DirectoryInv, RemovalFits
<1>9. \E v \in Users \ {u} : ActiveSuper(v)
  BY <1>7 DEF DirectoryInv, SuperAdminRemains
<1> QED
  BY <1>4, <1>5, <1>6, <1>8, <1>9, WrittenKeeps DEF Written

(* A user who is not being removed is written over. *)
LEMMA OverwrittenKeeps ==
  ASSUME DirectoryInv, NEW u \in Users, NEW row \in UserRow, u \notin LockedUsers,
         Write(u, row), removing' = removing, RowFits(row),
         ActiveSuper(u) => row.status = "aktif" /\ Super \in row.roles
  PROVE  DirectoryInv'
<1>1. /\ removing' \in [Removers -> RemovalRow]
      /\ \A a \in Removers : removing'[a] = removing[a] /\ removing[a].user # u
  BY UnlockedHasNone
<1> QED
  BY <1>1, WrittenKeeps DEF Written

LEMMA UpdateUserKeeps ==
  ASSUME DirectoryInv, NEW u \in Users, UpdateUser(u)
  PROVE  DirectoryInv'
<1>0. PICK brand \in BrandIds \cup {TIADA}, roles \in SUBSET Roles, S \in SUBSET Units :
        LET row == Sent(u, brand, roles, S)
        IN  /\ UnitsFitRoles(row) /\ UnitsJoinable(users[u].units, row)
            /\ ~ Demotes(u, row) /\ Write(u, row) /\ removing' = removing
  BY DEF UpdateUser
<1>1. PICK row : row = Sent(u, brand, roles, S)
  OBVIOUS
<1>2. row \in UserRow /\ row.units = S /\ row.status = users[u].status
  BY <1>1, SentRow
<1>3. /\ u \notin LockedUsers /\ UnitsFitRoles(row) /\ UnitsJoinable(users[u].units, row)
      /\ ~ Demotes(u, row) /\ Write(u, row) /\ removing' = removing
  BY <1>0, <1>1 DEF UpdateUser
<1>4. RowFits(row)
  BY <1>3 DEF RowFits, UnitsJoinable
<1> QED
  BY <1>2, <1>3, <1>4, OverwrittenKeeps DEF Demotes, ActiveSuper

LEMMA UserKeeps ==
  ASSUME DirectoryInv, NEW u \in Users,
         \/ \E roles \in SUBSET Roles : SetUserRoles(u, roles)
         \/ \E status \in {"aktif", "nonaktif"} : SetStatus(u, status)
         \/ DeleteUser(u) \/ ActsSomewhere(u)
  PROVE  DirectoryInv'
<1>0. users[u] \in UserRow /\ RowFits(users[u])
  BY DEF DirectoryInv
<1>1. ASSUME NEW roles \in SUBSET Roles, SetUserRoles(u, roles)
      PROVE  DirectoryInv'
  <2>1. PICK row : row = [users[u] EXCEPT !.roles = roles]
    OBVIOUS
  <2>2. row \in UserRow /\ row.units = users[u].units /\ row.status = users[u].status
    BY <1>0, <2>1 DEF UserRow
  <2>3. /\ u \notin LockedUsers /\ UnitsFitRoles(row) /\ ~ Demotes(u, row)
        /\ Write(u, row) /\ removing' = removing
    BY <1>1, <2>1 DEF SetUserRoles
  <2>4. RowFits(row)
    BY <1>0, <2>2, <2>3 DEF RowFits
  <2> QED
    BY <2>2, <2>3, <2>4, OverwrittenKeeps DEF Demotes, ActiveSuper
<1>2. ASSUME NEW status \in {"aktif", "nonaktif"}, SetStatus(u, status)
      PROVE  DirectoryInv'
  <2>1. PICK row : row = [users[u] EXCEPT !.status = status]
    OBVIOUS
  <2>2. /\ row \in UserRow /\ row.units = users[u].units /\ row.status = status
        /\ row.roles = users[u].roles /\ row.brand = users[u].brand
    BY <1>0, <2>1 DEF UserRow
  <2>3. /\ u \notin LockedUsers /\ (status = "nonaktif" => ~ ActiveSuper(u))
        /\ Write(u, row) /\ removing' = removing
    BY <1>2, <2>1 DEF SetStatus
  <2>4. RowFits(row)
    BY <1>0, <2>2 DEF RowFits, UnitsFitRoles
  <2> QED
    BY <2>2, <2>3, <2>4, OverwrittenKeeps DEF ActiveSuper
<1>3. CASE DeleteUser(u)
  <2>1. PICK row : row = [NoUser EXCEPT !.status = "deleted"]
    OBVIOUS
  <2>2. row \in UserRow /\ row.units = {} /\ row.brand = TIADA
    BY <2>1, NoUserFits DEF UserRow, NoUser
  <2>3. RowFits(row)
    BY <2>2 DEF RowFits, UnitsFitRoles
  <2>4. u \notin LockedUsers /\ ~ ActiveSuper(u) /\ Write(u, row) /\ removing' = removing
    BY <1>3, <2>1 DEF DeleteUser
  <2> QED
    BY <2>2, <2>3, <2>4, OverwrittenKeeps
<1>4. CASE ActsSomewhere(u)
  <2>1. PICK row : row = [users[u] EXCEPT !.riwayat = TRUE]
    OBVIOUS
  <2>2. /\ row \in UserRow /\ row.units = users[u].units /\ row.status = users[u].status
        /\ row.roles = users[u].roles /\ row.brand = users[u].brand
    BY <1>0, <2>1 DEF UserRow
  <2>3. u \notin LockedUsers /\ Write(u, row) /\ removing' = removing
    BY <1>4, <2>1 DEF ActsSomewhere
  <2>4. RowFits(row)
    BY <1>0, <2>2 DEF RowFits, UnitsFitRoles
  <2> QED
    BY <2>2, <2>3, <2>4, OverwrittenKeeps DEF ActiveSuper
<1> QED
  BY <1>1, <1>2, <1>3, <1>4

-----------------------------------------------------------------------------
(* Removals of a super admin *)

(* What a removal may write is a row that fits.                              *)
LEMMA RemovalRowsFit ==
  ASSUME DirectoryInv, NEW u \in Users, NEW row \in RemovalRows(u)
  PROVE  row \in UserRow /\ RowFits(row) /\ UnitsJoinable(users[u].units, row)
<1>0. users[u] \in UserRow /\ RowFits(users[u])
  BY DEF DirectoryInv
<1>1. CASE row = [users[u] EXCEPT !.status = "nonaktif"]
  <2>1. /\ row \in UserRow /\ row.units = users[u].units /\ row.roles = users[u].roles
        /\ row.brand = users[u].brand
    BY <1>0, <1>1 DEF UserRow
  <2> QED
    BY <1>0, <2>1 DEF RowFits, UnitsFitRoles, UnitsJoinable
<1>2. CASE row = [NoUser EXCEPT !.status = "deleted"]
  <2>1. row \in UserRow /\ row.units = {} /\ row.brand = TIADA
    BY <1>2, NoUserFits DEF UserRow, NoUser
  <2> QED
    BY <2>1 DEF RowFits, UnitsFitRoles, UnitsJoinable
<1>3. ASSUME NEW brand \in BrandIds \cup {TIADA}, NEW roles \in SUBSET Roles, NEW S \in SUBSET Units,
             row = Sent(u, brand, roles, S), UnitsFitRoles(row), UnitsJoinable(users[u].units, row)
      PROVE  row \in UserRow /\ RowFits(row) /\ UnitsJoinable(users[u].units, row)
  BY <1>3, SentRow DEF RowFits, UnitsJoinable
<1> QED
  BY <1>1, <1>2, <1>3 DEF RemovalRows

(* Removals alone move: what is open fits. *)
LEMMA RemovalMoves ==
  ASSUME DirectoryInv, UNCHANGED <<users, units>>, removing' \in [Removers -> RemovalRow],
         \A a \in Removers : removing'[a] = removing[a] \/ RemovalFits(removing'[a]),
         \A a, b \in Removers : a # b /\ removing'[a].user # TIADA => removing'[a].user # removing'[b].user
  PROVE  DirectoryInv'
<1>1. ASSUME NEW a \in Removers
      PROVE  RemovalFits(removing[a])'
  <2>1. RemovalFits(removing'[a])
    BY DEF DirectoryInv
  <2> QED
    BY <2>1 DEF RemovalFits, ActiveSuper, RowFits, UnitsFitRoles, UnitsJoinable, DivisiOf
<1>2. /\ \A n \in Units : TreeFine(n)'
      /\ SuperAdminRemains'
      /\ \A u \in Users : RowFits(users[u])'
  BY DEF DirectoryInv, TreeFine, SuperAdminRemains, ActiveSuper, RowFits, UnitsFitRoles, DivisiOf
<1>3. users' \in [Users -> UserRow] /\ units' \in [Units -> UnitRow]
  BY DEF DirectoryInv
<1> QED
  BY <1>1, <1>2, <1>3 DEF DirectoryInv

LEMMA RemovalStepKeeps ==
  ASSUME DirectoryInv, NEW a \in Removers, RemovalStep(a)
  PROVE  DirectoryInv'
<1>0. removing \in [Removers -> RemovalRow] /\ removing[a] \in RemovalRow
  BY DEF DirectoryInv
<1>1. ASSUME NEW u \in Users, RemovalBegin(a, u)
      PROVE  DirectoryInv'
  <2>1. PICK row \in RemovalRows(u) : removing' = [removing EXCEPT ![a] = [user |-> u, row |-> row]]
    BY <1>1 DEF RemovalBegin
  <2>2. row \in UserRow /\ RowFits(row) /\ UnitsJoinable(users[u].units, row)
    BY <2>1, RemovalRowsFit
  <2>3. PICK g : g = [user |-> u, row |-> row]
    OBVIOUS
  <2>4. g \in RemovalRow /\ g.user = u /\ g.row = row
    BY <2>2, <2>3 DEF RemovalRow
  <2>5. RemovalFits(g)
    BY <1>1, <2>2, <2>4 DEF RemovalFits, RemovalBegin
  <2>6. /\ removing' \in [Removers -> RemovalRow] /\ removing'[a] = g
        /\ \A b \in Removers \ {a} : removing'[b] = removing[b]
    BY <1>0, <2>1, <2>3, <2>4
  <2>7. \A b \in Removers : removing[b].user # u
    BY <1>1, DirectoryAssumption DEF RemovalBegin, LockedUsers
  <2>8. \A b, c \in Removers : b # c /\ removing'[b].user # TIADA => removing'[b].user # removing'[c].user
    BY <2>4, <2>6, <2>7 DEF DirectoryInv
  <2>9. UNCHANGED <<users, units>>
    BY <1>1 DEF RemovalBegin
  <2>10. \A b \in Removers : removing'[b] = removing[b] \/ RemovalFits(removing'[b])
    BY <2>5, <2>6
  <2> QED
    BY <2>6, <2>8, <2>9, <2>10, RemovalMoves
<1>2. CASE RemovalCommit(a)
  <2>1. PICK u, row : u = removing[a].user /\ row = removing[a].row
    OBVIOUS
  <2>2. /\ u # TIADA /\ u \in Users /\ row \in UserRow
        /\ OtherSuperLocked(a, u) /\ Write(u, row) /\ removing' = [removing EXCEPT ![a] = NoRemoval]
    BY <1>0, <1>2, <2>1 DEF RemovalCommit, RemovalRow
  <2>3. RowFits(row)
    BY <2>1, <2>2 DEF DirectoryInv, RemovalFits
  <2>4. \E v \in Users \ {u} : ActiveSuper(v)
    BY <2>2 DEF OtherSuperLocked
  <2>5. /\ removing' \in [Removers -> RemovalRow] /\ removing'[a] = NoRemoval
        /\ \A b \in Removers \ {a} : removing'[b] = removing[b] /\ removing[b].user # u
    BY <1>0, <2>1, <2>2, NoUserFits DEF DirectoryInv
  <2>6. Written(u, row)
    BY <2>2, <2>3, <2>4, <2>5 DEF Written
  <2> QED
    BY <2>2, <2>6, WrittenKeeps
<1>3. CASE RemovalFails(a)
  <2>1. UNCHANGED <<users, units>> /\ removing' = [removing EXCEPT ![a] = NoRemoval]
    BY <1>3 DEF RemovalFails
  <2>2. /\ removing' \in [Removers -> RemovalRow] /\ removing'[a] = NoRemoval
        /\ \A b \in Removers \ {a} : removing'[b] = removing[b]
    BY <1>0, <2>1, NoUserFits
  <2>3. \A b, c \in Removers : b # c /\ removing'[b].user # TIADA => removing'[b].user # removing'[c].user
    BY <2>2, NoUserFits DEF DirectoryInv
  <2> QED
    BY <2>1, <2>2, <2>3, NoUserFits, RemovalMoves
<1> QED
  BY <1>1, <1>2, <1>3 DEF RemovalStep

-----------------------------------------------------------------------------
(* Divisions and teams *)

(* A unit changes that nobody is being assigned to: its teams and members    *)
(* keep a division, and its own place in the tree is fine.                   *)
UnitSet(n, unit) ==
  /\ SetUnit(n, unit)
  /\ n \notin SharedUnits
  /\ IF unit.jenis = "tim"
     THEN /\ unit.induk \in Units \ {n} /\ units[unit.induk].jenis = "divisi"
          /\ unit.aktif => units[unit.induk].aktif
     ELSE unit.induk = TIADA
  /\ Teams(n) # {} => unit.jenis = "divisi" /\ (unit.aktif \/ \A t \in Teams(n) : ~ units[t].aktif)
  /\ Members(n) # {} => unit.jenis # "absent" /\ unit.induk = units[n].induk

LEMMA UnitSetKeeps ==
  ASSUME DirectoryInv, NEW n \in Units, NEW unit \in UnitRow, UnitSet(n, unit)
  PROVE  DirectoryInv'
<1>1. /\ units' \in [Units -> UnitRow] /\ units'[n] = unit /\ users' = users /\ removing' = removing
      /\ \A m \in Units \ {n} : units'[m] = units[m]
  BY DEF DirectoryInv, UnitSet, SetUnit
<1>2. ASSUME NEW m \in Units
      PROVE  TreeFine(m)'
  <2>1. CASE m = n
    BY <1>1, <2>1 DEF TreeFine, UnitSet
  <2>2. CASE m # n /\ units[m].jenis = "tim" /\ units[m].induk = n
    <3>1. m \in Teams(n)
      BY <2>2 DEF Teams
    <3> QED
      BY <1>1, <2>2, <3>1 DEF TreeFine, UnitSet
  <2>3. CASE m # n /\ ~ (units[m].jenis = "tim" /\ units[m].induk = n)
    BY <1>1, <2>3 DEF TreeFine, DirectoryInv
  <2> QED
    BY <2>1, <2>2, <2>3
<1>3. ASSUME NEW row \in UserRow, RowFits(row),
             n \in row.units => unit.jenis # "absent" /\ unit.induk = units[n].induk
      PROVE  /\ \A m \in row.units : units'[m].jenis # "absent" /\ DivisiOf(m)' = DivisiOf(m)
  BY <1>1, <1>3 DEF RowFits, UserRow, DivisiOf
<1>4. ASSUME NEW u \in Users
      PROVE  RowFits(users[u])'
  <2>1. users[u] \in UserRow /\ RowFits(users[u])
    BY DEF DirectoryInv
  <2>2. n \in users[u].units => unit.jenis # "absent" /\ unit.induk = units[n].induk
    BY DEF UnitSet, Members
  <2>3. \A m \in users[u].units : units'[m].jenis # "absent" /\ DivisiOf(m)' = DivisiOf(m)
    BY <1>3, <2>1, <2>2
  <2> QED
    BY <1>1, <2>1, <2>3 DEF RowFits, UnitsFitRoles
<1>5. ASSUME NEW a \in Removers
      PROVE  RemovalFits(removing[a])'
  <2>1. removing[a] \in RemovalRow /\ RemovalFits(removing[a]) /\ n \notin removing[a].row.units
    BY DEF DirectoryInv, UnitSet, SharedUnits
  <2>2. \A m \in removing[a].row.units : m \in Units \ {n} /\ units'[m] = units[m]
    BY <1>1, <2>1 DEF RemovalRow, UserRow
  <2>3. \A m \in removing[a].row.units : DivisiOf(m)' = DivisiOf(m)
    BY <2>2 DEF DivisiOf
  <2>4. RowFits(removing[a].row)'
    BY <1>1, <2>1, <2>2, <2>3 DEF RemovalFits, RowFits, UnitsFitRoles
  <2> QED
    BY <1>1, <2>1, <2>2, <2>4 DEF RemovalFits, ActiveSuper, UnitsJoinable
<1>6. SuperAdminRemains'
  BY <1>1 DEF DirectoryInv, SuperAdminRemains, ActiveSuper
<1> QED
  BY <1>1, <1>2, <1>4, <1>5, <1>6 DEF DirectoryInv

LEMMA UnitStepKeeps ==
  ASSUME DirectoryInv, NEW n \in Units, UnitStep(n)
  PROVE  DirectoryInv'
<1>0. units[n] \in UnitRow /\ TreeFine(n)
  BY DEF DirectoryInv
<1>1. ASSUME NEW jenis \in {"divisi", "tim"}, NEW induk \in Units \cup {TIADA}, CreateUnit(n, jenis, induk)
      PROVE  DirectoryInv'
  <2>1. PICK unit : unit = [jenis |-> jenis, induk |-> induk, aktif |-> TRUE]
    OBVIOUS
  <2>2. unit \in UnitRow /\ unit.jenis = jenis /\ unit.induk = induk
    BY <2>1 DEF UnitRow
  <2>3. SetUnit(n, unit) /\ units[n].jenis = "absent" /\ ParentFits(jenis, induk)
    BY <1>1, <2>1 DEF CreateUnit
  <2>4. Teams(n) = {}
    BY <2>3, DirectoryAssumption DEF Teams, DirectoryInv, TreeFine
  <2>5. Members(n) = {}
    BY <2>3 DEF Members, DirectoryInv, RowFits
  <2>6. n \notin SharedUnits
    <3>1. ASSUME NEW a \in Removers
          PROVE  n \notin removing[a].row.units
      BY <2>3 DEF DirectoryInv, RemovalFits, RowFits
    <3> QED
      BY <3>1 DEF SharedUnits
  <2>7. IF unit.jenis = "tim"
        THEN /\ unit.induk \in Units \ {n} /\ units[unit.induk].jenis = "divisi"
             /\ unit.aktif => units[unit.induk].aktif
        ELSE unit.induk = TIADA
    BY <2>2, <2>3 DEF ParentFits
  <2> QED
    BY <2>2, <2>3, <2>4, <2>5, <2>6, <2>7, UnitSetKeeps DEF UnitSet
<1>2. ASSUME NEW induk \in Units, MoveUnit(n, induk)
      PROVE  DirectoryInv'
  <2>1. PICK unit : unit = [units[n] EXCEPT !.induk = induk]
    OBVIOUS
  <2>2. unit \in UnitRow /\ unit.jenis = units[n].jenis /\ unit.induk = induk /\ unit.aktif = units[n].aktif
    BY <1>0, <2>1 DEF UnitRow
  <2>3. /\ SetUnit(n, unit) /\ n \notin SharedUnits /\ Members(n) = {}
        /\ units[n].jenis # "absent" /\ ParentFits(units[n].jenis, induk)
    BY <1>2, <2>1 DEF MoveUnit, UnitFree
  <2>4. unit.jenis = "tim" /\ units[induk].jenis = "divisi" /\ units[induk].aktif
    BY <2>2, <2>3, DirectoryAssumption DEF ParentFits, UnitRow
  <2>5. Teams(n) = {}
    BY <2>2, <2>4, DirectoryAssumption DEF Teams, DirectoryInv, TreeFine
  <2> QED
    BY <2>2, <2>3, <2>4, <2>5, UnitSetKeeps DEF UnitSet
<1>3. CASE ActivateUnit(n)
  <2>1. PICK unit : unit = [units[n] EXCEPT !.aktif = TRUE]
    OBVIOUS
  <2>2. unit \in UnitRow /\ unit.jenis = units[n].jenis /\ unit.induk = units[n].induk /\ unit.aktif
    BY <1>0, <2>1 DEF UnitRow
  <2>3. /\ SetUnit(n, unit) /\ n \notin SharedUnits /\ units[n].jenis # "absent"
        /\ units[n].jenis = "tim" => units[units[n].induk].aktif
    BY <1>3, <2>1 DEF ActivateUnit, UnitFree
  <2>4. Teams(n) # {} => unit.jenis = "divisi"
    BY <2>2, DirectoryAssumption DEF Teams, DirectoryInv, TreeFine
  <2> QED
    BY <1>0, <2>2, <2>3, <2>4, UnitSetKeeps DEF UnitSet, TreeFine
<1>4. CASE DeactivateUnit(n)
  <2>1. PICK unit : unit = [units[n] EXCEPT !.aktif = FALSE]
    OBVIOUS
  <2>2. unit \in UnitRow /\ unit.jenis = units[n].jenis /\ unit.induk = units[n].induk /\ ~ unit.aktif
    BY <1>0, <2>1 DEF UnitRow
  <2>3. /\ SetUnit(n, unit) /\ n \notin SharedUnits /\ units[n].jenis # "absent"
        /\ \A t \in Teams(n) : ~ units[t].aktif
    BY <1>4, <2>1 DEF DeactivateUnit, UnitFree
  <2>4. Teams(n) # {} => unit.jenis = "divisi"
    BY <2>2, DirectoryAssumption DEF Teams, DirectoryInv, TreeFine
  <2>5. unit.jenis = "tim" => unit.induk \in Units \ {n} /\ units[unit.induk].jenis = "divisi"
    BY <1>0, <2>2 DEF TreeFine
  <2>6. unit.jenis # "tim" => unit.induk = TIADA
    BY <1>0, <2>2 DEF TreeFine
  <2> QED
    BY <2>2, <2>3, <2>4, <2>5, <2>6, UnitSetKeeps DEF UnitSet
<1>5. CASE DeleteUnit(n)
  <2>1. PICK unit : unit = NoUnit
    OBVIOUS
  <2>2. unit \in UnitRow /\ unit.jenis = "absent" /\ unit.induk = TIADA
    BY <2>1 DEF UnitRow, NoUnit
  <2>3. SetUnit(n, unit) /\ n \notin SharedUnits /\ Teams(n) = {} /\ Members(n) = {}
    BY <1>5, <2>1 DEF DeleteUnit, UnitFree
  <2> QED
    BY <2>2, <2>3, UnitSetKeeps DEF UnitSet
<1> QED
  BY <1>1, <1>2, <1>3, <1>4, <1>5 DEF UnitStep

LEMMA DirectoryNextKeeps ==
  ASSUME DirectoryInv, [DirectoryNext]_directoryVars
  PROVE  DirectoryInv'
<1>1. ASSUME NEW u \in Users, UserStep(u)
      PROVE  DirectoryInv'
  BY <1>1, CreateUserKeeps, UpdateUserKeeps, UserKeeps DEF UserStep
<1>2. ASSUME NEW a \in Removers, RemovalStep(a)
      PROVE  DirectoryInv'
  BY <1>2, RemovalStepKeeps
<1>3. ASSUME NEW n \in Units, UnitStep(n)
      PROVE  DirectoryInv'
  BY <1>3, UnitStepKeeps
<1>4. CASE UNCHANGED directoryVars
  BY <1>4, RemovalMoves DEF directoryVars, DirectoryInv
<1> QED
  BY <1>1, <1>2, <1>3, <1>4 DEF DirectoryNext

(* Whatever admins change at the same time: an active super admin is left,   *)
(* assignments fit the roles, and no active team is in a division that is    *)
(* not (adminuser/repository.go EnsureOtherActiveSuperAdmin, orgunit).       *)
THEOREM DirectoryStaysInOrder == DirectorySpec => [](DirectoryInv /\ DirectoryInvariant)
<1>1. DirectoryInit => DirectoryInv
  BY DirectoryBegins
<1>2. DirectoryInv /\ [DirectoryNext]_directoryVars => DirectoryInv'
  BY DirectoryNextKeeps
<1>3. DirectoryInv => DirectoryInvariant
  BY DirectoryInvSays
<1> QED
  BY <1>1, <1>2, <1>3, PTL DEF DirectorySpec

(* What JoinsActiveUnits says of one user. *)
JoinsActive(u) == \A n \in users'[u].units \ users[u].units : units[n].aktif

LEMMA StepsJoinActive ==
  ASSUME DirectoryInv, [DirectoryNext]_directoryVars, NEW u \in Users
  PROVE  JoinsActive(u)
<1>0. users \in [Users -> UserRow]
  BY DEF DirectoryInv
<1>1. ASSUME NEW v \in Users, NEW row \in UserRow, Write(v, row),
             \A n \in row.units : units[n].aktif \/ n \in users[v].units
      PROVE  JoinsActive(u)
  <2>1. users'[v] = row /\ \A w \in Users \ {v} : users'[w] = users[w]
    BY <1>0, <1>1 DEF Write
  <2> QED
    BY <1>1, <2>1 DEF JoinsActive
<1>2. CASE users' = users
  BY <1>2 DEF JoinsActive
<1>3. ASSUME NEW v \in Users, CreateUser(v)
      PROVE  JoinsActive(u)
  <2>0. PICK brand \in BrandIds \cup {TIADA}, roles \in SUBSET Roles, S \in SUBSET Units :
          LET row == [Sent(v, brand, roles, S) EXCEPT !.status = "aktif"]
          IN  Write(v, row) /\ UnitsJoinable({}, row)
    BY <1>3 DEF CreateUser
  <2>1. PICK sent : sent = Sent(v, brand, roles, S)
    OBVIOUS
  <2>2. sent \in UserRow
    BY <2>1, SentRow
  <2>3. PICK row : row = [sent EXCEPT !.status = "aktif"]
    OBVIOUS
  <2>4. row \in UserRow
    BY <2>2, <2>3 DEF UserRow
  <2>5. Write(v, row) /\ UnitsJoinable({}, row)
    BY <2>0, <2>1, <2>3
  <2> QED
    BY <1>1, <2>4, <2>5 DEF UnitsJoinable
<1>4. ASSUME NEW v \in Users, UpdateUser(v)
      PROVE  JoinsActive(u)
  <2>0. PICK brand \in BrandIds \cup {TIADA}, roles \in SUBSET Roles, S \in SUBSET Units :
          LET row == Sent(v, brand, roles, S)
          IN  Write(v, row) /\ UnitsJoinable(users[v].units, row)
    BY <1>4 DEF UpdateUser
  <2>1. PICK row : row = Sent(v, brand, roles, S)
    OBVIOUS
  <2>2. row \in UserRow
    BY <2>1, SentRow
  <2>3. Write(v, row) /\ UnitsJoinable(users[v].units, row)
    BY <2>0, <2>1
  <2> QED
    BY <1>1, <2>2, <2>3 DEF UnitsJoinable
<1>5. ASSUME NEW v \in Users,
             \/ \E roles \in SUBSET Roles : SetUserRoles(v, roles)
             \/ \E status \in {"aktif", "nonaktif"} : SetStatus(v, status)
             \/ DeleteUser(v) \/ ActsSomewhere(v)
      PROVE  JoinsActive(u)
  <2>1. users[v] \in UserRow
    BY <1>0
  <2>2. PICK row : Write(v, row) /\ row.units \in {users[v].units, {}}
    <3>1. ASSUME NEW roles \in SUBSET Roles, SetUserRoles(v, roles)
          PROVE  \E row : Write(v, row) /\ row.units \in {users[v].units, {}}
      BY <2>1, <3>1 DEF SetUserRoles, UserRow
    <3>2. ASSUME NEW status \in {"aktif", "nonaktif"}, SetStatus(v, status)
          PROVE  \E row : Write(v, row) /\ row.units \in {users[v].units, {}}
      BY <2>1, <3>2 DEF SetStatus, UserRow
    <3>3. CASE DeleteUser(v)
      BY <2>1, <3>3 DEF DeleteUser, UserRow, NoUser
    <3>4. CASE ActsSomewhere(v)
      BY <2>1, <3>4 DEF ActsSomewhere, UserRow
    <3> QED
      BY <1>5, <3>1, <3>2, <3>3, <3>4
  <2>3. users'[v] = row /\ \A w \in Users \ {v} : users'[w] = users[w]
    BY <1>0, <2>2 DEF Write
  <2> QED
    BY <2>2, <2>3 DEF JoinsActive
<1>6. ASSUME NEW a \in Removers, RemovalCommit(a)
      PROVE  JoinsActive(u)
  <2>1. PICK v, row : v = removing[a].user /\ row = removing[a].row
    OBVIOUS
  <2>2. v \in Users /\ row \in UserRow /\ Write(v, row) /\ UnitsJoinable(users[v].units, row)
    BY <1>6, <2>1 DEF RemovalCommit, DirectoryInv, RemovalRow, RemovalFits
  <2> QED
    BY <1>1, <2>2 DEF UnitsJoinable
<1>7. ASSUME NEW a \in Removers, (\E v \in Users : RemovalBegin(a, v)) \/ RemovalFails(a)
      PROVE  users' = users
  BY <1>7 DEF RemovalBegin, RemovalFails
<1>8. ASSUME NEW n \in Units, UnitStep(n)
      PROVE  users' = users
  BY <1>8 DEF UnitStep, CreateUnit, MoveUnit, ActivateUnit, DeactivateUnit, DeleteUnit, SetUnit
<1>9. UNCHANGED directoryVars => users' = users
  BY DEF directoryVars
<1> QED
  BY <1>2, <1>3, <1>4, <1>5, <1>6, <1>7, <1>8, <1>9 DEF DirectoryNext, UserStep, RemovalStep

(* Nobody is assigned anew to a unit that was deactivated or deleted between *)
(* the check of the assignment and its writing (replaceKeanggotaan).         *)
THEOREM ActiveUnitsJoined == DirectorySpec => JoinsActiveUnits
<1>1. DirectorySpec => []DirectoryInv
  BY DirectoryStaysInOrder, PTL
<1>2. DirectoryInv /\ [DirectoryNext]_directoryVars =>
        [\A u \in Users : \A n \in users'[u].units \ users[u].units : units[n].aktif]_directoryVars
  BY StepsJoinActive DEF JoinsActive
<1> QED
  BY <1>1, <1>2, PTL DEF DirectorySpec, JoinsActiveUnits

-----------------------------------------------------------------------------
(* AdminSessions: tokens and the account they were made from *)

AkunRow == [aktif : BOOLEAN, brand : Brands, roles : RoleSets,
            pver : 1..MaxVersion]

RefreshStates == {"absent", "aktif", "mati"}

(* What was made from the account when its version was at most v.            *)
AccessRow(v) ==
  [brand : Brands, role : Legacies, roles : RoleSets \cup {TAKADA}, pver : 0..v, dari : 0..v]

LoginRow(v) ==
  [step : {"idle", "checked", "known", "versioned", "ready"}, kind : {"login", "refresh"},
   brand : Brands \cup {TAKADA}, role : Legacies \cup {TAKADA}, roles : RoleSets \cup {TAKADA},
   pver : 0..v, dari : 0..v]

EntryRow(v) == [ada : BOOLEAN, aktif : BOOLEAN, pver : 0..v, tua : BOOLEAN]

LoadRow(v) == [ada : BOOLEAN, aktif : BOOLEAN, pver : 0..v]

(* A login or refresh knows the brand once it has read the account, the      *)
(* roles it has read are those of the version it has read, and the brand and *)
(* the old role are those of the version the account had then.               *)
LoginFine(read, row) ==
  /\ read.step \in {"known", "versioned", "ready"} =>
       /\ read.brand \in Brands /\ read.role \in Legacies
       /\ read.dari = row.pver => read.brand = row.brand /\ read.role = Legacy(row.roles)
  /\ read.step = "ready" /\ read.pver = row.pver => read.roles = row.roles

(* The same of a token.                                                      *)
TokenFine(t, row) ==
  t.pver = row.pver =>
    /\ t.roles = row.roles
    /\ t.dari = t.pver => t.brand = row.brand /\ t.role = Legacy(row.roles)

(* A login reads the version before the roles: roles that are newer than the *)
(* version belong to a version the token does not carry.                     *)
SessionsInv ==
  /\ SessionsTypeOK
  /\ \A q \in Logins : LoginFine(issuing[q], akun)
  /\ ClaimsMatchVersion

LEMMA SessionRows ==
  SessionsTypeOK <=>
    /\ akun \in AkunRow
    /\ refresh \in [Refreshes -> RefreshStates]
    /\ access \subseteq AccessRow(akun.pver)
    /\ issuing \in [Logins -> LoginRow(akun.pver)]
    /\ cache \in EntryRow(akun.pver)
    /\ loading \in [Loaders -> LoadRow(akun.pver)]
BY DEF SessionsTypeOK, AkunRow, RefreshStates, AccessRow, LoginRow, EntryRow, LoadRow

(* Rows made from an older account are rows made from the newer one.         *)
LEMMA RowsGrow ==
  ASSUME NEW v \in Nat, NEW w \in Nat, v <= w
  PROVE  /\ AccessRow(v) \subseteq AccessRow(w) /\ EntryRow(v) \subseteq EntryRow(w)
         /\ LoginRow(v) \subseteq LoginRow(w) /\ LoadRow(v) \subseteq LoadRow(w)
<1>1. 0..v \subseteq 0..w
  OBVIOUS
<1> QED
  BY <1>1 DEF AccessRow, EntryRow, LoginRow, LoadRow

LEMMA NothingYet ==
  ASSUME NEW v \in Nat
  PROVE  /\ NoLogin \in LoginRow(v) /\ NoLogin.step = "idle"
         /\ NoEntry \in EntryRow(v) /\ NoLoad \in LoadRow(v)
BY SessionsAssumption DEF NoLogin, NoEntry, NoLoad, LoginRow, EntryRow, LoadRow

LEMMA SessionsBegin ==
  ASSUME SessionsInit
  PROVE  SessionsInv
<1>1. akun \in AkunRow /\ akun.pver = 1
  <2>1. 1 \in 1..MaxVersion
    BY SessionsAssumption
  <2> QED
    BY <2>1 DEF SessionsInit, AkunRow
<1>2. /\ NoLogin \in LoginRow(1) /\ NoLogin.step = "idle"
      /\ NoEntry \in EntryRow(1) /\ NoLoad \in LoadRow(1)
  BY NothingYet
<1>3. SessionsTypeOK
  BY <1>1, <1>2, SessionRows DEF SessionsInit, RefreshStates
<1>4. \A q \in Logins : LoginFine(issuing[q], akun)
  BY <1>2 DEF SessionsInit, LoginFine
<1> QED
  BY <1>3, <1>4 DEF SessionsInv, ClaimsMatchVersion, SessionsInit

-----------------------------------------------------------------------------
(* The account changes: its version rises, or its roles and brand stay.      *)
AccountMoves ==
  /\ akun' \in AkunRow /\ akun'.pver >= akun.pver
  /\ akun'.pver > akun.pver \/ (akun'.roles = akun.roles /\ akun'.brand = akun.brand)
  /\ refresh' \in [Refreshes -> RefreshStates]
  /\ UNCHANGED <<access, issuing, cache, loading>>

LEMMA AccountMovesKeeps ==
  ASSUME SessionsInv, AccountMoves
  PROVE  SessionsInv'
<1>0. akun \in AkunRow /\ akun.pver \in Nat /\ akun'.pver \in Nat
  BY SessionRows DEF SessionsInv, AccountMoves, AkunRow
<1>1. PICK v \in Nat, w \in Nat : v = akun.pver /\ w = akun'.pver
  BY <1>0
<1>2. /\ AccessRow(v) \subseteq AccessRow(w) /\ EntryRow(v) \subseteq EntryRow(w)
      /\ LoginRow(v) \subseteq LoginRow(w) /\ LoadRow(v) \subseteq LoadRow(w)
  BY <1>1, RowsGrow DEF AccountMoves
<1>3. /\ access \subseteq AccessRow(v) /\ issuing \in [Logins -> LoginRow(v)]
      /\ cache \in EntryRow(v) /\ loading \in [Loaders -> LoadRow(v)]
  BY <1>1, SessionRows DEF SessionsInv
<1>4. SessionsTypeOK'
  <2>1. issuing' \in [Logins -> LoginRow(w)] /\ loading' \in [Loaders -> LoadRow(w)]
    BY <1>2, <1>3 DEF AccountMoves
  <2>2. access' \subseteq AccessRow(w) /\ cache' \in EntryRow(w)
    BY <1>2, <1>3 DEF AccountMoves
  <2> QED
    BY <1>1, <2>1, <2>2 DEF AccountMoves, SessionsTypeOK, AkunRow, RefreshStates, AccessRow, LoginRow, EntryRow, LoadRow
<1>5. ASSUME NEW q \in Logins
      PROVE  LoginFine(issuing'[q], akun')
  <2>1. /\ issuing[q].pver \in 0..v /\ issuing[q].dari \in 0..v
        /\ LoginFine(issuing[q], akun) /\ issuing'[q] = issuing[q]
    BY <1>3 DEF SessionsInv, AccountMoves, LoginRow
  <2> QED
    BY <1>0, <1>1, <2>1 DEF LoginFine, AccountMoves
<1>6. ClaimsMatchVersion'
  <2>1. ASSUME NEW t \in access
        PROVE  TokenFine(t, akun')
    <3>1. t.pver \in 0..v /\ TokenFine(t, akun)
      BY <1>3 DEF AccessRow, SessionsInv, ClaimsMatchVersion, TokenFine
    <3> QED
      BY <1>0, <1>1, <3>1 DEF AccountMoves, TokenFine
  <2> QED
    BY <2>1 DEF ClaimsMatchVersion, TokenFine, AccountMoves
<1> QED
  BY <1>4, <1>5, <1>6 DEF SessionsInv

LEMMA RevokedTyped ==
  ASSUME SessionsInv
  PROVE  Revoked \in [Refreshes -> RefreshStates] /\ refresh \in [Refreshes -> RefreshStates]
<1>1. refresh \in [Refreshes -> RefreshStates]
  BY SessionRows DEF SessionsInv
<1> QED
  BY <1>1 DEF Revoked, RefreshStates

LEMMA AccountKeeps ==
  ASSUME SessionsInv,
         \/ \E brand \in Brands, roles \in RoleSets : ChangeAccess(brand, roles)
         \/ Deactivate \/ Reactivate \/ SetPassword \/ EndSessions
         \/ \E k \in Refreshes : EndRefresh(k)
  PROVE  SessionsInv'
<1>0. akun \in AkunRow /\ akun.pver \in Nat
  BY SessionRows DEF SessionsInv, AkunRow
<1>1. ASSUME NEW brand \in Brands, NEW roles \in RoleSets, ChangeAccess(brand, roles)
      PROVE  AccountMoves
  <2>1. akun' = [akun EXCEPT !.brand = brand, !.roles = roles, !.pver = akun.pver + 1]
    BY <1>1 DEF ChangeAccess, Revised
  <2>2. akun.pver < MaxVersion /\ refresh' = Revoked /\ UNCHANGED <<access, issuing, cache, loading>>
    BY <1>1 DEF ChangeAccess, Revised
  <2>3. akun' \in AkunRow /\ akun'.pver = akun.pver + 1
    <3>1. akun.pver + 1 \in 1..MaxVersion
      BY <1>0, <2>2, SessionsAssumption
    <3> QED
      BY <1>0, <2>1, <3>1 DEF AkunRow
  <2> QED
    BY <1>0, <2>2, <2>3, RevokedTyped DEF AccountMoves
<1>2. CASE Deactivate
  <2>1. akun' = [akun EXCEPT !.aktif = FALSE, !.pver = akun.pver + 1]
    BY <1>2 DEF Deactivate, Revised
  <2>2. akun.pver < MaxVersion /\ refresh' = Revoked /\ UNCHANGED <<access, issuing, cache, loading>>
    BY <1>2 DEF Deactivate, Revised
  <2>3. akun' \in AkunRow /\ akun'.pver = akun.pver + 1
    <3>1. akun.pver + 1 \in 1..MaxVersion
      BY <1>0, <2>2, SessionsAssumption
    <3> QED
      BY <1>0, <2>1, <3>1 DEF AkunRow
  <2>4. AccountMoves
    BY <1>0, <2>2, <2>3, RevokedTyped DEF AccountMoves
  <2> QED
    BY <2>4, AccountMovesKeeps
<1>3. CASE Reactivate
  <2>1. akun' = [akun EXCEPT !.aktif = TRUE] /\ UNCHANGED <<refresh, access, issuing, cache, loading>>
    BY <1>3 DEF Reactivate
  <2>2. /\ akun' \in AkunRow /\ akun'.pver = akun.pver
        /\ akun'.roles = akun.roles /\ akun'.brand = akun.brand
    BY <1>0, <2>1 DEF AkunRow
  <2>3. AccountMoves
    BY <1>0, <2>1, <2>2, RevokedTyped DEF AccountMoves
  <2> QED
    BY <2>3, AccountMovesKeeps
<1>4. CASE SetPassword
  BY <1>0, <1>4, RevokedTyped, AccountMovesKeeps DEF SetPassword, AccountMoves
<1>5. CASE EndSessions
  <2>1. refresh' \in [Refreshes -> RefreshStates]
    BY <1>5, RevokedTyped DEF EndSessions
  <2>2. AccountMoves
    BY <1>0, <1>5, <2>1 DEF AccountMoves, EndSessions
  <2> QED
    BY <2>2, AccountMovesKeeps
<1>6. ASSUME NEW k \in Refreshes, EndRefresh(k)
      PROVE  SessionsInv'
  <2>4. refresh' \in [Refreshes -> RefreshStates]
    BY <1>6, RevokedTyped DEF EndRefresh, RefreshStates
  <2>5. AccountMoves
    BY <1>0, <1>6, <2>4 DEF AccountMoves, EndRefresh
  <2> QED
    BY <2>5, AccountMovesKeeps
<1> QED
  BY <1>1, <1>2, <1>3, <1>4, <1>5, <1>6, AccountMovesKeeps

-----------------------------------------------------------------------------
(* The account stays; a login goes on, a token is signed, the cache is       *)
(* filled.                                                                   *)
LEMMA AccountStays ==
  ASSUME SessionsInv, akun' = akun, refresh' \in [Refreshes -> RefreshStates],
         NEW rows, rows = issuing',
         rows \in [Logins -> LoginRow(akun.pver)],
         \A q \in Logins : LoginFine(rows[q], akun),
         \A t \in access' : t \in access \/ (t \in AccessRow(akun.pver) /\ TokenFine(t, akun)),
         cache' \in EntryRow(akun.pver), loading' \in [Loaders -> LoadRow(akun.pver)]
  PROVE  SessionsInv'
<1>1. access \subseteq AccessRow(akun.pver) /\ akun \in AkunRow
  BY SessionRows DEF SessionsInv
<1>2. access' \subseteq AccessRow(akun.pver) /\ \A t \in access' : TokenFine(t, akun)
  BY <1>1 DEF SessionsInv, ClaimsMatchVersion, TokenFine
<1>3. SessionsTypeOK'
  BY <1>1, <1>2 DEF SessionsTypeOK, AkunRow, RefreshStates, AccessRow, LoginRow, EntryRow, LoadRow
<1>4. ClaimsMatchVersion'
  BY <1>2 DEF ClaimsMatchVersion, TokenFine
<1> QED
  BY <1>3, <1>4 DEF SessionsInv

LEMMA LoginMoves ==
  ASSUME SessionsInv, NEW q \in Logins, NEW row \in LoginRow(akun.pver),
         LoginFine(row, akun), issuing' = [issuing EXCEPT ![q] = row],
         akun' = akun, refresh' \in [Refreshes -> RefreshStates], cache' = cache, loading' = loading,
         \A t \in access' : t \in access \/ (t \in AccessRow(akun.pver) /\ TokenFine(t, akun))
  PROVE  SessionsInv'
<1>1. /\ issuing \in [Logins -> LoginRow(akun.pver)]
      /\ cache \in EntryRow(akun.pver) /\ loading \in [Loaders -> LoadRow(akun.pver)]
  BY SessionRows DEF SessionsInv
<1>2. PICK rows : rows = issuing'
  OBVIOUS
<1>3. rows \in [Logins -> LoginRow(akun.pver)] /\ \A p \in Logins : LoginFine(rows[p], akun)
  BY <1>1, <1>2 DEF SessionsInv
<1> QED
  BY <1>1, <1>2, <1>3, AccountStays

LEMMA LoginStepKeeps ==
  ASSUME SessionsInv, NEW q \in Logins, LoginStep(q)
  PROVE  SessionsInv'
<1>0. /\ akun \in AkunRow /\ akun.pver \in Nat /\ akun.pver > 0
      /\ refresh \in [Refreshes -> RefreshStates]
      /\ issuing \in [Logins -> LoginRow(akun.pver)]
  BY SessionRows DEF SessionsInv, AkunRow
<1>1. issuing[q] \in LoginRow(akun.pver) /\ LoginFine(issuing[q], akun)
  BY <1>0 DEF SessionsInv
<1>2. NoLogin \in LoginRow(akun.pver) /\ LoginFine(NoLogin, akun)
  BY <1>0, NothingYet DEF LoginFine
<1>2a. ASSUME NEW read \in LoginRow(akun.pver)
      PROVE  Known(read) \in LoginRow(akun.pver) /\ LoginFine(Known(read), akun)
  <2>1. PICK row : row = [read EXCEPT !.step = "known", !.brand = akun.brand,
                                      !.role = Legacy(akun.roles), !.dari = akun.pver]
    OBVIOUS
  <2>2. akun.pver \in 0..akun.pver /\ Legacy(akun.roles) \in Legacies
    BY <1>0 DEF Legacy, Legacies
  <2>3. row \in LoginRow(akun.pver)
    BY <1>0, <2>1, <2>2 DEF LoginRow, AkunRow
  <2>4. row.step = "known" /\ row.brand = akun.brand /\ row.role = Legacy(akun.roles)
    BY <2>1 DEF LoginRow
  <2>5. LoginFine(row, akun)
    BY <1>0, <2>2, <2>4 DEF LoginFine, AkunRow
  <2> QED
    BY <2>1, <2>3, <2>5 DEF Known
<1>3. CASE LoginRead(q)
  <2>1. PICK row : row = Known(NoLogin)
    OBVIOUS
  <2>2. row \in LoginRow(akun.pver) /\ LoginFine(row, akun)
    BY <1>2, <1>2a, <2>1
  <2> QED
    BY <1>0, <1>3, <2>1, <2>2, LoginMoves DEF LoginRead, Unchanged
<1>4. ASSUME NEW k \in Refreshes, RefreshCheck(q, k)
      PROVE  SessionsInv'
  <2>1. PICK row : row = [NoLogin EXCEPT !.step = "checked", !.kind = "refresh"]
    OBVIOUS
  <2>2. row \in LoginRow(akun.pver) /\ LoginFine(row, akun)
    BY <1>0, <1>2, <2>1 DEF LoginRow, LoginFine
  <2> QED
    BY <1>0, <1>4, <2>1, <2>2, LoginMoves DEF RefreshCheck, Unchanged
<1>5. CASE RefreshRead(q)
  <2>1. PICK known : known = Known(issuing[q])
    OBVIOUS
  <2>2. known \in LoginRow(akun.pver) /\ LoginFine(known, akun)
    BY <1>1, <1>2a, <2>1
  <2>3. PICK row : row = IF akun.aktif THEN known ELSE NoLogin
    OBVIOUS
  <2>4. issuing' = [issuing EXCEPT ![q] = row]
    BY <1>5, <2>1, <2>3 DEF RefreshRead
  <2> QED
    BY <1>0, <1>2, <1>5, <2>2, <2>3, <2>4, LoginMoves DEF RefreshRead, Unchanged
<1>6. CASE ReadVersion(q)
  <2>1. PICK row : row = [issuing[q] EXCEPT !.step = "versioned", !.pver = akun.pver]
    OBVIOUS
  <2>2. row \in LoginRow(akun.pver) /\ LoginFine(row, akun)
    <3>1. 0 \in 0..akun.pver /\ akun.pver \in 0..akun.pver
      BY <1>0
    <3>2. row \in LoginRow(akun.pver)
      BY <1>1, <1>6, <1>0, <2>1, <3>1 DEF LoginRow, AkunRow, ReadVersion
    <3> QED
      BY <1>1, <1>6, <1>0, <2>1, <3>2 DEF LoginRow, LoginFine, AkunRow, ReadVersion
  <2>3. issuing' = [issuing EXCEPT ![q] = row]
    BY <1>0, <1>1, <1>6, <2>1 DEF ReadVersion, LoginRow
  <2> QED
    BY <1>0, <1>6, <2>2, <2>3, LoginMoves DEF ReadVersion, Unchanged
<1>7. CASE ReadRoles(q)
  <2>1. PICK row : row = [issuing[q] EXCEPT !.step = "ready", !.roles = akun.roles]
    OBVIOUS
  <2>2. row \in LoginRow(akun.pver) /\ LoginFine(row, akun)
    BY <1>0, <1>1, <1>7, <2>1 DEF LoginRow, LoginFine, ReadRoles, AkunRow
  <2>3. issuing' = [issuing EXCEPT ![q] = row]
    BY <1>0, <1>1, <1>7, <2>1 DEF ReadRoles, LoginRow
  <2> QED
    BY <1>0, <1>7, <2>2, <2>3, LoginMoves DEF ReadRoles, Unchanged
<1>8. CASE AccessFails(q)
  <2>1. PICK row : row = [issuing[q] EXCEPT !.step = "ready", !.roles = TAKADA, !.pver = 0]
    OBVIOUS
  <2>2. row \in LoginRow(akun.pver) /\ LoginFine(row, akun)
    <3>1. 0 \in 0..akun.pver /\ akun.pver \in 0..akun.pver
      BY <1>0
    <3>2. row \in LoginRow(akun.pver)
      BY <1>1, <1>8, <1>0, <2>1, <3>1 DEF LoginRow, AkunRow, AccessFails
    <3> QED
      BY <1>1, <1>8, <1>0, <2>1, <3>2 DEF LoginRow, LoginFine, AkunRow, AccessFails
  <2>3. issuing' = [issuing EXCEPT ![q] = row]
    BY <1>0, <1>1, <1>8, <2>1 DEF AccessFails, LoginRow
  <2> QED
    BY <1>0, <1>8, <2>2, <2>3, LoginMoves DEF AccessFails, Unchanged
<1>9. CASE Issue(q)
  <2>1. PICK t : t = Signed(issuing[q], issuing[q].pver)
    OBVIOUS
  <2>2. issuing[q].step = "ready" /\ access' = access \cup {t}
    BY <1>9, <2>1 DEF Issue
  <2>3. t \in AccessRow(akun.pver) /\ TokenFine(t, akun)
    BY <1>1, <2>1, <2>2 DEF Signed, AccessRow, LoginRow, LoginFine, TokenFine
  <2>4. refresh' \in [Refreshes -> RefreshStates]
    BY <1>0, <1>9 DEF Issue, RefreshStates
  <2> QED
    BY <1>2, <1>9, <2>2, <2>3, <2>4, LoginMoves DEF Issue
<1> QED
  BY <1>3, <1>4, <1>5, <1>6, <1>7, <1>8, <1>9 DEF LoginStep

LEMMA CacheKeeps ==
  ASSUME SessionsInv,
         \/ \E t \in access : ExpireAccess(t)
         \/ \E l \in Loaders, t \in access : LoadBegin(l, t)
         \/ \E l \in Loaders : LoadEnd(l)
         \/ Age \/ Restart
  PROVE  SessionsInv'
<1>0. /\ akun \in AkunRow /\ akun.pver \in Nat
      /\ refresh \in [Refreshes -> RefreshStates]
      /\ issuing \in [Logins -> LoginRow(akun.pver)]
      /\ cache \in EntryRow(akun.pver) /\ loading \in [Loaders -> LoadRow(akun.pver)]
      /\ \A q \in Logins : LoginFine(issuing[q], akun)
  BY SessionRows DEF SessionsInv, AkunRow
<1>1. /\ NoLogin \in LoginRow(akun.pver) /\ LoginFine(NoLogin, akun)
      /\ NoEntry \in EntryRow(akun.pver) /\ NoLoad \in LoadRow(akun.pver)
  BY <1>0, NothingYet DEF LoginFine
<1>2. PICK rows : rows = issuing'
  OBVIOUS
<1>3. ASSUME NEW t \in access, ExpireAccess(t)
      PROVE  SessionsInv'
  <2>1. rows = issuing /\ \A s \in access' : s \in access
    BY <1>2, <1>3 DEF ExpireAccess
  <2> QED
    BY <1>0, <1>2, <1>3, <2>1, AccountStays DEF ExpireAccess
<1>4. ASSUME NEW l \in Loaders, NEW t \in access, LoadBegin(l, t)
      PROVE  SessionsInv'
  <2>1. PICK row : row = [ada |-> TRUE, aktif |-> akun.aktif, pver |-> akun.pver]
    OBVIOUS
  <2>2. row \in LoadRow(akun.pver)
    BY <1>0, <2>1 DEF LoadRow, AkunRow
  <2>3. loading' \in [Loaders -> LoadRow(akun.pver)]
    BY <1>0, <1>4, <2>1, <2>2 DEF LoadBegin
  <2> QED
    BY <1>0, <1>2, <1>4, <2>3, AccountStays DEF LoadBegin
<1>5. ASSUME NEW l \in Loaders, LoadEnd(l)
      PROVE  SessionsInv'
  <2>1. loading' \in [Loaders -> LoadRow(akun.pver)]
    BY <1>0, <1>1, <1>5 DEF LoadEnd
  <2>2. cache' \in EntryRow(akun.pver)
    BY <1>0, <1>5 DEF LoadEnd, EntryRow, LoadRow
  <2> QED
    BY <1>0, <1>2, <1>5, <2>1, <2>2, AccountStays DEF LoadEnd
<1>6. CASE Age
  <2>1. cache' \in EntryRow(akun.pver)
    BY <1>0, <1>6 DEF Age, EntryRow
  <2> QED
    BY <1>0, <1>2, <1>6, <2>1, AccountStays DEF Age
<1>7. CASE Restart
  <2>1. /\ rows \in [Logins -> LoginRow(akun.pver)] /\ \A q \in Logins : LoginFine(rows[q], akun)
        /\ cache' \in EntryRow(akun.pver) /\ loading' \in [Loaders -> LoadRow(akun.pver)]
    BY <1>1, <1>2, <1>7 DEF Restart
  <2> QED
    BY <1>0, <1>2, <1>7, <2>1, AccountStays DEF Restart
<1> QED
  BY <1>3, <1>4, <1>5, <1>6, <1>7

LEMMA SessionsNextKeeps ==
  ASSUME SessionsInv, [SessionsNext]_svars
  PROVE  SessionsInv'
<1>1. CASE UNCHANGED svars
  BY <1>1 DEF svars, SessionsInv, SessionsTypeOK, ClaimsMatchVersion
<1>2. ASSUME NEW q \in Logins, LoginStep(q)
      PROVE  SessionsInv'
  BY <1>2, LoginStepKeeps
<1> QED
  BY <1>1, <1>2, AccountKeeps, CacheKeeps DEF SessionsNext

(* However the queries of a login or refresh interleave with changes of the  *)
(* account, a token of the account's version carries its roles, and its      *)
(* brand and old role if they were read at that version                      *)
(* (identity/handler.go Login and Refresh, rbac/repository.go GetUserAccess).*)
THEOREM TokensMatchTheirVersion == SessionsSpec => []SessionsInvariant
<1>1. SessionsInit => SessionsInv
  BY SessionsBegin
<1>2. SessionsInv /\ [SessionsNext]_svars => SessionsInv'
  BY SessionsNextKeeps
<1>3. SessionsInv => SessionsInvariant
  BY DEF SessionsInv, SessionsInvariant
<1> QED
  BY <1>1, <1>2, <1>3, PTL DEF SessionsSpec

-----------------------------------------------------------------------------
(* PackageCatalogue: packages and what they name *)

AccountRow == [merek : Merek, aktif : BOOLEAN]

PackageRow == [merek : Merek, nama : {"n1", "n2"}, acuan : SUBSET Acuan, dp : Nat \cup {-1},
               harga : Nat, dpRagu : BOOLEAN, namaRagu : BOOLEAN]

SaveTask   == [tugas : {"simpan"}, paket : Paket, form : Formulir, tetap : BOOLEAN,
               baru : BOOLEAN, bersih : BOOLEAN]
BrandTask  == [tugas : {"merek"}, merek : Merek, dp : DP, bersih : BOOLEAN]
DeleteTask == [tugas : {"hapus"}, acuan : Kategori \cup Bandara, bersih : BOOLEAN]
Tasks      == SaveTask \cup BrandTask \cup DeleteTask \cup {NoTask}

(* A package has its brand and the rows it names, and asks no more than it   *)
(* costs, up to doubt.                                                       *)
PackageFits(row) ==
  /\ merek[row.merek] # -1
  /\ \A r \in row.acuan \ Bandara : baris[r] # KOSONG
  /\ row.harga >= (IF row.dp = -1 THEN merek[row.merek] ELSE row.dp) \/ row.dpRagu

(* What a request checked still holds while nothing has overtaken it; the    *)
(* rows a save names are there even then.                                    *)
SaveFits(t) ==
  /\ merek[t.form.merek] # -1
  /\ \A r \in t.form.acuan \ Bandara : baris[r] # KOSONG
  /\ t.tetap => ~ t.baru
  /\ t.bersih => DPFits(t.form) /\ NameFree(t.paket, t.form)

BrandFits(t) ==
  t.bersih => \A p \in Packages : paket[p].merek = t.merek /\ paket[p].dp = -1 => t.dp <= paket[p].harga

DeleteFits(t) ==
  t.bersih => ~ Dipakai(t.acuan) \/ (t.acuan \in Bandara /\ baris[t.acuan] = {})

TaskFits(t) ==
  /\ t.tugas = "simpan" => SaveFits(t)
  /\ t.tugas = "merek"  => BrandFits(t)
  /\ t.tugas = "hapus"  => DeleteFits(t)

CatalogueTypes ==
  /\ merek \in [Merek -> DP \cup {-1}]
  /\ baris \in [Acuan -> {KOSONG} \cup (SUBSET Merek)]
  /\ rekening \in [Rekening -> AccountRow \cup {NoAccount}]
  /\ paket \in [Paket -> PackageRow \cup {NoPackage}]
  /\ kerja \in [Meja -> Tasks]

CatalogueInv ==
  /\ CatalogueTypes
  /\ dipesan \subseteq Packages
  /\ setoran \subseteq [paket : dipesan, merek : Merek]
  /\ \A r \in Rekening : rekening[r] # NoAccount => merek[rekening[r].merek] # -1
  /\ \A p \in Packages : PackageFits(paket[p])
  /\ NamesDiffer
  /\ PaidIntoItsBrand
  /\ \A m \in Meja : TaskFits(kerja[m])

LEMMA CatalogueInvSays ==
  ASSUME CatalogueInv
  PROVE  CatalogueInvariant
<1>1. DownPaymentFits
  BY DEF CatalogueInv, DownPaymentFits, PackageFits
<1>2. CatalogueTypeOK
  BY DEF CatalogueInv, CatalogueTypes, CatalogueTypeOK, PackageFits
<1> QED
  BY <1>1, <1>2 DEF CatalogueInv, CatalogueInvariant

(* KOSONG is no value of a column.                                           *)
LEMMA KosongIsNone ==
  /\ KOSONG \notin Merek /\ \A B \in SUBSET Merek : B # KOSONG
  /\ NoPackage \notin PackageRow
  /\ \A d \in DP : d \in Nat
<1>1. KOSONG \notin Merek /\ \A B \in SUBSET Merek : B # KOSONG
  BY CatalogueAssumption
<1>2. NoPackage \notin PackageRow
  BY <1>1 DEF NoPackage, PackageRow
<1> QED
  BY <1>1, <1>2, CatalogueAssumption

LEMMA FormIs ==
  ASSUME NEW form \in Formulir
  PROVE  /\ form.merek \in Merek /\ form.nama \in {"n1", "n2"} /\ form.acuan \subseteq Acuan
         /\ form.dp \in Nat \cup {-1} /\ form.harga \in Nat
BY CatalogueAssumption

(* What a request may be at, and what becomes of it when it is overtaken.    *)
LEMMA TaskIs ==
  ASSUME NEW t \in Tasks
  PROVE  /\ t.tugas = "simpan" => t \in SaveTask
         /\ t.tugas = "merek" => t \in BrandTask
         /\ t.tugas = "hapus" => t \in DeleteTask
         /\ t = NoTask => t.tugas = "tidak ada"
         /\ t.tugas = "tidak ada" => t = NoTask
<1>1. NoTask.tugas = "tidak ada"
  BY DEF NoTask
<1> QED
  BY <1>1 DEF Tasks, SaveTask, BrandTask, DeleteTask

LEMMA OvertakenIs ==
  ASSUME NEW t \in Tasks, t # NoTask, NEW o, o = [t EXCEPT !.bersih = FALSE]
  PROVE  /\ o \in Tasks /\ o.tugas = t.tugas /\ ~ o.bersih
         /\ o.tugas = "simpan" =>
              o.form = t.form /\ o.paket = t.paket /\ o.tetap = t.tetap /\ o.baru = t.baru
<1>1. CASE t \in SaveTask
  BY <1>1 DEF SaveTask, Tasks
<1>2. CASE t \in BrandTask
  BY <1>2 DEF BrandTask, Tasks
<1>3. CASE t \in DeleteTask
  BY <1>3 DEF DeleteTask, Tasks
<1> QED
  BY <1>1, <1>2, <1>3 DEF Tasks

LEMMA CatalogueBegins ==
  ASSUME CatalogueInit
  PROVE  CatalogueInv
<1>1. CatalogueTypes
  <2>1. merek \in [Merek -> DP \cup {-1}]
    <3>1. PICK none : none = -1
      OBVIOUS
    <3>2. merek = [b \in Merek |-> none] /\ none \in DP \cup {-1}
      BY <3>1 DEF CatalogueInit
    <3> QED
      BY <3>2
  <2>2. baris \in [Acuan -> {KOSONG} \cup (SUBSET Merek)]
    BY DEF CatalogueInit
  <2>3. rekening \in [Rekening -> AccountRow \cup {NoAccount}] /\ paket \in [Paket -> PackageRow \cup {NoPackage}]
    BY DEF CatalogueInit
  <2>4. kerja \in [Meja -> Tasks]
    BY DEF CatalogueInit, Tasks
  <2> QED
    BY <2>1, <2>2, <2>3, <2>4 DEF CatalogueTypes
<1>2. Packages = {}
  BY DEF CatalogueInit, Packages, Ada
<1>3. \A m \in Meja : TaskFits(kerja[m])
  BY DEF CatalogueInit, TaskFits, NoTask
<1> QED
  BY <1>1, <1>2, <1>3 DEF CatalogueInit, CatalogueInv, NamesDiffer, PaidIntoItsBrand

(* Steps that change neither brands, rows nor packages: a request checks,    *)
(* ends or rests, a package is booked or paid for, an account is opened or   *)
(* closed.                                                                   *)
LEMMA RowsRest ==
  ASSUME CatalogueInv, UNCHANGED <<merek, baris, paket>>,
         rekening' \in [Rekening -> AccountRow \cup {NoAccount}],
         \A r \in Rekening : rekening'[r] # NoAccount => merek[rekening'[r].merek] # -1,
         kerja' \in [Meja -> Tasks],
         \A m \in Meja : kerja'[m] = kerja[m] \/ TaskFits(kerja'[m]),
         dipesan' \subseteq Packages, setoran' \subseteq [paket : dipesan', merek : Merek],
         \A s \in setoran' : paket[s.paket].merek = s.merek
  PROVE  CatalogueInv'
<1>1. Packages' = Packages /\ \A p : Ada(p)' <=> Ada(p)
  BY DEF Packages, Ada
<1>2. \A p \in Packages : PackageFits(paket[p])'
  BY DEF CatalogueInv, PackageFits
<1>3. NamesDiffer' /\ PaidIntoItsBrand'
  BY <1>1 DEF CatalogueInv, NamesDiffer, PaidIntoItsBrand
<1>4. ASSUME NEW m \in Meja
      PROVE  TaskFits(kerja[m])'
  <2>1. PICK t : t = kerja'[m]
    OBVIOUS
  <2>2. TaskFits(t)
    BY <2>1 DEF CatalogueInv
  <2>3. TaskFits(t)'
    BY <1>1, <2>2 DEF TaskFits, SaveFits, BrandFits, DeleteFits, DPFits, NameFree, Bernama, NameTaken, Dipakai
  <2> QED
    BY <2>1, <2>3
<1> QED
  BY <1>1, <1>2, <1>3, <1>4 DEF CatalogueInv, CatalogueTypes

LEMMA CatalogueRests ==
  ASSUME CatalogueInv
  PROVE  /\ merek \in [Merek -> DP \cup {-1}] /\ baris \in [Acuan -> {KOSONG} \cup (SUBSET Merek)]
         /\ rekening \in [Rekening -> AccountRow \cup {NoAccount}]
         /\ \A r \in Rekening : rekening[r] # NoAccount => merek[rekening[r].merek] # -1
         /\ paket \in [Paket -> PackageRow \cup {NoPackage}] /\ kerja \in [Meja -> Tasks]
         /\ dipesan \subseteq Packages /\ setoran \subseteq [paket : dipesan, merek : Merek]
         /\ \A s \in setoran : paket[s.paket].merek = s.merek
         /\ \A p \in Packages : paket[p] \in PackageRow /\ PackageFits(paket[p])
         /\ \A m \in Meja : TaskFits(kerja[m])
BY DEF CatalogueInv, CatalogueTypes, PaidIntoItsBrand, Packages, Ada

(* A request passes its check: what it found holds.                          *)
LEMMA ChecksKeep ==
  ASSUME CatalogueInv, NEW m \in Meja,
         \/ \E p \in Paket, form \in Formulir :
              CreateSchedule(m, p, form) \/ UpdateSchedule(m, p, form)
         \/ \E b \in Merek, dp \in DP : UpdateBrandCheck(m, b, dp)
         \/ \E r \in Acuan : DeleteCategory(m, r) \/ DeleteAirport(m, r)
  PROVE  CatalogueInv'
<1>1. UNCHANGED <<merek, baris, rekening, paket, dipesan, setoran>>
  BY DEF CreateSchedule, UpdateSchedule, SaveCheck, UpdateBrandCheck, DeleteCategory,
     DeleteAirport, DeleteCheck
<1>2. ASSUME NEW t \in Tasks, TaskFits(t), kerja' = [kerja EXCEPT ![m] = t]
      PROVE  CatalogueInv'
  <2>1. kerja' \in [Meja -> Tasks] /\ \A n \in Meja : kerja'[n] = kerja[n] \/ TaskFits(kerja'[n])
    BY <1>2, CatalogueRests
  <2> QED
    BY <1>1, <2>1, CatalogueRests, RowsRest
<1>3. ASSUME NEW p \in Paket, NEW form \in Formulir, NEW tetap \in BOOLEAN,
             SaveCheck(m, p, form, tetap), tetap => Ada(p)
      PROVE  CatalogueInv'
  <2>1. PICK baru : baru = ~ Ada(p)
    OBVIOUS
  <2>2. baru \in BOOLEAN
    BY <2>1 DEF Ada
  <2>3. PICK t : t = [tugas |-> "simpan", paket |-> p, form |-> form, tetap |-> tetap,
                      baru |-> baru, bersih |-> TRUE]
    OBVIOUS
  <2>4. t \in SaveTask
    BY <2>2, <2>3 DEF SaveTask
  <2>5. t.tugas = "simpan" /\ t.form = form /\ t.paket = p /\ (t.tetap => ~ t.baru)
    BY <1>3, <2>1, <2>3
  <2>6. \A r \in form.acuan : baris[r] # KOSONG
    BY <1>3 DEF SaveCheck, RowsUsable
  <2>7. TaskFits(t)
    BY <1>3, <2>5, <2>6 DEF TaskFits, SaveFits, SaveCheck
  <2>8. kerja' = [kerja EXCEPT ![m] = t]
    BY <1>3, <2>1, <2>3 DEF SaveCheck
  <2> QED
    BY <1>2, <2>4, <2>7, <2>8 DEF Tasks
<1>4. ASSUME NEW b \in Merek, NEW dp \in DP, UpdateBrandCheck(m, b, dp)
      PROVE  CatalogueInv'
  <2>1. PICK t : t = [tugas |-> "merek", merek |-> b, dp |-> dp, bersih |-> TRUE]
    OBVIOUS
  <2>2. t \in BrandTask /\ t.tugas = "merek" /\ t.merek = b /\ t.dp = dp
    BY <2>1 DEF BrandTask
  <2>3. TaskFits(t)
    BY <1>4, <2>2 DEF TaskFits, BrandFits, UpdateBrandCheck, Packages
  <2>4. kerja' = [kerja EXCEPT ![m] = t]
    BY <1>4, <2>1 DEF UpdateBrandCheck
  <2> QED
    BY <1>2, <2>2, <2>3, <2>4 DEF Tasks
<1>5. ASSUME NEW r \in Acuan, DeleteCategory(m, r) \/ DeleteAirport(m, r)
      PROVE  CatalogueInv'
  <2>1. PICK t : t = [tugas |-> "hapus", acuan |-> r, bersih |-> TRUE]
    OBVIOUS
  <2>2. t \in DeleteTask /\ t.tugas = "hapus" /\ t.acuan = r
    BY <1>5, <2>1 DEF DeleteTask, DeleteCategory, DeleteAirport
  <2>3. TaskFits(t)
    BY <1>5, <2>2 DEF TaskFits, DeleteFits, DeleteCategory, DeleteAirport, CodeNamed
  <2>4. kerja' = [kerja EXCEPT ![m] = t]
    BY <1>5, <2>1 DEF DeleteCategory, DeleteAirport, DeleteCheck
  <2> QED
    BY <1>2, <2>2, <2>3, <2>4 DEF Tasks
<1>6. ASSUME NEW p \in Paket, NEW form \in Formulir,
             CreateSchedule(m, p, form) \/ UpdateSchedule(m, p, form)
      PROVE  CatalogueInv'
  BY <1>3, <1>6 DEF CreateSchedule, UpdateSchedule
<1> QED
  BY <1>4, <1>5, <1>6

LEMMA EndOrRestKeeps ==
  ASSUME CatalogueInv, (\E m \in Meja : TaskEnds(m)) \/ UNCHANGED catalogueVars
  PROVE  CatalogueInv'
<1>1. TaskFits(NoTask) /\ NoTask \in Tasks
  BY DEF TaskFits, NoTask, Tasks
<1>2. /\ kerja' \in [Meja -> Tasks] /\ \A m \in Meja : kerja'[m] = kerja[m] \/ TaskFits(kerja'[m])
      /\ UNCHANGED <<merek, baris, rekening, paket, dipesan, setoran>>
  BY <1>1, CatalogueRests DEF TaskEnds, catalogueVars
<1> QED
  BY <1>2, CatalogueRests, RowsRest

LEMMA SalesKeep ==
  ASSUME CatalogueInv, NEW p \in Paket,
         Booked(p) \/ DraftsDeleted(p) \/ \E r \in Rekening : PaidInto(p, r)
  PROVE  CatalogueInv'
<1>1. UNCHANGED <<merek, baris, rekening, paket, kerja>>
  BY DEF Booked, DraftsDeleted, PaidInto
<1>2. ASSUME dipesan' \subseteq Packages, setoran' \subseteq [paket : dipesan', merek : Merek],
             \A s \in setoran' : paket[s.paket].merek = s.merek
      PROVE  CatalogueInv'
  BY <1>1, <1>2, CatalogueRests, RowsRest
<1>3. CASE Booked(p)
  <2>1. dipesan' \subseteq Packages /\ dipesan \subseteq dipesan' /\ setoran' = setoran
    BY <1>3, CatalogueRests DEF Booked, Packages
  <2>2. setoran' \subseteq [paket : dipesan', merek : Merek]
    BY <2>1, CatalogueRests
  <2> QED
    BY <1>2, <2>1, <2>2, CatalogueRests
<1>4. CASE DraftsDeleted(p)
  <2>1. dipesan' = dipesan \ {p} /\ setoran' = setoran /\ \A s \in setoran : s.paket # p
    BY <1>4 DEF DraftsDeleted
  <2>2. setoran' \subseteq [paket : dipesan', merek : Merek]
    BY <2>1, CatalogueRests
  <2> QED
    BY <1>2, <2>1, <2>2, CatalogueRests
<1>5. ASSUME NEW r \in Rekening, PaidInto(p, r)
      PROVE  CatalogueInv'
  <2>1. PICK b : b = rekening[r].merek
    OBVIOUS
  <2>2. PICK s : s = [paket |-> p, merek |-> b]
    OBVIOUS
  <2>3. /\ setoran' = setoran \cup {s} /\ dipesan' = dipesan /\ p \in dipesan
        /\ paket[p].merek = b /\ rekening[r].aktif
    BY <1>5, <2>1, <2>2 DEF PaidInto
  <2>4. b \in Merek
    <3>1. rekening[r] # NoAccount
      BY <2>3 DEF NoAccount
    <3> QED
      BY <2>1, <3>1, CatalogueRests DEF AccountRow
  <2>5. s \in [paket : dipesan', merek : Merek] /\ s.paket = p /\ s.merek = b
    BY <2>2, <2>3, <2>4
  <2> QED
    BY <1>2, <2>3, <2>5, CatalogueRests
<1> QED
  BY <1>3, <1>4, <1>5

LEMMA AccountsKeep ==
  ASSUME CatalogueInv, NEW r \in Rekening,
         \/ DeleteBankAccount(r)
         \/ \E b \in Merek, aktif \in BOOLEAN :
              CreateBankAccount(r, b, aktif) \/ UpdateBankAccount(r, b, aktif)
  PROVE  CatalogueInv'
<1>1. UNCHANGED <<merek, baris, paket, dipesan, setoran, kerja>>
  BY DEF DeleteBankAccount, CreateBankAccount, UpdateBankAccount, BankAccount
<1>2. ASSUME NEW row \in AccountRow \cup {NoAccount}, row # NoAccount => merek[row.merek] # -1,
             rekening' = [rekening EXCEPT ![r] = row]
      PROVE  CatalogueInv'
  <2>1. /\ rekening' \in [Rekening -> AccountRow \cup {NoAccount}]
        /\ \A q \in Rekening : rekening'[q] # NoAccount => merek[rekening'[q].merek] # -1
    BY <1>2, CatalogueRests
  <2> QED
    BY <1>1, <2>1, CatalogueRests, RowsRest
<1>3. CASE DeleteBankAccount(r)
  BY <1>2, <1>3 DEF DeleteBankAccount
<1>4. ASSUME NEW b \in Merek, NEW aktif \in BOOLEAN,
             CreateBankAccount(r, b, aktif) \/ UpdateBankAccount(r, b, aktif)
      PROVE  CatalogueInv'
  <2>1. PICK row : row = [merek |-> b, aktif |-> aktif]
    OBVIOUS
  <2>2. row \in AccountRow /\ row.merek = b
    BY <2>1 DEF AccountRow
  <2>3. merek[b] # -1 /\ rekening' = [rekening EXCEPT ![r] = row]
    BY <1>4, <2>1 DEF CreateBankAccount, UpdateBankAccount, BankAccount
  <2> QED
    BY <1>2, <2>2, <2>3
<1> QED
  BY <1>3, <1>4

(* A write that keeps brands and rows leaves every other request to find     *)
(* what it names, and in doubt about the rest, but deletions of rows that    *)
(* nobody names because of it.                                               *)
LEMMA OvertakingFits ==
  ASSUME CatalogueInv, NEW m \in Meja, NEW R, kerja' = Menyalip(m, R), baris' = baris,
         \A x \in Acuan \ R : Dipakai(x)' => Dipakai(x),
         \A b \in Merek : merek[b] # -1 => merek'[b] # -1
  PROVE  kerja' \in [Meja -> Tasks] /\ \A n \in Meja : TaskFits(kerja[n])'
<1>1. NoTask \in Tasks /\ NoTask.tugas = "tidak ada"
  BY DEF NoTask, Tasks
<1>2. ASSUME NEW n \in Meja
      PROVE  kerja'[n] \in Tasks /\ TaskFits(kerja[n])'
  <2>1. PICK t, o : t = kerja[n] /\ o = [t EXCEPT !.bersih = FALSE]
    OBVIOUS
  <2>2. t \in Tasks /\ TaskFits(t)
    BY <2>1, CatalogueRests
  <2>3. CASE kerja'[n] = NoTask
    BY <1>1, <2>3 DEF TaskFits
  <2>4. CASE t # NoTask /\ kerja'[n] = o
    <3>1. /\ o \in Tasks /\ o.tugas = t.tugas /\ ~ o.bersih
          /\ o.tugas = "simpan" => o.form = t.form /\ o.tetap = t.tetap /\ o.baru = t.baru
      BY <2>1, <2>2, <2>4, OvertakenIs
    <3>2. o.tugas = "simpan" => t.form \in Formulir
      BY <2>2, <3>1, TaskIs DEF SaveTask
    <3>3. TaskFits(o)'
      BY <2>2, <3>1, <3>2, FormIs DEF TaskFits, SaveFits, BrandFits, DeleteFits
    <3> QED
      BY <2>4, <3>1, <3>3
  <2>5. CASE t.tugas = "hapus" /\ t.acuan \notin R /\ kerja'[n] = t
    <3>1. t.acuan \in Acuan \ R
      BY <2>2, <2>5, TaskIs DEF DeleteTask, Acuan
    <3>2. DeleteFits(t)'
      BY <2>2, <2>5, <3>1 DEF TaskFits, DeleteFits
    <3>3. TaskFits(t)'
      BY <2>5, <3>2 DEF TaskFits
    <3> QED
      BY <2>2, <2>5, <3>3
  <2> QED
    BY <2>1, <2>3, <2>4, <2>5 DEF Menyalip
<1>3. kerja' = [n \in Meja |-> kerja'[n]]
  BY DEF Menyalip
<1> QED
  BY <1>2, <1>3

LEMMA SavesKeep ==
  ASSUME CatalogueInv, NEW m \in Meja, Create(m) \/ Update(m)
  PROVE  CatalogueInv'
<1>1. PICK t, p, form, row : /\ t = kerja[m] /\ p = t.paket /\ form = t.form
                             /\ row = Tersimpan(p, form, Named(t), t.bersih)
  OBVIOUS
<1>2. t \in SaveTask /\ SaveFits(t)
  BY <1>1, CatalogueRests, TaskIs DEF Create, Update, TaskFits
<1>3. p \in Paket /\ form \in Formulir /\ t.bersih \in BOOLEAN
  BY <1>1, <1>2 DEF SaveTask
<1>4. /\ form.merek \in Merek /\ form.nama \in {"n1", "n2"} /\ form.acuan \subseteq Acuan
      /\ form.dp \in Nat \cup {-1} /\ form.harga \in Nat
  BY <1>3, FormIs
<1>5. PICK acuan, ragu, nragu : /\ acuan = Named(t)
                         /\ ragu = ~ t.bersih
                         /\ nragu = (~ t.bersih \/ (Bernama(p, form) /\ paket[p].namaRagu))
  OBVIOUS
<1>6. row = [merek |-> form.merek, nama |-> form.nama, acuan |-> acuan, dp |-> form.dp,
             harga |-> form.harga, dpRagu |-> ragu, namaRagu |-> nragu]
  BY <1>1, <1>5 DEF Tersimpan
<1>7. ragu \in BOOLEAN /\ nragu \in BOOLEAN
  <2>1. Bernama(p, form) => paket[p].namaRagu \in BOOLEAN
    BY <1>3, CatalogueRests DEF Bernama, Packages, PackageRow
  <2> QED
    BY <1>3, <1>5, <2>1
<1>8. acuan \in SUBSET Acuan /\ \A r \in acuan \ Bandara : baris[r] # KOSONG
  <2>1. \A r \in form.acuan \ Bandara : baris[r] # KOSONG
    BY <1>1, <1>2 DEF SaveFits
  <2>2. CASE t.tetap
    <3>1. p \in Packages
      BY <1>1, <1>2, <1>3, <2>2 DEF SaveFits, Create, Update, Packages
    <3>2. paket[p].acuan \subseteq Acuan /\ \A r \in paket[p].acuan \ Bandara : baris[r] # KOSONG
      BY <3>1, CatalogueRests DEF PackageRow, PackageFits
    <3>3. acuan = form.acuan \cup (paket[p].acuan \cap Destinasi)
      BY <1>1, <1>5, <2>2 DEF Named
    <3> QED
      BY <1>4, <2>1, <3>2, <3>3
  <2>3. CASE ~ t.tetap
    <3>1. acuan = form.acuan
      BY <1>1, <1>5, <2>3 DEF Named
    <3> QED
      BY <1>4, <2>1, <3>1
  <2> QED
    BY <2>2, <2>3
<1>9. /\ row \in PackageRow
      /\ row.merek = form.merek /\ row.nama = form.nama /\ row.acuan = acuan /\ row.dp = form.dp
      /\ row.harga = form.harga /\ row.dpRagu = ragu /\ row.namaRagu = nragu
  BY <1>4, <1>6, <1>7, <1>8 DEF PackageRow
<1>10. /\ paket' = [paket EXCEPT ![p] = row] /\ kerja' = Menyalip(m, acuan)
      /\ UNCHANGED <<merek, baris, rekening, dipesan, setoran>>
  BY <1>1, <1>5 DEF Create, Update, Saved
<1>11. /\ paket' \in [Paket -> PackageRow \cup {NoPackage}] /\ paket'[p] = row
       /\ \A q \in Paket \ {p} : paket'[q] = paket[q]
       /\ Packages' = Packages \cup {p}
  BY <1>3, <1>9, <1>10, CatalogueRests, KosongIsNone DEF Packages, Ada
<1>12. PackageFits(row)'
  <2>1. t.bersih => DPFits(form)
    BY <1>1, <1>2 DEF SaveFits
  <2>2. merek[form.merek] # -1
    BY <1>1, <1>2 DEF SaveFits
  <2> QED
    BY <1>5, <1>9, <1>10, <1>8, <2>1, <2>2 DEF PackageFits, DPFits
<1>13. ASSUME NEW q \in Packages'
       PROVE  PackageFits(paket[q])'
  <2>1. CASE q = p
    BY <1>11, <1>12, <2>1
  <2>2. CASE q # p
    BY <1>10, <1>11, <2>2, CatalogueRests DEF PackageFits, Packages
  <2> QED
    BY <2>1, <2>2
<1>14. ASSUME NEW q \in Packages, q # p, paket[q].merek = row.merek, paket[q].nama = row.nama
       PROVE  row.namaRagu \/ paket[q].namaRagu
  <2>1. NameTaken(p, form)
    BY <1>9, <1>14 DEF NameTaken, Packages
  <2>2. t.bersih => Bernama(p, form)
    BY <1>1, <1>2, <2>1 DEF SaveFits, NameFree
  <2>3. CASE Bernama(p, form)
    <3>1. p \in Packages /\ paket[p].merek = row.merek /\ paket[p].nama = row.nama
      BY <1>3, <1>9, <2>3 DEF Bernama, Packages
    <3>2. paket[p].namaRagu \/ paket[q].namaRagu
      BY <1>14, <3>1 DEF CatalogueInv, NamesDiffer
    <3> QED
      BY <1>5, <1>9, <2>3, <3>2
  <2>4. CASE ~ t.bersih
    BY <1>5, <1>9, <2>4
  <2> QED
    BY <2>2, <2>3, <2>4
<1>15. NamesDiffer'
  <2> SUFFICES ASSUME NEW a \in Packages', NEW b \in Packages', a # b,
                      paket'[a].merek = paket'[b].merek, paket'[a].nama = paket'[b].nama
               PROVE  paket'[a].namaRagu \/ paket'[b].namaRagu
    BY DEF NamesDiffer
  <2>1. CASE a = p
    BY <1>11, <1>14, <2>1 DEF Packages
  <2>2. CASE b = p
    BY <1>11, <1>14, <2>2 DEF Packages
  <2>3. CASE a # p /\ b # p
    <3>1. a \in Packages /\ b \in Packages /\ paket'[a] = paket[a] /\ paket'[b] = paket[b]
      BY <1>11, <2>3 DEF Packages
    <3> QED
      BY <3>1 DEF CatalogueInv, NamesDiffer
  <2> QED
    BY <2>1, <2>2, <2>3
<1>16. p \in dipesan => row.merek = paket[p].merek
  <2>1. CASE Create(m)
    BY <1>1, <2>1, CatalogueRests DEF Create, Packages
  <2>2. CASE Update(m)
    BY <1>1, <1>9, <2>2 DEF Update, BrandMayChange
  <2> QED
    BY <2>1, <2>2
<1>17. PaidIntoItsBrand'
  <2> SUFFICES ASSUME NEW s \in setoran PROVE paket'[s.paket].merek = s.merek
    BY <1>10 DEF PaidIntoItsBrand
  <2>1. s.paket \in dipesan /\ s.paket \in Paket /\ paket[s.paket].merek = s.merek
    BY CatalogueRests DEF Packages
  <2> QED
    BY <1>11, <1>16, <2>1
<1>18. dipesan' \subseteq Packages' /\ setoran' \subseteq [paket : dipesan', merek : Merek]
  BY <1>10, <1>11, CatalogueRests
<1>19. kerja' \in [Meja -> Tasks] /\ \A n \in Meja : TaskFits(kerja[n])'
  <2>1. \A x \in Acuan \ acuan : Dipakai(x)' => Dipakai(x)
    BY <1>9, <1>11 DEF Dipakai, Packages, Ada
  <2> QED
    BY <1>10, <2>1, OvertakingFits
<1> QED
  BY <1>10, <1>11, <1>13, <1>15, <1>17, <1>18, <1>19, CatalogueRests DEF CatalogueInv, CatalogueTypes

(* Requests that would not find what they name are gone.                     *)
LEMMA CutOff ==
  ASSUME CatalogueInv, NEW M, kerja' = Putus(M)
  PROVE  /\ kerja' \in [Meja -> Tasks]
         /\ \A m \in Meja : \/ kerja'[m] = NoTask
                            \/ m \notin M /\ kerja'[m] = kerja[m]
         /\ TaskFits(NoTask)' /\ NoTask.tugas = "tidak ada"
<1>1. NoTask \in Tasks /\ NoTask.tugas = "tidak ada"
  BY DEF NoTask, Tasks
<1>2. TaskFits(NoTask)'
  BY <1>1 DEF TaskFits
<1> QED
  BY <1>1, <1>2, CatalogueRests DEF Putus

LEMMA DeleteScheduleKeeps ==
  ASSUME CatalogueInv, NEW p \in Paket, DeleteSchedule(p)
  PROVE  CatalogueInv'
<1>1. /\ paket' = [paket EXCEPT ![p] = NoPackage] /\ p \in Packages /\ p \notin dipesan
      /\ kerja' = Putus({m \in Saves : kerja[m].paket = p})
      /\ UNCHANGED <<merek, baris, rekening, dipesan, setoran>>
  BY DEF DeleteSchedule, Packages
<1>2. /\ paket' \in [Paket -> PackageRow \cup {NoPackage}] /\ Packages' = Packages \ {p}
      /\ \A q \in Paket \ {p} : paket'[q] = paket[q]
      /\ \A q \in Packages' : q \in Packages /\ paket'[q] = paket[q]
  BY <1>1, CatalogueRests DEF Packages, Ada
<1>3. \A q \in Packages' : PackageFits(paket[q])'
  BY <1>1, <1>2, CatalogueRests DEF PackageFits
<1>4. NamesDiffer'
  BY <1>2 DEF CatalogueInv, NamesDiffer
<1>5. PaidIntoItsBrand'
  <2> SUFFICES ASSUME NEW s \in setoran PROVE paket'[s.paket].merek = s.merek
    BY <1>1 DEF PaidIntoItsBrand
  <2>1. s.paket \in dipesan /\ s.paket \in Paket /\ paket[s.paket].merek = s.merek
    BY CatalogueRests DEF Packages
  <2> QED
    BY <1>1, <1>2, <2>1
<1>6. kerja' \in [Meja -> Tasks]
  BY <1>1, CutOff
<1>7. ASSUME NEW m \in Meja
      PROVE  TaskFits(kerja[m])'
  <2>1. PICK t : t = kerja[m]
    OBVIOUS
  <2>2. t \in Tasks /\ TaskFits(t)
    BY <2>1, CatalogueRests
  <2>3. CASE kerja'[m] = NoTask
    BY <1>1, <2>3, CutOff
  <2>4. CASE kerja'[m] = t /\ (t.tugas = "simpan" => t.paket # p)
    <3>1. t.tugas = "simpan" => SaveFits(t)'
      <4> SUFFICES ASSUME t.tugas = "simpan" PROVE SaveFits(t)'
        OBVIOUS
      <4>1. SaveFits(t) /\ t.paket # p /\ t.paket \in Paket
        BY <2>2, <2>4, TaskIs DEF TaskFits, SaveTask
      <4>2. Bernama(t.paket, t.form)' <=> Bernama(t.paket, t.form)
        BY <1>2, <4>1 DEF Bernama, Ada
      <4>3. NameTaken(t.paket, t.form)' => NameTaken(t.paket, t.form)
        BY <1>2 DEF NameTaken, Packages
      <4>4. NameFree(t.paket, t.form) => NameFree(t.paket, t.form)'
        BY <4>2, <4>3 DEF NameFree
      <4> QED
        BY <1>1, <4>1, <4>4 DEF SaveFits, DPFits
    <3>2. t.tugas = "merek" => BrandFits(t)'
      BY <1>2, <2>2 DEF TaskFits, BrandFits
    <3>3. t.tugas = "hapus" => DeleteFits(t)'
      <4>1. Dipakai(t.acuan)' => Dipakai(t.acuan)
        BY <1>2 DEF Dipakai, Packages
      <4> QED
        BY <1>1, <2>2, <4>1 DEF TaskFits, DeleteFits
    <3> QED
      BY <2>4, <3>1, <3>2, <3>3 DEF TaskFits
  <2>5. kerja'[m] = NoTask \/ (kerja'[m] = t /\ (t.tugas = "simpan" => t.paket # p))
    <3>1. PICK M : M = {n \in Saves : kerja[n].paket = p}
      OBVIOUS
    <3>2. kerja'[m] = NoTask \/ (m \notin M /\ kerja'[m] = t)
      BY <1>1, <2>1, <3>1, CutOff
    <3> QED
      BY <2>1, <3>1, <3>2 DEF Saves
  <2> QED
    BY <2>3, <2>4, <2>5
<1>8. dipesan' \subseteq Packages' /\ setoran' \subseteq [paket : dipesan', merek : Merek]
  BY <1>1, <1>2, CatalogueRests
<1> QED
  BY <1>1, <1>2, <1>3, <1>4, <1>5, <1>6, <1>7, <1>8, CatalogueRests DEF CatalogueInv, CatalogueTypes

(* Steps that change the brands or the rows, and packages at most in what    *)
(* they name and in doubt.                                                   *)
LEMMA PackagesKept ==
  ASSUME CatalogueInv, merek' \in [Merek -> DP \cup {-1}],
         baris' \in [Acuan -> {KOSONG} \cup (SUBSET Merek)],
         rekening' \in [Rekening -> AccountRow \cup {NoAccount}],
         \A r \in Rekening : rekening'[r] # NoAccount => merek'[rekening'[r].merek] # -1,
         paket' \in [Paket -> PackageRow \cup {NoPackage}],
         \A p \in Paket : paket'[p] = NoPackage <=> paket[p] = NoPackage,
         \A p \in Packages : /\ paket'[p].merek = paket[p].merek /\ paket'[p].nama = paket[p].nama
                             /\ paket'[p].namaRagu = paket[p].namaRagu
                             /\ PackageFits(paket[p])',
         kerja' \in [Meja -> Tasks], \A m \in Meja : TaskFits(kerja[m])',
         UNCHANGED <<dipesan, setoran>>
  PROVE  CatalogueInv'
<1>1. Packages' = Packages
  BY DEF Packages, Ada
<1>2. NamesDiffer'
  BY <1>1 DEF CatalogueInv, NamesDiffer
<1>3. PaidIntoItsBrand'
  <2> SUFFICES ASSUME NEW s \in setoran PROVE paket'[s.paket].merek = s.merek
    BY DEF PaidIntoItsBrand
  <2>1. s.paket \in Packages /\ paket[s.paket].merek = s.merek
    BY CatalogueRests
  <2> QED
    BY <2>1
<1>4. dipesan' \subseteq Packages' /\ setoran' \subseteq [paket : dipesan', merek : Merek]
  BY <1>1, CatalogueRests
<1> QED
  BY <1>1, <1>2, <1>3, <1>4 DEF CatalogueInv, CatalogueTypes

LEMMA NewBrandKeeps ==
  ASSUME CatalogueInv, NEW b \in Merek, NEW dp \in DP, CreateBrand(b, dp)
  PROVE  CatalogueInv'
<1>1. /\ merek[b] = -1 /\ merek' = [merek EXCEPT ![b] = dp]
      /\ UNCHANGED <<baris, rekening, paket, dipesan, setoran, kerja>>
  BY DEF CreateBrand
<1>2. dp # -1
  BY CatalogueAssumption
<1>3. /\ merek' \in [Merek -> DP \cup {-1}]
      /\ \A c \in Merek : merek[c] # -1 => merek'[c] = merek[c]
  BY <1>1, CatalogueRests
<1>4. \A r \in Rekening : rekening'[r] # NoAccount => merek'[rekening'[r].merek] # -1
  BY <1>1, <1>3, CatalogueRests DEF AccountRow
<1>5. \A p \in Packages : PackageFits(paket[p])'
  BY <1>1, <1>3, CatalogueRests DEF PackageFits, PackageRow
<1>6. ASSUME NEW m \in Meja
      PROVE  TaskFits(kerja[m])'
  <2>1. PICK t : t = kerja[m]
    OBVIOUS
  <2>2. t \in Tasks /\ TaskFits(t)
    BY <2>1, CatalogueRests
  <2>3. t.tugas = "simpan" => SaveFits(t)'
    <3> SUFFICES ASSUME t.tugas = "simpan" PROVE SaveFits(t)'
      OBVIOUS
    <3>1. SaveFits(t) /\ t.form \in Formulir
      BY <2>2, TaskIs DEF TaskFits, SaveTask
    <3>2. merek[t.form.merek] # -1 /\ merek'[t.form.merek] = merek[t.form.merek]
      BY <1>3, <3>1, FormIs DEF SaveFits
    <3>3. NameFree(t.paket, t.form)' <=> NameFree(t.paket, t.form)
      BY <1>1 DEF NameFree, Bernama, NameTaken, Ada
    <3> QED
      BY <1>1, <3>1, <3>2, <3>3 DEF SaveFits, DPFits
  <2>4. t.tugas = "merek" => BrandFits(t)'
    BY <1>1, <2>2 DEF TaskFits, BrandFits, Packages, Ada
  <2>5. t.tugas = "hapus" => DeleteFits(t)'
    BY <1>1, <2>2 DEF TaskFits, DeleteFits, Dipakai, Ada
  <2> QED
    BY <1>1, <2>1, <2>3, <2>4, <2>5 DEF TaskFits
<1> QED
  BY <1>1, <1>3, <1>4, <1>5, <1>6, CatalogueRests, PackagesKept

LEMMA UpdateBrandKeeps ==
  ASSUME CatalogueInv, NEW m \in Meja, UpdateBrand(m)
  PROVE  CatalogueInv'
<1>1. PICK t, b : t = kerja[m] /\ b = t.merek
  OBVIOUS
<1>2. t \in BrandTask /\ BrandFits(t) /\ b \in Merek /\ t.dp \in Nat /\ t.dp \in DP
  BY <1>1, CatalogueRests, TaskIs, KosongIsNone DEF UpdateBrand, TaskFits, BrandTask
<1>3. /\ merek' = [merek EXCEPT ![b] = t.dp] /\ kerja' = Menyalip(m, {})
      /\ paket' = [p \in Paket |->
           IF Ada(p) /\ paket[p].merek = b /\ ~ t.bersih
           THEN [paket[p] EXCEPT !.dpRagu = TRUE] ELSE paket[p]]
      /\ UNCHANGED <<baris, rekening, dipesan, setoran>>
  BY <1>1 DEF UpdateBrand
<1>4. /\ merek' \in [Merek -> DP \cup {-1}] /\ merek'[b] = t.dp
      /\ \A c \in Merek \ {b} : merek'[c] = merek[c]
  BY <1>2, <1>3, CatalogueRests
<1>5. t.dp # -1
  BY <1>2
<1>6. ASSUME NEW p \in Packages
      PROVE  /\ paket'[p] \in PackageRow /\ paket'[p].merek = paket[p].merek
             /\ paket'[p].nama = paket[p].nama /\ paket'[p].namaRagu = paket[p].namaRagu
             /\ paket'[p].acuan = paket[p].acuan
             /\ PackageFits(paket[p])'
  <2>1. PICK o, r : o = paket[p] /\ r = paket'[p]
    OBVIOUS
  <2>2. p \in Paket /\ Ada(p) /\ o \in PackageRow /\ PackageFits(o)
    BY <2>1, CatalogueRests DEF Packages
  <2>3. r = IF o.merek = b /\ ~ t.bersih THEN [o EXCEPT !.dpRagu = TRUE] ELSE o
    BY <1>3, <2>1, <2>2
  <2>4. /\ r \in PackageRow /\ r.merek = o.merek /\ r.nama = o.nama /\ r.namaRagu = o.namaRagu
        /\ r.acuan = o.acuan /\ r.dp = o.dp /\ r.harga = o.harga
        /\ r.dpRagu = (o.dpRagu \/ (o.merek = b /\ ~ t.bersih))
    BY <2>2, <2>3 DEF PackageRow
  <2>5. CASE o.merek # b
    <3>1. merek'[r.merek] = merek[o.merek]
      BY <1>4, <2>2, <2>4, <2>5 DEF PackageRow
    <3>2. PackageFits(r)'
      BY <1>3, <2>2, <2>4, <2>5, <3>1 DEF PackageFits
    <3> QED
      BY <2>1, <2>4, <3>2
  <2>6. CASE o.merek = b
    <3>1. merek'[r.merek] = t.dp
      BY <1>4, <2>4, <2>6
    <3>2. r.harga \in Nat /\ r.dp \in Nat \cup {-1}
      BY <2>4 DEF PackageRow
    <3>3. t.bersih /\ o.dp = -1 => t.dp <= o.harga
      BY <1>1, <1>2, <2>1, <2>6 DEF BrandFits
    <3>4. r.harga >= (IF r.dp = -1 THEN t.dp ELSE r.dp) \/ r.dpRagu
      BY <1>2, <2>2, <2>4, <2>6, <3>2, <3>3 DEF PackageFits
    <3>5. PackageFits(r)'
      BY <1>3, <1>5, <2>2, <2>4, <3>1, <3>4 DEF PackageFits
    <3> QED
      BY <2>1, <2>4, <3>5
  <2> QED
    BY <2>5, <2>6
<1>7. /\ paket' \in [Paket -> PackageRow \cup {NoPackage}]
      /\ \A p \in Paket : paket'[p] = NoPackage <=> paket[p] = NoPackage
  <2>1. ASSUME NEW p \in Paket
        PROVE  /\ paket'[p] \in PackageRow \cup {NoPackage}
               /\ paket'[p] = NoPackage <=> paket[p] = NoPackage
    <3>1. CASE p \in Packages
      BY <1>6, <3>1, KosongIsNone DEF Packages, Ada
    <3>2. CASE p \notin Packages
      BY <1>3, <3>2 DEF Packages, Ada
    <3> QED
      BY <3>1, <3>2
  <2>2. paket' = [p \in Paket |-> paket'[p]]
    BY <1>3
  <2> QED
    BY <2>1, <2>2
<1>8. kerja' \in [Meja -> Tasks] /\ \A n \in Meja : TaskFits(kerja[n])'
  <2>1. \A x \in Acuan : Dipakai(x)' => Dipakai(x)
    BY <1>6, <1>7 DEF Dipakai, Packages, Ada
  <2> QED
    BY <1>3, <1>4, <1>5, <2>1, OvertakingFits
<1>9. \A r \in Rekening : rekening'[r] # NoAccount => merek'[rekening'[r].merek] # -1
  BY <1>3, <1>4, <1>5, CatalogueRests DEF AccountRow
<1> QED
  BY <1>3, <1>4, <1>6, <1>7, <1>8, <1>9, CatalogueRests, PackagesKept

LEMMA DeleteBrandKeeps ==
  ASSUME CatalogueInv, NEW b \in Merek, DeleteBrand(b)
  PROVE  CatalogueInv'
<1>1. PICK M : M = {m \in Saves : kerja[m].form.merek = b}
                     \cup {m \in Meja : kerja[m].tugas = "merek" /\ kerja[m].merek = b}
  OBVIOUS
<1>2. /\ merek' = [merek EXCEPT ![b] = -1] /\ kerja' = Putus(M)
      /\ \A p \in Paket : paket[p].merek # b
      /\ rekening' = [r \in Rekening |-> IF rekening[r].merek = b THEN NoAccount ELSE rekening[r]]
      /\ UNCHANGED <<baris, paket, dipesan, setoran>>
  BY <1>1 DEF DeleteBrand
<1>3. /\ merek' \in [Merek -> DP \cup {-1}]
      /\ \A c \in Merek \ {b} : merek'[c] = merek[c]
  <2>1. PICK none : none = -1
    OBVIOUS
  <2>2. none \in DP \cup {-1} /\ merek' = [merek EXCEPT ![b] = none]
    BY <1>2, <2>1
  <2> QED
    BY <2>2, CatalogueRests
<1>4. /\ rekening' \in [Rekening -> AccountRow \cup {NoAccount}]
      /\ \A r \in Rekening : rekening'[r] # NoAccount => merek'[rekening'[r].merek] # -1
  <2>1. rekening' \in [Rekening -> AccountRow \cup {NoAccount}]
    BY <1>2, CatalogueRests
  <2>2. ASSUME NEW r \in Rekening, rekening'[r] # NoAccount
        PROVE  merek'[rekening'[r].merek] # -1
    <3>1. rekening'[r] = rekening[r] /\ rekening[r].merek # b
      BY <1>2, <2>2
    <3>2. rekening[r].merek \in Merek /\ merek[rekening[r].merek] # -1
      BY <2>2, <3>1, CatalogueRests DEF AccountRow
    <3> QED
      BY <1>3, <3>1, <3>2
  <2> QED
    BY <2>1, <2>2
<1>5. \A p \in Packages : PackageFits(paket[p])'
  BY <1>2, <1>3, CatalogueRests DEF PackageFits, PackageRow, Packages
<1>6. kerja' \in [Meja -> Tasks]
  BY <1>2, CutOff
<1>7. ASSUME NEW m \in Meja
      PROVE  TaskFits(kerja[m])'
  <2>1. PICK t : t = kerja[m]
    OBVIOUS
  <2>2. t \in Tasks /\ TaskFits(t)
    BY <2>1, CatalogueRests
  <2>3. CASE kerja'[m] = NoTask
    BY <1>2, <2>3, CutOff
  <2>4. CASE m \notin M /\ kerja'[m] = t
    <3>1. t.tugas = "simpan" => SaveFits(t)'
      <4> SUFFICES ASSUME t.tugas = "simpan" PROVE SaveFits(t)'
        OBVIOUS
      <4>1. SaveFits(t) /\ t.form \in Formulir /\ t.form.merek # b
        BY <1>1, <2>1, <2>2, <2>4, TaskIs DEF TaskFits, SaveTask, Saves
      <4>2. merek'[t.form.merek] = merek[t.form.merek]
        BY <1>3, <4>1, FormIs
      <4>3. NameFree(t.paket, t.form)' <=> NameFree(t.paket, t.form)
        BY <1>2 DEF NameFree, Bernama, NameTaken, Ada
      <4> QED
        BY <1>2, <4>1, <4>2, <4>3 DEF SaveFits, DPFits
    <3>2. t.tugas = "merek" => BrandFits(t)'
      BY <1>2, <2>2 DEF TaskFits, BrandFits, Packages, Ada
    <3>3. t.tugas = "hapus" => DeleteFits(t)'
      BY <1>2, <2>2 DEF TaskFits, DeleteFits, Dipakai, Ada
    <3> QED
      BY <2>4, <3>1, <3>2, <3>3 DEF TaskFits
  <2> QED
    BY <1>2, <2>1, <2>3, <2>4, CutOff
<1> QED
  BY <1>2, <1>3, <1>4, <1>5, <1>6, <1>7, CatalogueRests, PackagesKept

LEMMA PutKeeps ==
  ASSUME CatalogueInv, NEW r \in Acuan, NEW B \in SUBSET Merek, Put(r, B)
  PROVE  CatalogueInv' /\ baris'[r] # KOSONG /\ \A x \in Acuan \ {r} : baris'[x] = baris[x]
<1>1. /\ baris' = [baris EXCEPT ![r] = B]
      /\ kerja' = [m \in Meja |-> IF kerja[m].tugas = "hapus" /\ kerja[m].acuan = r /\ r \in Bandara
                                   THEN [kerja[m] EXCEPT !.bersih = FALSE] ELSE kerja[m]]
      /\ UNCHANGED <<merek, rekening, paket, dipesan, setoran>>
  BY DEF Put
<1>2. /\ baris' \in [Acuan -> {KOSONG} \cup (SUBSET Merek)] /\ baris'[r] = B /\ B # KOSONG
      /\ \A x \in Acuan \ {r} : baris'[x] = baris[x]
  BY <1>1, CatalogueRests, KosongIsNone
<1>3. \A p \in Packages : PackageFits(paket[p])'
  BY <1>1, <1>2, CatalogueRests DEF PackageFits, PackageRow
<1>4. ASSUME NEW m \in Meja
      PROVE  kerja'[m] \in Tasks /\ TaskFits(kerja[m])'
  <2>1. PICK t, o : t = kerja[m] /\ o = [t EXCEPT !.bersih = FALSE]
    OBVIOUS
  <2>2. t \in Tasks /\ TaskFits(t)
    BY <2>1, CatalogueRests
  <2>3. CASE t.tugas = "hapus" /\ t.acuan = r /\ r \in Bandara
    <3>1. kerja'[m] = o /\ t # NoTask
      <4>1. t # NoTask
        BY <2>2, <2>3, TaskIs
      <4>2. kerja'[m] = IF kerja[m].tugas = "hapus" /\ kerja[m].acuan = r /\ r \in Bandara
                        THEN [kerja[m] EXCEPT !.bersih = FALSE] ELSE kerja[m]
        BY <1>1
      <4>3. kerja'[m] = [kerja[m] EXCEPT !.bersih = FALSE]
        BY <2>1, <2>3, <4>2
      <4> QED
        BY <2>1, <4>1, <4>3
    <3>2. o \in Tasks /\ o.tugas = "hapus" /\ ~ o.bersih
      BY <2>1, <2>2, <2>3, <3>1, OvertakenIs
    <3> QED
      BY <3>1, <3>2 DEF TaskFits, DeleteFits
  <2>4. CASE ~ (t.tugas = "hapus" /\ t.acuan = r /\ r \in Bandara)
    <3>1. kerja'[m] = t
      BY <1>1, <2>1, <2>4
    <3>2. t.tugas = "simpan" => SaveFits(t)'
      <4> SUFFICES ASSUME t.tugas = "simpan" PROVE SaveFits(t)'
        OBVIOUS
      <4>1. SaveFits(t) /\ t.form \in Formulir
        BY <2>2, TaskIs DEF TaskFits, SaveTask
      <4>2. \A x \in t.form.acuan \ Bandara : baris'[x] # KOSONG
        BY <1>2, <4>1, FormIs DEF SaveFits
      <4>3. NameFree(t.paket, t.form)' <=> NameFree(t.paket, t.form)
        BY <1>1 DEF NameFree, Bernama, NameTaken, Ada
      <4> QED
        BY <1>1, <4>1, <4>2, <4>3 DEF SaveFits, DPFits
    <3>3. t.tugas = "merek" => BrandFits(t)'
      BY <1>1, <2>2 DEF TaskFits, BrandFits, Packages, Ada
    <3>4. t.tugas = "hapus" => DeleteFits(t)'
      <4> SUFFICES ASSUME t.tugas = "hapus" PROVE DeleteFits(t)'
        OBVIOUS
      <4>1. t.acuan \in Acuan /\ (t.acuan = r => t.acuan \notin Bandara)
        BY <2>2, <2>4, TaskIs DEF DeleteTask, Acuan
      <4>2. Dipakai(t.acuan)' <=> Dipakai(t.acuan)
        BY <1>1 DEF Dipakai, Ada
      <4> QED
        BY <1>2, <2>2, <4>1, <4>2 DEF TaskFits, DeleteFits
    <3> QED
      BY <2>2, <3>1, <3>2, <3>3, <3>4 DEF TaskFits
  <2> QED
    BY <2>3, <2>4
<1>5. kerja' \in [Meja -> Tasks]
  <2>1. kerja' = [m \in Meja |-> kerja'[m]]
    BY <1>1
  <2> QED
    BY <1>4, <2>1
<1> QED
  BY <1>1, <1>2, <1>3, <1>4, <1>5, CatalogueRests, PackagesKept

(* A row that packages name stays; a request that names the one that goes    *)
(* will not find it.                                                         *)
LEMMA RowGoesKeeps ==
  ASSUME CatalogueInv, NEW r \in Acuan, RowGoes(r)
  PROVE  CatalogueInv' /\ \A x \in Acuan \ {r} : baris'[x] = baris[x]
<1>1. PICK M : M = {m \in Saves : r \in kerja[m].form.acuan}
  OBVIOUS
<1>2. /\ baris' = [baris EXCEPT ![r] = KOSONG] /\ ~ Dipakai(r) /\ kerja' = Putus(M)
      /\ UNCHANGED <<merek, rekening, paket, dipesan, setoran>>
  BY <1>1 DEF RowGoes
<1>3. /\ baris' \in [Acuan -> {KOSONG} \cup (SUBSET Merek)]
      /\ \A x \in Acuan \ {r} : baris'[x] = baris[x]
  BY <1>2, CatalogueRests
<1>4. \A p \in Packages : PackageFits(paket[p])'
  BY <1>2, <1>3, CatalogueRests DEF PackageFits, PackageRow, Dipakai, Packages
<1>5. kerja' \in [Meja -> Tasks]
  BY <1>2, CutOff
<1>6. ASSUME NEW m \in Meja
      PROVE  TaskFits(kerja[m])'
  <2>1. PICK t : t = kerja[m]
    OBVIOUS
  <2>2. t \in Tasks /\ TaskFits(t)
    BY <2>1, CatalogueRests
  <2>3. CASE kerja'[m] = NoTask
    BY <1>2, <2>3, CutOff
  <2>4. CASE m \notin M /\ kerja'[m] = t
    <3>1. t.tugas = "simpan" => SaveFits(t)'
      <4> SUFFICES ASSUME t.tugas = "simpan" PROVE SaveFits(t)'
        OBVIOUS
      <4>1. SaveFits(t) /\ t.form \in Formulir /\ r \notin t.form.acuan
        BY <1>1, <2>1, <2>2, <2>4, TaskIs DEF TaskFits, SaveTask, Saves
      <4>2. \A x \in t.form.acuan \ Bandara : baris'[x] # KOSONG
        BY <1>3, <4>1, FormIs DEF SaveFits
      <4>3. NameFree(t.paket, t.form)' <=> NameFree(t.paket, t.form)
        BY <1>2 DEF NameFree, Bernama, NameTaken, Ada
      <4> QED
        BY <1>2, <4>1, <4>2, <4>3 DEF SaveFits, DPFits
    <3>2. t.tugas = "merek" => BrandFits(t)'
      BY <1>2, <2>2 DEF TaskFits, BrandFits, Packages, Ada
    <3>3. t.tugas = "hapus" => DeleteFits(t)'
      <4> SUFFICES ASSUME t.tugas = "hapus" PROVE DeleteFits(t)'
        OBVIOUS
      <4>1. t.acuan \in Acuan
        BY <2>2, TaskIs DEF DeleteTask, Acuan
      <4>2. Dipakai(t.acuan)' <=> Dipakai(t.acuan)
        BY <1>2 DEF Dipakai, Ada
      <4> QED
        BY <1>2, <1>3, <2>2, <4>1, <4>2 DEF TaskFits, DeleteFits
    <3> QED
      BY <2>4, <3>1, <3>2, <3>3 DEF TaskFits
  <2> QED
    BY <1>2, <2>1, <2>3, <2>4, CutOff
<1> QED
  BY <1>2, <1>3, <1>4, <1>5, <1>6, CatalogueRests, PackagesKept

LEMMA DeleteCheckedKeeps ==
  ASSUME CatalogueInv, NEW m \in Meja, DeleteChecked(m)
  PROVE  CatalogueInv' /\ \A x \in Acuan \ {kerja[m].acuan} : baris'[x] = baris[x]
<1>1. PICK r : r = kerja[m].acuan
  OBVIOUS
<1>2. r \in Kategori \cup Bandara /\ r \in Acuan
  BY <1>1, CatalogueRests, TaskIs DEF DeleteChecked, DeleteTask, Acuan
<1>3. PICK M : M = {n \in Saves : r \in Kategori /\ r \in kerja[n].form.acuan}
                     \cup {n \in Meja : kerja[n].tugas = "hapus" /\ kerja[n].acuan = r}
  OBVIOUS
<1>4. /\ baris' = [baris EXCEPT ![r] = KOSONG] /\ kerja' = Putus(M)
      /\ paket' = [p \in Paket |-> IF r \in Kategori /\ Ada(p)
                                   THEN [paket[p] EXCEPT !.acuan = paket[p].acuan \ {r}] ELSE paket[p]]
      /\ UNCHANGED <<merek, rekening, dipesan, setoran>>
  BY <1>1, <1>3 DEF DeleteChecked
<1>5. /\ baris' \in [Acuan -> {KOSONG} \cup (SUBSET Merek)]
      /\ \A x \in Acuan \ {r} : baris'[x] = baris[x]
  BY <1>2, <1>4, CatalogueRests
<1>6. ASSUME NEW p \in Packages
      PROVE  /\ paket'[p] \in PackageRow /\ paket'[p].merek = paket[p].merek /\ paket'[p].nama = paket[p].nama
             /\ paket'[p].dp = paket[p].dp /\ paket'[p].harga = paket[p].harga
             /\ paket'[p].namaRagu = paket[p].namaRagu /\ paket'[p].acuan \subseteq paket[p].acuan
             /\ PackageFits(paket[p])'
  <2>1. PICK o, q : o = paket[p] /\ q = paket'[p]
    OBVIOUS
  <2>2. p \in Paket /\ Ada(p) /\ o \in PackageRow /\ PackageFits(o)
    BY <2>1, CatalogueRests DEF Packages
  <2>3. q = IF r \in Kategori THEN [o EXCEPT !.acuan = o.acuan \ {r}] ELSE o
    BY <1>4, <2>1, <2>2
  <2>4. /\ q \in PackageRow /\ q.merek = o.merek /\ q.nama = o.nama /\ q.namaRagu = o.namaRagu
        /\ q.dp = o.dp /\ q.harga = o.harga /\ q.dpRagu = o.dpRagu
        /\ q.acuan \subseteq o.acuan /\ (r \in Kategori => r \notin q.acuan)
    BY <2>2, <2>3 DEF PackageRow
  <2>5. \A x \in q.acuan \ Bandara : baris'[x] # KOSONG
    <3> SUFFICES ASSUME NEW x \in q.acuan \ Bandara PROVE baris'[x] # KOSONG
      OBVIOUS
    <3>1. x \in o.acuan \ Bandara /\ x \in Acuan /\ x # r
      BY <1>2, <2>2, <2>4 DEF PackageRow
    <3> QED
      BY <1>5, <2>2, <3>1 DEF PackageFits
  <2>6. PackageFits(q)'
    BY <1>4, <2>2, <2>4, <2>5 DEF PackageFits
  <2> QED
    BY <2>1, <2>4, <2>6
<1>7. /\ paket' \in [Paket -> PackageRow \cup {NoPackage}]
      /\ \A p \in Paket : paket'[p] = NoPackage <=> paket[p] = NoPackage
  <2>1. ASSUME NEW p \in Paket
        PROVE  /\ paket'[p] \in PackageRow \cup {NoPackage}
               /\ paket'[p] = NoPackage <=> paket[p] = NoPackage
    <3>1. CASE p \in Packages
      BY <1>6, <3>1, KosongIsNone DEF Packages, Ada
    <3>2. CASE p \notin Packages
      BY <1>4, <3>2 DEF Packages, Ada
    <3> QED
      BY <3>1, <3>2
  <2>2. paket' = [p \in Paket |-> paket'[p]]
    BY <1>4
  <2> QED
    BY <2>1, <2>2
<1>8. /\ Packages' = Packages
      /\ \A p \in Paket : Ada(p)' <=> Ada(p)
  BY <1>7 DEF Packages, Ada
<1>9. kerja' \in [Meja -> Tasks]
  BY <1>4, CutOff
<1>10. ASSUME NEW n \in Meja
       PROVE  TaskFits(kerja[n])'
  <2>1. PICK t : t = kerja[n]
    OBVIOUS
  <2>2. t \in Tasks /\ TaskFits(t)
    BY <2>1, CatalogueRests
  <2>3. CASE kerja'[n] = NoTask
    BY <1>4, <2>3, CutOff
  <2>4. CASE n \notin M /\ kerja'[n] = t
    <3>1. t.tugas = "simpan" => SaveFits(t)'
      <4> SUFFICES ASSUME t.tugas = "simpan" PROVE SaveFits(t)'
        OBVIOUS
      <4>1. /\ SaveFits(t) /\ t.form \in Formulir /\ t.paket \in Paket
            /\ r \in Kategori => r \notin t.form.acuan
        BY <1>3, <2>1, <2>2, <2>4, TaskIs DEF TaskFits, SaveTask, Saves
      <4>2. \A x \in t.form.acuan \ Bandara : baris'[x] # KOSONG
        BY <1>2, <1>5, <4>1, FormIs DEF SaveFits
      <4>3. NameFree(t.paket, t.form)' <=> NameFree(t.paket, t.form)
        <5>1. Bernama(t.paket, t.form)' <=> Bernama(t.paket, t.form)
          BY <1>6, <1>8, <4>1 DEF Bernama, Packages
        <5>2. NameTaken(t.paket, t.form)' <=> NameTaken(t.paket, t.form)
          BY <1>6, <1>8 DEF NameTaken, Packages
        <5> QED
          BY <5>1, <5>2 DEF NameFree
      <4> QED
        BY <1>4, <4>1, <4>2, <4>3 DEF SaveFits, DPFits
    <3>2. t.tugas = "merek" => BrandFits(t)'
      BY <1>6, <1>8, <2>2 DEF TaskFits, BrandFits
    <3>3. t.tugas = "hapus" => DeleteFits(t)'
      <4> SUFFICES ASSUME t.tugas = "hapus" PROVE DeleteFits(t)'
        OBVIOUS
      <4>1. t.acuan \in Acuan \ {r}
        BY <1>3, <2>1, <2>2, <2>4, TaskIs DEF DeleteTask, Acuan
      <4>2. Dipakai(t.acuan)' => Dipakai(t.acuan)
        BY <1>6, <1>8 DEF Dipakai, Packages
      <4> QED
        BY <1>5, <2>2, <4>1, <4>2 DEF TaskFits, DeleteFits
    <3> QED
      BY <2>4, <3>1, <3>2, <3>3 DEF TaskFits
  <2> QED
    BY <1>4, <2>1, <2>3, <2>4, CutOff
<1>11. CatalogueInv'
  BY <1>4, <1>5, <1>6, <1>7, <1>9, <1>10, CatalogueRests, PackagesKept
<1> QED
  BY <1>1, <1>5, <1>11

LEMMA RowStepKeeps ==
  ASSUME CatalogueInv, NEW r \in Acuan,
         \/ PutHotel(r) \/ PutAirline(r) \/ PutItinerary(r) \/ PutDestination(r)
         \/ PutCategory(r) \/ PutAirport(r)
         \/ DeleteHotel(r) \/ DeleteAirline(r) \/ DeleteItinerary(r) \/ DeleteDestination(r)
  PROVE  /\ CatalogueInv' /\ \A x \in Acuan \ {r} : baris'[x] = baris[x]
         /\ Dipakai(r) => baris'[r] # KOSONG
<1>1. ASSUME NEW B \in SUBSET Merek, Put(r, B)
      PROVE  /\ CatalogueInv' /\ \A x \in Acuan \ {r} : baris'[x] = baris[x]
             /\ Dipakai(r) => baris'[r] # KOSONG
  BY <1>1, PutKeeps
<1>2. CASE RowGoes(r)
  <2>1. ~ Dipakai(r)
    BY <1>2 DEF RowGoes
  <2> QED
    BY <1>2, <2>1, RowGoesKeeps
<1>3. Merek \in SUBSET Merek /\ {} \in SUBSET Merek
  OBVIOUS
<1> QED
  BY <1>1, <1>2, <1>3 DEF PutHotel, PutAirline, PutItinerary, PutDestination, PutCategory, PutAirport,
     DeleteHotel, DeleteAirline, DeleteItinerary, DeleteDestination

LEMMA CatalogueKept ==
  ASSUME CatalogueInv, [CatalogueNext]_catalogueVars
  PROVE  CatalogueInv'
<1>1. ASSUME NEW m \in Meja,
             \/ \E p \in Paket, form \in Formulir :
                  CreateSchedule(m, p, form) \/ UpdateSchedule(m, p, form)
             \/ \E b \in Merek, dp \in DP : UpdateBrandCheck(m, b, dp)
             \/ \E r \in Acuan : DeleteCategory(m, r) \/ DeleteAirport(m, r)
      PROVE  CatalogueInv'
  BY <1>1, ChecksKeep
<1>2. ASSUME NEW m \in Meja, Create(m) \/ Update(m) \/ UpdateBrand(m) \/ DeleteChecked(m) \/ TaskEnds(m)
      PROVE  CatalogueInv'
  BY <1>2, SavesKeep, UpdateBrandKeeps, DeleteCheckedKeeps, EndOrRestKeeps
<1>3. ASSUME NEW p \in Paket,
             DeleteSchedule(p) \/ Booked(p) \/ DraftsDeleted(p) \/ \E r \in Rekening : PaidInto(p, r)
      PROVE  CatalogueInv'
  BY <1>3, DeleteScheduleKeeps, SalesKeep
<1>4. ASSUME NEW b \in Merek, DeleteBrand(b) \/ \E dp \in DP : CreateBrand(b, dp)
      PROVE  CatalogueInv'
  BY <1>4, DeleteBrandKeeps, NewBrandKeeps
<1>5. CASE UNCHANGED catalogueVars
  BY <1>5, EndOrRestKeeps
<1> QED
  BY <1>1, <1>2, <1>3, <1>4, <1>5, RowStepKeeps, AccountsKeep DEF CatalogueNext

LEMMA UsedRowStep ==
  ASSUME CatalogueInv, [CatalogueNext]_catalogueVars,
         NEW r \in Acuan, Dipakai(r), baris[r] # KOSONG, baris'[r] = KOSONG
  PROVE  \/ r \in Bandara /\ baris[r] = {}
         \/ \E m \in Meja : kerja[m].tugas = "hapus" /\ kerja[m].acuan = r /\ ~ kerja[m].bersih
<1>1. ASSUME baris' = baris
      PROVE  FALSE
  BY <1>1
<1>2. ASSUME NEW m \in Meja, DeleteChecked(m)
      PROVE  \/ r \in Bandara /\ baris[r] = {}
             \/ kerja[m].tugas = "hapus" /\ kerja[m].acuan = r /\ ~ kerja[m].bersih
  <2>1. kerja[m].acuan = r
    BY <1>2, DeleteCheckedKeeps
  <2>2. kerja[m].tugas = "hapus" /\ DeleteFits(kerja[m])
    BY <1>2, CatalogueRests DEF DeleteChecked, TaskFits
  <2>3. kerja[m].bersih => r \in Bandara /\ baris[r] = {}
    BY <2>1, <2>2 DEF DeleteFits
  <2> QED
    BY <2>1, <2>2, <2>3
<1>3. ASSUME NEW x \in Acuan,
             \/ PutHotel(x) \/ PutAirline(x) \/ PutItinerary(x) \/ PutDestination(x)
             \/ PutCategory(x) \/ PutAirport(x)
             \/ DeleteHotel(x) \/ DeleteAirline(x) \/ DeleteItinerary(x) \/ DeleteDestination(x)
      PROVE  FALSE
  BY <1>3, RowStepKeeps
<1>4. ASSUME NEW m \in Meja,
             \/ \E p \in Paket, form \in Formulir :
                  CreateSchedule(m, p, form) \/ UpdateSchedule(m, p, form)
             \/ \E b \in Merek, dp \in DP : UpdateBrandCheck(m, b, dp)
             \/ \E x \in Acuan : DeleteCategory(m, x) \/ DeleteAirport(m, x)
             \/ Create(m) \/ Update(m) \/ UpdateBrand(m) \/ TaskEnds(m)
      PROVE  FALSE
  BY <1>1, <1>4 DEF CreateSchedule, UpdateSchedule, SaveCheck, UpdateBrandCheck, DeleteCategory,
     DeleteAirport, DeleteCheck, Create, Update, Saved, UpdateBrand, TaskEnds
<1>5. ASSUME NEW p \in Paket,
             DeleteSchedule(p) \/ Booked(p) \/ DraftsDeleted(p) \/ \E x \in Rekening : PaidInto(p, x)
      PROVE  FALSE
  BY <1>1, <1>5 DEF DeleteSchedule, Booked, DraftsDeleted, PaidInto
<1>6. ASSUME NEW b \in Merek, DeleteBrand(b) \/ \E dp \in DP : CreateBrand(b, dp)
      PROVE  FALSE
  BY <1>1, <1>6 DEF DeleteBrand, CreateBrand
<1>7. ASSUME NEW x \in Rekening,
             \/ DeleteBankAccount(x)
             \/ \E b \in Merek, aktif \in BOOLEAN :
                  CreateBankAccount(x, b, aktif) \/ UpdateBankAccount(x, b, aktif)
      PROVE  FALSE
  BY <1>1, <1>7 DEF DeleteBankAccount, CreateBankAccount, UpdateBankAccount, BankAccount
<1>8. CASE UNCHANGED catalogueVars
  BY <1>1, <1>8 DEF catalogueVars
<1> QED
  BY <1>2, <1>3, <1>4, <1>5, <1>6, <1>7, <1>8 DEF CatalogueNext

(* In every state no package is without its brand or a row it names, asks    *)
(* more beforehand than it costs or has another's name, and money for it     *)
(* went to its brand, up to saves that overtook each other.                  *)
THEOREM CatalogueStaysWhole == CatalogueSpec => [](CatalogueInv /\ CatalogueInvariant)
<1>1. CatalogueInit => CatalogueInv
  BY CatalogueBegins
<1>2. CatalogueInv /\ [CatalogueNext]_catalogueVars => CatalogueInv'
  BY CatalogueKept
<1>3. CatalogueInv => CatalogueInvariant
  BY CatalogueInvSays
<1> QED
  BY <1>1, <1>2, <1>3, PTL DEF CatalogueSpec

(* A row that a package names is deleted in two ways only: an airport whose  *)
(* code had been changed, and a row that a package saved after the check of  *)
(* the deletion names.                                                       *)
THEOREM UsedRowsStayThere == CatalogueSpec => UsedRowsStay
<1>1. CatalogueInit => CatalogueInv
  BY CatalogueBegins
<1>2. CatalogueInv /\ [CatalogueNext]_catalogueVars => CatalogueInv'
  BY CatalogueKept
<1>3. CatalogueInv /\ [CatalogueNext]_catalogueVars =>
        [\A r \in Acuan :
           Dipakai(r) /\ baris[r] # KOSONG /\ baris'[r] = KOSONG =>
             \/ r \in Bandara /\ baris[r] = {}
             \/ \E m \in Meja : kerja[m].tugas = "hapus" /\ kerja[m].acuan = r /\ ~ kerja[m].bersih
        ]_catalogueVars
  BY UsedRowStep
<1> QED
  BY <1>1, <1>2, <1>3, PTL DEF CatalogueSpec, UsedRowsStay

=============================================================================
