SPECIFICATION BackOfficeSpec
CONSTANTS
  TIADA = TIADA
  Users = {u1, u2}
  Units = {sales, n1, n2}
  Roles = {super, staff}
  Super = super
  Staff = staff
  Sales = sales
  HoldingOnly = {super}
  BrandOnly = {}
  DivisiAsal <- MCDivisiAsal
  BrandIds = {azhan}
  FirstDivisi = {sales}
  Removers = {a1, a2}
  NULL = NULL
  Mukena = mukena
  Pria = pria
  Items = {mukena}
  FirstItems = {}
  Brands = {azhan}
  Schedules = {s1}
  BrandOf <- MCBrandOf
  Bookings = {b1}
  PaxIds = {pria, wanita}
  Gender <- MCGender
  Sets <- MCSets
  Admins = {a1, a2}
  MaxStock = 1
SYMMETRY Alike
INVARIANTS
  DirectoryInvariant
  EquipmentInvariant
  DeletedItemsAreForgotten
PROPERTIES
  JoinsActiveUnits
  SuppliedOnceAsEntitled
  WriteOffsAreExplained
CHECK_DEADLOCK FALSE
