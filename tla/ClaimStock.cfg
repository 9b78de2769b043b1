SPECIFICATION EquipmentSpec
CONSTANTS
  NULL = NULL
  Mukena = mukena
  Pria = pria
  Items = {mukena}
  FirstItems = {}
  Brands = {azhan}
  Schedules = {s1}
  BrandOf <- MCBrandOf
  Bookings = {b1}
  PaxIds = {pria, wanita}
  Gender <- MCGender
  Sets <- MCSets
  Admins = {a1, a2}
  MaxStock = 1
SYMMETRY SameAdmins
PROPERTIES StockedItemsStay
CHECK_DEADLOCK FALSE
