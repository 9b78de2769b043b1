SPECIFICATION EventuallySpec
CONSTANTS
  Schedules = {s1}
  Bookings = {b1, b2}
  Jamaah = {j1}
  Infant = {}
  Drafts = {}
  Payments = {p1}
  Verifiers = {v1}
  NULL = NULL
  SeatTotals = {2}
  RoomPrices = {2}
  InfantPrice = 1
  DpPerPax = 1
  Amounts = {1}
  MaxDiscounts = 0
  DiscountNominal = 1
  FullPayment = {FALSE}
  ScheduleStatuses = {"published"}
  Departures = {"far"}
  TAKADA = TAKADA
  Brands = {azhan}
  RoleSets = {cs, keuangan}
  CsSaja = cs
  Refreshes = {k1}
  Logins = {q1}
  Loaders = {l1, l2}
  MaxVersion = 3
  MaxAccess = 1
INVARIANTS
  SessionsInvariant
PROPERTIES
  LapsedHoldsEnd
  VerdictsCatchUp
CHECK_DEADLOCK FALSE
