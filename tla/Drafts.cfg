SPECIFICATION Spec
CONSTANTS
  Schedules = {s1}
  Bookings = {b1, b2}
  Jamaah = {j1, j2}
  Infant = {}
  Drafts = {b1}
  Payments = {}
  Verifiers = {}
  NULL = NULL
  SeatTotals = {2}
  RoomPrices = {2}
  InfantPrice = 1
  DpPerPax = 1
  Amounts = {1}
  MaxDiscounts = 0
  DiscountNominal = 1
  FullPayment = {FALSE}
  ScheduleStatuses = {"published", "archived"}
  Departures = {"far", "near", "past"}
SYMMETRY Interchangeable
INVARIANTS
  SeatCountMatchesPax
PROPERTIES
  ContactIsHandedOver
  PortalSharesNoPilgrim
  ClosedScheduleAdmitsNone
