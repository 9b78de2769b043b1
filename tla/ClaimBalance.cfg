SPECIFICATION Spec
CONSTANTS
  Schedules = {s1}
  Bookings = {b1}
  Jamaah = {j1}
  Infant = {}
  Drafts = {}
  Payments = {p1, p2}
  Verifiers = {v1, v2}
  NULL = NULL
  SeatTotals = {2}
  RoomPrices = {2}
  InfantPrice = 1
  DpPerPax = 1
  Amounts = {2}
  MaxDiscounts = 0
  DiscountNominal = 1
  FullPayment = {FALSE}
  ScheduleStatuses = {"published"}
  Departures = {"far"}
SYMMETRY Interchangeable
PROPERTIES
  ConfirmationsShareNoBalance
