SPECIFICATION Spec
CONSTANTS
  Schedules = {s1}
  Bookings = {b1}
  Jamaah = {j1, i1}
  Infant = {i1}
  Drafts = {}
  Payments = {p1, p2}
  Verifiers = {v1, v2}
  NULL = NULL
  SeatTotals = {2}
  RoomPrices = {2, 3}
  InfantPrice = 1
  DpPerPax = 1
  Amounts = {1, 2, 4}
  MaxDiscounts = 1
  DiscountNominal = 2
  FullPayment = {TRUE, FALSE}
  ScheduleStatuses = {"published"}
  Departures = {"far"}
SYMMETRY Interchangeable
INVARIANTS
  RefundsFitPayments
PROPERTIES
  StatusFollowsPayments
  OnlyCancellingPaxOverpays
  DemotionKeepsSeats
  SecuringTakesSeats
  DecisionIsFinal
  CancellationIsFinal
