SPECIFICATION Spec
CONSTANTS
  Schedules = {s1}
  Bookings = {b1, b2}
  Jamaah = {j1, j2}
  Infant = {}
  Drafts = {}
  Payments = {p1}
  Verifiers = {v1}
  NULL = NULL
  SeatTotals = {1, 2}
  RoomPrices = {2}
  InfantPrice = 1
  DpPerPax = 1
  Amounts = {1}
  MaxDiscounts = 0
  DiscountNominal = 1
  FullPayment = {FALSE}
  ScheduleStatuses = {"published"}
  Departures = {"far"}
SYMMETRY Interchangeable
INVARIANTS
  TypeOK
  NoOversell
  OnlyBindingBookingsHoldSeats
  NoDeadlineOnSecuredSeats
PROPERTIES
  SeatsMoveOneForOne
  WorkerSparesSecured
  ImplementsLedger
