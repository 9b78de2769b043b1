SPECIFICATION Spec
CONSTANTS
  NULL = NULL
  Near = near
  Far = far
  Accounts = {a1}
  Schedules = {near, far}
  Forms <- MCForms
  Keys = {k1, k2}
  Leads = {l1}
  Bookings = {b1, b2}
  Requests = {r1, r2}
  SeatPerJadwal = 2
  SeatTotal = 2
  BookingHarian = 1
SYMMETRY Interchangeable
INVARIANTS
  CheckoutInvariant
PROPERTIES
  AdmissionsWithinLimits
CHECK_DEADLOCK FALSE
