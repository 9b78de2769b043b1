SPECIFICATION CommissionSpec
CONSTANTS
  NIHIL = NIHIL
  Agents = {ani, budi, cici}
  Sold = {ani}
  Others = {budi, cici}
  Suspendable = {ani}
  Uplines <- MCUplines
  Jamaah = {j1}
  Infant = {}
  SelfOf <- SellerTravels
  Pesanan = {b1}
  Pencairan = {w1}
  Amounts = {1, 2}
  Langsung = 2
  Pembinaan = 1
  Movers = {m1}
SYMMETRY Interchangeable
INVARIANTS CommissionOncePerPax
CHECK_DEADLOCK FALSE
