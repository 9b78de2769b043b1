SPECIFICATION MCSpec
CONSTANTS
  KOSONG = KOSONG
  b1 = b1
  b2 = b2
  Merek = {b1, b2}
  Hotel = {h1}
  Maskapai = {s1}
  Itinerari = {i1}
  Destinasi = {d1}
  Kategori = {k1}
  Bandara = {a1}
  Rekening = {r1}
  Paket = {p1, p2}
  Formulir <- MCFormulir
  DP = {1, 2}
  Meja = {m1, m2}
SYMMETRY Alike
INVARIANTS
  CatalogueInvariant
PROPERTIES
  UsedRowsStay
CHECK_DEADLOCK FALSE
