SPECIFICATION PortalSpec
CONSTANTS
  NULL = NULL
  Accounts = {w1, w2, w3, w4}
  FirstAgents = {w1, w2}
  Overriders = {x1, x2}
  Fees = {TRUE, FALSE}
  MaxCycles = 2
  MaxHops = 2
  Keempat = w4
  NIL = NIL
  Sesi = {w1, w2}
  Tautan = {x1, x2}
  Masuk = {y1, y2}
  Ganti = {z1, z2}
  MaxSandi = 3
  KOSONG = KOSONG
  Berkas = {w1, w2}
  Pengirim = {x1, x2}
  Peninjau = {y1, y2}
  MaxVersi = 3
  TANPA = TANPA
  Surat = {w1, w2}
  Pengunduh = {x1, x2}
  Pengatur = {y1, y2}
  MaxNomor = 3
  NIHIL = NIHIL
  Orang = {w1, w2}
  Merek = {x1, x2}
  Nama = {y1, y2}
  NIK = {i1}
  HP = {h1}
  Pesanan = {p1}
  Meja = {z1, z2}
SYMMETRY Alike
INVARIANTS
  AccountsInvariant
  CustomerInvariant
  PapersInvariant
  RecordsInvariant
PROPERTIES
  VersionsKeepTheirReview
  NamesAreBooked
CHECK_DEADLOCK FALSE
