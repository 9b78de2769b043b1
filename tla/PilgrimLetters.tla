-------------------------- MODULE PilgrimLetters --------------------------
(***************************************************************************)
(* internal/surat and the customer's downloads: the letters of a booking,  *)
(* numbered from a counter of the brand that its settings form also holds. *)
(*                                                                         *)
(* The form is checked against the counter and then written; a download    *)
(* looks at the booking and the settings and then has the letter numbered. *)
(* Terbit locks the letter and the brand's settings and is one step; two   *)
(* first downloads of one letter may deadlock there, and MySQL ends one.   *)
(*                                                                         *)
(* Left out: which letters a pilgrim gets, the particulars he must have    *)
(* filled in, the code and the month in the number, counts of downloads    *)
(* and the PDF.                                                            *)
(***************************************************************************)
EXTENDS Integers

CONSTANTS
  Surat,        \* letters: a pilgrim of the booking and a kind
  Pengunduh,    \* downloads running at the same time
  Pengatur,     \* changes of the letter settings running at the same time
  MaxNomor,     \* bound: the counter
  TANPA

ASSUME LettersAssumption == MaxNomor \in Nat \ {0} /\ TANPA \notin Surat

VARIABLES
  bayar,     \* the booking: "baru", "dp" (its deposit is confirmed), "batal"
  surat,     \* surat_jamaah: the number, 0 for no row
  merek,     \* brand_surat: nomor (nomor_terakhir), lengkap (a complete form)
  unduh,     \* unduh[d]: the letter of a download that has passed its checks
  atur,      \* atur[p]: a settings form that has passed its check
  turun      \* numbers issued between the check and the write of a form

letterVars == <<bayar, surat, merek, unduh, atur, turun>>

NoForm == [nomor |-> 0, dari |-> 0, lengkap |-> FALSE, ada |-> FALSE]

LettersInit ==
  /\ bayar = "baru"
  /\ surat = [l \in Surat |-> 0]
  /\ merek = [nomor |-> 0, lengkap |-> FALSE]
  /\ unduh = [d \in Pengunduh |-> TANPA]
  /\ atur = [p \in Pengatur |-> NoForm]
  /\ turun = {}

-----------------------------------------------------------------------------
(* The settings *)

(* Fault: any number is good.                                                *)
PutCheckAny(p, n, lengkap) ==
  /\ ~ atur[p].ada
  /\ atur' = [atur EXCEPT ![p] = [nomor |-> n, dari |-> merek.nomor, lengkap |-> lengkap, ada |-> TRUE]]
  /\ UNCHANGED <<bayar, surat, merek, unduh, turun>>

(* Put, its check: the counter is not lowered.                               *)
PutCheck(p, n, lengkap) ==
  /\ ~ atur[p].ada
  /\ n >= merek.nomor
  /\ atur' = [atur EXCEPT ![p] = [nomor |-> n, dari |-> merek.nomor, lengkap |-> lengkap, ada |-> TRUE]]
  /\ UNCHANGED <<bayar, surat, merek, unduh, turun>>

(* SimpanPengaturan writes the whole form. turun records the letters'        *)
(* numbers that were issued since the check and that the form takes back.    *)
SimpanPengaturan(p) ==
  /\ atur[p].ada
  /\ merek' = [nomor |-> atur[p].nomor, lengkap |-> atur[p].lengkap]
  /\ turun' = turun \cup {n \in {surat[l] : l \in Surat} : n > atur[p].nomor /\ n > atur[p].dari}
  /\ atur' = [atur EXCEPT ![p] = NoForm]
  /\ UNCHANGED <<bayar, surat, unduh>>

PutFails(p) ==
  /\ atur[p].ada
  /\ atur' = [atur EXCEPT ![p] = NoForm]
  /\ UNCHANGED <<bayar, surat, merek, unduh, turun>>

-----------------------------------------------------------------------------
(* Downloads *)

(* SuratUnduh up to Terbit, evaluasiSurat: the booking, its deposit and the  *)
(* settings, whether the letter has its number already or not.               *)
UnduhCheck(d, l) ==
  /\ unduh[d] = TANPA
  /\ bayar = "dp" /\ merek.lengkap
  /\ unduh' = [unduh EXCEPT ![d] = l]
  /\ UNCHANGED <<bayar, surat, merek, atur, turun>>

(* The first download takes the brand's next number, under its row lock, if  *)
(* the settings are complete still; a later one takes what it finds.         *)
Terbit(d) ==
  LET l == unduh[d]
      first == surat[l] = 0
  IN /\ l # TANPA
     /\ first => merek.lengkap /\ merek.nomor < MaxNomor
     /\ surat' = IF first THEN [surat EXCEPT ![l] = merek.nomor + 1] ELSE surat
     /\ merek' = IF first THEN [merek EXCEPT !.nomor = @ + 1] ELSE merek
     /\ unduh' = [unduh EXCEPT ![d] = TANPA]
     /\ UNCHANGED <<bayar, atur, turun>>

(* Incomplete settings, a deadlock, or another error.                        *)
UnduhFails(d) ==
  /\ unduh[d] # TANPA
  /\ unduh' = [unduh EXCEPT ![d] = TANPA]
  /\ UNCHANGED <<bayar, surat, merek, atur, turun>>

(* Payments of the booking are confirmed or taken back, it is cancelled      *)
(* (BookingSystem).                                                          *)
BayarMoves(status) ==
  /\ bayar \in {"baru", "dp"} /\ status # bayar
  /\ bayar' = status
  /\ UNCHANGED <<surat, merek, unduh, atur, turun>>

-----------------------------------------------------------------------------
LettersNext ==
  \/ \E p \in Pengatur : \/ SimpanPengaturan(p) \/ PutFails(p)
                         \/ \E n \in 0..MaxNomor, lengkap \in BOOLEAN : PutCheck(p, n, lengkap)
  \/ \E d \in Pengunduh : Terbit(d) \/ UnduhFails(d) \/ \E l \in Surat : UnduhCheck(d, l)
  \/ \E status \in {"baru", "dp", "batal"} : BayarMoves(status)

LettersSpec == LettersInit /\ [][LettersNext]_letterVars

-----------------------------------------------------------------------------
(* What is checked *)

(* Every variable keeps its type; a number is given out only while the       *)
(* counter has reached it, or the counter was taken back behind it.          *)
LettersTypeOK ==
  /\ bayar \in {"baru", "dp", "batal"}
  /\ surat \in [Surat -> 0..MaxNomor] /\ turun \subseteq 1..MaxNomor
  /\ unduh \in [Pengunduh -> {TANPA} \cup Surat]
  /\ merek \in [nomor : 0..MaxNomor, lengkap : BOOLEAN]
  /\ atur \in [Pengatur -> [nomor : 0..MaxNomor, dari : 0..MaxNomor, lengkap : BOOLEAN, ada : BOOLEAN]]
  /\ \A l \in Surat : surat[l] \in 0..merek.nomor \cup turun

(* Two letters have the same number only if it was issued while a settings   *)
(* form was between its check and its write (surat/handler.go Put,           *)
(* Repository.Terbit).                                                       *)
LetterNumbersDiffer ==
  \A l \in Surat : surat[l] \notin {0} \cup turun =>
    \A m \in Surat \ {l} : surat[m] # surat[l]

=============================================================================
