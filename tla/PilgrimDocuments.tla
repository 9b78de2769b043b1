------------------------- MODULE PilgrimDocuments -------------------------
(***************************************************************************)
(* internal/dokumen and the customer's side of it: one document of a       *)
(* pilgrim, uploaded by the customer or an admin, reviewed by admins, its  *)
(* replaced versions archived. Documents share nothing.                    *)
(*                                                                         *)
(* The customer's upload looks at the booking and the document and then    *)
(* writes; a reviewer decides what a page showed. Upsert locks the pilgrim *)
(* first, copies the row under a lock, and is one step.                    *)
(*                                                                         *)
(* Left out: the kinds of documents and who needs which, where a file was  *)
(* uploaded, and the reasons of rejections.                                *)
(***************************************************************************)
EXTENDS Integers, Sequences

CONSTANTS
  Berkas,       \* files that were uploaded
  Pengirim,     \* uploads of customers running at the same time
  Peninjau,     \* admins that review
  MaxVersi,     \* bound: versions of the document
  KOSONG

ASSUME DocumentsAssumption == MaxVersi \in Nat \ {0} /\ KOSONG \notin Berkas

VARIABLES
  pesanan,   \* the customer's booking: "aktif" or "batal"
  dok,       \* dokumen_jamaah: versi (0: no row), isi, status
  arsip,     \* dokumen_jamaah_versions
  kirim,     \* kirim[c]: the file of an upload that has passed its checks
  tinjau     \* tinjau[a]: the version, file and status a reviewer looks at

documentVars == <<pesanan, dok, arsip, kirim, tinjau>>

NoDocument == [versi |-> 0, isi |-> KOSONG, status |-> "none"]

DocumentsInit ==
  /\ pesanan = "aktif"
  /\ dok = NoDocument /\ arsip = <<>>
  /\ kirim = [c \in Pengirim |-> KOSONG]
  /\ tinjau = [a \in Peninjau |-> NoDocument]

-----------------------------------------------------------------------------
(* Upsert, under the pilgrim's row lock: the current version goes to the     *)
(* archive as it stands, and the new one waits for a review.                 *)
Upsert(f, archived) ==
  /\ dok.versi < MaxVersi
  /\ arsip' = IF dok.versi = 0 THEN arsip ELSE Append(arsip, archived)
  /\ dok' = [versi |-> dok.versi + 1, isi |-> f, status |-> "submitted"]

(* KirimDokumen, its checks: an active booking, no approved document.        *)
KirimCheck(c, f) ==
  /\ kirim[c] = KOSONG
  /\ pesanan # "batal" /\ dok.status # "approved"
  /\ kirim' = [kirim EXCEPT ![c] = f]
  /\ UNCHANGED <<pesanan, dok, arsip, tinjau>>

KirimEnd(c) ==
  /\ kirim[c] # KOSONG
  /\ Upsert(kirim[c], dok)
  /\ kirim' = [kirim EXCEPT ![c] = KOSONG]
  /\ UNCHANGED <<pesanan, tinjau>>

KirimFails(c) ==
  /\ kirim[c] # KOSONG
  /\ kirim' = [kirim EXCEPT ![c] = KOSONG]
  /\ UNCHANGED <<pesanan, dok, arsip, tinjau>>

(* UpsertDokumen of an admin: no look at the status.                         *)
AdminUpsert(f) ==
  /\ Upsert(f, dok)
  /\ UNCHANGED <<pesanan, kirim, tinjau>>

(* A page with the documents of the pilgrim.                                 *)
Review(a) ==
  /\ dok.versi > 0 /\ tinjau[a] # dok
  /\ tinjau' = [tinjau EXCEPT ![a] = dok]
  /\ UNCHANGED <<pesanan, dok, arsip, kirim>>

Reviewed(a, status) ==
  /\ tinjau[a].versi > 0
  /\ dok' = [dok EXCEPT !.status = status]
  /\ tinjau' = [tinjau EXCEPT ![a] = NoDocument]
  /\ UNCHANGED <<pesanan, arsip, kirim>>

(* Fault: the version that was looked at is not compared.                    *)
UpdateStatusOfAnyVersion(a, status) == Reviewed(a, status)

(* UpdateDokumenStatus: WHERE version = the one on the page, decided or not. *)
UpdateStatus(a, status) == tinjau[a].versi = dok.versi /\ Reviewed(a, status)

(* ErrVersionConflict.                                                       *)
ReviewConflicts(a) ==
  /\ tinjau[a].versi \notin {0, dok.versi}
  /\ tinjau' = [tinjau EXCEPT ![a] = NoDocument]
  /\ UNCHANGED <<pesanan, dok, arsip, kirim>>

(* The booking is cancelled (BookingSystem).                                 *)
PesananBatal ==
  /\ pesanan = "aktif" /\ pesanan' = "batal"
  /\ UNCHANGED <<dok, arsip, kirim, tinjau>>

-----------------------------------------------------------------------------
DocumentsNext ==
  \/ \E c \in Pengirim : KirimEnd(c) \/ KirimFails(c) \/ \E f \in Berkas : KirimCheck(c, f)
  \/ \E f \in Berkas : AdminUpsert(f)
  \/ \E a \in Peninjau : \/ Review(a) \/ ReviewConflicts(a)
                         \/ \E status \in {"approved", "rejected"} : UpdateStatus(a, status)
  \/ PesananBatal

DocumentsSpec == DocumentsInit /\ [][DocumentsNext]_documentVars

-----------------------------------------------------------------------------
(* What is checked *)

Versi(v) == IF v = dok.versi THEN dok ELSE arsip[v]

(* Every variable keeps its type; the archive holds every version but the    *)
(* current one, under its number.                                            *)
DocumentsTypeOK ==
  /\ pesanan \in {"aktif", "batal"}
  /\ dok.versi \in 0..MaxVersi
  /\ Len(arsip) = (IF dok.versi = 0 THEN 0 ELSE dok.versi - 1)
  /\ \A v \in 1..dok.versi : /\ Versi(v).versi = v /\ Versi(v).isi \in Berkas
                             /\ Versi(v).status \in {"submitted", "approved", "rejected"}
  /\ kirim \in [Pengirim -> {KOSONG} \cup Berkas]
  /\ \A a \in Peninjau : tinjau[a].versi \in 0..dok.versi

(* A version keeps its file for ever, archived or not, and what was decided  *)
(* about it, unless an admin who has just seen this very file decides again: *)
(* replacing a document while it is reviewed never gives the new file the    *)
(* old one's approval, and the archive shows how the old one ended.          *)
VersionsKeepTheirReview ==
  [][\A v \in 1..MaxVersi : v <= dok.versi =>
       /\ Versi(v)'.isi = Versi(v).isi
       /\ Versi(v)'.status # Versi(v).status =>
            \E a \in Peninjau : /\ tinjau[a].versi = v /\ tinjau[a].isi = Versi(v).isi
                                /\ tinjau'[a] = NoDocument]_documentVars
=============================================================================
