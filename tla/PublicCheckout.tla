--------------------------- MODULE PublicCheckout ---------------------------
(***************************************************************************)
(* internal/selfbooking and internal/crmdeal: requests that may be sent    *)
(* again. A booking of a customer ("web"), of an agent ("agen") or of the  *)
(* CRM ("crm") carries a key; the answer given to it is stored under the   *)
(* key with a print of what was asked, and a request that comes again is   *)
(* answered from there. Customers are also held to limits: seats they hold *)
(* without paying, and bookings in a day, counted once in the server's     *)
(* memory before the transaction and once in the database inside it.       *)
(*                                                                         *)
(* A request is taken in steps: it comes in; its transaction locks what it *)
(* books (the schedule, or the CRM's key) and looks the key up; the        *)
(* booking is committed; the handler counts it, mails it and answers. Both *)
(* transactions are SERIALIZABLE, so that a key read as absent stays       *)
(* absent and the counts are of committed rows. The server may stop        *)
(* between any two steps.                                                  *)
(*                                                                         *)
(* Prices, pilgrims, seats left and the other conditions of a sale are in  *)
(* BookingIntake: here they are one refusal. Limits per address and on     *)
(* failed identities are left out. A booking's seats do not change.        *)
(***************************************************************************)
EXTENDS Integers, FiniteSets, FiniteSetsExt

CONSTANTS
  Accounts,     \* customer_accounts
  Schedules,
  Forms,        \* what may be asked for: [jadwal, seats]
  Keys,         \* request keys the clients draw
  Leads,        \* crm_lead_id
  Bookings,     \* ids of bookings
  Requests,     \* requests handled at the same time
  SeatPerJadwal,   \* batasAkun.seatPerJadwal
  SeatTotal,       \* batasAkun.seatTotal
  BookingHarian,   \* batasAkun.bookingHarian
  NULL

ASSUME CheckoutAssumption ==
  /\ Forms \subseteq [jadwal : Schedules, seats : Nat \ {0}]
  /\ SeatPerJadwal \in Nat /\ SeatTotal \in Nat /\ BookingHarian \in Nat
  /\ NULL \notin Accounts \cup Leads \cup Bookings
  /\ IsFiniteSet(Bookings)   \* a table has finitely many rows

VARIABLES
  booking,   \* bookings: print (who asked for what), status, held, hariIni
  toko,      \* booking_checkout: the booking stored under a request key
  deal,      \* crm_deal_requests: the booking stored under an idempotency key
  hits,      \* bookingByAccount: successes counted for an account, and the first
  request,   \* requests being handled
  answers,   \* what clients were told: key, print and booking of each answer
  mails      \* confirmations sent for a booking

vars == <<booking, toko, deal, hits, request, answers, mails>>

(* requestFingerprint and requestHash: digests of all that was asked, and by *)
(* whom. Only the CRM names a lead, only the others an account.              *)
Prints ==
  [jalur : {"web", "agen"}, akun : Accounts, lead : {NULL}, form : Forms]
    \cup [jalur : {"crm"}, akun : {NULL}, lead : Leads, form : Forms]

NoBooking == [print |-> NULL, status |-> "none", held |-> FALSE, hariIni |-> FALSE]
NoRequest == [step |-> "idle", key |-> NULL, print |-> NULL, booking |-> NULL, replayed |-> FALSE]
NoHits == [count |-> 0, first |-> NULL]

Init ==
  /\ booking = [b \in Bookings |-> NoBooking]
  /\ toko = [k \in Keys |-> NULL] /\ deal = [k \in Keys |-> NULL]
  /\ hits = [a \in Accounts |-> NoHits]
  /\ request = [r \in Requests |-> NoRequest]
  /\ answers = {}
  /\ mails = [b \in Bookings |-> 0]

Made == {b \in Bookings : booking[b].status # "none"}
Jadwal(r) == request[r].print.form.jadwal
Jalur(r) == request[r].print.jalur

-----------------------------------------------------------------------------
(* cekBatasAkun *)

(* Bookings of the account in the last day, whatever became of them.         *)
DibuatHariIni(a) == Cardinality({b \in Made : booking[b].print.akun = a /\ booking[b].hariIni})

(* Seats of the schedules in S the account holds without having paid.       *)
SeatDitahan(a, S) == MapThenSumSet(LAMBDA b : booking[b].print.form.seats,
  {b \in Made : /\ booking[b].print.akun = a /\ booking[b].print.form.jadwal \in S
                /\ booking[b].status = "baru" /\ booking[b].held})

SeatsFit(print) ==
  /\ SeatDitahan(print.akun, {print.form.jadwal}) + print.form.seats <= SeatPerJadwal
  /\ SeatDitahan(print.akun, Schedules) + print.form.seats <= SeatTotal

(* Fault: bookings that were cancelled no longer count for the day.          *)
WithinLimitsStanding(print) ==
  /\ Cardinality({b \in Made : /\ booking[b].print.akun = print.akun
                               /\ booking[b].hariIni /\ booking[b].status # "batal"}) < BookingHarian
  /\ SeatsFit(print)

WithinLimits(print) == DibuatHariIni(print.akun) < BookingHarian /\ SeatsFit(print)

-----------------------------------------------------------------------------
(* A request comes in *)

(* windowLimiter.allow, Gate 8                                               *)
Allowed(a) == hits[a].count < BookingHarian

(* The handler's checks before the transaction.                              *)
Receive(r, k, print) ==
  /\ request[r].step = "idle"
  /\ print.jalur = "web" => Allowed(print.akun)
  /\ request' = [request EXCEPT ![r] = [NoRequest EXCEPT !.step = "masuk", !.key = k, !.print = print]]
  /\ UNCHANGED <<booking, toko, deal, hits, answers, mails>>

(* A transaction that fails, a condition of the sale that does not hold, a   *)
(* key used for something else, a deadlock's victim: nothing is kept.        *)
Refuse(r) ==
  /\ request[r].step \in {"masuk", "locked"}
  /\ request' = [request EXCEPT ![r] = NoRequest]
  /\ UNCHANGED <<booking, toko, deal, hits, answers, mails>>

-----------------------------------------------------------------------------
(* The transaction *)

(* Transactions that hold the row, or the gap, of the key r uses.            *)
SameKey(r) == {q \in Requests \ {r} : /\ request[q].step = "locked" /\ request[q].key = request[r].key
                                      /\ (Jalur(q) = "crm") = (Jalur(r) = "crm")}

(* Transactions that hold the lock of the schedule r books.                  *)
SameJadwal(r) == {q \in Requests \ {r} : /\ request[q].step = "locked" /\ Jalur(q) # "crm"
                                         /\ Jadwal(q) = Jadwal(r)}

Replay(r, b) == request' = [request EXCEPT ![r] = [@ EXCEPT !.step = "committed", !.booking = b, !.replayed = TRUE]]

Locked(r) == request' = [request EXCEPT ![r].step = "locked"]

(* Fault: the print is not compared.                                         *)
LookUpAny(r, stored) ==
  \/ stored = NULL /\ Locked(r)
  \/ stored # NULL /\ Replay(r, stored)

(* replayCheckout, and the lookup of Process.                                *)
LookUp(r, stored) ==
  \/ stored = NULL /\ Locked(r)
  \/ stored # NULL /\ booking[stored].print = request[r].print /\ Replay(r, stored)

(* processBookingTx up to replayCheckout: the schedule is locked first. A    *)
(* key that is absent is locked against an insert, not against other readers.*)
CheckoutBegin(r) ==
  /\ request[r].step = "masuk" /\ Jalur(r) # "crm"
  /\ SameJadwal(r) = {}
  /\ LookUp(r, toko[request[r].key])
  /\ UNCHANGED <<booking, toko, deal, hits, answers, mails>>

(* uq_crm_deal_lead                                                          *)
LeadFree(r) ==
  /\ \A b \in Made : booking[b].print.jalur = "crm" => booking[b].print.lead # request[r].print.lead
  /\ \A q \in Requests \ {r} : ~ (request[q].step = "locked" /\ Jalur(q) = "crm"
                                  /\ request[q].print.lead = request[r].print.lead)

(* Process up to the reservation of the key.                                 *)
DealBegin(r) ==
  /\ request[r].step = "masuk" /\ Jalur(r) = "crm"
  /\ SameKey(r) = {}
  /\ deal[request[r].key] = NULL => LeadFree(r)
  /\ LookUp(r, deal[request[r].key])
  /\ UNCHANGED <<booking, toko, deal, hits, answers, mails>>

(* UNIQUE request_key_hash: an insert waits for those who read the gap.      *)
KeyFree(r) == SameKey(r) = {}

(* INSERT INTO bookings, and the row that stores the answer.                 *)
Booked(r, b) ==
  /\ booking' = [booking EXCEPT ![b] =
       [print |-> request[r].print, status |-> "baru", held |-> TRUE, hariIni |-> TRUE]]
  /\ request' = [request EXCEPT ![r] = [@ EXCEPT !.step = "committed", !.booking = b]]
  /\ UNCHANGED <<hits, answers, mails>>

(* The rest of processBookingTx.                                             *)
CheckoutCommit(r, b) ==
  /\ request[r].step = "locked" /\ Jalur(r) # "crm" /\ b \notin Made
  /\ Jalur(r) = "web" => WithinLimits(request[r].print)
  /\ KeyFree(r)
  /\ Booked(r, b) /\ toko' = [toko EXCEPT ![request[r].key] = b] /\ UNCHANGED deal

(* The rest of Process. It needs the schedule's lock as well.                *)
DealCommit(r, b) ==
  /\ request[r].step = "locked" /\ Jalur(r) = "crm" /\ b \notin Made
  /\ SameJadwal(r) = {}
  /\ Booked(r, b) /\ deal' = [deal EXCEPT ![request[r].key] = b] /\ UNCHANGED toko

-----------------------------------------------------------------------------
(* After the transaction *)

(* windowLimiter.record                                                      *)
Counted(a, b) == [hits EXCEPT ![a] = [count |-> @.count + 1, first |-> IF @.count = 0 THEN b ELSE @.first]]

Answered(r) ==
  /\ answers' = answers \cup {[key |-> request[r].key, print |-> request[r].print, booking |-> request[r].booking]}
  /\ request' = [request EXCEPT ![r] = NoRequest]
  /\ UNCHANGED <<booking, toko, deal>>

(* The end of the handler. The e-mail is sent by a goroutine of its own; it  *)
(* may fail, which only loses it.                                            *)
Finish(r) ==
  /\ request[r].step = "committed"
  /\ IF Jalur(r) = "web" /\ ~ request[r].replayed
       THEN /\ hits' = Counted(request[r].print.akun, request[r].booking)
            /\ mails' = [mails EXCEPT ![request[r].booking] = @ + 1]
       ELSE UNCHANGED <<hits, mails>>
  /\ Answered(r)

(* The window closes a day after the first success it counted.               *)
WindowEnds(a) ==
  /\ hits[a].count > 0 /\ ~ booking[hits[a].first].hariIni
  /\ hits' = [hits EXCEPT ![a] = NoHits]
  /\ UNCHANGED <<booking, toko, deal, request, answers, mails>>

(* The server stops: its memory and the requests it was handling are gone.   *)
Restart ==
  /\ request # [r \in Requests |-> NoRequest] \/ hits # [a \in Accounts |-> NoHits]
  /\ request' = [r \in Requests |-> NoRequest]
  /\ hits' = [a \in Accounts |-> NoHits]
  /\ UNCHANGED <<booking, toko, deal, answers, mails>>

-----------------------------------------------------------------------------
(* What becomes of a booking meanwhile *)

Becomes(b, row) ==
  /\ booking' = [booking EXCEPT ![b] = row]
  /\ UNCHANGED <<toko, deal, hits, request, answers, mails>>

DayPasses(b) == booking[b].hariIni /\ Becomes(b, [booking[b] EXCEPT !.hariIni = FALSE])

(* The hold runs out, or the desk lifts it (CancelSeatBlock). What is held   *)
(* of a booking that is paid does not count, and is not followed.            *)
HoldEnds(b) == booking[b].status = "baru" /\ booking[b].held /\ Becomes(b, [booking[b] EXCEPT !.held = FALSE])

(* BlockSeat: the desk holds the seats again, without the account's limits.  *)
BlockSeat(b) ==
  /\ booking[b].status = "baru" /\ ~ booking[b].held
  /\ Becomes(b, [booking[b] EXCEPT !.held = TRUE])

(* SyncBookingStatusTx: money comes in.                                      *)
Pay(b) ==
  /\ booking[b].status = "baru"
  /\ Becomes(b, [booking[b] EXCEPT !.status = "dp", !.held = TRUE])

Cancel(b) ==
  /\ booking[b].status \in {"baru", "dp"}
  /\ Becomes(b, [booking[b] EXCEPT !.status = "batal", !.held = FALSE])

-----------------------------------------------------------------------------
Next ==
  \/ \E r \in Requests, k \in Keys, p \in Prints : Receive(r, k, p)
  \/ \E r \in Requests : Refuse(r) \/ CheckoutBegin(r) \/ DealBegin(r) \/ Finish(r)
  \/ \E r \in Requests, b \in Bookings : CheckoutCommit(r, b) \/ DealCommit(r, b)
  \/ \E a \in Accounts : WindowEnds(a)
  \/ Restart
  \/ \E b \in Bookings : DayPasses(b) \/ HoldEnds(b) \/ BlockSeat(b) \/ Pay(b) \/ Cancel(b)

Spec == Init /\ [][Next]_vars

-----------------------------------------------------------------------------
(* What is checked *)

(* Every variable keeps its type; a transaction that has booked names what   *)
(* it booked, and no two hold the same schedule.                             *)
TypeOK ==
  /\ booking \in [Bookings -> {NoBooking} \cup [print : Prints, status : {"baru", "dp", "batal"},
                                                held : BOOLEAN, hariIni : BOOLEAN]]
  /\ toko \in [Keys -> {NULL} \cup Bookings] /\ deal \in [Keys -> {NULL} \cup Bookings]
  /\ hits \in [Accounts -> [count : 0..Cardinality(Bookings), first : {NULL} \cup Bookings]]
  /\ \A r \in Requests : /\ request[r].step \in {"idle", "masuk", "locked", "committed"}
                         /\ request[r].step = "committed" => request[r].booking \in Made
                         /\ request[r].step = "locked" /\ Jalur(r) # "crm" => SameJadwal(r) = {}
  /\ answers \subseteq [key : Keys, print : Prints, booking : Bookings]

(* However often a request is sent, by whomever and at whatever moment,      *)
(* every answer given under a key names the same booking, and that booking   *)
(* is what the one who is answered had asked for (replayCheckout, Process).  *)
AnswersAgree == \A x \in answers :
  /\ booking[x.booking].print = x.print
  /\ \A y \in answers : x.key = y.key /\ (x.print.jalur = "crm") = (y.print.jalur = "crm")
                          => x.booking = y.booking

(* A lead of the CRM becomes one booking, whatever keys it is sent with.     *)
LeadConvertsOnce == \A b, c \in Made :
  booking[b].print.jalur = "crm" /\ booking[b].print.lead = booking[c].print.lead => b = c

(* An answer given again costs nothing: it is not mailed again, and does not *)
(* count against what the account may still book (Handler.CreateBooking).    *)
RepeatsCostNothing ==
  /\ \A b \in Bookings : mails[b] <= IF b \in Made /\ booking[b].print.jalur = "web" THEN 1 ELSE 0
  /\ \A a \in Accounts : hits[a].count <= Cardinality({b \in Made : booking[b].print.akun = a})

(* However many requests of an account run at once, on whatever schedules,   *)
(* and however often the server forgot its counters: no booking of a         *)
(* customer takes the account over a limit (cekBatasAkun).                   *)
AdmissionsWithinLimits == [][\A a \in Accounts, s \in Schedules :
  (\E b \in Made' \ Made : LET p == booking'[b].print IN p.jalur = "web" /\ p.akun = a /\ p.form.jadwal = s)
    => /\ DibuatHariIni(a)' <= BookingHarian
       /\ SeatDitahan(a, {s})' <= SeatPerJadwal /\ SeatDitahan(a, Schedules)' <= SeatTotal]_vars

(* In every state: one booking per key and per lead, the booking that was    *)
(* asked for, and no cost for repeats, however often a request is sent and   *)
(* wherever the server stops.                                                *)
CheckoutInvariant == TypeOK /\ AnswersAgree /\ LeadConvertsOnce /\ RepeatsCostNothing
=============================================================================
