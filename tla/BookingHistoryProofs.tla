------------------------ MODULE BookingHistoryProofs ------------------------
(***************************************************************************)
(* What the kinds of steps of a booking mean for the history of a          *)
(* booking: deadlines, refunds, the money behind a status, the duplicate   *)
(* checks of the portal and of a finalization, the seats that move, and    *)
(* the seat ledger all of it implements.                                   *)
(***************************************************************************)
EXTENDS BookingSystemProofs

-----------------------------------------------------------------------------
(* Rows after their status was derived *)

(* Deriving a status writes status, block and deadline, and nothing else.    *)
LEMMA SyncedSays ==
  ASSUME NEW row \in BookingRow, NEW paid, NEW regular
  PROVE  LET new    == Synced(row, paid, regular)
             target == TargetStatus(row, paid, regular)
         IN  /\ new.schedule = row.schedule /\ new.channel = row.channel /\ new.pic = row.pic
             /\ new.pax = row.pax /\ new.refunded = row.refunded
             /\ new.harga = row.harga /\ new.discounts = row.discounts
             /\ new.full_payment = row.full_payment
             /\ new.status \in Open <=> row.status \in Open
             /\ row.status \notin Open => new = row
             /\ row.status \in Open => new.status = target
             /\ target = row.status => new = row
             /\ row.status \in Open /\ target # row.status =>
                  /\ new.is_seat_blocked = (row.is_seat_blocked \/ target \in Secured)
                  /\ new.hold = IF target \in Secured \/ paid > 0 \/ ~row.is_seat_blocked
                                THEN "none" ELSE "running"
<1> DEFINE new == Synced(row, paid, regular)
           target == TargetStatus(row, paid, regular)
           blocked == row.is_seat_blocked \/ target \in Secured
           deadline == IF target \in Secured \/ paid > 0 \/ ~row.is_seat_blocked
                       THEN "none" ELSE "running"
<1>1. CASE ~Moves(row, paid, regular)
  BY <1>1 DEF Synced, Moves
<1>2. CASE Moves(row, paid, regular)
  <2>1. row.status \in Open /\ target # row.status /\ target \in Open
    BY <1>2, TargetIsOpen DEF Moves
  <2>2. new = [row EXCEPT !.status = target, !.is_seat_blocked = blocked, !.hold = deadline]
    BY <1>2 DEF Synced
  <2> HIDE DEF new, target, blocked, deadline
  <2>3. /\ new.schedule = row.schedule /\ new.channel = row.channel /\ new.pic = row.pic
        /\ new.pax = row.pax /\ new.refunded = row.refunded
        /\ new.harga = row.harga /\ new.discounts = row.discounts
        /\ new.full_payment = row.full_payment
        /\ new.status = target /\ new.is_seat_blocked = blocked /\ new.hold = deadline
    BY <2>2 DEF BookingRow
  <2> QED
    BY <2>1, <2>3 DEF new, target, blocked, deadline
<1> QED
  BY <1>1, <1>2

(* What counts travellers and prices does not see the difference.            *)
LEMMA SyncedCountsAlike ==
  ASSUME NEW row \in BookingRow, NEW paid, NEW regular
  PROVE  LET new == Synced(row, paid, regular)
         IN  /\ Pax(new) = Pax(row) /\ RegularPax(new) = RegularPax(row)
             /\ Total(new) = Total(row)
             /\ \A money, n : TargetStatus(new, money, n) = TargetStatus(row, money, n)
<1> DEFINE new == Synced(row, paid, regular)
<1>1. /\ new.pax = row.pax /\ new.harga = row.harga /\ new.discounts = row.discounts
      /\ new.full_payment = row.full_payment
  BY SyncedSays
<1> HIDE DEF new
<1>2. Pax(new) = Pax(row)
  BY <1>1 DEF Pax
<1>3. Total(new) = Total(row)
  BY <1>1 DEF Total
<1>4. \A n : RequiredBookingDP(new, n) = RequiredBookingDP(row, n)
  BY <1>1, <1>3 DEF RequiredBookingDP
<1> QED
  BY <1>2, <1>3, <1>4 DEF RegularPax, TargetStatus, new

(* A status of a paid booking takes money.                                   *)
LEMMA SecuredTakesMoney ==
  ASSUME NEW row \in BookingRow, NEW paid \in Nat, NEW regular,
         TargetStatus(row, paid, regular) \in Secured
  PROVE  paid > 0
<1>1. Total(row) \in Nat
  BY TotalIsNat
<1> QED
  BY <1>1 DEF TargetStatus, Secured

(* Nothing paid calls for the first status of all.                           *)
LEMMA UnpaidIsBaru ==
  ASSUME NEW row \in BookingRow, NEW regular
  PROVE  TargetStatus(row, 0, regular) = "baru"
<1>1. Total(row) \in Nat
  BY TotalIsNat
<1> QED
  BY <1>1 DEF TargetStatus

-----------------------------------------------------------------------------
(* What the kinds of steps write *)

LEMMA RevisedWrites ==
  ASSUME NEW b \in Bookings, NEW row, NEW released, Revised(b, row, released)
  PROVE  bookings' = [bookings EXCEPT ![b] = Synced(row, Paid(b), Cardinality(RegularPax(row)))]
BY DEF Revised, Recalculate, Save

LEMMA SettlesWrites ==
  ASSUME NEW b \in Bookings, NEW p, NEW money, NEW regular, Settles(b, p, money, regular)
  PROVE  bookings' = [bookings EXCEPT ![b] = Synced(bookings[b], money, regular)]
BY DEF Settles, SyncBooking, Save

(* The money of a booking after one of its payments was decided, and of the  *)
(* others.                                                                   *)
LEMMA SettledMoney ==
  ASSUME IInv, NEW b \in Bookings, NEW p \in Payments, NEW money \in Nat, NEW regular \in Nat,
         Settles(b, p, money, regular)
  PROVE  /\ \A c \in Bookings \ {b} : MoneyStays(c)
         /\ Receives(b, p, money, regular) =>
              /\ p \in ConfirmedOf(b)'
              /\ FreshStep => Paid(b)' = money
         /\ Refuses(b, p, money, regular) =>
              /\ MoneyStays(b)
              /\ FreshStep => Paid(b)' = money
<1>1. payments \in [Payments -> PaymentRow]
  BY DEF IInv, PayInv
<1>2. CASE Receives(b, p, money, regular)
  <2>1. /\ payments' = [payments EXCEPT ![p].status = "confirmed"]
        /\ payments[p].status # "confirmed" /\ payments[p].booking = b
        /\ FreshStep => money = Paid(b) + payments[p].jumlah
    BY <1>2 DEF Receives
  <2>2. \A c \in Bookings \ {b} : MoneyStays(c)
    BY <1>1, <2>1, MoneyConfirmed
  <2>3. ConfirmedOf(b)' = ConfirmedOf(b) \cup {p} /\ Paid(b)' = Paid(b) + payments[p].jumlah
    BY <1>1, <2>1, MoneyConfirmed
  <2>4. ~Refuses(b, p, money, regular)
    BY <1>1, <2>1 DEF Refuses, PaymentRow
  <2> QED
    BY <2>1, <2>2, <2>3, <2>4
<1>3. CASE Refuses(b, p, money, regular)
  <2> DEFINE row == [payments[p] EXCEPT !.status = "rejected"]
  <2>1. /\ payments' = [payments EXCEPT ![p] = row]
        /\ payments[p].status # "confirmed" /\ row.status # "confirmed"
        /\ payments'[p].status = "rejected"
    BY <1>1, <1>3 DEF Refuses, PaymentRow
  <2> HIDE DEF row
  <2>2. \A c \in Bookings : MoneyStays(c)
    BY <1>1, <2>1, MoneyUnconfirmed
  <2>3. ~Receives(b, p, money, regular)
    BY <1>1, <2>1 DEF Receives, PaymentRow
  <2>4. FreshStep => money = Paid(b)
    BY <1>3 DEF Refuses
  <2> QED
    BY <2>2, <2>3, <2>4 DEF MoneyStays
<1> QED
  BY <1>2, <1>3 DEF Settles

-----------------------------------------------------------------------------
(* The inductive invariant *)

(* A status of a paid booking rests on a payment that was confirmed.         *)
SecuredByMoney == \A b \in Bookings : bookings[b].status \in Secured => ConfirmedOf(b) # {}

(* Drafts are the office's; and a portal booking that a finalization will    *)
(* meet on its schedule is one its snapshot shows, or shares no pilgrim.     *)
DraftInv ==
  /\ \A b \in Bookings : bookings[b].status \in {"absent", "draft"} => bookings[b].channel = "office"
  /\ \A b, c \in Bookings :
       (/\ finalizing[b].stage = "locked"
        /\ bookings[c].status \in Open /\ bookings[c].channel = "portal"
        /\ bookings[c].schedule = bookings[b].schedule)
         => Pax(bookings[c]) \cap Pax(bookings[b]) \subseteq finalizing[b].registered

HInv ==
  /\ IInv /\ MoneyInv
  /\ SecuredByMoney
  /\ NoDeadlineOnSecuredSeats
  /\ RefundsFitPayments
  /\ DraftInv

LEMMA HistoryBegins ==
  ASSUME Init
  PROVE  HInv
<1>1. IInv
  BY InitEstablishes
<1>2. bookings = [b \in Bookings |-> NoRow] /\ payments = [p \in Payments |-> NoPayment]
  BY DEF Init
<1>3. NoRow.status = "absent" /\ NoRow.channel = "office" /\ NoRow.refunded = 0
  BY DEF NoRow
<1>4. \A b \in Bookings : bookings[b].status = "absent" /\ bookings[b].channel = "office"
                           /\ bookings[b].refunded = 0 /\ finalizing[b].stage = "idle"
  BY <1>2, <1>3 DEF Init, Idle
<1>5. \A v \in Verifiers : verifying[v].payment \notin Payments
  BY NullAssumption DEF Init, NoSnapshot
<1>6. \A p \in Payments : payments[p].booking \notin Bookings
  BY <1>2, NullAssumption DEF NoPayment
<1> QED
  BY <1>1, <1>4, <1>5, <1>6
     DEF HInv, MoneyInv, SecuredByMoney, NoDeadlineOnSecuredSeats, RefundsFitPayments, DraftInv,
         Secured, Open

(* What is not yet, or never was, binding has no confirmed money.            *)
LEMMA FreshHasNoMoney ==
  ASSUME IInv, NEW b \in Bookings, bookings[b].status \notin Settled
  PROVE  ConfirmedOf(b) = {} /\ Paid(b) = 0
<1>1. ConfirmedOf(b) = {}
  BY DEF IInv, PayInv, ConfirmedOf
<1> QED
  BY <1>1, NothingPaid

(* The money behind the status of a paid booking.                            *)
LEMMA SecuredIsPaid ==
  ASSUME HInv, NEW b \in Bookings, bookings[b].status \in Secured
  PROVE  Paid(b) \in Nat /\ Paid(b) > 0
<1>1. payments \in [Payments -> PaymentRow]
  BY DEF HInv, IInv, PayInv
<1>2. ConfirmedOf(b) \in SUBSET Payments /\ ConfirmedOf(b) # {}
  BY DEF HInv, SecuredByMoney, ConfirmedOf
<1>3. \A p \in ConfirmedOf(b) : payments[p].jumlah > 0
  BY DEF HInv, MoneyInv, ConfirmedOf
<1> QED
  BY <1>1, <1>2, <1>3, AmountPositive, PaidIsNat DEF Paid

(* Rows and their types, for the steps below.                                *)
LEMMA HistoryFacts ==
  ASSUME HInv
  PROVE  /\ bookings \in [Bookings -> BookingRow]
         /\ \A b \in Bookings : bookings[b] \in BookingRow /\ GoodRow(bookings[b])
         /\ payments \in [Payments -> PaymentRow]
         /\ \A b \in Bookings : Paid(b) \in Nat
<1>1. payments \in [Payments -> PaymentRow]
  BY DEF HInv, IInv, PayInv
<1>2. \A b \in Bookings : Paid(b) \in Nat
  BY <1>1, PaidIsNat
<1> QED
  BY <1>1, <1>2 DEF HInv, IInv, BookInv, StoreInv

(* What a rewriting step leaves of status, deadline and refunds, given what  *)
(* was confirmed for the booking.                                            *)
Sound(b, new) ==
  /\ new.status \in Secured => ConfirmedOf(b) # {} /\ new.hold = "none"
  /\ new.refunded > 0 => new.status = "batal" /\ new.refunded <= Paid(b)

LEMMA RevisedIsSound ==
  ASSUME HInv, NEW b \in Bookings, NEW row, GoodRow(row), NEW released, Revised(b, row, released)
  PROVE  Sound(b, Synced(row, Paid(b), Cardinality(RegularPax(row))))
<1> DEFINE regular == Cardinality(RegularPax(row))
           new == Synced(row, Paid(b), regular)
           target == TargetStatus(row, Paid(b), regular)
<1>1. row \in BookingRow /\ Paid(b) \in Nat
  BY HistoryFacts DEF GoodRow
<1>2. /\ new.refunded = row.refunded
      /\ row.status \notin Open => new = row
      /\ row.status \in Open => new.status = target
      /\ target = row.status => new = row
      /\ row.status \in Open /\ target # row.status =>
           new.hold = IF target \in Secured \/ Paid(b) > 0 \/ ~row.is_seat_blocked
                      THEN "none" ELSE "running"
  BY <1>1, SyncedSays
<1>3. /\ row.refunded = bookings[b].refunded /\ row.hold = bookings[b].hold
      /\ row.status = bookings[b].status \/ row.status = "batal"
  BY DEF Revised
<1>4. target \in Secured => ConfirmedOf(b) # {}
  BY <1>1, SecuredTakesMoney, NothingPaid
<1> HIDE DEF new, target, regular
<1>5. new.status \in Secured => ConfirmedOf(b) # {} /\ new.hold = "none"
  BY <1>2, <1>3, <1>4 DEF HInv, NoDeadlineOnSecuredSeats, Secured, Open
<1>6. new.refunded > 0 => new.status = "batal" /\ new.refunded <= Paid(b)
  BY <1>2, <1>3 DEF HInv, RefundsFitPayments, Open
<1> QED
  BY <1>5, <1>6 DEF Sound, new, regular

LEMMA RewrittenIsSound ==
  ASSUME HInv, NEW b \in Bookings, NEW row, Rewrites(b, row)
  PROVE  \E new : bookings' = [bookings EXCEPT ![b] = new] /\ Sound(b, new)
<1>1. /\ bookings[b] \in BookingRow /\ GoodRow(bookings[b]) /\ GoodRow(row)
      /\ row \in BookingRow /\ Paid(b) \in Nat
  BY HistoryFacts DEF Rewrites, GoodRow
<1>2. /\ bookings[b].status \in Secured => ConfirmedOf(b) # {} /\ bookings[b].hold = "none"
      /\ bookings[b].refunded > 0 => bookings[b].status = "batal" /\ bookings[b].refunded <= Paid(b)
  BY DEF HInv, SecuredByMoney, NoDeadlineOnSecuredSeats, RefundsFitPayments
<1>3. CASE Drafted(b, row)
  <2>1. Sound(b, row)
    BY <1>3 DEF Drafted, Sound, Secured
  <2> QED
    BY <1>3, <2>1 DEF Drafted
<1>4. CASE Opened(b, row)
  <2>1. row.status = "baru" /\ (row.refunded = 0 \/ row.refunded = bookings[b].refunded)
        /\ bookings[b].status # "batal"
    BY <1>4 DEF Opened
  <2>2. Sound(b, row)
    BY <1>2, <2>1 DEF Sound, Secured
  <2> QED
    BY <1>4, <2>2 DEF Opened, Save
<1>5. ASSUME NEW released \in Nat, Revised(b, row, released)
      PROVE  \E new : bookings' = [bookings EXCEPT ![b] = new] /\ Sound(b, new)
  BY <1>1, <1>5, RevisedWrites, RevisedIsSound
<1>6. CASE LetsGo(b, row)
  <2>1. bookings' = [bookings EXCEPT ![b] = row]
    BY <1>6 DEF LetsGo, Save
  <2>2. CASE bookings[b].is_seat_blocked /\ row = Unblocked(bookings[b])
    <3>1. row.status = bookings[b].status /\ row.refunded = bookings[b].refunded /\ row.hold = "none"
      BY <1>1, <2>2 DEF Unblocked, BookingRow
    <3> QED
      BY <1>2, <2>1, <3>1 DEF Sound
  <2>3. CASE row = Cancelled(bookings[b])
    <3>1. row.status = "batal" /\ row.refunded = bookings[b].refunded
      BY <1>1, <2>3 DEF Cancelled, Unblocked, BookingRow
    <3> QED
      BY <1>2, <2>1, <3>1 DEF Sound, Secured
  <2> QED
    BY <1>6, <2>2, <2>3 DEF LetsGo
<1>7. CASE Blocks(b, row)
  <2>1. PICK hold \in {"none", "running"} :
          row = [bookings[b] EXCEPT !.is_seat_blocked = TRUE,
                                    !.hold = IF bookings[b].status = "baru" THEN hold ELSE "none"]
    BY <1>7 DEF Blocks
  <2>2. /\ row.status = bookings[b].status /\ row.refunded = bookings[b].refunded
        /\ bookings[b].status # "baru" => row.hold = "none"
    BY <1>1, <2>1 DEF BookingRow
  <2>3. bookings' = [bookings EXCEPT ![b] = row]
    BY <1>7 DEF Blocks, Save
  <2> QED
    BY <1>2, <2>2, <2>3 DEF Sound, Secured
<1>8. CASE Refunds(b, row)
  <2>1. PICK jumlah \in Nat : /\ bookings[b].refunded + jumlah <= Paid(b)
                              /\ row = [bookings[b] EXCEPT !.refunded = @ + jumlah]
    BY <1>8 DEF Refunds
  <2>2. row.status = bookings[b].status /\ row.refunded = bookings[b].refunded + jumlah
    BY <1>1, <2>1 DEF BookingRow
  <2>3. bookings' = [bookings EXCEPT ![b] = row] /\ bookings[b].status = "batal"
    BY <1>8 DEF Refunds, Save
  <2> QED
    BY <2>1, <2>2, <2>3 DEF Sound, Secured
<1>9. CASE Lapses(b, row)
  <2>1. row.status = bookings[b].status /\ row.refunded = bookings[b].refunded
    BY <1>1, <1>9 DEF Lapses, BookingRow
  <2> QED
    BY <1>2, <1>9, <2>1 DEF Lapses, Sound
<1> QED
  BY <1>3, <1>4, <1>5, <1>6, <1>7, <1>8, <1>9 DEF Rewrites

(* The money behind every status, the deadlines and the refunds stay sound.  *)
LEMMA SoundnessKept ==
  ASSUME HInv, [Next]_vars
  PROVE  SecuredByMoney' /\ NoDeadlineOnSecuredSeats' /\ RefundsFitPayments'
<1>1. /\ bookings \in [Bookings -> BookingRow]
      /\ \A b \in Bookings : bookings[b] \in BookingRow
      /\ \A b \in Bookings : Paid(b) \in Nat
  BY HistoryFacts
<1>2. \A b \in Bookings : Sound(b, bookings[b])
  BY DEF HInv, SecuredByMoney, NoDeadlineOnSecuredSeats, RefundsFitPayments, Sound
<1>3. ASSUME \A b \in Bookings :
               /\ bookings'[b].status \in Secured => ConfirmedOf(b)' # {} /\ bookings'[b].hold = "none"
               /\ bookings'[b].refunded > 0 =>
                    bookings'[b].status = "batal" /\ bookings'[b].refunded <= Paid(b)'
      PROVE  SecuredByMoney' /\ NoDeadlineOnSecuredSeats' /\ RefundsFitPayments'
  BY <1>3 DEF SecuredByMoney, NoDeadlineOnSecuredSeats, RefundsFitPayments
<1>4. ASSUME \A b \in Bookings : MoneyStays(b), \A b \in Bookings : Sound(b, bookings'[b])
      PROVE  SecuredByMoney' /\ NoDeadlineOnSecuredSeats' /\ RefundsFitPayments'
  BY <1>3, <1>4 DEF MoneyStays, Sound
<1>5. CASE (\A b \in Bookings : MoneyStays(b)) /\ Quiet
  BY <1>2, <1>4, <1>5 DEF Quiet
<1>6. ASSUME \A c \in Bookings : MoneyStays(c), NEW b \in Bookings, NEW row, Rewrites(b, row)
      PROVE  SecuredByMoney' /\ NoDeadlineOnSecuredSeats' /\ RefundsFitPayments'
  <2>1. PICK new : bookings' = [bookings EXCEPT ![b] = new] /\ Sound(b, new)
    BY <1>6, RewrittenIsSound
  <2>2. \A c \in Bookings : Sound(c, bookings'[c])
    BY <1>1, <1>2, <2>1
  <2> QED
    BY <1>4, <1>6, <2>2
<1>7. ASSUME NEW b \in Bookings, NEW p \in Payments, NEW money \in Nat, NEW regular \in Nat,
             Settles(b, p, money, regular)
      PROVE  SecuredByMoney' /\ NoDeadlineOnSecuredSeats' /\ RefundsFitPayments'
  <2> DEFINE new == Synced(bookings[b], money, regular)
             target == TargetStatus(bookings[b], money, regular)
  <2>1. bookings' = [bookings EXCEPT ![b] = new]
    BY <1>7, SettlesWrites
  <2>2. \A c \in Bookings \ {b} : bookings'[c] = bookings[c] /\ MoneyStays(c)
    BY <1>7, <2>1, SettledMoney, HistoryFacts DEF HInv
  <2>3. bookings'[b] = new
    BY <1>1, <2>1
  <2>4. /\ new.refunded = bookings[b].refunded
        /\ bookings[b].status \notin Open => new = bookings[b]
        /\ bookings[b].status \in Open => new.status = target
        /\ target = bookings[b].status => new = bookings[b]
        /\ bookings[b].status \in Open /\ target # bookings[b].status /\ target \in Secured =>
             new.hold = "none"
    BY <1>1, SyncedSays
  <2>5. target \in Secured => money > 0
    BY <1>1, SecuredTakesMoney
  <2>6. CASE Receives(b, p, money, regular)
    <3>1. ConfirmedOf(b)' # {}
      BY <1>7, <2>6, SettledMoney DEF HInv
    <3>2. bookings[b].status \in Open
      BY <2>6 DEF Receives
    <3>3. bookings[b].refunded = 0
      BY <1>1, <1>2, <3>2 DEF Sound, Open, BookingRow
    <3> HIDE DEF new, target
    <3>4. /\ new.status \in Secured => ConfirmedOf(b)' # {} /\ new.hold = "none"
          /\ ~ new.refunded > 0
      BY <1>2, <2>4, <3>1, <3>2, <3>3 DEF Sound
    <3> QED
      BY <1>2, <1>3, <2>2, <2>3, <3>4 DEF MoneyStays, Sound
  <2>7. CASE Refuses(b, p, money, regular)
    <3>1. MoneyStays(b)
      BY <1>7, <2>7, SettledMoney DEF HInv
    <3>2. money > 0 => ConfirmedOf(b) # {}
      BY <2>7 DEF Refuses
    <3> HIDE DEF new, target
    <3>3. Sound(b, new)
      BY <1>2, <2>4, <2>5, <3>2 DEF Sound, Secured, Open
    <3> QED
      BY <1>2, <1>4, <2>2, <2>3, <3>1, <3>3
  <2> QED
    BY <1>7, <2>6, <2>7 DEF Settles
<1> QED
  BY <1>5, <1>6, <1>7, StepIs DEF HInv

-----------------------------------------------------------------------------
(* How a booking goes on *)

(* A booking that is neither drafted nor opened keeps its schedule and its   *)
(* channel, gains no traveller, and stays binding or cancelled once it is.   *)
Continues(b, new) ==
  /\ new.schedule = bookings[b].schedule /\ new.channel = bookings[b].channel
  /\ Pax(new) \subseteq Pax(bookings[b])
  /\ finalizing[b].stage = "locked" => Pax(new) = Pax(bookings[b])
  /\ \/ new.status = bookings[b].status \/ new.status = "batal"
     \/ new.status \in Open /\ bookings[b].status \in Open
  /\ bookings[b].status \in Open /\ bookings[b].pic \in RegularPax(bookings[b])
       => new.status = "batal" \/ new.pic \in RegularPax(new)

LEMMA RevisedContinues ==
  ASSUME HInv, NEW b \in Bookings, NEW row, GoodRow(row), NEW released, Revised(b, row, released)
  PROVE  Continues(b, Synced(row, Paid(b), Cardinality(RegularPax(row))))
<1> DEFINE regular == Cardinality(RegularPax(row))
           new == Synced(row, Paid(b), regular)
<1>1. row \in BookingRow
  BY DEF GoodRow
<1>2. /\ new.schedule = row.schedule /\ new.channel = row.channel /\ new.pic = row.pic
      /\ new.status \in Open <=> row.status \in Open
      /\ row.status \notin Open => new = row
  BY <1>1, SyncedSays
<1>3. Pax(new) = Pax(row) /\ RegularPax(new) = RegularPax(row)
  BY <1>1, SyncedCountsAlike
<1> HIDE DEF new, regular
<1>4. Unlocked(b) /\ Pax(row) \subseteq Pax(bookings[b])
      /\ (row.status = bookings[b].status \/ row.status = "batal")
      /\ row.schedule = bookings[b].schedule /\ row.channel = bookings[b].channel
      /\ (bookings[b].status \in Open /\ bookings[b].pic \in RegularPax(bookings[b])
            => row.status = "batal" \/ row.pic \in RegularPax(row))
  BY DEF Revised
<1>5. finalizing[b].stage # "locked"
  BY <1>4 DEF Unlocked
<1>6. row.status = "batal" => new.status = "batal"
  BY <1>2 DEF Open
<1>7. new.status = bookings[b].status \/ new.status = "batal" \/ (new.status \in Open /\ bookings[b].status \in Open)
  BY <1>2, <1>4, <1>6
<1>8. Continues(b, new)
  BY <1>2, <1>3, <1>4, <1>5, <1>6, <1>7 DEF Continues
<1> QED
  BY <1>8 DEF new, regular

LEMMA SettledContinues ==
  ASSUME HInv, NEW b \in Bookings, NEW money, NEW regular
  PROVE  Continues(b, Synced(bookings[b], money, regular))
<1> DEFINE new == Synced(bookings[b], money, regular)
<1>1. bookings[b] \in BookingRow
  BY HistoryFacts
<1>2. /\ new.schedule = bookings[b].schedule /\ new.channel = bookings[b].channel
      /\ new.pic = bookings[b].pic
      /\ new.status \in Open <=> bookings[b].status \in Open
      /\ bookings[b].status \notin Open => new = bookings[b]
  BY <1>1, SyncedSays
<1>3. Pax(new) = Pax(bookings[b]) /\ RegularPax(new) = RegularPax(bookings[b])
  BY <1>1, SyncedCountsAlike
<1> HIDE DEF new
<1>4. Continues(b, new)
  BY <1>2, <1>3 DEF Continues
<1> QED
  BY <1>4 DEF new

(* A booking whose row keeps its header and pax.                             *)
LEMMA SameContinues ==
  ASSUME NEW b, NEW new,
         new.schedule = bookings[b].schedule, new.channel = bookings[b].channel,
         new.pax = bookings[b].pax, new.status = bookings[b].status, new.pic = bookings[b].pic
  PROVE  Continues(b, new)
BY DEF Continues, Pax, RegularPax

LEMMA WritesContinue ==
  ASSUME HInv, NEW b \in Bookings, NEW row, Rewrites(b, row)
  PROVE  \/ Drafted(b, row) \/ Opened(b, row)
         \/ \E new : /\ bookings' = [bookings EXCEPT ![b] = new]
                     /\ Continues(b, new) /\ UNCHANGED finalizing
<1>1. bookings[b] \in BookingRow /\ GoodRow(row)
  BY HistoryFacts DEF Rewrites
<1>2. ASSUME NEW released \in Nat, Revised(b, row, released)
      PROVE  \E new : /\ bookings' = [bookings EXCEPT ![b] = new]
                      /\ Continues(b, new) /\ UNCHANGED finalizing
  <2>1. UNCHANGED finalizing
    BY <1>2 DEF Revised, WorkAside
  <2> QED
    BY <1>1, <1>2, <2>1, RevisedWrites, RevisedContinues
<1>3. CASE LetsGo(b, row)
  <2>1. bookings' = [bookings EXCEPT ![b] = row] /\ UNCHANGED finalizing
    BY <1>3 DEF LetsGo, Save
  <2>2. CASE row = Unblocked(bookings[b])
    <3>1. /\ row.schedule = bookings[b].schedule /\ row.channel = bookings[b].channel
          /\ row.pax = bookings[b].pax /\ row.status = bookings[b].status /\ row.pic = bookings[b].pic
      BY <1>1, <2>2 DEF Unblocked, BookingRow
    <3> QED
      BY <2>1, <3>1, SameContinues
  <2>3. CASE Unlocked(b) /\ row = Cancelled(bookings[b])
    <3>1. /\ row.schedule = bookings[b].schedule /\ row.channel = bookings[b].channel
          /\ row.status = "batal"
          /\ \/ row.pax = bookings[b].pax
             \/ row.pax = [j \in Jamaah |-> IF bookings[b].pax[j] = "none" THEN "none" ELSE "batal"]
      BY <1>1, <2>3 DEF Cancelled, Unblocked, BookingRow
    <3>2. Pax(row) \subseteq Pax(bookings[b])
      BY <3>1 DEF Pax
    <3> QED
      BY <2>1, <2>3, <3>1, <3>2 DEF Continues, Unlocked
  <2> QED
    BY <1>3, <2>2, <2>3 DEF LetsGo
<1>4. CASE Blocks(b, row) \/ Refunds(b, row) \/ Lapses(b, row)
  <2>1. bookings' = [bookings EXCEPT ![b] = row] /\ UNCHANGED finalizing
    BY <1>4 DEF Blocks, Refunds, Lapses, Save, WorkAside
  <2>2. /\ row.schedule = bookings[b].schedule /\ row.channel = bookings[b].channel
        /\ row.pax = bookings[b].pax /\ row.status = bookings[b].status /\ row.pic = bookings[b].pic
    BY <1>1, <1>4 DEF Blocks, Refunds, Lapses, BookingRow
  <2> QED
    BY <2>1, <2>2, SameContinues
<1> QED
  BY <1>2, <1>3, <1>4 DEF Rewrites

(* One step, as far as rows and finalizations go.                            *)
LEMMA StepWrites ==
  ASSUME HInv, [Next]_vars
  PROVE  \/ Quiet
         \/ \E b \in Bookings : \E new :
              /\ bookings' = [bookings EXCEPT ![b] = new]
              /\ \/ GoodRow(new) /\ (Drafted(b, new) \/ Opened(b, new))
                 \/ Continues(b, new) /\ UNCHANGED finalizing
<1>1. ASSUME NEW b \in Bookings, NEW row, Rewrites(b, row)
      PROVE  \E new : /\ bookings' = [bookings EXCEPT ![b] = new]
                      /\ \/ GoodRow(new) /\ (Drafted(b, new) \/ Opened(b, new))
                         \/ Continues(b, new) /\ UNCHANGED finalizing
  <2>1. GoodRow(row)
    BY <1>1 DEF Rewrites
  <2>2. CASE Drafted(b, row) \/ Opened(b, row)
    <3>1. bookings' = [bookings EXCEPT ![b] = row]
      BY <2>2 DEF Drafted, Opened, Save
    <3> QED
      BY <2>1, <2>2, <3>1
  <2> QED
    BY <1>1, <2>2, WritesContinue
<1>2. ASSUME NEW b \in Bookings, NEW p \in Payments, NEW money \in Nat, NEW regular \in Nat,
             Settles(b, p, money, regular)
      PROVE  \E new : /\ bookings' = [bookings EXCEPT ![b] = new]
                      /\ Continues(b, new) /\ UNCHANGED finalizing
  <2>1. UNCHANGED finalizing
    BY <1>2 DEF Settles
  <2> QED
    BY <1>2, <2>1, SettlesWrites, SettledContinues
<1>3. \/ Quiet
      \/ \E b \in Bookings, row \in BookingRow : Rewrites(b, row)
      \/ \E b \in Bookings, p \in Payments, money \in Nat, regular \in Nat : Settles(b, p, money, regular)
  BY StepIs DEF HInv
<1> QED
  BY <1>1, <1>2, <1>3

(* The snapshot of a finalization stays good enough for the portal bookings  *)
(* it will meet.                                                             *)
LEMMA DraftsKept ==
  ASSUME HInv, [Next]_vars, IInv'
  PROVE  DraftInv'
<1>1. /\ bookings \in [Bookings -> BookingRow]
      /\ finalizing \in [Bookings -> Progress]
      /\ \A b \in Bookings : finalizing[b].stage = "locked" => bookings[b].status = "draft"
      /\ \A b \in Bookings : finalizing'[b].stage = "locked" => bookings'[b].status = "draft"
  BY DEF HInv, IInv, BookInv, LockedAreDrafts, StoreInv
<1>2. /\ \A b \in Bookings : bookings[b].status \in {"absent", "draft"} => bookings[b].channel = "office"
      /\ \A b, c \in Bookings :
           (/\ finalizing[b].stage = "locked"
            /\ bookings[c].status \in Open /\ bookings[c].channel = "portal"
            /\ bookings[c].schedule = bookings[b].schedule)
             => Pax(bookings[c]) \cap Pax(bookings[b]) \subseteq finalizing[b].registered
  BY DEF HInv, DraftInv
<1>3. ASSUME \A b \in Bookings : bookings'[b].status \in {"absent", "draft"} => bookings'[b].channel = "office",
             \A b, c \in Bookings :
               (/\ finalizing'[b].stage = "locked"
                /\ bookings'[c].status \in Open /\ bookings'[c].channel = "portal"
                /\ bookings'[c].schedule = bookings'[b].schedule)
                 => Pax(bookings'[c]) \cap Pax(bookings'[b]) \subseteq finalizing'[b].registered
      PROVE  DraftInv'
  BY <1>3 DEF DraftInv, Pax
<1>4. CASE Quiet
  <2>1. UNCHANGED bookings
    BY <1>4 DEF Quiet
  <2>2. CASE UNCHANGED finalizing
    BY <1>2, <1>3, <2>1, <2>2
  <2>3. ASSUME NEW b \in Bookings, NEW progress \in Progress, Advance(b, progress),
               progress.stage = "locked" => progress.registered = Registered(bookings[b].schedule, b)
        PROVE  DraftInv'
    <3>1. finalizing'[b] = progress /\ \A d \in Bookings \ {b} : finalizing'[d] = finalizing[d]
      BY <1>1, <2>3 DEF Advance
    <3>2. ASSUME progress.stage = "locked", NEW c \in Bookings,
                 bookings[c].status \in Open, bookings[c].schedule = bookings[b].schedule
          PROVE  Pax(bookings[c]) \subseteq progress.registered
      <4>1. c # b
        BY <1>1, <2>1, <3>1, <3>2 DEF Open
      <4>2. Pax(bookings[c]) \subseteq Jamaah
        BY DEF Pax
      <4> QED
        BY <2>3, <3>2, <4>1, <4>2 DEF Registered
    <3> QED
      BY <1>2, <1>3, <2>1, <3>1, <3>2
  <2> QED
    BY <1>4, <2>2, <2>3 DEF Quiet
<1>5. ASSUME NEW b \in Bookings, NEW new, bookings' = [bookings EXCEPT ![b] = new],
             \/ GoodRow(new) /\ (Drafted(b, new) \/ Opened(b, new))
             \/ Continues(b, new) /\ UNCHANGED finalizing
      PROVE  DraftInv'
  <2>1. bookings'[b] = new /\ \A c \in Bookings \ {b} : bookings'[c] = bookings[c]
    BY <1>1, <1>5
  <2>2. \A d \in Bookings : finalizing'[d].stage = "locked" =>
          /\ finalizing'[d] = finalizing[d]
          /\ d # b \/ Continues(b, new)
    <3>1. CASE UNCHANGED finalizing
      BY <1>1, <1>5, <3>1 DEF Drafted, Opened, Unlocked
    <3>2. CASE finalizing' = [finalizing EXCEPT ![b] = Idle]
      BY <1>1, <3>2 DEF Idle
    <3> QED
      BY <1>5, <3>1, <3>2 DEF Drafted, Opened, WorkAside
  <2>3. bookings'[b].status \in {"absent", "draft"} => bookings'[b].channel = "office"
    <3>1. CASE Drafted(b, new) \/ Opened(b, new)
      BY <2>1, <3>1 DEF Drafted, Opened
    <3>2. CASE Continues(b, new)
      BY <1>2, <2>1, <3>2 DEF Continues, Open
    <3> QED
      BY <1>5, <3>1, <3>2
  <2>4. ASSUME NEW d \in Bookings, NEW c \in Bookings,
               finalizing'[d].stage = "locked",
               bookings'[c].status \in Open, bookings'[c].channel = "portal",
               bookings'[c].schedule = bookings'[d].schedule
        PROVE  Pax(bookings'[c]) \cap Pax(bookings'[d]) \subseteq finalizing'[d].registered
    <3>1. finalizing'[d] = finalizing[d] /\ finalizing[d].stage = "locked"
      BY <2>2, <2>4
    <3>2. bookings'[d].schedule = bookings[d].schedule /\ Pax(bookings'[d]) = Pax(bookings[d])
      BY <2>1, <2>2, <2>4, <3>1 DEF Continues
    <3>3. c # d
      BY <1>1, <2>4 DEF Open
    <3>4. CASE c # b
      <4>1. bookings'[c] = bookings[c]
        BY <2>1, <3>4
      <4> QED
        BY <1>2, <2>4, <3>1, <3>2, <4>1
    <3>5. CASE c = b /\ Opened(b, new)
      <4>1. new.channel = "portal" /\ new.schedule = bookings[d].schedule
        BY <2>1, <2>4, <3>2, <3>5
      <4>2. NotBeingFinalized(new.schedule, Pax(new))
        BY <1>2, <3>5, <4>1 DEF Opened
      <4>3. Pax(bookings[d]) \cap Pax(new) = {}
        BY <3>1, <4>1, <4>2 DEF NotBeingFinalized
      <4> QED
        BY <2>1, <3>2, <3>5, <4>3
    <3>6. CASE c = b /\ Continues(b, new)
      <4>1. /\ bookings[b].status \in Open /\ bookings[b].channel = "portal"
            /\ bookings[b].schedule = bookings[d].schedule
            /\ Pax(new) \subseteq Pax(bookings[b])
        BY <2>1, <2>4, <3>2, <3>6 DEF Continues, Open
      <4>2. Pax(bookings[b]) \cap Pax(bookings[d]) \subseteq finalizing[d].registered
        BY <1>2, <3>1, <4>1
      <4> QED
        BY <2>1, <3>1, <3>2, <3>6, <4>1, <4>2
    <3>7. CASE c = b /\ Drafted(b, new)
      BY <2>1, <2>4, <3>7 DEF Drafted, Open
    <3> QED
      BY <1>5, <3>4, <3>5, <3>6, <3>7
  <2>5. \A c \in Bookings : bookings'[c].status \in {"absent", "draft"} => bookings'[c].channel = "office"
    BY <1>2, <2>1, <2>3
  <2> QED
    BY <1>3, <2>4, <2>5
<1> QED
  BY <1>4, <1>5, StepWrites

LEMMA HistoryKept ==
  ASSUME HInv, [Next]_vars
  PROVE  HInv'
<1>1. IInv'
  BY NextKeeps DEF HInv
<1>2. MoneyInv'
  BY MoneyKeeps DEF HInv
<1> QED
  BY <1>1, <1>2, SoundnessKept, DraftsKept DEF HInv

(* The inductive invariant holds of every reachable state.                   *)
THEOREM HistoryInvariant == Spec => []HInv
<1>1. Init => HInv
  BY HistoryBegins
<1>2. HInv /\ [Next]_vars => HInv'
  BY HistoryKept
<1> QED
  BY <1>1, <1>2, PTL DEF Spec

(* No deadline ever hangs over a booking whose status is that of a paid one  *)
(* (dp, lunas; JB-03), for any numbers of bookings, payments, verifications. *)
THEOREM SecuredSeatsHaveNoDeadline == Spec => []NoDeadlineOnSecuredSeats
<1>1. HInv => NoDeadlineOnSecuredSeats
  BY DEF HInv
<1> QED
  BY <1>1, HistoryInvariant, PTL

(* Never more is refunded than was confirmed, and for cancelled bookings     *)
(* only (booking/refund.go).                                                 *)
THEOREM RefundsAlwaysFit == Spec => []RefundsFitPayments
<1>1. HInv => RefundsFitPayments
  BY DEF HInv
<1> QED
  BY <1>1, HistoryInvariant, PTL

-----------------------------------------------------------------------------
(* What a step may never do: statuses, contacts, duplicates *)

(* A booking is left alone, drafted, opened, or goes on.                     *)
LEMMA EachBookingMoves ==
  ASSUME HInv, [Next]_vars, NEW b \in Bookings
  PROVE  \/ bookings'[b] = bookings[b]
         \/ Drafted(b, bookings'[b])
         \/ Opened(b, bookings'[b])
         \/ Continues(b, bookings'[b])
<1>1. bookings \in [Bookings -> BookingRow]
  BY HistoryFacts
<1>2. CASE Quiet
  BY <1>2 DEF Quiet
<1>3. ASSUME NEW c \in Bookings, NEW new, bookings' = [bookings EXCEPT ![c] = new],
             Drafted(c, new) \/ Opened(c, new) \/ Continues(c, new)
      PROVE  \/ bookings'[b] = bookings[b]
             \/ Drafted(b, bookings'[b]) \/ Opened(b, bookings'[b]) \/ Continues(b, bookings'[b])
  <2>1. CASE c = b
    <3>1. bookings'[b] = new
      BY <1>1, <1>3, <2>1
    <3> QED
      BY <1>3, <2>1, <3>1
  <2>2. CASE c # b
    BY <1>3, <2>2
  <2> QED
    BY <2>1, <2>2
<1> QED
  BY <1>2, <1>3, StepWrites

(* A booking that becomes binding was opened.                                *)
LEMMA BecomingOpen ==
  ASSUME HInv, [Next]_vars, NEW b \in Bookings,
         bookings[b].status \notin Open, bookings'[b].status \in Open
  PROVE  Opened(b, bookings'[b])
<1>1. ~Drafted(b, bookings'[b])
  BY DEF Drafted, Open
<1>2. ~Continues(b, bookings'[b])
  BY DEF Continues, Open
<1> QED
  BY <1>1, <1>2, EachBookingMoves

(* No confirmed money is added to a cancelled booking.                       *)
LEMMA CancelledMoneyStays ==
  ASSUME HInv, [Next]_vars, NEW b \in Bookings, bookings[b].status = "batal"
  PROVE  ConfirmedOf(b)' = ConfirmedOf(b)
<1>1. ASSUME NEW c \in Bookings, NEW p \in Payments, NEW money \in Nat, NEW regular \in Nat,
             Settles(c, p, money, regular)
      PROVE  MoneyStays(b)
  <2>1. CASE c # b
    BY <1>1, <2>1, SettledMoney DEF HInv
  <2>2. CASE c = b
    <3>1. ~Receives(c, p, money, regular)
      BY <2>2 DEF Receives, Open
    <3> QED
      BY <1>1, <2>2, <3>1, SettledMoney DEF HInv, Settles
  <2> QED
    BY <2>1, <2>2
<1>2. MoneyStays(b)
  BY <1>1, StepIs DEF HInv
<1> QED
  BY <1>2 DEF MoneyStays

LEMMA CancelledStays ==
  ASSUME HInv, [Next]_vars, HInv', NEW b \in Bookings, bookings[b].status = "batal"
  PROVE  bookings'[b].status = "batal" /\ ~bookings'[b].is_seat_blocked
<1>1. bookings'[b].status = "batal"
  BY EachBookingMoves DEF Drafted, Opened, Continues, Open
<1>2. bookings'[b].is_seat_blocked => bookings'[b].status \in Open
  BY DEF HInv, IInv, BookInv, StoreInv, GoodRow
<1> QED
  BY <1>1, <1>2 DEF Open

(* Cancelling is final: neither a payment nor a verification, a finalization *)
(* or the worker moves a cancelled booking, and nothing is confirmed on it.  *)
THEOREM CancelledForGood == Spec => CancellationIsFinal
<1>1. HInv /\ [Next]_vars /\ HInv' =>
        [\A b \in Bookings : bookings[b].status = "batal" =>
           /\ bookings'[b].status = "batal" /\ ~bookings'[b].is_seat_blocked
           /\ ConfirmedOf(b)' = ConfirmedOf(b)]_vars
  BY CancelledStays, CancelledMoneyStays
<1> QED
  BY <1>1, HistoryInvariant, PTL DEF Spec, CancellationIsFinal

(* A payment is decided once, whichever verifications and deletions race.    *)
THEOREM DecidedOnce == Spec => DecisionIsFinal
<1>1. ASSUME HInv, [Next]_vars, NEW p \in Payments,
             payments[p].status \in {"confirmed", "rejected", "deleted"}
      PROVE  payments'[p] = payments[p]
  <2>1. ASSUME NEW q \in Payments, NEW row, payments' = [payments EXCEPT ![q] = row],
               payments[q].status \in {"absent", "pending"}
        PROVE  payments'[p] = payments[p]
    <3>1. p # q
      BY <1>1, <2>1
    <3>2. payments \in [Payments -> PaymentRow]
      BY <1>1, HistoryFacts
    <3> QED
      BY <1>1, <2>1, <3>1, <3>2
  <2>2. UNCHANGED payments \/ \E q \in Payments, row \in PaymentRow :
          payments' = [payments EXCEPT ![q] = row] /\ payments[q].status \in {"absent", "pending"}
    BY <1>1, PaymentMoves DEF HInv
  <2> QED
    BY <2>1, <2>2
<1>2. HInv /\ [Next]_vars =>
        [\A p \in Payments :
           payments[p].status \in {"confirmed", "rejected", "deleted"}
             => payments'[p] = payments[p]]_vars
  BY <1>1
<1> QED
  BY <1>2, HistoryInvariant, PTL DEF Spec, DecisionIsFinal

(* A closed schedule gains no binding booking, by whichever path.            *)
THEOREM ClosedAdmitsNone == Spec => ClosedScheduleAdmitsNone
<1>1. ASSUME HInv, [Next]_vars, NEW b \in Bookings,
             bookings[b].status \notin Open, bookings'[b].status \in Open
      PROVE  ~ScheduleClosed(bookings'[b].schedule)
  BY <1>1, BecomingOpen DEF Opened
<1>2. HInv /\ [Next]_vars =>
        [\A b \in Bookings :
           bookings[b].status \notin Open /\ bookings'[b].status \in Open
             => ~ScheduleClosed(bookings'[b].schedule)]_vars
  BY <1>1
<1> QED
  BY <1>2, HistoryInvariant, PTL DEF Spec, ClosedScheduleAdmitsNone

(* The contact who travels stays a traveller, or the booking ends.           *)
THEOREM ContactHandedOver == Spec => ContactIsHandedOver
<1>1. ASSUME HInv, [Next]_vars, NEW b \in Bookings,
             bookings[b].status \in Open, bookings[b].pic \in RegularPax(bookings[b])
      PROVE  bookings'[b].status = "batal" \/ bookings'[b].pic \in RegularPax(bookings'[b])
  BY <1>1, EachBookingMoves DEF Drafted, Opened, Continues, Open
<1>2. HInv /\ [Next]_vars =>
        [\A b \in Bookings :
           bookings[b].status \in Open /\ bookings[b].pic \in RegularPax(bookings[b]) =>
             \/ bookings'[b].status = "batal"
             \/ bookings'[b].pic \in RegularPax(bookings'[b])]_vars
  BY <1>1
<1> QED
  BY <1>2, HistoryInvariant, PTL DEF Spec, ContactIsHandedOver

(* A binding booking of the schedule is one the duplicate check meets.       *)
LEMMA RegisteredShows ==
  ASSUME NEW b \in Bookings, NEW c \in Bookings \ {b}, bookings[c].status \in Open
  PROVE  Pax(bookings[c]) \subseteq Registered(bookings[c].schedule, b)
BY DEF Registered, Pax

(* A portal booking shares no pilgrim with the bookings it meets, nor does a *)
(* finalized draft with the portal bookings it meets (JB-04).                *)
THEOREM PortalSharesNone == Spec => PortalSharesNoPilgrim
<1>1. ASSUME HInv, [Next]_vars, NEW b \in Bookings, NEW c \in Bookings,
             bookings[b].status \notin Open, bookings'[b].status \in Open,
             bookings[c].status \in Open, bookings[c].schedule = bookings'[b].schedule,
             \/ bookings'[b].channel = "portal"
             \/ bookings[b].status = "draft" /\ bookings[c].channel = "portal"
      PROVE  Pax(bookings'[b]) \cap Pax(bookings[c]) = {}
  <2>1. Opened(b, bookings'[b]) /\ c # b
    BY <1>1, BecomingOpen
  <2>2. bookings[b].status = "draft" => bookings[b].channel = "office"
    BY <1>1 DEF HInv, DraftInv
  <2>3. CASE bookings[b].status = "absent"
    <3>1. bookings'[b].channel = "portal"
      BY <1>1, <2>3
    <3>2. Pax(bookings'[b]) \cap Registered(bookings'[b].schedule, b) = {}
      BY <2>1, <2>3, <3>1 DEF Opened
    <3> QED
      BY <1>1, <2>1, <3>2, RegisteredShows
  <2>4. CASE bookings[b].status # "absent"
    <3>1. /\ bookings[b].status = "draft" /\ finalizing[b].stage = "locked"
          /\ bookings'[b].channel = bookings[b].channel
          /\ bookings'[b].schedule = bookings[b].schedule
          /\ bookings'[b].pax = bookings[b].pax
          /\ Pax(bookings'[b]) \cap finalizing[b].registered = {}
      BY <2>1, <2>4 DEF Opened
    <3>2. bookings[c].channel = "portal"
      BY <1>1, <2>2, <3>1
    <3>3. Pax(bookings[c]) \cap Pax(bookings[b]) \subseteq finalizing[b].registered
      BY <1>1, <3>1, <3>2 DEF HInv, DraftInv
    <3>4. Pax(bookings'[b]) = Pax(bookings[b])
      BY <3>1 DEF Pax
    <3> QED
      BY <3>1, <3>3, <3>4
  <2> QED
    BY <2>3, <2>4
<1>2. HInv /\ [Next]_vars =>
        [\A b, c \in Bookings :
           (/\ bookings[b].status \notin Open /\ bookings'[b].status \in Open
            /\ bookings[c].status \in Open /\ bookings[c].schedule = bookings'[b].schedule
            /\ \/ bookings'[b].channel = "portal"
               \/ bookings[b].status = "draft" /\ bookings[c].channel = "portal")
             => Pax(bookings'[b]) \cap Pax(bookings[c]) = {}]_vars
  BY <1>1
<1> QED
  BY <1>2, HistoryInvariant, PTL DEF Spec, PortalSharesNoPilgrim

-----------------------------------------------------------------------------
(* The hold worker *)

(* Only the worker writes its list.                                          *)
LEMMA CandidatesMove ==
  ASSUME [Next]_vars
  PROVE  \/ UNCHANGED candidates
         \/ FindLapsedHolds
         \/ \E b \in Bookings : ReleaseSeatHold(b) \/ ReleaseFails(b)
<1>1. CASE PaymentNext
  <2>1. ASSUME NEW b, NEW p, NEW amount, RequestPayment(b, p, amount) \/ CreatePortalPayment(b, p, amount)
        PROVE  PaymentUnchanged
    BY <2>1 DEF RequestPayment, CreatePortalPayment
  <2>2. ASSUME NEW p, CreatePayment(p) \/ RequestFails(p) \/ DeletePayment(p)
        PROVE  PaymentUnchanged
    BY <2>2 DEF CreatePayment, RequestFails, DeletePayment
  <2>3. ASSUME NEW v, ConfirmPayment(v) \/ RejectPayment(v) \/ VerifyFails(v)
        PROVE  PaymentUnchanged
    BY <2>3 DEF ConfirmPayment, RejectPayment, VerifyFails
  <2>4. ASSUME NEW v, NEW p, VerifyBegin(v, p)
        PROVE  PaymentUnchanged
    BY <2>4 DEF VerifyBegin
  <2>5. PaymentUnchanged
    BY <1>1, <2>1, <2>2, <2>3, <2>4 DEF PaymentNext
  <2> QED
    BY <2>5 DEF PaymentUnchanged
<1>2. CASE IntakeNext
  <2>1. ASSUME NEW b, NEW s, NEW j, NEW price, NEW commitment, NEW p, NEW amount,
               ProcessDeal(b, s, j, price, commitment, p, amount)
        PROVE  UNCHANGED candidates
    BY <2>1 DEF ProcessDeal, IntakeUnchanged
  <2>2. ASSUME NEW b, NEW s, NEW pic, NEW P, NEW harga, NEW full,
               SelfBooking(b, s, pic, P, harga, full)
        PROVE  UNCHANGED candidates
    BY <2>2 DEF SelfBooking, IntakeUnchanged
  <2>3. ASSUME NEW b, CustomerCancel(b) \/ HoldLapses(b)
        PROVE  UNCHANGED candidates
    BY <2>3 DEF CustomerCancel, Cancel, DeskUnchanged, HoldLapses, IntakeUnchanged
  <2> QED
    BY <1>2, <2>1, <2>2, <2>3 DEF IntakeNext
<1>3. CASE DeskNext
  BY <1>3, DeskLeavesPayments
<1>4. CASE ScheduleNext
  BY <1>4 DEF ScheduleNext, UpdateSeat, ArchiveCheck, ArchiveDeparted, ArchiveAbandoned,
     UpdateScheduleStatus, UpdateSchedule, DepartureNears, ScheduleUnchanged
<1>5. CASE UNCHANGED vars
  BY <1>5 DEF vars
<1> QED
  BY <1>1, <1>2, <1>3, <1>4, <1>5 DEF Next

(* The worker leaves a booking alone whose status is that of a paid one (dp, *)
(* lunas), however late it handles its list.                                 *)
THEOREM SparesSecured == Spec => WorkerSparesSecured
<1>1. ASSUME [Next]_vars, candidates' # candidates, NEW b \in Bookings, bookings[b].status \in Secured
      PROVE  bookings'[b] = bookings[b]
  <2>1. CASE UNCHANGED bookings
    BY <2>1
  <2>2. ASSUME NEW c \in Bookings, ReleaseSeatHold(c), Releasable(bookings[c])
        PROVE  bookings'[b] = bookings[b]
    <3>1. c # b
      BY <1>1, <2>2 DEF Releasable, Secured
    <3>2. bookings' = [bookings EXCEPT ![c] = Unblocked(bookings[c])]
      BY <2>2 DEF ReleaseSeatHold, Save
    <3>3. \A f, x : f = [bookings EXCEPT ![c] = x] => f[b] = bookings[b]
      BY <3>1
    <3> QED
      BY <3>2, <3>3
  <2>3. ASSUME NEW c \in Bookings, ReleaseSeatHold(c), ~Releasable(bookings[c])
        PROVE  UNCHANGED bookings
    BY <2>3 DEF ReleaseSeatHold
  <2>4. ASSUME NEW c \in Bookings, ReleaseFails(c)
        PROVE  UNCHANGED bookings
    BY <2>4 DEF ReleaseFails
  <2>5. ASSUME FindLapsedHolds
        PROVE  UNCHANGED bookings
    BY <2>5 DEF FindLapsedHolds
  <2> QED
    BY <1>1, <2>1, <2>2, <2>3, <2>4, <2>5, CandidatesMove
<1>2. [Next]_vars =>
        [candidates' # candidates => \A b \in Bookings :
           bookings[b].status \in Secured => bookings'[b] = bookings[b]]_vars
  BY <1>1
<1> QED
  BY <1>2, PTL DEF Spec, WorkerSparesSecured

-----------------------------------------------------------------------------
(* Statuses and money *)

(* What happens to status, block, deadline and price of one booking, and to  *)
(* its money: derived anew from a row of the same standing, or kept.         *)
Derives(b, row, money, regular) ==
  /\ row \in BookingRow /\ money \in Nat
  /\ bookings'[b] = Synced(row, money, regular)
  /\ \/ /\ row.status = bookings[b].status /\ row.hold = bookings[b].hold
        /\ row.is_seat_blocked = bookings[b].is_seat_blocked
     \/ row.status = "batal"
  /\ FreshStep => Paid(b)' = money /\ regular = Cardinality(RegularPax(row))
  /\ FreshStep /\ bookings[b].status \in Secured => money > 0
  /\ FreshStep /\ Paid(b) <= Total(bookings[b]) /\ Total(bookings[b]) > 0
       => \/ Pax(row) # Pax(bookings[b]) \/ row.status = "batal"
          \/ money <= Total(row)

Keeps(b) ==
  /\ Paid(b)' = Paid(b)
  /\ Total(bookings'[b]) = Total(bookings[b])
  /\ bookings'[b].status = bookings[b].status
  /\ \A money, n : TargetStatus(bookings'[b], money, n) = TargetStatus(bookings[b], money, n)
  /\ RegularPax(bookings'[b]) = RegularPax(bookings[b])

Begins(b) ==
  /\ bookings'[b].status \in {"draft", "deleted", "baru"}
  /\ bookings[b].status \notin Settled /\ Paid(b)' = 0

LEMMA RevisedDerives ==
  ASSUME HInv, NEW b \in Bookings, NEW row, GoodRow(row), NEW released,
         Revised(b, row, released), MoneyStays(b)
  PROVE  Derives(b, row, Paid(b), Cardinality(RegularPax(row)))
<1>1. row \in BookingRow /\ bookings \in [Bookings -> BookingRow] /\ Paid(b) \in Nat
  BY HistoryFacts DEF GoodRow
<1>2. bookings'[b] = Synced(row, Paid(b), Cardinality(RegularPax(row)))
  BY <1>1, RevisedWrites
<1>3. /\ Paid(b)' = Paid(b)
      /\ row.hold = bookings[b].hold
      /\ \/ row.status = bookings[b].status /\ row.is_seat_blocked = bookings[b].is_seat_blocked
         \/ row.status = "batal"
      /\ \/ Pax(row) # Pax(bookings[b]) \/ row.status = "batal"
         \/ Total(row) >= Paid(b) \/ Total(row) >= Total(bookings[b])
  BY DEF Revised, MoneyStays, TotalCoversPaid
<1>4. bookings[b].status \in Secured => Paid(b) > 0
  BY SecuredIsPaid
<1>5. Total(row) \in Nat /\ Total(bookings[b]) \in Nat
  BY <1>1, TotalIsNat
<1>6. Paid(b) <= Total(bookings[b]) =>
        Pax(row) # Pax(bookings[b]) \/ row.status = "batal" \/ Paid(b) <= Total(row)
  BY <1>1, <1>3, <1>5
<1> QED
  BY <1>1, <1>2, <1>3, <1>4, <1>6 DEF Derives

LEMMA SettledDerives ==
  ASSUME HInv, NEW b \in Bookings, NEW p \in Payments, NEW money \in Nat, NEW regular \in Nat,
         Settles(b, p, money, regular)
  PROVE  Derives(b, bookings[b], money, regular)
<1>1. bookings \in [Bookings -> BookingRow] /\ bookings[b] \in BookingRow /\ Paid(b) \in Nat
  BY HistoryFacts
<1>2. bookings'[b] = Synced(bookings[b], money, regular)
  BY <1>1, SettlesWrites
<1>3. FreshStep => Paid(b)' = money /\ regular = Cardinality(RegularPax(bookings[b]))
  BY SettledMoney DEF HInv, Settles
<1>4. CASE Receives(b, p, money, regular)
  <2>1. money > 0 /\ (Total(bookings[b]) > 0 => money <= Total(bookings[b]))
    BY <1>4 DEF Receives
  <2> QED
    BY <1>1, <1>2, <1>3, <2>1 DEF Derives
<1>5. CASE Refuses(b, p, money, regular)
  <2>1. FreshStep => money = Paid(b)
    BY <1>5 DEF Refuses
  <2>2. bookings[b].status \in Secured => Paid(b) > 0
    BY SecuredIsPaid
  <2> QED
    BY <1>1, <1>2, <1>3, <2>1, <2>2 DEF Derives
<1> QED
  BY <1>4, <1>5 DEF Settles

(* Price, pax and status decide all that Keeps asks for.                     *)
LEMMA AlikeKeeps ==
  ASSUME NEW b, NEW new, bookings'[b] = new, MoneyStays(b),
         new.pax = bookings[b].pax, new.harga = bookings[b].harga,
         new.discounts = bookings[b].discounts, new.full_payment = bookings[b].full_payment,
         new.status = bookings[b].status
  PROVE  Keeps(b)
<1>1. Total(new) = Total(bookings[b])
  BY DEF Total
<1>2. \A n : RequiredBookingDP(new, n) = RequiredBookingDP(bookings[b], n)
  BY <1>1 DEF RequiredBookingDP
<1>3. \A money, n : TargetStatus(new, money, n) = TargetStatus(bookings[b], money, n)
  BY <1>1, <1>2 DEF TargetStatus
<1>4. RegularPax(new) = RegularPax(bookings[b])
  BY DEF RegularPax, Pax
<1> QED
  BY <1>1, <1>3, <1>4 DEF Keeps, MoneyStays

LEMMA RewrittenDerives ==
  ASSUME HInv, NEW b \in Bookings, NEW row, Rewrites(b, row), MoneyStays(b)
  PROVE  \/ Begins(b) \/ Keeps(b) \/ bookings'[b].status = "batal"
         \/ \E r, money, regular : Derives(b, r, money, regular)
<1>1. /\ bookings \in [Bookings -> BookingRow] /\ bookings[b] \in BookingRow
      /\ GoodRow(row)
  BY HistoryFacts DEF Rewrites
<1>2. CASE Drafted(b, row) \/ Opened(b, row)
  <2>1. bookings'[b] = row
    BY <1>1, <1>2 DEF Drafted, Opened, Save
  <2>2. bookings[b].status \notin Settled /\ row.status \in {"draft", "deleted", "baru"}
    BY <1>2 DEF Drafted, Opened, Settled, Open
  <2>3. Paid(b) = 0
    BY <2>2, FreshHasNoMoney DEF HInv
  <2> QED
    BY <2>1, <2>2, <2>3 DEF Begins, MoneyStays
<1>3. ASSUME NEW released \in Nat, Revised(b, row, released)
      PROVE  \E r, money, regular : Derives(b, r, money, regular)
  BY <1>1, <1>3, RevisedDerives
<1>4. CASE LetsGo(b, row)
  <2>1. bookings'[b] = row
    BY <1>1, <1>4 DEF LetsGo, Save
  <2>2. CASE row = Unblocked(bookings[b])
    <3>1. /\ row.pax = bookings[b].pax /\ row.harga = bookings[b].harga
          /\ row.discounts = bookings[b].discounts /\ row.full_payment = bookings[b].full_payment
          /\ row.status = bookings[b].status
      BY <1>1, <2>2 DEF Unblocked, BookingRow
    <3> QED
      BY <2>1, <3>1, AlikeKeeps
  <2>3. CASE row = Cancelled(bookings[b])
    BY <1>1, <2>1, <2>3 DEF Cancelled, Unblocked, BookingRow
  <2> QED
    BY <1>4, <2>2, <2>3 DEF LetsGo
<1>5. CASE Blocks(b, row) \/ Refunds(b, row) \/ Lapses(b, row)
  <2>1. bookings'[b] = row
    BY <1>1, <1>5 DEF Blocks, Refunds, Lapses, Save
  <2>2. /\ row.pax = bookings[b].pax /\ row.harga = bookings[b].harga
        /\ row.discounts = bookings[b].discounts /\ row.full_payment = bookings[b].full_payment
        /\ row.status = bookings[b].status
    BY <1>1, <1>5 DEF Blocks, Refunds, Lapses, BookingRow
  <2> QED
    BY <2>1, <2>2, AlikeKeeps
<1> QED
  BY <1>2, <1>3, <1>4, <1>5 DEF Rewrites

LEMMA EachBookingDerives ==
  ASSUME HInv, [Next]_vars, NEW b \in Bookings
  PROVE  \/ bookings'[b] = bookings[b] /\ MoneyStays(b)
         \/ Begins(b) \/ Keeps(b) \/ bookings'[b].status = "batal"
         \/ \E r, money, regular : Derives(b, r, money, regular)
<1>1. bookings \in [Bookings -> BookingRow]
  BY HistoryFacts
<1>2. CASE (\A c \in Bookings : MoneyStays(c)) /\ Quiet
  BY <1>2 DEF Quiet
<1>3. ASSUME NEW c \in Bookings, NEW row, Rewrites(c, row), MoneyStays(b), c # b
      PROVE  bookings'[b] = bookings[b]
  <2>1. PICK new : bookings' = [bookings EXCEPT ![c] = new]
    BY <1>3, RewrittenIsSound
  <2> QED
    BY <1>1, <1>3, <2>1
<1>4. ASSUME NEW c \in Bookings, NEW p \in Payments, NEW money \in Nat, NEW regular \in Nat,
             Settles(c, p, money, regular), c # b
      PROVE  bookings'[b] = bookings[b] /\ MoneyStays(b)
  <2>1. bookings' = [bookings EXCEPT ![c] = Synced(bookings[c], money, regular)]
    BY <1>4, SettlesWrites
  <2>2. MoneyStays(b)
    BY <1>4, SettledMoney DEF HInv
  <2> QED
    BY <1>1, <1>4, <2>1, <2>2
<1>5. ASSUME NEW c \in Bookings, NEW p \in Payments, NEW money \in Nat, NEW regular \in Nat,
             Settles(c, p, money, regular), c = b
      PROVE  \E r, n, k : Derives(b, r, n, k)
  BY <1>5, SettledDerives
<1>6. \/ (\A c \in Bookings : MoneyStays(c)) /\ Quiet
      \/ (\A c \in Bookings : MoneyStays(c)) /\ \E c \in Bookings, row \in BookingRow : Rewrites(c, row)
      \/ \E c \in Bookings, p \in Payments, money \in Nat, regular \in Nat :
           Settles(c, p, money, regular)
  BY StepIs DEF HInv
<1> QED
  BY <1>2, <1>3, <1>4, <1>5, <1>6, RewrittenDerives

(* The status stays the one that price, pax and money call for.              *)
LEMMA StaysInStep ==
  ASSUME HInv, [Next]_vars, FreshStep, NEW b \in Bookings, InStep(b)
  PROVE  InStep(b)'
<1> DEFINE Goal == bookings'[b].status \in Open =>
                     bookings'[b].status =
                       TargetStatus(bookings'[b], Paid(b)', Cardinality(RegularPax(bookings'[b])))
<1>1. SUFFICES Goal
  BY DEF InStep, TargetStatus, RequiredBookingDP, Total, RegularPax, Pax
<1>2. CASE bookings'[b] = bookings[b] /\ MoneyStays(b)
  BY <1>2 DEF InStep, MoneyStays
<1>3. CASE Begins(b)
  <2>1. bookings'[b] \in BookingRow
    BY HistoryKept DEF HInv, IInv, BookInv, StoreInv
  <2>2. PICK row \in BookingRow : row = bookings'[b]
    BY <2>1
  <2>3. TargetStatus(row, 0, Cardinality(RegularPax(row))) = "baru"
    BY UnpaidIsBaru
  <2> QED
    BY <1>3, <2>2, <2>3 DEF Begins, Open
<1>4. CASE Keeps(b)
  BY <1>4 DEF Keeps, InStep
<1>5. CASE bookings'[b].status = "batal"
  BY <1>5 DEF Open
<1>6. ASSUME NEW row, NEW money, NEW regular, Derives(b, row, money, regular)
      PROVE  Goal
  <2>1. /\ row \in BookingRow /\ bookings'[b] = Synced(row, money, regular)
        /\ Paid(b)' = money /\ regular = Cardinality(RegularPax(row))
    BY <1>6 DEF Derives
  <2>2. /\ bookings'[b].status \in Open <=> row.status \in Open
        /\ row.status \in Open => bookings'[b].status = TargetStatus(row, money, regular)
    BY <2>1, SyncedSays
  <2>3. /\ RegularPax(bookings'[b]) = RegularPax(row)
        /\ TargetStatus(bookings'[b], money, regular) = TargetStatus(row, money, regular)
    BY <2>1, SyncedCountsAlike
  <2> QED
    BY <2>1, <2>2, <2>3
<1> HIDE DEF Goal
<1> QED
  BY <1>2, <1>3, <1>4, <1>5, <1>6, EachBookingDerives

(* Whatever happens to a booking, its status stays the one its price, its    *)
(* active pax and its confirmed payments call for, outdated verifications    *)
(* apart (SyncBookingStatusTx after every write).                            *)
THEOREM StatusFollows == Spec => StatusFollowsPayments
<1>1. HInv /\ [Next]_vars =>
        [FreshStep => \A b \in Bookings : InStep(b) => InStep(b)']_vars
  BY StaysInStep
<1> QED
  BY <1>1, HistoryInvariant, PTL DEF Spec, StatusFollowsPayments

(* What a derived status means for block and deadline.                       *)
LEMMA DerivedSays ==
  ASSUME NEW b \in Bookings, NEW row, NEW money, NEW regular, Derives(b, row, money, regular),
         bookings'[b].status \in Open, bookings'[b].status # bookings[b].status
  PROVE  /\ bookings'[b].is_seat_blocked = (bookings[b].is_seat_blocked \/ bookings'[b].status \in Secured)
         /\ bookings'[b].status \in Secured \/ money > 0 => bookings'[b].hold = "none"
<1> DEFINE target == TargetStatus(row, money, regular)
<1>1. row \in BookingRow /\ bookings'[b] = Synced(row, money, regular)
  BY DEF Derives
<1>2. /\ bookings'[b].status \in Open <=> row.status \in Open
      /\ row.status \in Open => bookings'[b].status = target
      /\ target = row.status => bookings'[b] = row
      /\ row.status \in Open /\ target # row.status =>
           /\ bookings'[b].is_seat_blocked = (row.is_seat_blocked \/ target \in Secured)
           /\ bookings'[b].hold = IF target \in Secured \/ money > 0 \/ ~row.is_seat_blocked
                                  THEN "none" ELSE "running"
  BY <1>1, SyncedSays
<1> HIDE DEF target
<1>3. row.status \in Open
  BY <1>2
<1>4. row.status = bookings[b].status /\ row.is_seat_blocked = bookings[b].is_seat_blocked
  BY <1>3 DEF Derives, Open
<1> QED
  BY <1>2, <1>3, <1>4

(* A booking that comes to be paid holds its seats from then on (SM-01).     *)
THEOREM SecuringTakes == Spec => SecuringTakesSeats
<1>1. ASSUME HInv, [Next]_vars, NEW b \in Bookings,
             bookings'[b].status \in Secured, bookings'[b].status # bookings[b].status
      PROVE  bookings'[b].is_seat_blocked
  <2>1. bookings'[b].status \in Open /\ bookings'[b].status # "batal" /\ ~Begins(b) /\ ~Keeps(b)
    BY <1>1 DEF Secured, Open, Begins, Keeps
  <2>2. PICK row, money, regular : Derives(b, row, money, regular)
    BY <1>1, <2>1, EachBookingDerives
  <2> QED
    BY <1>1, <2>1, <2>2, DerivedSays
<1>2. HInv /\ [Next]_vars =>
        [\A b \in Bookings :
           bookings'[b].status \in Secured /\ bookings'[b].status # bookings[b].status
             => bookings'[b].is_seat_blocked]_vars
  BY <1>1
<1> QED
  BY <1>2, HistoryInvariant, PTL DEF Spec, SecuringTakesSeats

(* Losing "dp" or "lunas" takes no seats and sets no deadline (JB-03),       *)
(* outdated verifications apart.                                             *)
THEOREM DemotionKeeps == Spec => DemotionKeepsSeats
<1>1. ASSUME HInv, [Next]_vars, FreshStep, NEW b \in Bookings,
             bookings[b].status \in Secured, bookings'[b].status = "baru"
      PROVE  /\ bookings'[b].is_seat_blocked = bookings[b].is_seat_blocked
             /\ bookings'[b].hold = "none"
  <2>1. /\ bookings'[b].status \in Open /\ bookings'[b].status # bookings[b].status
        /\ ~Begins(b) /\ ~Keeps(b) /\ bookings'[b].status \notin Secured
    BY <1>1 DEF Secured, Open, Begins, Keeps, Settled
  <2>2. PICK row, money, regular : Derives(b, row, money, regular)
    BY <1>1, <2>1, EachBookingDerives
  <2>3. money > 0
    BY <1>1, <2>2 DEF Derives
  <2>4. bookings[b].is_seat_blocked \in BOOLEAN
    BY <1>1, HistoryFacts DEF BookingRow
  <2>5. /\ bookings'[b].is_seat_blocked = (bookings[b].is_seat_blocked \/ bookings'[b].status \in Secured)
        /\ bookings'[b].hold = "none"
    BY <2>1, <2>2, <2>3, DerivedSays
  <2> QED
    BY <2>1, <2>4, <2>5
<1>2. HInv /\ [Next]_vars =>
        [FreshStep => \A b \in Bookings :
           bookings[b].status \in Secured /\ bookings'[b].status = "baru" =>
             /\ bookings'[b].is_seat_blocked = bookings[b].is_seat_blocked
             /\ bookings'[b].hold = "none"]_vars
  BY <1>1
<1> QED
  BY <1>2, HistoryInvariant, PTL DEF Spec, DemotionKeepsSeats

(* Only cancelling a pax leaves more confirmed than a booking costs (JB-07), *)
(* outdated verifications apart.                                             *)
THEOREM OnlyCancellingOverpays == Spec => OnlyCancellingPaxOverpays
<1>1. ASSUME HInv, [Next]_vars, FreshStep, NEW b \in Bookings,
             bookings[b].status # "batal", bookings'[b].status # "batal",
             Paid(b) <= Total(bookings[b]), Total(bookings[b]) > 0,
             Pax(bookings'[b]) = Pax(bookings[b])
      PROVE  Paid(b)' <= Total(bookings'[b])
  <2>1. CASE bookings'[b] = bookings[b] /\ MoneyStays(b)
    BY <1>1, <2>1 DEF MoneyStays
  <2>2. CASE Keeps(b)
    BY <1>1, <2>2 DEF Keeps
  <2>3. CASE Begins(b)
    <3>1. bookings'[b] \in BookingRow
      BY <1>1, HistoryKept DEF HInv, IInv, BookInv, StoreInv
    <3>2. PICK row \in BookingRow : row = bookings'[b]
      BY <3>1
    <3>3. Total(row) \in Nat
      BY TotalIsNat
    <3> QED
      BY <2>3, <3>2, <3>3 DEF Begins
  <2>4. ASSUME NEW row, NEW money, NEW regular, Derives(b, row, money, regular)
        PROVE  Paid(b)' <= Total(bookings'[b])
    <3>1. /\ row \in BookingRow /\ bookings'[b] = Synced(row, money, regular)
          /\ Paid(b)' = money
          /\ Pax(row) # Pax(bookings[b]) \/ row.status = "batal" \/ money <= Total(row)
      BY <1>1, <2>4 DEF Derives
    <3>2. row.status \notin Open => bookings'[b] = row
      BY <3>1, SyncedSays
    <3>3. Pax(bookings'[b]) = Pax(row) /\ Total(bookings'[b]) = Total(row)
      BY <3>1, SyncedCountsAlike
    <3>4. row.status # "batal"
      BY <1>1, <3>2 DEF Open
    <3> QED
      BY <1>1, <3>1, <3>3, <3>4
  <2> QED
    BY <1>1, <2>1, <2>2, <2>3, <2>4, EachBookingDerives
<1>2. HInv /\ [Next]_vars =>
        [FreshStep => \A b \in Bookings :
           (/\ bookings[b].status # "batal" /\ bookings'[b].status # "batal"
            /\ Paid(b) <= Total(bookings[b]) /\ Total(bookings[b]) > 0
            /\ Pax(bookings'[b]) = Pax(bookings[b]))
             => Paid(b)' <= Total(bookings'[b])]_vars
  BY <1>1
<1> QED
  BY <1>2, HistoryInvariant, PTL DEF Spec, OnlyCancellingPaxOverpays

-----------------------------------------------------------------------------
(* Seats *)

(* A transaction on booking b moves seats of its schedule: it gives back     *)
(* what the row no longer holds, or takes at least what it newly holds; and  *)
(* exactly that, outdated verifications apart.                               *)
Transfers(b, new, released, taken) ==
  /\ GoodRow(new) /\ new.schedule \in Schedules
  /\ bookings' = [bookings EXCEPT ![b] = new]
  /\ bookings[b].schedule = new.schedule \/ Holding(bookings[b]) = 0
  /\ schedules'[new.schedule].seat_sisa = schedules[new.schedule].seat_sisa + released - taken
  /\ taken <= schedules[new.schedule].seat_sisa + released
  /\ \A s \in Schedules : schedules'[s].seat_total = schedules[s].seat_total
  /\ \A s \in Schedules \ {new.schedule} : schedules'[s] = schedules[s]
  /\ \/ taken = 0 /\ Holding(new) + released = Holding(bookings[b])
     \/ /\ released = 0 /\ Holding(bookings[b]) = 0
        /\ Holding(new) <= taken /\ (Holding(new) = 0 => taken = 0)
  /\ FreshStep => Holding(new) + released = Holding(bookings[b]) + taken

(* A booking is written, and no seat moves.                                  *)
SameSeats(b, new) ==
  /\ bookings' = [bookings EXCEPT ![b] = new] /\ UNCHANGED schedules
  /\ \A s \in Schedules : SeatsOf(b, new, s) = SeatsOf(b, bookings[b], s)

(* What a booking holds is part of what is allocated.                        *)
LEMMA HoldingAllocated ==
  ASSUME StoreInv, NEW b \in Bookings, bookings[b].schedule \in Schedules
  PROVE  /\ Holding(bookings[b]) \in Nat
         /\ schedules[bookings[b].schedule].seat_sisa + Holding(bookings[b])
              <= schedules[bookings[b].schedule].seat_total
<1> DEFINE s == bookings[b].schedule
<1>1. /\ GoodRow(bookings[b]) /\ \A c \in Bookings : GoodRow(bookings[c])
      /\ schedules \in [Schedules -> ScheduleRow]
  BY DEF StoreInv
<1>2. Holding(bookings[b]) \in Nat
  BY <1>1 DEF Holding, GoodRow, BookingRow
<1>3. Allocated(s) = Cardinality(OtherClaims(b, s)) + Holding(bookings[b])
  BY <1>1, ClaimsSplit, CountWithOthers DEF Allocated
<1>4. Cardinality(OtherClaims(b, s)) \in Nat
  BY <1>1, OtherClaimsCount
<1>5. schedules[s].seat_sisa + Allocated(s) <= schedules[s].seat_total
  BY DEF StoreInv, SeatsFit
<1>6. schedules[s].seat_sisa \in Nat /\ schedules[s].seat_total \in Nat
  BY <1>1 DEF ScheduleRow
<1> HIDE DEF s, Allocated, Holding, OtherClaims
<1>7. schedules[s].seat_sisa + Holding(bookings[b]) <= schedules[s].seat_total
  BY <1>2, <1>3, <1>4, <1>5, <1>6
<1> QED
  BY <1>2, <1>7 DEF s

(* Nothing is cut off at the capacity (SM-04): a save that returns no more   *)
(* than the booking held moves exactly the seats it says.                    *)
LEMMA SaveTransfers ==
  ASSUME IInv, NEW b \in Bookings, NEW new, GoodRow(new), new.schedule \in Schedules,
         NEW released \in Nat, NEW taken \in Nat, Save(b, new, released, taken),
         bookings[b].schedule = new.schedule \/ Holding(bookings[b]) = 0,
         released <= Holding(bookings[b]),
         \/ taken = 0 /\ Holding(new) + released = Holding(bookings[b])
         \/ /\ released = 0 /\ Holding(bookings[b]) = 0
            /\ Holding(new) <= taken /\ (Holding(new) = 0 => taken = 0),
         FreshStep => Holding(new) + released = Holding(bookings[b]) + taken
  PROVE  Transfers(b, new, released, taken)
<1> DEFINE s == new.schedule
<1>1. StoreInv /\ schedules \in [Schedules -> ScheduleRow]
  BY DEF IInv, BookInv, StoreInv
<1>2. schedules[s].seat_sisa \in Nat /\ schedules[s].seat_total \in Nat
  BY <1>1 DEF ScheduleRow
<1>3. schedules[s].seat_sisa + released <= schedules[s].seat_total
  <2>1. CASE bookings[b].schedule = s
    <3>1. Holding(bookings[b]) \in Nat
          /\ schedules[s].seat_sisa + Holding(bookings[b]) <= schedules[s].seat_total
      BY <1>1, <2>1, HoldingAllocated
    <3> QED
      BY <1>2, <3>1
  <2>2. CASE Holding(bookings[b]) = 0
    <3>1. released = 0
      BY <2>2
    <3>2. schedules[s].seat_sisa + Allocated(s) <= schedules[s].seat_total
      BY <1>1 DEF StoreInv, SeatsFit
    <3>3. Allocated(s) \in Nat
      BY AllocatedIsNat
    <3> HIDE DEF Allocated
    <3> QED
      BY <1>2, <3>1, <3>2, <3>3
  <2> QED
    BY <2>1, <2>2
<1>4. SeatsAfterRestore(s, released) = schedules[s].seat_sisa + released
  BY <1>1, <1>3, RestoreBounded
<1>5. /\ bookings' = [bookings EXCEPT ![b] = new]
      /\ \A t \in Schedules : schedules'[t].seat_total = schedules[t].seat_total
      /\ schedules'[s].seat_sisa = SeatsAfterRestore(s, released) - taken
      /\ taken <= SeatsAfterRestore(s, released)
      /\ \A t \in Schedules \ {s} : schedules'[t] = schedules[t]
  BY <1>1, SaveWrites
<1>6. /\ schedules'[s].seat_sisa = schedules[s].seat_sisa + released - taken
      /\ taken <= schedules[s].seat_sisa + released
  <2>1. schedules'[s].seat_sisa = SeatsAfterRestore(s, released) - taken
        /\ taken <= SeatsAfterRestore(s, released)
    BY <1>5
  <2> HIDE DEF s
  <2> QED
    BY <1>2, <1>4, <2>1
<1> QED
  BY <1>5, <1>6 DEF Transfers

(* The seats of a row follow from what it holds.                             *)
LEMMA SeatsOfHolding ==
  ASSUME NEW b, NEW row, GoodRow(row), NEW s
  PROVE  /\ Holding(row) \in Nat
         /\ SeatsOf(b, row, s) = IF row.schedule = s THEN {b} \X (1 .. Holding(row)) ELSE {}
<1>1. row.seat_count \in Nat
  BY DEF GoodRow, BookingRow
<1>2. 1 .. 0 = {}
  OBVIOUS
<1> QED
  BY <1>1, <1>2 DEF SeatsOf, Holding

(* What deriving a status takes, for a row that blocks seats and for one     *)
(* that does not.                                                            *)
LEMMA SyncedTransfers ==
  ASSUME NEW row, GoodRow(row), NEW paid, NEW regular \in Nat
  PROVE  LET new   == Synced(row, paid, regular)
             taken == SyncSeats(row, paid, regular)
         IN  /\ taken \in Nat /\ Holding(new) \in Nat
             /\ row.is_seat_blocked => taken = 0 /\ Holding(new) = Holding(row)
             /\ ~row.is_seat_blocked =>
                  /\ Holding(row) = 0 /\ Holding(new) <= taken
                  /\ Holding(new) = 0 => taken = 0
                  /\ regular = row.seat_count => Holding(new) = taken
<1> DEFINE new == Synced(row, paid, regular)
           taken == SyncSeats(row, paid, regular)
<1>1. /\ GoodRow(new) /\ new.seat_count = row.seat_count
      /\ new.status \in Open <=> row.status \in Open
  BY SyncedKeepsRowGood
<1>2. /\ taken \in Nat
      /\ row.is_seat_blocked => taken = 0 /\ new.is_seat_blocked
      /\ ~row.is_seat_blocked /\ new.is_seat_blocked => taken >= row.seat_count
      /\ ~row.is_seat_blocked /\ ~new.is_seat_blocked => taken = 0
  BY SyncTakesWhatItHolds
<1>3. regular = row.seat_count => taken \in {0, row.seat_count}
  BY DEF SyncSeats
<1>4. row.seat_count \in Nat /\ row.is_seat_blocked \in BOOLEAN /\ new.is_seat_blocked \in BOOLEAN
  BY <1>1 DEF GoodRow, BookingRow
<1>5. /\ row.is_seat_blocked => row.status # "batal" /\ row.seat_count >= 1
      /\ new.is_seat_blocked => new.status # "batal" /\ new.seat_count >= 1
  BY <1>1, TravellersCount DEF GoodRow, Open
<1> HIDE DEF new, taken
<1>6. /\ Holding(row) = IF row.is_seat_blocked THEN row.seat_count ELSE 0
      /\ Holding(new) = IF new.is_seat_blocked THEN row.seat_count ELSE 0
  BY <1>1, <1>5 DEF Holding
<1>7. /\ taken \in Nat /\ Holding(new) \in Nat
      /\ row.is_seat_blocked => taken = 0 /\ Holding(new) = Holding(row)
      /\ ~row.is_seat_blocked =>
           /\ Holding(row) = 0 /\ Holding(new) <= taken
           /\ Holding(new) = 0 => taken = 0
           /\ regular = row.seat_count => Holding(new) = taken
  <2>1. CASE row.is_seat_blocked
    BY <1>2, <1>4, <1>6, <2>1
  <2>2. CASE ~row.is_seat_blocked /\ new.is_seat_blocked
    BY <1>1, <1>2, <1>3, <1>4, <1>5, <1>6, <2>2
  <2>3. CASE ~row.is_seat_blocked /\ ~new.is_seat_blocked
    BY <1>2, <1>4, <1>6, <2>3
  <2> QED
    BY <1>4, <2>1, <2>2, <2>3
<1> QED
  BY <1>7 DEF new, taken

(* Rows that block no seats hold none.                                       *)
LEMMA UnblockedHoldsNone ==
  ASSUME NEW row, GoodRow(row), row.status \notin Open
  PROVE  Holding(row) = 0
BY DEF GoodRow, Holding

LEMMA RevisedTransfers ==
  ASSUME HInv, NEW b \in Bookings, NEW row, GoodRow(row), NEW released \in Nat,
         Revised(b, row, released)
  PROVE  \E new : \E taken \in Nat : Transfers(b, new, released, taken)
<1> DEFINE regular == Cardinality(RegularPax(row))
           new == Synced(row, Paid(b), regular)
           taken == SyncSeats(row, Paid(b), regular)
<1>1. IInv /\ StoreInv /\ GoodRow(bookings[b])
  BY DEF HInv, IInv, BookInv, StoreInv
<1>2. regular \in Nat
  BY PaxAreFinite
<1>3. /\ taken \in Nat /\ Holding(new) \in Nat
      /\ row.is_seat_blocked => taken = 0 /\ Holding(new) = Holding(row)
      /\ ~row.is_seat_blocked =>
           /\ Holding(row) = 0 /\ Holding(new) <= taken
           /\ Holding(new) = 0 => taken = 0
           /\ regular = row.seat_count => Holding(new) = taken
  BY <1>2, SyncedTransfers
<1>4. /\ GoodRow(new) /\ new.schedule = row.schedule
      /\ row.status \notin Open => new = row
  BY SyncedKeepsRowGood
<1>5. /\ Exists(bookings[b]) /\ row.schedule = bookings[b].schedule
      /\ Holding(row) + released = Holding(bookings[b])
      /\ \/ row.status = bookings[b].status /\ row.is_seat_blocked = bookings[b].is_seat_blocked
         \/ row.status = "batal" /\ ~row.is_seat_blocked
      /\ Save(b, new, released, taken)
  BY DEF Revised, Recalculate
<1>6. new.schedule \in Schedules /\ bookings[b].schedule = new.schedule
  BY <1>1, <1>4, <1>5 DEF GoodRow
<1>7. Holding(row) \in Nat /\ Holding(bookings[b]) \in Nat
  BY <1>1, SeatsOfHolding
<1>8. row.status \notin Open => taken = 0
  BY DEF taken, SyncSeats, Moves
<1>9. row.status \in Open => regular = row.seat_count
  BY DEF GoodRow
<1>10. row.is_seat_blocked => row.status \in Open
  BY DEF GoodRow
<1> HIDE DEF new, taken, regular
<1>11. /\ released <= Holding(bookings[b])
       /\ \/ taken = 0 /\ Holding(new) + released = Holding(bookings[b])
          \/ /\ released = 0 /\ Holding(bookings[b]) = 0
             /\ Holding(new) <= taken /\ (Holding(new) = 0 => taken = 0)
       /\ Holding(new) + released = Holding(bookings[b]) + taken
  <2>1. CASE row.is_seat_blocked
    BY <1>3, <1>5, <1>7, <2>1
  <2>2. CASE row.status \notin Open
    <3>1. new = row /\ taken = 0
      BY <1>4, <1>8, <2>2
    <3> QED
      BY <1>3, <1>5, <1>7, <3>1
  <2>3. CASE ~row.is_seat_blocked /\ row.status \in Open
    <3>1. bookings[b].status = row.status /\ ~bookings[b].is_seat_blocked
      BY <1>5, <2>3 DEF Open
    <3>2. Holding(bookings[b]) = 0
      BY <3>1 DEF Holding
    <3> QED
      BY <1>3, <1>5, <1>7, <1>9, <2>3, <3>2
  <2> QED
    BY <2>1, <2>2, <2>3
<1>12. Transfers(b, new, released, taken)
  BY <1>1, <1>3, <1>4, <1>5, <1>6, <1>11, SaveTransfers
<1> QED
  BY <1>3, <1>12

LEMMA SettledTransfers ==
  ASSUME HInv, NEW b \in Bookings, NEW p \in Payments, NEW money \in Nat, NEW regular \in Nat,
         Settles(b, p, money, regular)
  PROVE  \E new : \E taken \in Nat : Transfers(b, new, 0, taken)
<1> DEFINE row == bookings[b]
           new == Synced(row, money, regular)
           taken == SyncSeats(row, money, regular)
<1>1. IInv /\ StoreInv /\ GoodRow(row)
  BY DEF HInv, IInv, BookInv, StoreInv
<1>2. /\ taken \in Nat /\ Holding(new) \in Nat
      /\ row.is_seat_blocked => taken = 0 /\ Holding(new) = Holding(row)
      /\ ~row.is_seat_blocked =>
           /\ Holding(row) = 0 /\ Holding(new) <= taken
           /\ Holding(new) = 0 => taken = 0
           /\ regular = row.seat_count => Holding(new) = taken
  BY <1>1, SyncedTransfers
<1>3. GoodRow(new) /\ new.schedule = row.schedule /\ (row.status \notin Open => new = row)
  BY <1>1, SyncedKeepsRowGood
<1>4. Save(b, new, 0, taken)
  BY DEF Settles, SyncBooking
<1>5. row.status \in Settled
  BY DEF Settles, Receives, Refuses, Settled
<1>6. row.schedule \in Schedules
  BY <1>1, <1>5 DEF GoodRow, Exists, Settled, Open
<1>7. Holding(row) \in Nat
  BY <1>1, SeatsOfHolding
<1>8. row.status \notin Open => taken = 0
  BY DEF taken, SyncSeats, Moves
<1>9. FreshStep /\ row.status \in Open => regular = row.seat_count
  BY <1>1 DEF Settles, GoodRow
<1> HIDE DEF new, taken, row
<1>10. /\ \/ taken = 0 /\ Holding(new) = Holding(row)
          \/ /\ Holding(row) = 0
             /\ Holding(new) <= taken /\ (Holding(new) = 0 => taken = 0)
       /\ FreshStep => Holding(new) = Holding(row) + taken
  BY <1>2, <1>3, <1>7, <1>8, <1>9
<1>11. /\ 0 <= Holding(row)
       /\ \/ taken = 0 /\ Holding(new) + 0 = Holding(row)
          \/ /\ 0 = 0 /\ Holding(row) = 0
             /\ Holding(new) <= taken /\ (Holding(new) = 0 => taken = 0)
       /\ FreshStep => Holding(new) + 0 = Holding(row) + taken
  BY <1>2, <1>7, <1>10
<1>12. Transfers(b, new, 0, taken)
  BY <1>1, <1>2, <1>3, <1>4, <1>6, <1>11, SaveTransfers DEF row
<1> QED
  BY <1>2, <1>12

LEMMA RewrittenTransfers ==
  ASSUME HInv, NEW b \in Bookings, NEW row, Rewrites(b, row)
  PROVE  \/ \E new : SameSeats(b, new)
         \/ \E new : \E released \in Nat, taken \in Nat : Transfers(b, new, released, taken)
<1>1. IInv /\ StoreInv /\ GoodRow(bookings[b]) /\ GoodRow(row) /\ bookings[b] \in BookingRow
  BY DEF HInv, IInv, BookInv, StoreInv, Rewrites, GoodRow
<1>2. Holding(row) \in Nat /\ Holding(bookings[b]) \in Nat
  BY <1>1, SeatsOfHolding
<1>3. CASE Drafted(b, row)
  <2>1. bookings[b].status \notin Open /\ row.status \notin Open
    BY <1>3 DEF Drafted, Open
  <2>2. ~bookings[b].is_seat_blocked /\ ~row.is_seat_blocked
    BY <1>1, <2>1 DEF GoodRow
  <2>3. \A s \in Schedules : SeatsOf(b, row, s) = SeatsOf(b, bookings[b], s)
    BY <2>2 DEF SeatsOf
  <2> QED
    BY <1>3, <2>3 DEF Drafted, SameSeats
<1>4. CASE Lapses(b, row)
  <2>1. /\ row.schedule = bookings[b].schedule /\ row.status = bookings[b].status
        /\ row.is_seat_blocked = bookings[b].is_seat_blocked
        /\ row.seat_count = bookings[b].seat_count
    BY <1>1, <1>4 DEF Lapses, BookingRow
  <2>2. \A s \in Schedules : SeatsOf(b, row, s) = SeatsOf(b, bookings[b], s)
    BY <2>1 DEF SeatsOf
  <2> QED
    BY <1>4, <2>2 DEF Lapses, SameSeats
<1>5. CASE Opened(b, row)
  <2>1. Holding(bookings[b]) = 0
    BY <1>1, <1>5, UnblockedHoldsNone DEF Opened, Open
  <2>2. row.schedule \in Schedules
    BY <1>1, <1>5 DEF Opened, GoodRow, Exists
  <2>3. Save(b, row, 0, Holding(row))
    BY <1>5 DEF Opened
  <2>4. Holding(row) <= Holding(row) /\ Holding(row) + 0 = 0 + Holding(row)
    BY <1>2
  <2>5. Transfers(b, row, 0, Holding(row))
    BY <1>1, <1>2, <2>1, <2>2, <2>3, <2>4, SaveTransfers
  <2> QED
    BY <1>2, <2>5
<1>6. CASE Blocks(b, row)
  <2>1. Holding(bookings[b]) = 0
    BY <1>6 DEF Blocks, Holding
  <2>2. row.schedule = bookings[b].schedule
    BY <1>1, <1>6 DEF Blocks, BookingRow
  <2>3. row.schedule \in Schedules
    BY <1>1, <1>6, <2>2 DEF Blocks, GoodRow, Exists, Open
  <2>4. Save(b, row, 0, Holding(row))
    BY <1>6 DEF Blocks
  <2>5. Holding(row) <= Holding(row) /\ Holding(row) + 0 = 0 + Holding(row)
    BY <1>2
  <2>6. Transfers(b, row, 0, Holding(row))
    BY <1>1, <1>2, <2>1, <2>3, <2>4, <2>5, SaveTransfers
  <2> QED
    BY <1>2, <2>6
<1>7. CASE Refunds(b, row)
  <2>1. row.schedule = bookings[b].schedule /\ row.status = "batal" /\ bookings[b].status = "batal"
    BY <1>1, <1>7 DEF Refunds, BookingRow
  <2>2. Holding(bookings[b]) = 0 /\ Holding(row) = 0
    BY <2>1 DEF Holding
  <2>3. row.schedule \in Schedules
    BY <1>1, <2>1 DEF GoodRow, Exists
  <2>4. Save(b, row, 0, 0)
    BY <1>7 DEF Refunds
  <2>5. Transfers(b, row, 0, 0)
    BY <1>1, <2>1, <2>2, <2>3, <2>4, SaveTransfers
  <2> QED
    BY <2>5
<1>8. CASE LetsGo(b, row)
  <2>1. row.schedule = bookings[b].schedule /\ Holding(row) = 0
    <3>1. CASE row = Unblocked(bookings[b])
      BY <1>1, <3>1 DEF Unblocked, BookingRow, Holding
    <3>2. CASE row = Cancelled(bookings[b])
      BY <1>1, <3>2 DEF Cancelled, Unblocked, BookingRow, Holding
    <3> QED
      BY <1>8, <3>1, <3>2 DEF LetsGo
  <2>2. row.schedule \in Schedules
    BY <1>1, <1>8, <2>1 DEF LetsGo, GoodRow, Exists, Open
  <2>3. Save(b, row, Holding(bookings[b]), 0)
    BY <1>8 DEF LetsGo
  <2>4. Holding(row) + Holding(bookings[b]) = Holding(bookings[b])
        /\ Holding(bookings[b]) <= Holding(bookings[b])
        /\ Holding(row) + Holding(bookings[b]) = Holding(bookings[b]) + 0
    BY <1>2, <2>1
  <2>5. Transfers(b, row, Holding(bookings[b]), 0)
    BY <1>1, <1>2, <2>1, <2>2, <2>3, <2>4, SaveTransfers
  <2> QED
    BY <1>2, <2>5
<1>9. ASSUME NEW released \in Nat, Revised(b, row, released)
      PROVE  \E new : \E r \in Nat, taken \in Nat : Transfers(b, new, r, taken)
  BY <1>1, <1>9, RevisedTransfers
<1> QED
  BY <1>3, <1>4, <1>5, <1>6, <1>7, <1>8, <1>9 DEF Rewrites

(* One step, as far as seats go.                                             *)
LEMMA SeatsMove ==
  ASSUME HInv, [Next]_vars
  PROVE  \/ Quiet
         \/ \E b \in Bookings : \E new : SameSeats(b, new)
         \/ \E b \in Bookings : \E new : \E released \in Nat, taken \in Nat :
              Transfers(b, new, released, taken)
<1>1. \/ Quiet
      \/ \E b \in Bookings, row \in BookingRow : Rewrites(b, row)
      \/ \E b \in Bookings, p \in Payments, money \in Nat, regular \in Nat :
           Settles(b, p, money, regular)
  BY StepIs DEF HInv
<1>2. 0 \in Nat
  OBVIOUS
<1> QED
  BY <1>1, <1>2, RewrittenTransfers, SettledTransfers

(* The claims of a schedule after seats were moved.                          *)
LEMMA TransferredClaims ==
  ASSUME HInv, NEW b \in Bookings, NEW new, NEW released, NEW taken,
         Transfers(b, new, released, taken), NEW s \in Schedules
  PROVE  /\ Claims(s) = OtherClaims(b, s) \cup SeatsOf(b, bookings[b], s)
         /\ Claims(s)' = OtherClaims(b, s) \cup SeatsOf(b, new, s)
         /\ Allocated(s) = Cardinality(OtherClaims(b, s))
                             + IF bookings[b].schedule = s THEN Holding(bookings[b]) ELSE 0
         /\ Allocated(s)' = Cardinality(OtherClaims(b, s))
                              + IF new.schedule = s THEN Holding(new) ELSE 0
<1>1. /\ bookings \in [Bookings -> BookingRow] /\ \A c \in Bookings : GoodRow(bookings[c])
  BY HistoryFacts
<1>2. GoodRow(new) /\ bookings' = [bookings EXCEPT ![b] = new]
  BY DEF Transfers
<1>3. Claims(s)' = OtherClaims(b, s) \cup SeatsOf(b, new, s)
  BY <1>1, <1>2, ClaimsAfter
<1>4. Allocated(s)' = Cardinality(Claims(s)')
  BY DEF Allocated
<1>5. Cardinality(OtherClaims(b, s) \cup SeatsOf(b, new, s)) =
        Cardinality(OtherClaims(b, s)) + IF new.schedule = s THEN Holding(new) ELSE 0
  BY <1>1, <1>2, CountWithOthers
<1>6. Cardinality(OtherClaims(b, s) \cup SeatsOf(b, bookings[b], s)) =
        Cardinality(OtherClaims(b, s)) + IF bookings[b].schedule = s THEN Holding(bookings[b]) ELSE 0
  BY <1>1, CountWithOthers
<1>7. Claims(s) = OtherClaims(b, s) \cup SeatsOf(b, bookings[b], s)
  BY ClaimsSplit
<1> QED
  BY <1>3, <1>4, <1>5, <1>6, <1>7 DEF Allocated

LEMMA SameClaims ==
  ASSUME HInv, NEW b \in Bookings, NEW new, SameSeats(b, new), NEW s \in Schedules
  PROVE  Claims(s)' = Claims(s) /\ Allocated(s)' = Allocated(s)
<1>1. bookings \in [Bookings -> BookingRow] /\ bookings' = [bookings EXCEPT ![b] = new]
  BY HistoryFacts DEF SameSeats
<1>2. Claims(s)' = OtherClaims(b, s) \cup SeatsOf(b, new, s)
  BY <1>1, ClaimsAfter
<1>3. Claims(s) = OtherClaims(b, s) \cup SeatsOf(b, bookings[b], s)
  BY ClaimsSplit
<1>4. Claims(s)' = Claims(s)
  BY <1>2, <1>3 DEF SameSeats
<1> QED
  BY <1>4 DEF Allocated

(* Seats move one for one between bookings and sale, outdated verifications  *)
(* apart: none leak, none come back twice, none are cut off.                 *)
THEOREM SeatsMoveExactly == Spec => SeatsMoveOneForOne
<1>1. ASSUME HInv, [Next]_vars, FreshStep, bookings' # bookings, NEW s \in Schedules
      PROVE  schedules'[s].seat_sisa + Allocated(s)' = schedules[s].seat_sisa + Allocated(s)
  <2>1. ASSUME NEW b \in Bookings, NEW new, SameSeats(b, new)
        PROVE  schedules'[s].seat_sisa + Allocated(s)' = schedules[s].seat_sisa + Allocated(s)
    BY <1>1, <2>1, SameClaims DEF SameSeats
  <2>2. ASSUME NEW b \in Bookings, NEW new, NEW released \in Nat, NEW taken \in Nat,
               Transfers(b, new, released, taken)
        PROVE  schedules'[s].seat_sisa + Allocated(s)' = schedules[s].seat_sisa + Allocated(s)
    <3>1. /\ GoodRow(new) /\ GoodRow(bookings[b]) /\ schedules \in [Schedules -> ScheduleRow]
          /\ \A c \in Bookings : GoodRow(bookings[c])
      BY <1>1, <2>2 DEF Transfers, HInv, IInv, BookInv, StoreInv
    <3>2. Holding(new) \in Nat /\ Holding(bookings[b]) \in Nat
      BY <3>1, SeatsOfHolding
    <3>3. Cardinality(OtherClaims(b, s)) \in Nat
      BY <3>1, OtherClaimsCount
    <3>4. /\ Allocated(s) = Cardinality(OtherClaims(b, s))
                             + IF bookings[b].schedule = s THEN Holding(bookings[b]) ELSE 0
          /\ Allocated(s)' = Cardinality(OtherClaims(b, s))
                              + IF new.schedule = s THEN Holding(new) ELSE 0
      BY <1>1, <2>2, TransferredClaims
    <3>5. /\ bookings[b].schedule = new.schedule \/ Holding(bookings[b]) = 0
          /\ Holding(new) + released = Holding(bookings[b]) + taken
          /\ new.schedule = s =>
               schedules'[s].seat_sisa = schedules[s].seat_sisa + released - taken
          /\ new.schedule # s => schedules'[s] = schedules[s]
      BY <1>1, <2>2 DEF Transfers
    <3>6. schedules[s].seat_sisa \in Nat
      BY <3>1 DEF ScheduleRow
    <3> DEFINE before == Allocated(s)
               after == Allocated(s)'
               others == Cardinality(OtherClaims(b, s))
    <3> HIDE DEF before, after, others
    <3>7. CASE new.schedule = s
      <4>1. before = others + Holding(bookings[b]) /\ after = others + Holding(new)
        BY <3>2, <3>4, <3>5, <3>7 DEF before, after, others
      <4>2. schedules[s].seat_sisa + released - taken + after = schedules[s].seat_sisa + before
        BY <3>2, <3>3, <3>5, <3>6, <4>1 DEF others
      <4> QED
        BY <3>5, <3>7, <4>2 DEF before, after
    <3>8. CASE new.schedule # s
      <4>1. before = others /\ after = others
        BY <3>2, <3>3, <3>4, <3>5, <3>8 DEF before, after, others
      <4> QED
        BY <3>5, <3>8, <4>1 DEF before, after
    <3> QED
      BY <3>7, <3>8
  <2>3. ~Quiet
    BY <1>1 DEF Quiet
  <2> QED
    BY <1>1, <2>1, <2>2, <2>3, SeatsMove
<1>2. HInv /\ [Next]_vars =>
        [FreshStep /\ bookings' # bookings => \A s \in Schedules :
           schedules'[s].seat_sisa + Allocated(s)' = schedules[s].seat_sisa + Allocated(s)]_vars
  BY <1>1
<1> QED
  BY <1>2, HistoryInvariant, PTL DEF Spec, SeatsMoveOneForOne

-----------------------------------------------------------------------------
(* The seat ledger *)

(* The ledger counts as everybody does.                                      *)
LEMMA LedgerCounts ==
  ASSUME NEW K
  PROVE  Ledger!Cardinality(K) = Cardinality(K)
BY DEF Ledger!Cardinality, Cardinality

(* The ledger's steps in terms of schedules and claims.                      *)
LEMMA LedgerTakes ==
  ASSUME NEW s \in Schedules, NEW K, NEW cost,
         K # {}, K \cap Claims(s) = {}, Cardinality(K) <= cost, cost <= schedules[s].seat_sisa,
         Claims(s)' = Claims(s) \cup K,
         schedules'[s].seat_sisa = schedules[s].seat_sisa - cost,
         \A t \in Schedules : schedules'[t].seat_total = schedules[t].seat_total,
         \A t \in Schedules \ {s} : Claims(t)' = Claims(t) /\ schedules'[t] = schedules[t]
  PROVE  Ledger!Take(s, K, cost)
BY LedgerCounts DEF Ledger!Take

LEMMA LedgerGivesBack ==
  ASSUME NEW s \in Schedules, NEW K,
         K # {}, K \subseteq Claims(s), Claims(s)' = Claims(s) \ K,
         schedules'[s].seat_sisa = schedules[s].seat_sisa + Cardinality(K),
         \A t \in Schedules : schedules'[t].seat_total = schedules[t].seat_total,
         \A t \in Schedules \ {s} : Claims(t)' = Claims(t) /\ schedules'[t] = schedules[t]
  PROVE  Ledger!GiveBack(s, K)
BY LedgerCounts DEF Ledger!GiveBack

LEMMA LedgerRests ==
  ASSUME \A s \in Schedules : /\ Claims(s)' = Claims(s)
                              /\ schedules'[s].seat_sisa = schedules[s].seat_sisa
                              /\ schedules'[s].seat_total = schedules[s].seat_total
  PROVE  UNCHANGED Ledger!ledger
BY DEF Ledger!ledger

LEMMA LedgerBegins ==
  ASSUME Init
  PROVE  Ledger!Init
<1>1. \A s \in Schedules : schedules[s].seat_total \in SeatTotals
                           /\ schedules[s].seat_sisa = schedules[s].seat_total
  BY DEF Init
<1>2. \A b \in Bookings : ~bookings[b].is_seat_blocked
  BY DEF Init, NoRow
<1>3. \A s : Claims(s) = {}
  BY <1>2 DEF Claims, SeatsOf
<1> QED
  BY <1>1, <1>3 DEF Ledger!Init

(* Moving seats takes or gives back claims of one booking.                   *)
LEMMA TransfersInLedger ==
  ASSUME HInv, NEW b \in Bookings, NEW new, NEW released \in Nat, NEW taken \in Nat,
         Transfers(b, new, released, taken)
  PROVE  [Ledger!Next]_(Ledger!ledger)
<1> DEFINE s == new.schedule
           k == Holding(new)
<1>1. /\ GoodRow(new) /\ GoodRow(bookings[b]) /\ s \in Schedules
      /\ schedules \in [Schedules -> ScheduleRow] /\ \A c \in Bookings : GoodRow(bookings[c])
  BY DEF Transfers, HInv, IInv, BookInv, StoreInv
<1>2. schedules[s].seat_sisa \in Nat
  BY <1>1 DEF ScheduleRow
<1>3. PICK h \in Nat : h = Holding(bookings[b]) /\ k \in Nat
  BY <1>1, SeatsOfHolding
<1>4. /\ bookings[b].schedule = s \/ h = 0
      /\ schedules'[s].seat_sisa = schedules[s].seat_sisa + released - taken
      /\ taken <= schedules[s].seat_sisa + released
      /\ \A t \in Schedules : schedules'[t].seat_total = schedules[t].seat_total
      /\ \A t \in Schedules \ {s} : schedules'[t] = schedules[t]
      /\ \/ taken = 0 /\ k + released = h
         \/ released = 0 /\ h = 0 /\ k <= taken /\ (k = 0 => taken = 0)
  BY <1>3 DEF Transfers
<1>5. 1 .. 0 = {}
  OBVIOUS
<1>6. \A t \in Schedules : SeatsOf(b, bookings[b], t) = IF t = s THEN {b} \X (1 .. h) ELSE {}
  BY <1>1, <1>3, <1>4, <1>5, SeatsOfHolding
<1>7. \A t \in Schedules : SeatsOf(b, new, t) = IF t = s THEN {b} \X (1 .. k) ELSE {}
  BY <1>1, SeatsOfHolding
<1>8. /\ Claims(s) = OtherClaims(b, s) \cup ({b} \X (1 .. h))
      /\ Claims(s)' = OtherClaims(b, s) \cup ({b} \X (1 .. k))
      /\ \A t \in Schedules \ {s} : Claims(t)' = Claims(t)
  <2>1. \A t \in Schedules : /\ Claims(t) = OtherClaims(b, t) \cup SeatsOf(b, bookings[b], t)
                             /\ Claims(t)' = OtherClaims(b, t) \cup SeatsOf(b, new, t)
    BY TransferredClaims
  <2>2. /\ SeatsOf(b, bookings[b], s) = {b} \X (1 .. h) /\ SeatsOf(b, new, s) = {b} \X (1 .. k)
        /\ \A t \in Schedules \ {s} : SeatsOf(b, bookings[b], t) = {} /\ SeatsOf(b, new, t) = {}
    BY <1>1, <1>6, <1>7
  <2> HIDE DEF s, k
  <2>3. \A t \in Schedules \ {s} : Claims(t)' = Claims(t)
    BY <2>1, <2>2
  <2> QED
    BY <1>1, <2>1, <2>2, <2>3
<1>9. \A x : <<b, x>> \notin OtherClaims(b, s)
  <2>1. ASSUME NEW x, NEW c \in Bookings \ {b}, <<b, x>> \in SeatsOf(c, bookings[c], s)
        PROVE  FALSE
    BY <2>1 DEF SeatsOf
  <2> QED
    BY <2>1 DEF OtherClaims
<1>10. Claims(s) \subseteq Bookings \X (1 .. Cardinality(Jamaah))
  BY <1>1, SeatsOfBounded DEF Claims
<1>11. ({b} \X (1 .. k)) \subseteq Bookings \X (1 .. Cardinality(Jamaah))
  BY <1>1, <1>7, SeatsOfBounded
<1> HIDE DEF s, k
<1>12. CASE h = k
  <2>1. taken = released
    BY <1>3, <1>4, <1>12
  <2>2. schedules'[s].seat_sisa = schedules[s].seat_sisa
    BY <1>2, <1>4, <2>1
  <2>3. \A t \in Schedules : /\ Claims(t)' = Claims(t)
                             /\ schedules'[t].seat_sisa = schedules[t].seat_sisa
                             /\ schedules'[t].seat_total = schedules[t].seat_total
    BY <1>1, <1>4, <1>8, <1>12, <2>2
  <2> QED
    BY <2>3, LedgerRests
<1>13. CASE h > k
  <2> DEFINE K == {b} \X ((k + 1) .. h)
  <2>1. taken = 0 /\ released = h - k
    BY <1>3, <1>4, <1>13
  <2>2. Cardinality(K) = released
    <3>1. IsFiniteSet((k + 1) .. h) /\ Cardinality((k + 1) .. h) = h - k
      BY <1>3, <1>13, FS_Interval
    <3>2. Cardinality(K) = Cardinality({b}) * Cardinality((k + 1) .. h)
      BY <3>1, FS_Singleton, FS_Product
    <3>3. Cardinality({b}) = 1
      BY FS_Singleton
    <3> QED
      BY <1>3, <2>1, <3>1, <3>2, <3>3
  <2>3. K # {} /\ K \subseteq Claims(s)
    <3>1. <<b, h>> \in K
      BY <1>3, <1>13
    <3>2. (k + 1) .. h \subseteq 1 .. h
      BY <1>3
    <3> QED
      BY <1>8, <3>1, <3>2
  <2>4. Claims(s)' = Claims(s) \ K
    <3>1. 1 .. k = (1 .. h) \ ((k + 1) .. h)
      BY <1>3, <1>13
    <3>2. ({b} \X (1 .. h)) \ K = {b} \X (1 .. k)
      BY <3>1
    <3>3. OtherClaims(b, s) \cap K = {}
      BY <1>9
    <3> HIDE DEF K
    <3> QED
      BY <1>8, <3>2, <3>3
  <2>5. schedules'[s].seat_sisa = schedules[s].seat_sisa + Cardinality(K)
    BY <1>2, <1>4, <2>1, <2>2
  <2> HIDE DEF K
  <2>6. \A t \in Schedules \ {s} : Claims(t)' = Claims(t) /\ schedules'[t] = schedules[t]
    BY <1>4, <1>8
  <2>7. s \in Schedules /\ \A t \in Schedules : schedules'[t].seat_total = schedules[t].seat_total
    BY <1>1, <1>4
  <2>8. Ledger!GiveBack(s, K)
    BY <2>3, <2>4, <2>5, <2>6, <2>7, LedgerGivesBack
  <2>9. K \in SUBSET ([t \in Schedules |-> Claims(t)][s])
    BY <2>3, <2>7
  <2>10. Ledger!Next
    BY <2>7, <2>8, <2>9 DEF Ledger!Next
  <2> QED
    BY <2>10
<1>14. CASE h < k
  <2> DEFINE K == {b} \X (1 .. k)
  <2>1. released = 0 /\ h = 0 /\ k <= taken
    BY <1>3, <1>4, <1>14
  <2>2. Cardinality(K) = k
    <3>1. IsFiniteSet(1 .. k) /\ Cardinality(1 .. k) = k
      BY <1>3, <1>14, FS_Interval
    <3>2. Cardinality(K) = Cardinality({b}) * Cardinality(1 .. k)
      BY <3>1, FS_Singleton, FS_Product
    <3>3. Cardinality({b}) = 1
      BY FS_Singleton
    <3> QED
      BY <1>3, <3>1, <3>2, <3>3
  <2>3. K # {}
    <3>1. <<b, k>> \in K
      BY <1>3, <1>14
    <3> QED
      BY <3>1
  <2>4. Claims(s) = OtherClaims(b, s)
    BY <1>5, <1>8, <2>1
  <2>5. K \cap Claims(s) = {} /\ Claims(s)' = Claims(s) \cup K
    BY <1>8, <1>9, <2>4
  <2>6. /\ schedules'[s].seat_sisa = schedules[s].seat_sisa - taken
        /\ taken <= schedules[s].seat_sisa /\ taken \in 0 .. schedules[s].seat_sisa
    BY <1>2, <1>4, <2>1
  <2>7. K \in SUBSET (Bookings \X (1 .. Cardinality(Jamaah)))
    BY <1>11
  <2> HIDE DEF K
  <2>8. Ledger!Take(s, K, taken)
    BY <1>1, <1>4, <1>8, <2>1, <2>2, <2>3, <2>5, <2>6, LedgerTakes
  <2> QED
    BY <1>1, <2>6, <2>7, <2>8 DEF Ledger!Next
<1> QED
  BY <1>3, <1>12, <1>13, <1>14

(* The schedule desk corrects the seats for sale, or sets a new capacity, or *)
(* leaves the seats alone.                                                   *)
LEMMA ScheduleInLedger ==
  ASSUME HInv, ScheduleNext, UNCHANGED bookings
  PROVE  [Ledger!Next]_(Ledger!ledger)
<1>1. /\ schedules \in [Schedules -> ScheduleRow]
      /\ \A s \in Schedules : Claims(s)' = Claims(s)
  BY DEF HInv, IInv, BookInv, StoreInv, Claims
<1> DEFINE SameFigures == \A t \in Schedules :
             /\ schedules'[t].seat_sisa = schedules[t].seat_sisa
             /\ schedules'[t].seat_total = schedules[t].seat_total
           Goal == [Ledger!Next]_(Ledger!ledger)
<1>2. ASSUME SameFigures
      PROVE  Goal
  BY <1>1, <1>2, LedgerRests
<1>3. ASSUME NEW s \in Schedules, NEW n \in 0 .. schedules[s].seat_total, UpdateSeat(s, n)
      PROVE  Goal
  <2>1. /\ schedules' = [schedules EXCEPT ![s].seat_sisa = n]
        /\ n <= schedules[s].seat_total - Allocated(s)
    BY <1>3 DEF UpdateSeat
  <2>2. schedules[s].seat_total \in Nat /\ Allocated(s) \in Nat /\ n \in Nat
    BY <1>1, <1>3, AllocatedIsNat DEF ScheduleRow, HInv
  <2> DEFINE total == schedules[s].seat_total
             held == Allocated(s)
  <2> HIDE DEF total, held
  <2>3. n + held <= total
    BY <2>1, <2>2 DEF total, held
  <2>4. n + Cardinality(Claims(s)) <= schedules[s].seat_total
    BY <2>3 DEF total, held, Allocated
  <2>5. /\ [t \in Schedules |-> schedules'[t].seat_sisa] =
             [[t \in Schedules |-> schedules[t].seat_sisa] EXCEPT ![s] = n]
        /\ [t \in Schedules |-> schedules'[t].seat_total] =
             [t \in Schedules |-> schedules[t].seat_total]
    BY <1>1, <1>3, <2>1 DEF ScheduleRow
  <2>6. Ledger!Adjust(s, n)
    BY <1>1, <1>3, <2>4, <2>5, LedgerCounts DEF Ledger!Adjust
  <2>7. n \in 0 .. [t \in Schedules |-> schedules[t].seat_total][s]
    BY <1>3
  <2> QED
    BY <1>3, <2>6, <2>7 DEF Ledger!Next
<1>4. ASSUME NEW s \in Schedules, NEW total \in SeatTotals, NEW status, NEW departs,
             UpdateSchedule(s, total, status, departs)
      PROVE  Goal
  <2> DEFINE used == schedules[s].seat_total - schedules[s].seat_sisa
  <2>1. /\ total >= used
        /\ schedules' = [schedules EXCEPT ![s] =
             [seat_total |-> total, seat_sisa |-> total - used, status |-> status,
              departs |-> departs, archiving |-> StillArchiving(s, status)]]
    BY <1>4 DEF UpdateSchedule
  <2>2. used \in Int /\ total \in Nat
    BY <1>1, <1>4, DataAssumption DEF ScheduleRow
  <2>3. used <= total
    <3> HIDE DEF used
    <3> QED
      BY <2>1, <2>2
  <2>4. /\ [t \in Schedules |-> schedules'[t].seat_sisa] =
             [[t \in Schedules |-> schedules[t].seat_sisa] EXCEPT ![s] = total - used]
        /\ [t \in Schedules |-> schedules'[t].seat_total] =
             [[t \in Schedules |-> schedules[t].seat_total] EXCEPT ![s] = total]
    BY <1>1, <1>4, <2>1
  <2>5. Ledger!Resize(s, total)
    BY <1>1, <1>4, <2>3, <2>4 DEF Ledger!Resize
  <2> QED
    BY <1>4, <2>5 DEF Ledger!Next
<1>5. ASSUME NEW s \in Schedules, ArchiveCheck(s) \/ ArchiveDeparted(s) \/ ArchiveAbandoned(s)
      PROVE  Goal
  <2>1. SameFigures
    BY <1>1, <1>5 DEF ArchiveCheck, ArchiveDeparted, ArchiveAbandoned, ScheduleRow
  <2> QED
    BY <1>2, <2>1
<1>6. ASSUME NEW s \in Schedules, NEW status, UpdateScheduleStatus(s, status)
      PROVE  Goal
  <2>1. SameFigures
    BY <1>1, <1>6 DEF UpdateScheduleStatus, ScheduleRow
  <2> QED
    BY <1>2, <2>1
<1>7. ASSUME NEW s \in Schedules, NEW departs, DepartureNears(s, departs)
      PROVE  Goal
  <2>1. SameFigures
    BY <1>1, <1>7 DEF DepartureNears, ScheduleRow
  <2> QED
    BY <1>2, <2>1
<1> HIDE DEF Goal
<1>8. Goal
  BY <1>3, <1>4, <1>5, <1>6, <1>7 DEF ScheduleNext
<1> QED
  BY <1>8 DEF Goal

(* The whole system, with its bookings, payments, workers and outdated       *)
(* snapshots, implements the seat ledger: every step of every handler takes  *)
(* seats for claims, gives claims' seats back one for one, corrects the      *)
(* seats for sale, sets a capacity, or leaves seats alone (SM-04).           *)
THEOREM SystemImplementsLedger == Spec => ImplementsLedger
<1>1. ASSUME HInv, [Next]_vars
      PROVE  [Ledger!Next]_(Ledger!ledger)
  <2>1. CASE Quiet
    <3>1. UNCHANGED bookings /\ (UNCHANGED schedules \/ ScheduleNext)
      BY <2>1 DEF Quiet
    <3>2. CASE UNCHANGED schedules
      BY <3>1, <3>2, LedgerRests DEF Claims
    <3>3. CASE ScheduleNext
      BY <1>1, <3>1, <3>3, ScheduleInLedger
    <3> QED
      BY <3>1, <3>2, <3>3
  <2>2. ASSUME NEW b \in Bookings, NEW new, SameSeats(b, new)
        PROVE  [Ledger!Next]_(Ledger!ledger)
    BY <1>1, <2>2, SameClaims, LedgerRests DEF SameSeats
  <2>3. ASSUME NEW b \in Bookings, NEW new, NEW released \in Nat, NEW taken \in Nat,
               Transfers(b, new, released, taken)
        PROVE  [Ledger!Next]_(Ledger!ledger)
    BY <1>1, <2>3, TransfersInLedger
  <2> QED
    BY <1>1, <2>1, <2>2, <2>3, SeatsMove
<1> QED
  BY <1>1, LedgerBegins, HistoryInvariant, PTL DEF Spec, ImplementsLedger, Ledger!Spec

=============================================================================
