---------------------------- MODULE ScheduleDesk ----------------------------
(***************************************************************************)
(* internal/schedule as far as bookings depend on it: capacity, the manual *)
(* correction of seats left, and whether a schedule is for sale. Archiving *)
(* is two steps: the handler counts the active bookings, then writes the   *)
(* status in a statement of its own.                                       *)
(***************************************************************************)
EXTENDS BookingStore

ScheduleUnchanged == UNCHANGED <<bookings, payments, verifying, finalizing, candidates>>

(* updateSeatTx: at most what the capacity leaves after the blocked bookings. *)
UpdateSeat(s, n) ==
  /\ n <= schedules[s].seat_total - Allocated(s)
  /\ schedules' = [schedules EXCEPT ![s].seat_sisa = n]
  /\ ScheduleUnchanged

(* bolehArsip: a schedule that has not departed must have no binding booking. *)
ArchiveCheck(s) ==
  /\ schedules[s].status # "archived" /\ ~schedules[s].archiving
  /\ \A b \in Bookings : bookings[b].schedule = s => bookings[b].status \notin Open
  /\ schedules' = [schedules EXCEPT ![s].archiving = TRUE]
  /\ ScheduleUnchanged

ArchiveAbandoned(s) ==
  /\ schedules[s].archiving
  /\ schedules' = [schedules EXCEPT ![s].archiving = FALSE]
  /\ ScheduleUnchanged

(* A departed schedule is not published anew, and archiving one that is not  *)
(* departed needs the check above.                                           *)
MayBecome(s, status, departs) ==
  /\ status = "published" /\ departs = "past" =>
       schedules[s].status = "published" /\ schedules[s].departs = departs
  /\ status = "archived" /\ schedules[s].status # "archived" =>
       departs = "past" \/ schedules[s].archiving

StillArchiving(s, status) == schedules[s].archiving /\ status # "archived"

UpdateScheduleStatus(s, status) ==
  /\ MayBecome(s, status, schedules[s].departs)
  /\ status = "published" => schedules[s].departs # "past"
  /\ schedules' = [schedules EXCEPT ![s].status = status,
                                    ![s].archiving = StillArchiving(s, status)]
  /\ ScheduleUnchanged

(* The form's seats left are ignored: the seats in use stay in use and the   *)
(* capacity may not fall below them.                                         *)
UpdateSchedule(s, total, status, departs) ==
  LET used == schedules[s].seat_total - schedules[s].seat_sisa
  IN  /\ MayBecome(s, status, departs)
      /\ total >= used
      /\ schedules' = [schedules EXCEPT ![s] =
           [seat_total |-> total, seat_sisa |-> total - used, status |-> status,
            departs |-> departs, archiving |-> StillArchiving(s, status)]]
      /\ ScheduleUnchanged

(* ArsipkanLampau, once a day.                                               *)
ArchiveDeparted(s) ==
  /\ schedules[s].status = "published" /\ schedules[s].departs = "past"
  /\ schedules' = [schedules EXCEPT ![s].status = "archived"]
  /\ ScheduleUnchanged

(* Days pass: the departure comes within 30 days, then lies in the past.     *)
DepartureNears(s, departs) ==
  /\ <<schedules[s].departs, departs>> \in {<<"far", "near">>, <<"near", "past">>}
  /\ schedules' = [schedules EXCEPT ![s].departs = departs]
  /\ ScheduleUnchanged

-----------------------------------------------------------------------------
ScheduleNext ==
  \E s \in Schedules :
    \/ \E n \in 0 .. schedules[s].seat_total : UpdateSeat(s, n)
    \/ "archived" \in ScheduleStatuses /\ (ArchiveCheck(s) \/ ArchiveDeparted(s))
    \/ ArchiveAbandoned(s)
    \/ \E status \in ScheduleStatuses :
         \/ UpdateScheduleStatus(s, status)
         \/ \E total \in SeatTotals, departs \in Departures :
              UpdateSchedule(s, total, status, departs)
    \/ \E departs \in Departures : DepartureNears(s, departs)
=============================================================================
