---------------------------- MODULE MCEventually ----------------------------
(***************************************************************************)
(* Small instances, for TLC, of the two components that owe progress: the  *)
(* booking system with its hold worker, and the admin sessions with their  *)
(* cache. They share no table, so every behaviour is one of a single       *)
(* component, chosen at the start (part). The other stays in its initial   *)
(* state, where its fairness asks for nothing.                             *)
(***************************************************************************)
EXTENDS BookingSystem, AdminSessions

VARIABLE part

EventuallyInit == part \in {"holds", "sessions"} /\ Init /\ SessionsInit

EventuallyNext ==
  \/ part = "holds" /\ Next /\ UNCHANGED <<part, svars>>
  \/ part = "sessions" /\ SessionsNext /\ UNCHANGED <<part, vars>>

EventuallySpec ==
  /\ EventuallyInit /\ [][EventuallyNext]_<<part, vars, svars>>
  /\ WorkerFairness /\ SessionsFairness
=============================================================================
