------------------------------- MODULE Fetch -------------------------------
(***************************************************************************)
(* What an ndnSIM consumer promises, whatever its containers, timers and   *)
(* estimator look like: sequence numbers are requested in order, one that  *)
(* lapsed is requested again before any new one, an answer is reported     *)
(* once, and nothing is requested or reported outside the application's    *)
(* active time.                                                            *)
(***************************************************************************)
EXTENDS Integers

CONSTANTS First, Last   \* the numbers First .. Last - 1 are fetched

VARIABLES
  life,     \* "idle", "active", "stopped" or "aborted"
  next,     \* the next number never requested
  due,      \* requested, not reported
  lapsed    \* those of due that timed out and were not requested again

vars == <<life, next, due, lapsed>>

Init == life = "idle" /\ next = First /\ due = {} /\ lapsed = {}

\* The application starts and stops, or dies of an answer, also of one that comes late.
Live ==
  /\ \/ life = "idle" /\ life' = "active"
     \/ life = "active" /\ life' = "stopped"
     \/ life \in {"active", "stopped"} /\ life' = "aborted"
  /\ UNCHANGED <<next, due, lapsed>>

Request ==
  /\ life = "active" /\ lapsed = {} /\ next < Last
  /\ due' = due \cup {next}
  /\ next' = next + 1
  /\ UNCHANGED <<life, lapsed>>

\* Of the lapsed ones the smallest goes first.
Retry ==
  /\ life = "active"
  /\ \E s \in lapsed : /\ \A t \in lapsed : s <= t
                       /\ lapsed' = lapsed \ {s}
  /\ UNCHANGED <<life, next, due>>

\* Requests time out, also in a stopped application.
Lapse ==
  /\ life # "aborted"
  /\ \E S \in SUBSET (due \ lapsed) : lapsed' = lapsed \cup S
  /\ UNCHANGED <<life, next, due>>

Report ==
  /\ life = "active"
  /\ \E s \in due : due' = due \ {s} /\ lapsed' = lapsed \ {s}
  /\ UNCHANGED <<life, next>>

Next == Live \/ Request \/ Retry \/ Lapse \/ Report

Spec == Init /\ [][Next]_vars
=============================================================================
