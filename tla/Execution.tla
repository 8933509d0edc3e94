----------------------------- MODULE Execution -----------------------------
(***************************************************************************)
(* What a schedule promises: it makes runs, one at a time, each from a     *)
(* start time that is over and later than that of the run before, and      *)
(* executes the entries of a run in order, none before it is due, none     *)
(* twice, and none once the run is over or has been stopped.               *)
(*                                                                         *)
(* It says nothing of threads, requests and parameters.  An entry may be   *)
(* passed over when nobody looks at the clock while it lasts, and the      *)
(* number of entries may be set anew at any time, as every EnaReq does.    *)
(***************************************************************************)
EXTENDS Integers

VARIABLES
  clock,
  active,    \* a run is under way
  start,     \* the start time of the last run, 0 before the first
  interval,  \* the time an entry of it lasts
  length,    \* the number of entries
  entry      \* the entry of it that was executed last, 0 before the first

runVars == <<active, start, interval, length, entry>>

Init ==
  /\ clock \in Nat \ {0}
  /\ active = FALSE
  /\ start = 0 /\ interval = 0 /\ length = 0 /\ entry = 0

(* How many entries of the run have begun. *)
Begun == (clock - start) \div interval + 1

Begin ==
  /\ ~active /\ active' = TRUE
  /\ start' \in Nat
  /\ start < start' /\ start' < clock
  /\ interval' \in Nat /\ length' \in Nat
  /\ entry' = 0
  /\ UNCHANGED clock

(* A run that is being stopped may still execute the entry it is at.       *)
Execute ==
  /\ active /\ interval > 0
  /\ entry' \in Nat
  /\ entry < entry' /\ entry' <= length /\ entry' <= Begun
  /\ active' \in BOOLEAN
  /\ UNCHANGED <<clock, start, interval, length>>

(* The run is over or is stopped, or the number of entries is set.         *)
Control ==
  /\ active' \in {active, FALSE}
  /\ length' \in Nat
  /\ UNCHANGED <<clock, start, interval, entry>>

PassTime == clock' > clock /\ UNCHANGED runVars

Next == Begin \/ Execute \/ Control \/ PassTime

Spec == Init /\ [][Next]_<<clock, runVars>>

=============================================================================
