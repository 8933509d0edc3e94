------------------------- MODULE MCScheduleController -------------------------
(* Instances of ScheduleController for TLC. *)
EXTENDS ScheduleController

CONSTANTS s1, s2, s3

(* s1 and s2 are connected, in this order. *)
TwoRefs == 1..2
ConfTwo == [r \in TwoRefs |-> IF r = 1 THEN s1 ELSE s2]
TwoSchedules == <<s1, s2>>

=============================================================================
