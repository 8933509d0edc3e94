------------------------- MODULE MCControllerRestart -------------------------
(* Instances of ControllerRestart for TLC. *)
EXTENDS ControllerRestart

CONSTANTS s1, s2, s3, entity1, entity2

(* s1 is connected, and s2 may take its place. *)
OneRef == 1..1
ConfOne == [r \in OneRef |-> s1]
OneSchedule == <<s1>>

(* s1 and s2 are connected, in this order, and s3 may take a place. *)
TwoRefs == 1..2
ConfTwo == [r \in TwoRefs |-> IF r = 1 THEN s1 ELSE s2]
TwoSchedules == <<s1, s2>>

=============================================================================
