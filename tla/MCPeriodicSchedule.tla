------------------------- MODULE MCPeriodicSchedule -------------------------
(* Small instances of PeriodicSchedule for TLC. *)
EXTENDS PeriodicSchedule

CONSTANT s1

OneAccess == {FullAccess}

OneStrTm == <<s1>>

AtMinute(mn) == [occPer |-> "Hour", hr |-> 0, mn |-> mn]

Hourly == {AtMinute(0), AtMinute(1)}

HourlyConf == AtMinute(0)

DailyConf == [occPer |-> "Day", hr |-> 1, mn |-> 0]

Daily == {DailyConf}
=============================================================================
