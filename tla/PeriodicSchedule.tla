-------------------------- MODULE PeriodicSchedule --------------------------
(***************************************************************************)
(* A periodic schedule: its start time objects have a setCal attribute,    *)
(* which names a minute of every hour or an hour of every day.  All else   *)
(* is as in Schedule; the actions that ask for a next start time ask for a *)
(* periodic one, and EnaReq does not ask for start times.                  *)
(*                                                                         *)
(* Time counts in parts of a minute.  Local time is UTC.                   *)
(*                                                                         *)
(* handleSetCal, which reads a setCal attribute, ends without a return     *)
(* statement when the attribute is valid: its result is undefined, and a   *)
(* member of SetCalReturns here, chosen anew for every call.               *)
(***************************************************************************)
EXTENDS Schedule, SequencesExt

CONSTANTS
  StrTmOrder,        \* the start time objects in the order of the data model
  SetCals,           \* setCal values a client may write
  ConfSetCal,        \* setCal of the configuration file
  TicksPerMinute, MinutesPerHour, HoursPerDay,
  SetCalReturns      \* what handleSetCal may return for a valid setCal

Hour == TicksPerMinute * MinutesPerHour

(* occPer Hour or Day; Unsupported stands for another occPer or occType,   *)
(* and for values out of range.                                            *)
CalendarTimes ==
  [occPer : {"Hour", "Day", "Unsupported"},
   hr : 0..(HoursPerDay - 1), mn : 0..(MinutesPerHour - 1)]

ASSUME CalendarAssumption ==
  /\ StrTmOrder \in Seq(StrTm) /\ ToSet(StrTmOrder) = StrTm
  /\ TicksPerMinute \in Nat \ {0}
  /\ MinutesPerHour \in Nat \ {0}
  /\ HoursPerDay \in Nat \ {0}
  /\ SetCals \subseteq CalendarTimes /\ ConfSetCal \in SetCals
  /\ SetCalReturns \subseteq BOOLEAN
  /\ BootTime >= Hour

VARIABLES
  cal,      \* the setCal attribute of each start time object
  touched   \* history: 2 after a write, 1 after EnaReq, less by 1 at a start

periodicVars == <<vars, cal, touched>>

-----------------------------------------------------------------------------
(* The calendar: minute and hour of a time, and a time with either of them *)
(* replaced.  What is below the minute is kept.                            *)

MinuteOf(t) == (t \div TicksPerMinute) % MinutesPerHour
HourOfDay(t) == (t \div Hour) % HoursPerDay

SetMinuteToHourStart(t, mn) == t - (t % Hour) + mn * TicksPerMinute

SetMinute(t, mn) == t + (mn - MinuteOf(t)) * TicksPerMinute

SetHour(t, hr) == t + (hr - HourOfDay(t)) * Hour

(* A run that started then would still be under way at time t.             *)
WithinRunOrAtEnd(start, t) == t <= start + schdIntv * numEntr

WithinRun(start, t) == t < start + schdIntv * numEntr

(* updateNextPeriodicStartTime: next is the best of the objects before.    *)
(* A start ahead always replaces it, since "a <= a <= next" holds if next  *)
(* is not 0.                                                               *)
NextHourlyAsDaily(mn, next, t) ==
  LET start == SetMinute(t, mn)
      later == start + Hour
  IN  CASE start >= t                           -> start
        [] start < t /\ WithinRun(start, t)     -> start
        [] start < t /\ ~WithinRun(start, t)    ->
             IF later <= next THEN later ELSE next

NextHourly(mn, next, t) ==
  LET start == SetMinute(t, mn)
      later == start + Hour
  IN  CASE start >= t                           -> start
        [] start < t /\ WithinRun(start, t)     -> start
        [] start < t /\ ~WithinRun(start, t)    ->
             IF later >= t /\ (later <= next \/ next = 0) THEN later ELSE next

(* A day later is an hour later here, and only if that improves next.      *)
NextDaily(hr, next, t) ==
  LET start == SetHour(t, hr)
      later == start + Hour
  IN  CASE start >= t                           -> start
        [] start < t /\ WithinRun(start, t)     -> start
        [] start < t /\ ~WithinRun(start, t)    ->
             IF later <= next THEN later ELSE next

UpdateNext(c, next, t) ==
  CASE c.occPer = "Hour"        -> NextHourly(c.mn, next, t)
    [] c.occPer = "Day"         -> NextDaily(c.hr, next, t)
    [] c.occPer = "Unsupported" -> next

(* schedule_getNextStartTime: one pass over the start time objects with the *)
(* best so far, where ok is what handleSetCal returns for each.             *)
NextPeriodicUnset(ok, t) ==
  LET next[i \in 0..Len(StrTmOrder)] ==
        IF i = 0 THEN -1
        ELSE IF ok[StrTmOrder[i]]
             THEN UpdateNext(cal[StrTmOrder[i]], next[i - 1], t)
             ELSE next[i - 1]
  IN  next[Len(StrTmOrder)]

NextPeriodic(ok, t) ==
  LET next[i \in 0..Len(StrTmOrder)] ==
        IF i = 0 THEN 0
        ELSE IF ok[StrTmOrder[i]]
             THEN UpdateNext(cal[StrTmOrder[i]], next[i - 1], t)
             ELSE next[i - 1]
  IN  next[Len(StrTmOrder)]

Returns == [StrTm -> SetCalReturns]

-----------------------------------------------------------------------------
PeriodicInit ==
  /\ Init
  /\ cal = [s \in StrTm |-> ConfSetCal]
  /\ touched = 0

Plan(ok) == IF nextStartTime = 0 THEN NextPeriodic(ok, now) ELSE nextStartTime

PlanIsDueUnchecked(ok) == Plan(ok) # 0

PlanIsDue(ok) == Plan(ok) # 0 /\ tTime > Plan(ok)

KeepWaitingPeriodic(ok) ==
  /\ pc = "act" /\ tState = READY
  /\ ~PlanIsDue(ok)
  /\ nextStartTime' = Plan(ok)
  /\ EndIteration
  /\ UNCHANGED <<now, schdSt, clientVars, statusVars, startTime,
                 entryDurationInMs, numberOfScheduleEntries,
                 currentEntryIdx, req, cal, touched>>

(* The plan is made by the call before the start, the next by one after.   *)
StartPeriodic(ok, okNext) ==
  /\ pc = "act" /\ tState = READY
  /\ PlanIsDue(ok)
  /\ BeginRun(Plan(ok))
  /\ actStrTm' = Plan(ok) /\ actStrTmGood' = TRUE
  /\ strTm' = EraseStartTime(strTm, Plan(ok))
  /\ nextStartTime' = NextPeriodic(okNext, now)
  /\ nxtStrTm' = nextStartTime'
  /\ ReachCommit(RUNNING)
  /\ touched' = IF touched = 0 THEN 0 ELSE touched - 1
  /\ UNCHANGED <<now, schdSt, numEntr, schdIntv, nanValues, valGood, schdEntr,
                 schdEnaErr, allow, req, cal>>

EndPeriodic(ok) ==
  /\ pc = "act" /\ tState = RUNNING
  /\ entryDurationInMs # 0
  /\ CurrentIdxAt(tTime) = -1
  /\ valGood' = FALSE
  /\ nextStartTime' = NextPeriodic(ok, now)
  /\ nxtStrTm' = nextStartTime'
  /\ actStrTm' = 0 /\ actStrTmGood' = FALSE
  /\ ReachCommit(IF nextStartTime' # 0 THEN READY ELSE NOT_READY)
  /\ UNCHANGED <<now, schdSt, clientVars, schdEntr, schdEnaErr, startTime,
                 entryDurationInMs, numberOfScheduleEntries, currentEntryIdx,
                 req, cal, touched>>

(* SIGFPE, see Crash of Schedule.                                          *)
CrashPeriodic ==
  /\ pc = "act"
  /\ \/ tState = READY /\ schdIntv = 0 /\ \E ok \in Returns : PlanIsDue(ok)
     \/ tState = RUNNING /\ entryDurationInMs = 0
  /\ pc' = "crashed"
  /\ UNCHANGED <<now, schdSt, clientVars, statusVars, runVars, tState, tTime,
                 tNew, req, cal, touched>>

PeriodicThreadStep ==
  \/ /\ Poll \/ RunEntry \/ SameEntry \/ Commit \/ ClearSchdEntr
     /\ UNCHANGED <<cal, touched>>
  \/ \E ok \in Returns :
       \/ KeepWaitingPeriodic(ok) \/ EndPeriodic(ok)
       \/ \E okNext \in Returns : StartPeriodic(ok, okNext)
  \/ CrashPeriodic

-----------------------------------------------------------------------------
(* strTm_setCal_writeAccessHandler *)
WriteSetCal(s, c) ==
  /\ Serving
  /\ allow.strTm
  /\ cal' = [cal EXCEPT ![s] = c]
  /\ UNCHANGED vars

(* enabledSchedule of a periodic schedule up to the state update.          *)
EnablePeriodic ==
  /\ numberOfScheduleEntries' = numEntr
  /\ schdSt' = IF GenericChecks THEN READY ELSE NOT_READY
  /\ req' = IF GenericChecks THEN "publish" ELSE "idle"
  /\ schdEnaErr' = IF GenericChecks THEN schdEnaErr ELSE EnablingError
  /\ UNCHANGED <<now, clientVars, nxtStrTm, actStrTm, actStrTmGood, valGood,
                 schdEntr, nextStartTime, startTime, entryDurationInMs,
                 currentEntryIdx, threadVars, cal>>

EnableByRequest == pc # "crashed" /\ req = "accepted" /\ EnablePeriodic

EnableByApplication == Serving /\ EnablePeriodic

PublishEnabledPeriodic(ok) ==
  /\ pc # "crashed"
  /\ req = "publish"
  /\ nxtStrTm' = NextPeriodic(ok, now)
  /\ schdEnaErr' = "NONE"
  /\ req' = "idle"
  /\ UNCHANGED <<now, schdSt, clientVars, actStrTm, actStrTmGood, valGood,
                 schdEntr, runVars, threadVars, cal, touched>>

WritePeriodic ==
  /\ \/ \E s \in StrTm, c \in SetCals : WriteSetCal(s, c)
     \/ \E n \in NumEntrValues : WriteNumEntr(n) /\ UNCHANGED cal
     \/ \E i \in SchdIntvValues : WriteSchdIntv(i) /\ UNCHANGED cal
  /\ touched' = 2

Enable ==
  /\ EnableByRequest \/ EnableByApplication
  /\ touched' = IF touched = 0 THEN 1 ELSE touched

ServeOther ==
  /\ \/ CheckEnaReq \/ OperateDsaReq \/ ApplicationDisables
     \/ \E i \in ValueIdx, nan \in BOOLEAN : WriteValue(i, nan)
     \/ \E a \in AccessSettings : ApplicationSetsAccess(a)
     \/ Tick
  /\ UNCHANGED <<cal, touched>>

PeriodicNext ==
  \/ PeriodicThreadStep
  \/ \E ok \in Returns : PublishEnabledPeriodic(ok)
  \/ WritePeriodic
  \/ Enable
  \/ ServeOther

PeriodicSpec == PeriodicInit /\ [][PeriodicNext]_periodicVars

-----------------------------------------------------------------------------
(* Type correctness of the schedule and of its calendar attributes.        *)
PeriodicTypeOK ==
  /\ TypeOK
  /\ cal \in [StrTm -> CalendarTimes]
  /\ touched \in 0..2

(* What an hourly start time means: the minute mn of every hour, at the    *)
(* part of the minute at which the question is asked.                      *)
Occurrences(mn, t) ==
  {o \in 0..(t + Hour) :
     MinuteOf(o) = mn /\ o % TicksPerMinute = t % TicksPerMinute}

UnderWay(mn, t) == {o \in Occurrences(mn, t) : o < t /\ WithinRun(o, t)}

(* The start time planned for an hourly schedule is the occurrence that a  *)
(* run should be under way from, else the next occurrence; if a run ends   *)
(* within the hour it starts in.                                           *)
PlansOccurrence ==
  \A mn \in 0..(MinutesPerHour - 1) :
    mn * TicksPerMinute + TicksPerMinute + schdIntv * numEntr <= Hour =>
      NextHourly(mn, 0, now) =
        IF UnderWay(mn, now) # {} THEN Max(UnderWay(mn, now))
        ELSE Min({o \in Occurrences(mn, now) : o >= now})

HourCount(t) == t \div Hour

(* An hourly schedule with one start time object, entries, and a length of *)
(* whole minutes runs once in an hour, unless a client has enabled it      *)
(* since the last start or written to it since the one before: the end of  *)
(* a run is not mistaken for one still under way.                          *)
OncePerHour ==
  [][\A ok, okNext \in Returns :
       /\ StartPeriodic(ok, okNext) /\ touched = 0
       /\ Len(StrTmOrder) = 1
       /\ \A s \in StrTm : cal[s].occPer = "Hour"
       /\ numEntr > 0 /\ (schdIntv * numEntr) % TicksPerMinute = 0
       => HourCount(startTime') > HourCount(startTime)]_periodicVars

(* The run of a periodic schedule is followed by another one: it leaves    *)
(* the schedule READY, if handleSetCal returns what it should.             *)
StaysEnabled ==
  [][EndPeriodic([s \in StrTm |-> TRUE]) => tNew' = READY]_periodicVars

=============================================================================
