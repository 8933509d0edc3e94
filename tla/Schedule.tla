------------------------------ MODULE Schedule ------------------------------
(***************************************************************************)
(* One schedule node (FSCH) of the DER scheduler, src/src/scheduler/       *)
(* schedule.c, of the time triggered, non periodic kind.                   *)
(*                                                                         *)
(* Two threads share the node.  The schedule thread (schedule_thread)      *)
(* polls the state every 100 ms, decides on what it read, and only then    *)
(* writes the new state back.  The server thread of libiec61850 runs the   *)
(* write, check and control handlers one at a time; the application's      *)
(* calls are modelled on it as well, since the example makes them before   *)
(* it starts the server.  Neither thread locks the schedule.               *)
(*                                                                         *)
(* An iteration of the schedule thread is Poll, one of the four actions    *)
(* for what it finds, Commit and ClearSchdEntr.  EnaReq is CheckEnaReq,    *)
(* EnableSchedule and PublishEnabled.  Every other handler is one action.  *)
(* Values of the data model are published under its lock, one object at a  *)
(* time; timestamps, wording and logging are left out.                     *)
(***************************************************************************)
EXTENDS Integers, FiniteSets, FiniteSetsExt

CONSTANTS
  StrTm,            \* the start time objects StrTm01 .. of the node
  StrTmValues,      \* times a client may write to a start time object
  ValueCount,       \* number of value objects ValASG001 .. of the node
  NumEntrValues,    \* values a client may write to NumEntr
  SchdIntvValues,   \* values a client may write to SchdIntv
  AccessSettings,   \* access rights the application may give to clients
  ConfNumEntr,      \* NumEntr of the configuration file
  ConfSchdIntv,     \* SchdIntv of the configuration file
  BootTime,         \* the time at which the program starts
  MaxTime           \* the clock of the model stops here

(* The states of SchdSt the program ever writes. *)
NOT_READY == "NOT_READY"
READY     == "READY"
RUNNING   == "RUNNING"
States    == {NOT_READY, READY, RUNNING}

(* ScheduleEnablingError, and the initial value of SchdEnaErr. *)
EnablingErrors == {"UNSET", "NONE", "NUMENTR", "SCHDINTV", "VALUES", "STRTM"}

ValueIdx == 1..ValueCount

Access == [control : BOOLEAN, strTm : BOOLEAN]
FullAccess == [control |-> TRUE, strTm |-> TRUE]

(* Negative values of NumEntr behave like 0; a negative SchdIntv has no    *)
(* defined conversion to unsigned milliseconds and is not modelled.        *)
ASSUME DataAssumption ==
  /\ StrTmValues \subseteq Nat
  /\ ValueCount \in Nat
  /\ NumEntrValues \subseteq Nat
  /\ SchdIntvValues \subseteq Nat
  /\ ConfNumEntr \in NumEntrValues
  /\ ConfSchdIntv \in SchdIntvValues
  /\ AccessSettings \subseteq Access

(* The clock counts from 1970, which no run of a schedule reaches back to. *)
ASSUME TimeAssumption ==
  /\ BootTime \in Nat
  /\ BootTime > 0
  /\ MaxTime \in Nat

ASSUME BootAssumption ==
  \A n \in NumEntrValues, i \in SchdIntvValues : n * i < BootTime

VARIABLES
  now,                      \* Hal_getTimeInMs()
  \* the data model of the node
  schdSt, strTm, numEntr, schdIntv,
  nanValues,                \* the value objects that hold NaN
  nxtStrTm,                 \* NxtStrTm; its quality is GOOD iff it is not 0
  actStrTm, actStrTmGood,   \* ActStrTm and its quality
  valGood,                  \* the quality of ValMV, ValINS, ...
  schdEntr, schdEnaErr,
  \* struct sSchedule
  nextStartTime, startTime, entryDurationInMs, numberOfScheduleEntries,
  currentEntryIdx, allow,
  \* the schedule thread: position, and its locals state, currentTime, newState
  pc, tState, tTime, tNew,
  \* the server thread: how far an EnaReq has come
  req

clientVars == <<strTm, numEntr, schdIntv, nanValues, allow>>
statusVars == <<nxtStrTm, actStrTm, actStrTmGood, valGood, schdEntr, schdEnaErr>>
runVars    == <<nextStartTime, startTime, entryDurationInMs,
                numberOfScheduleEntries, currentEntryIdx>>
threadVars == <<pc, tState, tTime, tNew>>

vars == <<now, schdSt, clientVars, statusVars, runVars, threadVars, req>>

-----------------------------------------------------------------------------
(* Start times. *)

FutureStartTimesOrPast(st, t) == {x \in {st[s] : s \in StrTm} : x # 0}

FutureStartTimes(st, t) == {x \in {st[s] : s \in StrTm} : x > t}

NextStartTimeOrMinus1(st, t) ==
  IF FutureStartTimes(st, t) = {} THEN -1 ELSE Min(FutureStartTimes(st, t))

(* The earliest start time after t, or 0 when there is none. *)
NextStartTime(st, t) ==
  IF FutureStartTimes(st, t) = {} THEN 0 ELSE Min(FutureStartTimes(st, t))

EraseStartTime(st, t) == [s \in StrTm |-> IF st[s] = t THEN 0 ELSE st[s]]

-----------------------------------------------------------------------------
(* The index of the entry that is due at time t, -1 after the last entry.  *)
(* It divides by the entry duration, which must not be 0.                  *)

CurrentIdxNoEnd(t) == (t - startTime) \div entryDurationInMs

CurrentIdxAt(t) ==
  LET idx == (t - startTime) \div entryDurationInMs
  IN  IF idx >= numberOfScheduleEntries THEN -1 ELSE idx

-----------------------------------------------------------------------------
(* Validity checks of EnaReq. *)

NumEntrValid    == numEntr > 0 /\ numEntr <= ValueCount
ValuesValid     == (1..numEntr) \cap nanValues = {}
SchdIntvValid   == schdIntv > 0
StartTimesValid == \E s \in StrTm : strTm[s] + schdIntv * numEntr > now

GenericChecks == NumEntrValid /\ ValuesValid /\ SchdIntvValid

EnablingError ==
  CASE ~NumEntrValid                                      -> "NUMENTR"
    [] NumEntrValid /\ ~ValuesValid                       -> "VALUES"
    [] NumEntrValid /\ ValuesValid /\ ~SchdIntvValid      -> "SCHDINTV"
    [] GenericChecks                                      -> "STRTM"

-----------------------------------------------------------------------------
(* Schedule_create on the configured data model. *)

Init ==
  /\ now = BootTime
  /\ schdSt = NOT_READY
  /\ strTm = [s \in StrTm |-> 0]
  /\ numEntr = ConfNumEntr
  /\ schdIntv = ConfSchdIntv
  /\ nanValues = {}
  /\ nxtStrTm = 0
  /\ actStrTm = 0 /\ actStrTmGood = FALSE
  /\ valGood = FALSE
  /\ schdEntr = 0 /\ schdEnaErr = "UNSET"
  /\ nextStartTime = 0 /\ startTime = 0
  /\ entryDurationInMs = 0 /\ numberOfScheduleEntries = 0
  /\ currentEntryIdx = 0
  /\ allow = FullAccess
  /\ pc = "poll" /\ tState = NOT_READY /\ tTime = 0 /\ tNew = NOT_READY
  /\ req = "idle"

-----------------------------------------------------------------------------
(* The schedule thread. *)

(* The locals of an iteration are dead once it is over. *)
EndIteration ==
  /\ pc' = "poll" /\ tState' = NOT_READY /\ tTime' = 0 /\ tNew' = NOT_READY

ReachCommit(newState) ==
  /\ pc' = "commit" /\ tNew' = newState
  /\ UNCHANGED <<tState, tTime>>

(* Read the state and the clock; an iteration that finds NOT_READY does    *)
(* nothing and is left out.                                                *)
Poll ==
  /\ pc = "poll"
  /\ schdSt # NOT_READY
  /\ pc' = "act"
  /\ tState' = schdSt
  /\ tTime' = now
  /\ UNCHANGED <<now, schdSt, clientVars, statusVars, runVars, tNew, req>>

PlannedStartTimeRecomputed == NextStartTime(strTm, now)

(* The start time the thread waits for: it asks for one when it has none.  *)
PlannedStartTime ==
  IF nextStartTime = 0 THEN NextStartTime(strTm, now) ELSE nextStartTime

StartIsDueUnchecked == PlannedStartTime # 0

StartIsDue == PlannedStartTime # 0 /\ tTime > PlannedStartTime

KeepWaiting ==
  /\ pc = "act" /\ tState = READY
  /\ ~StartIsDue
  /\ nextStartTime' = PlannedStartTime
  /\ EndIteration
  /\ UNCHANGED <<now, schdSt, clientVars, statusVars, startTime,
                 entryDurationInMs, numberOfScheduleEntries,
                 currentEntryIdx, req>>

BeginRunNoReset(start) ==
  /\ startTime' = start
  /\ entryDurationInMs' = schdIntv
  /\ numberOfScheduleEntries' = numEntr
  /\ UNCHANGED currentEntryIdx

(* What a run remembers of the data model: later writes do not reach it.   *)
BeginRun(start) ==
  /\ startTime' = start
  /\ entryDurationInMs' = schdIntv
  /\ numberOfScheduleEntries' = numEntr
  /\ currentEntryIdx' = -2

(* The entry index computed here is not used; if the compiler keeps the    *)
(* division, a SchdIntv of 0 ends the program (see Crash).                 *)
StartSchedule ==
  /\ pc = "act" /\ tState = READY
  /\ StartIsDue
  /\ BeginRun(PlannedStartTime)
  /\ actStrTm' = PlannedStartTime /\ actStrTmGood' = TRUE
  /\ strTm' = EraseStartTime(strTm, PlannedStartTime)
  /\ nextStartTime' = NextStartTime(strTm', now)
  /\ nxtStrTm' = nextStartTime'
  /\ ReachCommit(RUNNING)
  /\ UNCHANGED <<now, schdSt, numEntr, schdIntv, nanValues, valGood, schdEntr,
                 schdEnaErr, allow, req>>

(* A new entry is due: publish it, if its value object exists.             *)
RunEntry ==
  /\ pc = "act" /\ tState = RUNNING
  /\ entryDurationInMs # 0
  /\ CurrentIdxAt(tTime) \notin {-1, currentEntryIdx}
  /\ currentEntryIdx' = CurrentIdxAt(tTime)
  /\ IF currentEntryIdx' + 1 \in ValueIdx
     THEN valGood' = TRUE /\ schdEntr' = currentEntryIdx' + 1
     ELSE UNCHANGED <<valGood, schdEntr>>
  /\ EndIteration
  /\ UNCHANGED <<now, schdSt, clientVars, nxtStrTm, actStrTm, actStrTmGood,
                 schdEnaErr, nextStartTime, startTime, entryDurationInMs,
                 numberOfScheduleEntries, req>>

SameEntry ==
  /\ pc = "act" /\ tState = RUNNING
  /\ entryDurationInMs # 0
  /\ CurrentIdxAt(tTime) # -1
  /\ CurrentIdxAt(tTime) = currentEntryIdx
  /\ EndIteration
  /\ UNCHANGED <<now, schdSt, clientVars, statusVars, runVars, req>>

(* The last entry is over: READY if another start time lies ahead.         *)
EndSchedule ==
  /\ pc = "act" /\ tState = RUNNING
  /\ entryDurationInMs # 0
  /\ CurrentIdxAt(tTime) = -1
  /\ valGood' = FALSE
  /\ nextStartTime' = NextStartTime(strTm, now)
  /\ nxtStrTm' = nextStartTime'
  /\ actStrTm' = 0 /\ actStrTmGood' = FALSE
  /\ ReachCommit(IF nextStartTime' # 0 THEN READY ELSE NOT_READY)
  /\ UNCHANGED <<now, schdSt, clientVars, schdEntr, schdEnaErr, startTime,
                 entryDurationInMs, numberOfScheduleEntries, currentEntryIdx,
                 req>>

(* Write the new state, whatever the state has become since Poll.          *)
Commit ==
  /\ pc = "commit"
  /\ schdSt' = tNew
  /\ IF tState = RUNNING
     THEN pc' = "clear" /\ UNCHANGED <<tState, tTime, tNew>>
     ELSE EndIteration
  /\ UNCHANGED <<now, clientVars, statusVars, runVars, req>>

ClearSchdEntr ==
  /\ pc = "clear"
  /\ schdEntr' = 0
  /\ EndIteration
  /\ UNCHANGED <<now, schdSt, clientVars, nxtStrTm, actStrTm, actStrTmGood,
                 valGood, schdEnaErr, runVars, req>>

(* An integer division by zero: SIGFPE ends the program.                   *)
Crash ==
  /\ pc = "act"
  /\ \/ tState = READY /\ StartIsDue /\ schdIntv = 0
     \/ tState = RUNNING /\ entryDurationInMs = 0
  /\ pc' = "crashed"
  /\ UNCHANGED <<now, schdSt, clientVars, statusVars, runVars, tState, tTime,
                 tNew, req>>

ThreadStep ==
  \/ Poll \/ KeepWaiting \/ StartSchedule
  \/ RunEntry \/ SameEntry \/ EndSchedule
  \/ Commit \/ ClearSchdEntr \/ Crash

-----------------------------------------------------------------------------
(* The server thread.  A request that is refused for want of access, for a *)
(* start time in the past, or because ctlVal is FALSE changes nothing and  *)
(* has no action.  The operation names are those of the handlers.          *)

Serving == pc # "crashed" /\ req = "idle"

WriteStrTm(s, t) ==
  /\ Serving
  /\ allow.strTm
  /\ t > now
  /\ strTm' = [strTm EXCEPT ![s] = t]
  /\ UNCHANGED <<now, schdSt, numEntr, schdIntv, nanValues, allow, statusVars,
                 runVars, threadVars, req>>

WriteNumEntr(n) ==
  /\ Serving
  /\ numEntr' = n
  /\ UNCHANGED <<now, schdSt, strTm, schdIntv, nanValues, allow, statusVars,
                 runVars, threadVars, req>>

WriteSchdIntv(i) ==
  /\ Serving
  /\ schdIntv' = i
  /\ UNCHANGED <<now, schdSt, strTm, numEntr, nanValues, allow, statusVars,
                 runVars, threadVars, req>>

WriteValue(i, nan) ==
  /\ Serving
  /\ nanValues' = IF nan THEN nanValues \cup {i} ELSE nanValues \ {i}
  /\ UNCHANGED <<now, schdSt, strTm, numEntr, schdIntv, allow, statusVars,
                 runVars, threadVars, req>>

(* The check handler of EnaReq.  Like every validity check it overwrites   *)
(* the number of entries, also when it goes on to refuse the request.      *)
CheckEnaReq ==
  /\ Serving
  /\ allow.control
  /\ numberOfScheduleEntries' = numEntr
  /\ \/ /\ GenericChecks
        /\ req' = "accepted"
        /\ UNCHANGED schdEnaErr
     \/ /\ ~GenericChecks
        /\ schdEnaErr' = EnablingError
        /\ UNCHANGED req
  /\ UNCHANGED <<now, schdSt, clientVars, nxtStrTm, actStrTm, actStrTmGood,
                 valGood, schdEntr, nextStartTime, startTime,
                 entryDurationInMs, currentEntryIdx, threadVars>>

(* enabledSchedule up to the state update. *)
EnableSchedule ==
  /\ numberOfScheduleEntries' = numEntr
  /\ \/ /\ GenericChecks /\ StartTimesValid
        /\ schdSt' = READY
        /\ req' = "publish"
        /\ UNCHANGED schdEnaErr
     \/ /\ ~(GenericChecks /\ StartTimesValid)
        /\ schdSt' = NOT_READY
        /\ req' = "idle"
        /\ schdEnaErr' = EnablingError
  /\ UNCHANGED <<now, clientVars, nxtStrTm, actStrTm, actStrTmGood, valGood,
                 schdEntr, nextStartTime, startTime, entryDurationInMs,
                 currentEntryIdx, threadVars>>

(* The control handler of EnaReq, and Scheduler_enableSchedule(.., true).  *)
OperateEnaReq == pc # "crashed" /\ req = "accepted" /\ EnableSchedule

ApplicationEnables == Serving /\ EnableSchedule

(* The rest of enabledSchedule, for a schedule that it made READY.         *)
PublishEnabled ==
  /\ pc # "crashed"
  /\ req = "publish"
  /\ nxtStrTm' = NextStartTime(strTm, now)
  /\ schdEnaErr' = "NONE"
  /\ req' = "idle"
  /\ UNCHANGED <<now, schdSt, clientVars, actStrTm, actStrTmGood, valGood,
                 schdEntr, runVars, threadVars>>

DisableSchedule ==
  /\ valGood' = FALSE
  /\ actStrTmGood' = FALSE
  /\ nxtStrTm' = 0
  /\ schdSt' = NOT_READY
  /\ UNCHANGED <<now, clientVars, actStrTm, schdEntr, schdEnaErr, runVars,
                 threadVars, req>>

OperateDsaReq == Serving /\ allow.control /\ DisableSchedule

ApplicationDisables == Serving /\ schdSt # NOT_READY /\ DisableSchedule

(* Scheduler_enableScheduleControl, Scheduler_enableWriteAccessToParameter *)
ApplicationSetsAccess(a) ==
  /\ Serving
  /\ allow' = a
  /\ UNCHANGED <<now, schdSt, strTm, numEntr, schdIntv, nanValues, statusVars,
                 runVars, threadVars, req>>

EnaReqStep == CheckEnaReq \/ OperateEnaReq \/ PublishEnabled

ClientStep ==
  \/ \E s \in StrTm, t \in StrTmValues : WriteStrTm(s, t)
  \/ \E n \in NumEntrValues : WriteNumEntr(n)
  \/ \E i \in SchdIntvValues : WriteSchdIntv(i)
  \/ \E i \in ValueIdx, nan \in BOOLEAN : WriteValue(i, nan)
  \/ OperateDsaReq

ApplicationStep ==
  \/ ApplicationEnables
  \/ ApplicationDisables
  \/ \E a \in AccessSettings : ApplicationSetsAccess(a)

Tick ==
  /\ now < MaxTime
  /\ now' = now + 1
  /\ UNCHANGED <<schdSt, clientVars, statusVars, runVars, threadVars, req>>

Next == ThreadStep \/ EnaReqStep \/ ClientStep \/ ApplicationStep \/ Tick

Spec == Init /\ [][Next]_vars

(* The operating system runs both threads, and time passes.                *)
FairSpec ==
  /\ Spec
  /\ WF_vars(ThreadStep)
  /\ WF_vars(OperateEnaReq \/ PublishEnabled)
  /\ WF_vars(Tick)

-----------------------------------------------------------------------------
(* Type correctness of the data model, of struct sSchedule and of the two  *)
(* threads' positions.                                                     *)
TypeOK ==
  /\ now \in Nat
  /\ schdSt \in States
  /\ strTm \in [StrTm -> Nat]
  /\ numEntr \in Nat /\ schdIntv \in Nat
  /\ nanValues \subseteq ValueIdx
  /\ nxtStrTm \in Nat /\ actStrTm \in Nat
  /\ actStrTmGood \in BOOLEAN /\ valGood \in BOOLEAN
  /\ schdEntr \in Nat
  /\ schdEnaErr \in EnablingErrors
  /\ nextStartTime \in Nat /\ startTime \in Nat
  /\ entryDurationInMs \in Nat /\ numberOfScheduleEntries \in Nat
  /\ currentEntryIdx \in Nat \cup {-2}
  /\ allow \in Access
  /\ pc \in {"poll", "act", "commit", "clear", "crashed"}
  /\ tState \in States /\ tTime \in Nat /\ tNew \in States
  /\ req \in {"idle", "accepted", "publish"}

(* A schedule is RUNNING only from a start time that is set and over:      *)
(* whatever EnaReq, DsaReq and writes do between the thread's read of the  *)
(* clock and its write of the state, no run is early.                      *)
NeverEarly == schdSt = RUNNING => 0 < startTime /\ startTime <= now

(* Between two iterations of the thread a RUNNING schedule reports its own *)
(* run: ActStrTm is the time it started from, and SchdEntr the entry whose *)
(* value it published last.                                                *)
RunIsReported ==
  schdSt = RUNNING /\ pc = "poll" =>
    /\ actStrTm = startTime
    /\ currentEntryIdx + 1 \in ValueIdx => schdEntr = currentEntryIdx + 1

(* Start times are executed in increasing order, so each at most once: no  *)
(* sequence of writes, enabling and disabling runs one again or goes back. *)
StartTimesIncrease == [][StartSchedule => startTime' > startTime]_vars

(* SchdEntr never moves backwards within a run, though clients enable,     *)
(* disable and reconfigure the schedule meanwhile.                         *)
EntriesInOrder ==
  [][schdEntr' < schdEntr => schdEntr' = 0 \/ currentEntryIdx = -2]_vars

(* A run ends: the thread finds the last entry over, or a client stops it. *)
RunsEnd == schdSt = RUNNING ~> schdSt # RUNNING \/ pc = "crashed"

(* A start time that the thread of a READY schedule has planned is not     *)
(* slept through: the schedule runs, or a client disables it.              *)
PlannedStartHappens ==
  schdSt = READY /\ nextStartTime # 0
    ~> schdSt \in {RUNNING, NOT_READY} \/ pc = "crashed"

-----------------------------------------------------------------------------
(* The schedule implements Execution.                                      *)

(* A run is under way from the thread's decision to start it to its        *)
(* decision to end it, or until a request takes the state from RUNNING; an *)
(* iteration that has read RUNNING before that still goes on with it.      *)
RunActive ==
  \/ pc = "commit" /\ tNew = RUNNING
  \/ pc = "act" /\ tState = RUNNING
  \/ schdSt = RUNNING /\ ~(pc = "commit" /\ tState = RUNNING)

(* currentEntryIdx is 0 before the first run and -2 at the start of each.  *)
EntryExecuted ==
  IF startTime = 0 \/ currentEntryIdx = -2 THEN 0 ELSE currentEntryIdx + 1

Executed ==
  INSTANCE Execution WITH
    clock <- now, active <- RunActive, start <- startTime,
    interval <- entryDurationInMs, length <- numberOfScheduleEntries,
    entry <- EntryExecuted

(* Whatever clients and the application do, and however their requests     *)
(* fall between the thread's reads and writes, what the schedule executes  *)
(* is runs of its start times, in order, each entry by entry and when due. *)
ImplementsExecution == Executed!Spec

-----------------------------------------------------------------------------
(* What the repository says of the schedule and the code does not do.      *)

(* DsaReq on an enabled schedule "turns into NOT_READY" and stays there:   *)
(* only EnaReq leaves NOT_READY.                                           *)
DisableSticks ==
  [][schdSt = NOT_READY /\ schdSt' # NOT_READY
       => OperateEnaReq \/ ApplicationEnables]_vars

=============================================================================
