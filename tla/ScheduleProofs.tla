--------------------------- MODULE ScheduleProofs ---------------------------
(***************************************************************************)
(* Theorems about Schedule, for any set of start time objects, any values  *)
(* clients write and any clock bound.                                      *)
(***************************************************************************)
EXTENDS Schedule, Positions

-----------------------------------------------------------------------------
(* The earliest start time. *)

(* Min picks the least element of a non-empty set of natural numbers.      *)
LEMMA MinOfTimes ==
  ASSUME NEW S \in SUBSET Nat, S # {}
  PROVE  Min(S) \in S /\ \A y \in S : Min(S) <= y
BY LeastExists DEF Min

(* NextStartTime is 0 or lies after the time it is asked at.               *)
LEMMA NextStartTimeAhead ==
  ASSUME NEW st \in [StrTm -> Nat], NEW t \in Nat
  PROVE  /\ NextStartTime(st, t) \in Nat
         /\ NextStartTime(st, t) = 0 \/ NextStartTime(st, t) > t
<1>1. CASE FutureStartTimes(st, t) = {}
  BY <1>1 DEF NextStartTime
<1>2. CASE FutureStartTimes(st, t) # {}
  <2>1. FutureStartTimes(st, t) \in SUBSET Nat
    BY DEF FutureStartTimes
  <2>2. Min(FutureStartTimes(st, t)) \in FutureStartTimes(st, t)
    BY <1>2, <2>1, MinOfTimes
  <2>3. NextStartTime(st, t) = Min(FutureStartTimes(st, t))
    BY <1>2 DEF NextStartTime
  <2> QED
    BY <2>2, <2>3 DEF FutureStartTimes
<1> QED
  BY <1>1, <1>2

LEMMA EraseStartTimeType ==
  ASSUME NEW st \in [StrTm -> Nat], NEW t \in Nat
  PROVE  EraseStartTime(st, t) \in [StrTm -> Nat]
BY DEF EraseStartTime

-----------------------------------------------------------------------------
(* The inductive invariant.                                                *)

(* How the times of the run, of the thread and of the clock are ordered.   *)
(* The index arithmetic needs the second conjunct to stay in the natural   *)
(* numbers, so TypeOK alone is not inductive.                              *)
RunTimesOrdered ==
  /\ startTime < now
  /\ pc = "act" => startTime < tTime /\ tTime <= now
  /\ schdSt = RUNNING => 0 < startTime
  /\ pc = "commit" /\ tNew = RUNNING => 0 < startTime

(* And what is planned lies after what was started.                        *)
TimesOrdered ==
  /\ RunTimesOrdered
  /\ nextStartTime # 0 => startTime < nextStartTime

RInv == TypeOK /\ RunTimesOrdered

IInv == TypeOK /\ TimesOrdered

LEMMA IInvInit == Init => IInv
<1> SUFFICES ASSUME Init PROVE TypeOK /\ TimesOrdered
  BY DEF IInv
<1>1. allow \in Access
  BY DEF Init, Access, FullAccess
<1>2. numEntr \in Nat /\ schdIntv \in Nat
  BY DataAssumption DEF DataAssumption, Init
<1>3. actStrTmGood \in BOOLEAN /\ valGood \in BOOLEAN
  BY DEF Init
<1>4. TypeOK
  BY <1>1, <1>2, <1>3, TimeAssumption
     DEF TimeAssumption, Init, TypeOK, States, EnablingErrors
<1>5. TimesOrdered
  BY TimeAssumption DEF TimeAssumption, Init, TimesOrdered, RunTimesOrdered,
                        NOT_READY, RUNNING
<1> QED
  BY <1>4, <1>5

(* What the thread starts from lies after the last start.                  *)
LEMMA PlannedStartTimeAhead ==
  ASSUME IInv
  PROVE  /\ PlannedStartTime \in Nat
         /\ PlannedStartTime # 0 => startTime < PlannedStartTime
<1>1. CASE nextStartTime = 0
  <2>1. strTm \in [StrTm -> Nat] /\ now \in Nat /\ startTime \in Nat /\ startTime < now
    BY DEF IInv, TypeOK, TimesOrdered, RunTimesOrdered
  <2>2. /\ NextStartTime(strTm, now) \in Nat
        /\ NextStartTime(strTm, now) = 0 \/ NextStartTime(strTm, now) > now
    BY <2>1, NextStartTimeAhead
  <2> QED
    BY <1>1, <2>1, <2>2 DEF PlannedStartTime
<1>2. CASE nextStartTime # 0
  BY <1>2 DEF IInv, TypeOK, TimesOrdered, RunTimesOrdered, PlannedStartTime
<1> QED
  BY <1>1, <1>2

(* The index of the entry that is due is -1 or a natural number.           *)
LEMMA CurrentIdxType ==
  ASSUME RInv, pc = "act", entryDurationInMs # 0
  PROVE  CurrentIdxAt(tTime) \in Nat \cup {-1}
<1>1. /\ tTime - startTime \in Nat
      /\ entryDurationInMs \in Nat /\ entryDurationInMs > 0
      /\ numberOfScheduleEntries \in Nat
  BY DEF RInv, TypeOK, RunTimesOrdered
<1>2. (tTime - startTime) \div entryDurationInMs \in Nat
  BY <1>1
<1> QED
  BY <1>1, <1>2 DEF CurrentIdxAt

(* The iterations that ask for no start time, and the handlers.            *)
RunStep == Poll \/ RunEntry \/ SameEntry \/ Commit \/ ClearSchdEntr

LEMMA RunStepKeepsRInv ==
  ASSUME RInv, RunStep
  PROVE  RInv' /\ UNCHANGED <<startTime, nextStartTime>>
<1> USE DEF RInv, NOT_READY, READY, RUNNING, States
<1>1. CASE Poll
  BY <1>1 DEF Poll, TypeOK, RunTimesOrdered, clientVars, statusVars, runVars
<1>2. CASE RunEntry
  <2>1. currentEntryIdx' \in Nat
    BY <1>2, CurrentIdxType DEF RunEntry
  <2>2. schdEntr' \in Nat
    BY <1>2, <2>1 DEF RunEntry, TypeOK
  <2>3. valGood' \in BOOLEAN
    BY <1>2 DEF RunEntry, TypeOK
  <2>4. TypeOK'
    BY <1>2, <2>1, <2>2, <2>3 DEF RunEntry, EndIteration, TypeOK, clientVars
  <2>5. RunTimesOrdered' /\ UNCHANGED <<startTime, nextStartTime>>
    BY <1>2 DEF RunEntry, EndIteration, TypeOK, RunTimesOrdered
  <2> QED
    BY <2>4, <2>5
<1>3. CASE SameEntry
  BY <1>3 DEF SameEntry, EndIteration, TypeOK, RunTimesOrdered, clientVars,
              statusVars, runVars
<1>4. CASE Commit
  BY <1>4 DEF Commit, EndIteration, TypeOK, RunTimesOrdered, clientVars,
              statusVars, runVars
<1>5. CASE ClearSchdEntr
  BY <1>5 DEF ClearSchdEntr, EndIteration, TypeOK, RunTimesOrdered, clientVars,
              runVars
<1> QED
  BY <1>1, <1>2, <1>3, <1>4, <1>5 DEF RunStep

LEMMA ThreadKeepsIInv == ASSUME IInv, ThreadStep PROVE IInv'
<1> USE DEF IInv, NOT_READY, READY, RUNNING, States
<1>1. CASE RunStep
  BY <1>1, RunStepKeepsRInv DEF RInv, TimesOrdered
<1>2. CASE KeepWaiting
  BY <1>2, PlannedStartTimeAhead
     DEF KeepWaiting, EndIteration, TypeOK, TimesOrdered, RunTimesOrdered,
         clientVars, statusVars
<1>3. CASE StartSchedule
  <2>1. /\ PlannedStartTime \in Nat /\ PlannedStartTime # 0
        /\ PlannedStartTime < tTime /\ tTime <= now
        /\ strTm \in [StrTm -> Nat] /\ now \in Nat
    BY <1>3, PlannedStartTimeAhead
       DEF StartSchedule, StartIsDue, TypeOK, TimesOrdered, RunTimesOrdered
  <2>2. strTm' \in [StrTm -> Nat]
    BY <1>3, <2>1, EraseStartTimeType DEF StartSchedule
  <2>3. /\ nextStartTime' \in Nat
        /\ nextStartTime' = 0 \/ nextStartTime' > now
    BY <1>3, <2>1, <2>2, NextStartTimeAhead DEF StartSchedule
  <2>4. TypeOK'
    <3>1. actStrTmGood' \in BOOLEAN /\ valGood' \in BOOLEAN /\ allow' \in Access
      BY <1>3 DEF StartSchedule, TypeOK
    <3> QED
      BY <1>3, <2>1, <2>2, <2>3, <3>1
         DEF StartSchedule, BeginRun, ReachCommit, TypeOK
  <2>5. TimesOrdered'
    BY <1>3, <2>1, <2>3
       DEF StartSchedule, BeginRun, ReachCommit, TypeOK, TimesOrdered,
           RunTimesOrdered
  <2> QED
    BY <2>4, <2>5
<1>4. CASE EndSchedule
  <2>1. strTm \in [StrTm -> Nat] /\ now \in Nat
    BY DEF TypeOK
  <2>2. /\ nextStartTime' \in Nat
        /\ nextStartTime' = 0 \/ nextStartTime' > now
    BY <1>4, <2>1, NextStartTimeAhead DEF EndSchedule
  <2>3. actStrTmGood' \in BOOLEAN /\ valGood' \in BOOLEAN
    BY <1>4 DEF EndSchedule
  <2>4. tNew' \in States /\ pc' = "commit" /\ UNCHANGED <<tState, tTime>>
    BY <1>4 DEF EndSchedule, ReachCommit
  <2>5. TypeOK'
    BY <1>4, <2>2, <2>3, <2>4 DEF EndSchedule, TypeOK, clientVars
  <2>6. TimesOrdered'
    BY <1>4, <2>2 DEF EndSchedule, ReachCommit, TypeOK, TimesOrdered,
                      RunTimesOrdered
  <2> QED
    BY <2>5, <2>6
<1>5. CASE Crash
  BY <1>5 DEF Crash, TypeOK, TimesOrdered, RunTimesOrdered, clientVars,
              statusVars, runVars
<1> QED
  BY <1>1, <1>2, <1>3, <1>4, <1>5 DEF ThreadStep, RunStep

LEMMA ServerKeepsRInv ==
  ASSUME RInv, EnaReqStep \/ ClientStep \/ ApplicationStep
  PROVE  RInv' /\ UNCHANGED <<startTime, nextStartTime>>
<1> DEFINE Kept == RInv' /\ UNCHANGED <<startTime, nextStartTime>>
<1> USE DEF RInv, NOT_READY, READY, RUNNING, States, statusVars, threadVars
<1>1. ASSUME NEW s \in StrTm, NEW t \in StrTmValues, WriteStrTm(s, t)
      PROVE  Kept
  BY <1>1, DataAssumption
     DEF DataAssumption, WriteStrTm, TypeOK, RunTimesOrdered, runVars
<1>2. ASSUME NEW n \in NumEntrValues, WriteNumEntr(n)
      PROVE  Kept
  BY <1>2, DataAssumption
     DEF DataAssumption, WriteNumEntr, TypeOK, RunTimesOrdered, runVars
<1>3. ASSUME NEW i \in SchdIntvValues, WriteSchdIntv(i)
      PROVE  Kept
  BY <1>3, DataAssumption
     DEF DataAssumption, WriteSchdIntv, TypeOK, RunTimesOrdered, runVars
<1>4. ASSUME NEW i \in ValueIdx, NEW nan \in BOOLEAN, WriteValue(i, nan)
      PROVE  Kept
  BY <1>4 DEF WriteValue, TypeOK, RunTimesOrdered, runVars
<1>5. CASE CheckEnaReq
  <2>1. EnablingError \in EnablingErrors
    BY DEF EnablingError, EnablingErrors, GenericChecks
  <2> QED
    BY <1>5, <2>1 DEF CheckEnaReq, TypeOK, RunTimesOrdered, clientVars
<1>6. ASSUME EnableSchedule PROVE Kept
  <2>1. EnablingError \in EnablingErrors
    BY DEF EnablingError, EnablingErrors, GenericChecks
  <2> QED
    BY <1>6, <2>1 DEF EnableSchedule, TypeOK, RunTimesOrdered, clientVars
<1>7. CASE PublishEnabled
  <2>1. nxtStrTm' \in Nat /\ schdEnaErr' \in EnablingErrors
    BY <1>7, NextStartTimeAhead DEF PublishEnabled, TypeOK, EnablingErrors
  <2> QED
    BY <1>7, <2>1 DEF PublishEnabled, TypeOK, RunTimesOrdered, clientVars,
                      runVars
<1>8. ASSUME DisableSchedule PROVE Kept
  BY <1>8 DEF DisableSchedule, TypeOK, RunTimesOrdered, clientVars, runVars
<1>9. ASSUME NEW a \in AccessSettings, ApplicationSetsAccess(a)
      PROVE  Kept
  BY <1>9, DataAssumption
     DEF DataAssumption, ApplicationSetsAccess, TypeOK, RunTimesOrdered, runVars
<1> QED
  BY <1>1, <1>2, <1>3, <1>4, <1>5, <1>6, <1>7, <1>8, <1>9
     DEF EnaReqStep, ClientStep, ApplicationStep, OperateEnaReq,
         ApplicationEnables, OperateDsaReq, ApplicationDisables

LEMMA ServerKeepsIInv ==
  ASSUME IInv, EnaReqStep \/ ClientStep \/ ApplicationStep
  PROVE  IInv'
BY ServerKeepsRInv DEF RInv, IInv, TimesOrdered

LEMMA IInvStep == IInv /\ [Next]_vars => IInv'
<1> SUFFICES ASSUME IInv, [Next]_vars PROVE IInv'
  OBVIOUS
<1>1. CASE ThreadStep
  BY <1>1, ThreadKeepsIInv
<1>2. CASE EnaReqStep \/ ClientStep \/ ApplicationStep
  BY <1>2, ServerKeepsIInv
<1>3. CASE Tick
  BY <1>3 DEF Tick, IInv, TypeOK, TimesOrdered, RunTimesOrdered, clientVars,
              statusVars,
              runVars, threadVars
<1>4. CASE UNCHANGED vars
  BY <1>4 DEF vars, IInv, TypeOK, TimesOrdered, RunTimesOrdered, clientVars,
              statusVars,
              runVars, threadVars
<1> QED
  BY <1>1, <1>2, <1>3, <1>4 DEF Next

-----------------------------------------------------------------------------
(* Theorems.                                                               *)

LEMMA IInvHolds == Spec => []IInv
BY IInvInit, IInvStep, PTL DEF Spec

(* The data model, struct sSchedule and the threads' locals keep their     *)
(* types: no handler or iteration leaves a field undefined.                *)
THEOREM TypeCorrect == Spec => []TypeOK
<1>1. IInv => TypeOK
  BY DEF IInv
<1> QED
  BY <1>1, IInvHolds, PTL

(* No schedule is RUNNING before its start time, whatever the server       *)
(* thread does between the schedule thread's reads and writes.             *)
THEOREM NeverEarlyHolds == Spec => []NeverEarly
<1>1. IInv => NeverEarly
  BY DEF IInv, TypeOK, TimesOrdered, RunTimesOrdered, NeverEarly
<1> QED
  BY <1>1, IInvHolds, PTL

(* Start times are executed in increasing order, each at most once.        *)
THEOREM StartTimesIncreaseHolds == Spec => StartTimesIncrease
<1>1. IInv /\ [Next]_vars => [StartSchedule => startTime' > startTime]_vars
  BY PlannedStartTimeAhead
     DEF StartSchedule, BeginRun, StartIsDue, IInv, TypeOK
<1> QED
  BY <1>1, IInvHolds, PTL DEF Spec, StartTimesIncrease

-----------------------------------------------------------------------------
(* RunIsReported.  Only the thread writes RUNNING, so once it has read     *)
(* READY the state is not RUNNING until it commits; what it commits then   *)
(* is a run whose start it has published and of which no entry is.         *)

EntryReported ==
  currentEntryIdx + 1 \in ValueIdx => schdEntr = currentEntryIdx + 1

Reporting ==
  /\ pc = "clear" => schdSt # RUNNING
  /\ pc \in {"act", "commit"} /\ tState = READY => schdSt # RUNNING
  /\ pc = "commit" /\ tState # READY => tNew # RUNNING
  /\ pc = "commit" /\ tNew = RUNNING =>
       actStrTm = startTime /\ currentEntryIdx = -2
  /\ pc \in {"poll", "act"} /\ schdSt = RUNNING =>
       actStrTm = startTime /\ EntryReported

LEMMA RunStepKeepsReporting ==
  ASSUME RInv, Reporting, RunStep
  PROVE  Reporting'
<1> USE DEF Reporting, NOT_READY, READY, RUNNING
<1>1. CASE Poll
  BY <1>1 DEF Poll, EntryReported, statusVars, runVars
<1>2. CASE RunEntry
  <2>1. currentEntryIdx' \in Nat
    BY <1>2, CurrentIdxType DEF RunEntry
  <2>2. EntryReported'
    BY <1>2, <2>1 DEF RunEntry, EntryReported
  <2> QED
    BY <1>2, <2>2 DEF RunEntry, EndIteration
<1>3. CASE SameEntry
  BY <1>3 DEF SameEntry, EndIteration, EntryReported, statusVars, runVars
<1>4. CASE Commit
  <2>1. EntryReported' <=> EntryReported
    BY <1>4 DEF Commit, EntryReported, statusVars, runVars
  <2>2. currentEntryIdx = -2 => EntryReported
    BY DataAssumption DEF DataAssumption, EntryReported, ValueIdx
  <2>3. UNCHANGED <<actStrTm, startTime, currentEntryIdx>>
    BY <1>4 DEF Commit, statusVars, runVars
  <2>4. CASE tState = RUNNING
    BY <1>4, <2>4 DEF Commit
  <2>5. CASE tState # RUNNING
    BY <1>4, <2>1, <2>2, <2>3, <2>5 DEF Commit, EndIteration
  <2> QED
    BY <2>4, <2>5
<1>5. CASE ClearSchdEntr
  BY <1>5 DEF ClearSchdEntr, EndIteration
<1> QED
  BY <1>1, <1>2, <1>3, <1>4, <1>5 DEF RunStep

LEMMA ThreadKeepsReporting ==
  ASSUME IInv, Reporting, ThreadStep
  PROVE  Reporting'
<1> USE DEF Reporting, NOT_READY, READY, RUNNING
<1>1. CASE RunStep
  BY <1>1, RunStepKeepsReporting DEF RInv, IInv, TimesOrdered
<1>2. CASE KeepWaiting
  BY <1>2 DEF KeepWaiting, EndIteration
<1>3. CASE StartSchedule
  BY <1>3 DEF StartSchedule, BeginRun, ReachCommit
<1>4. CASE EndSchedule
  BY <1>4 DEF EndSchedule, ReachCommit
<1>5. CASE Crash
  BY <1>5 DEF Crash
<1> QED
  BY <1>1, <1>2, <1>3, <1>4, <1>5 DEF ThreadStep, RunStep

(* The server thread leaves the run alone, and never writes RUNNING.       *)
LeavesRun ==
  /\ UNCHANGED <<pc, tState, tNew, actStrTm, startTime, currentEntryIdx, schdEntr>>
  /\ UNCHANGED schdSt \/ schdSt' # RUNNING

LEMMA LeavesRunKeepsReporting ==
  ASSUME Reporting, LeavesRun
  PROVE  Reporting'
BY DEF LeavesRun, Reporting, EntryReported

LEMMA ServerKeepsReporting ==
  ASSUME Reporting, EnaReqStep \/ ClientStep \/ ApplicationStep
  PROVE  Reporting'
<1>1. LeavesRun
  BY DEF LeavesRun, EnaReqStep, ClientStep, ApplicationStep, CheckEnaReq,
         OperateEnaReq, PublishEnabled, ApplicationEnables, EnableSchedule,
         OperateDsaReq, ApplicationDisables, DisableSchedule, WriteStrTm,
         WriteNumEntr, WriteSchdIntv, WriteValue, ApplicationSetsAccess,
         statusVars, runVars, threadVars, NOT_READY, READY, RUNNING
<1> QED
  BY <1>1, LeavesRunKeepsReporting

LEMMA ReportingHolds == Spec => []Reporting
<1>1. Init => Reporting
  BY DEF Init, Reporting, NOT_READY, READY, RUNNING
<1>2. IInv /\ Reporting /\ [Next]_vars => Reporting'
  <2> SUFFICES ASSUME IInv, Reporting, [Next]_vars PROVE Reporting'
    OBVIOUS
  <2>1. CASE ThreadStep
    BY <2>1, ThreadKeepsReporting
  <2>2. CASE EnaReqStep \/ ClientStep \/ ApplicationStep
    BY <2>2, ServerKeepsReporting
  <2>3. CASE Tick \/ UNCHANGED vars
    BY <2>3 DEF Tick, vars, Reporting, EntryReported, statusVars, runVars,
                threadVars
  <2> QED
    BY <2>1, <2>2, <2>3 DEF Next
<1> QED
  BY <1>1, <1>2, IInvHolds, PTL DEF Spec

(* A RUNNING schedule reports the start and the entry of its own run, for  *)
(* every interleaving of the two threads.                                  *)
THEOREM RunIsReportedHolds == Spec => []RunIsReported
<1>1. Reporting => RunIsReported
  BY DEF Reporting, RunIsReported, EntryReported
<1> QED
  BY <1>1, ReportingHolds, PTL

-----------------------------------------------------------------------------
(* EntriesInOrder.  The entry published last was due at a time the clock   *)
(* has reached, so the one due now is the same or a later one.             *)

DueEntry(t) == (t - startTime) \div entryDurationInMs

LEMMA DueEntryGrows ==
  ASSUME NEW s \in Nat, NEW t \in Nat, NEW u \in Nat, s <= t, t <= u,
         NEW d \in Nat, d # 0
  PROVE  /\ (t - s) \div d \in Nat
         /\ (u - s) \div d \in Nat
         /\ (t - s) \div d <= (u - s) \div d
<1>1. t - s \in Nat /\ u - s \in Nat /\ t - s <= u - s /\ d > 0
  OBVIOUS
<1> QED
  BY <1>1

LEMMA SmallerEntryExists ==
  ASSUME NEW i \in Nat, NEW j \in Nat, i <= j, j + 1 \in ValueIdx
  PROVE  i + 1 \in ValueIdx
BY DataAssumption DEF DataAssumption, ValueIdx

LEMMA SmallerEntryBelow ==
  ASSUME NEW i \in Nat, NEW j \in Nat, i <= j, NEW e \in Nat, e <= i + 1
  PROVE  ~(j + 1 < e)
OBVIOUS

EntriesDue ==
  /\ entryDurationInMs # 0 => currentEntryIdx <= DueEntry(now)
  /\ pc = "act" /\ entryDurationInMs # 0 => currentEntryIdx <= DueEntry(tTime)
  /\ currentEntryIdx + 1 \in ValueIdx => schdEntr <= currentEntryIdx + 1

LEMMA EntriesDueInit == Init => EntriesDue
BY DEF Init, EntriesDue

(* A new run has published nothing. *)
LEMMA StartKeepsEntriesDue ==
  ASSUME now \in Nat, startTime' \in Nat, startTime' < now, UNCHANGED now,
         entryDurationInMs' \in Nat, currentEntryIdx' = -2, pc' = "commit"
  PROVE  EntriesDue'
<1>1. entryDurationInMs' # 0 => DueEntry(now)' \in Nat
  <2>1. DueEntry(now)' = (now - startTime') \div entryDurationInMs'
    BY DEF DueEntry
  <2>2. ASSUME entryDurationInMs' # 0
        PROVE  (now - startTime') \div entryDurationInMs' \in Nat
    <3>1. startTime' <= now /\ now <= now
      OBVIOUS
    <3> QED
      BY <2>2, <3>1, DueEntryGrows
  <2> QED
    BY <2>1, <2>2
<1> QED
  BY <1>1 DEF EntriesDue, ValueIdx

LEMMA RunEntryKeepsEntriesDue == ASSUME RInv, RunEntry PROVE EntriesDue'
<1>1. /\ startTime \in Nat /\ tTime \in Nat /\ now \in Nat
      /\ startTime <= tTime /\ tTime <= now
      /\ entryDurationInMs \in Nat /\ entryDurationInMs # 0
      /\ currentEntryIdx \in Nat \cup {-2} /\ schdEntr \in Nat
  BY DEF RunEntry, RInv, TypeOK, RunTimesOrdered
<1>2. DueEntry(tTime) \in Nat /\ DueEntry(tTime) <= DueEntry(now)
  BY <1>1, DueEntryGrows DEF DueEntry
<1>3. currentEntryIdx' = DueEntry(tTime)
  BY DEF RunEntry, CurrentIdxAt, DueEntry
<1>4. DueEntry(now)' = DueEntry(now)
  BY DEF RunEntry, DueEntry
<1>5. currentEntryIdx' + 1 \in ValueIdx => schdEntr' = currentEntryIdx' + 1
  BY DEF RunEntry
<1>6. pc' = "poll"
  BY DEF RunEntry, EndIteration
<1> QED
  BY <1>2, <1>3, <1>4, <1>5, <1>6 DEF EntriesDue

(* Steps that publish nothing, and leave the run as it is. *)
LeavesEntries ==
  /\ UNCHANGED <<now, startTime, entryDurationInMs, currentEntryIdx>>
  /\ UNCHANGED schdEntr \/ schdEntr' = 0
  /\ UNCHANGED <<pc, tTime>> \/ pc' # "act"

LEMMA LeavesEntriesKeepsEntriesDue ==
  ASSUME EntriesDue, LeavesEntries PROVE EntriesDue'
<1>1. DueEntry(now)' = DueEntry(now)
  BY DEF LeavesEntries, DueEntry
<1>2. UNCHANGED tTime => DueEntry(tTime)' = DueEntry(tTime)
  BY DEF LeavesEntries, DueEntry
<1>3. currentEntryIdx' + 1 \in ValueIdx => schdEntr' <= currentEntryIdx' + 1
  BY DEF LeavesEntries, EntriesDue, ValueIdx
<1> QED
  BY <1>1, <1>2, <1>3 DEF LeavesEntries, EntriesDue

LEMMA RunStepKeepsEntriesDue ==
  ASSUME RInv, EntriesDue, RunStep PROVE EntriesDue'
<1>1. CASE Poll
  BY <1>1 DEF Poll, EntriesDue, DueEntry, statusVars, runVars
<1>2. CASE RunEntry
  BY <1>2, RunEntryKeepsEntriesDue
<1>3. CASE SameEntry \/ Commit \/ ClearSchdEntr
  <2>1. LeavesEntries
    BY <1>3 DEF SameEntry, Commit, ClearSchdEntr, EndIteration, LeavesEntries,
                statusVars, runVars
  <2> QED
    BY <2>1, LeavesEntriesKeepsEntriesDue
<1> QED
  BY <1>1, <1>2, <1>3 DEF RunStep

LEMMA TickKeepsEntriesDue == ASSUME RInv, EntriesDue, Tick PROVE EntriesDue'
<1>1. /\ startTime \in Nat /\ now \in Nat /\ now' \in Nat
      /\ startTime <= now /\ now <= now'
      /\ entryDurationInMs \in Nat
      /\ currentEntryIdx \in Nat \cup {-2}
      /\ UNCHANGED <<startTime, entryDurationInMs, currentEntryIdx, schdEntr,
                     pc, tTime>>
  BY DEF Tick, RInv, TypeOK, RunTimesOrdered, statusVars, runVars, threadVars
<1>2. entryDurationInMs # 0 =>
        DueEntry(now) \in Nat /\ DueEntry(now)' \in Nat
        /\ DueEntry(now) <= DueEntry(now)'
  BY <1>1, DueEntryGrows DEF DueEntry
<1>3. DueEntry(tTime)' = DueEntry(tTime)
  BY <1>1 DEF DueEntry
<1> QED
  BY <1>1, <1>2, <1>3 DEF EntriesDue

(* The server thread keeps off the run's entries. *)
LEMMA ServerLeavesEntries ==
  ASSUME EnaReqStep \/ ClientStep \/ ApplicationStep
  PROVE  LeavesEntries /\ UNCHANGED schdEntr
BY DEF LeavesEntries, EnaReqStep, ClientStep, ApplicationStep, CheckEnaReq,
       OperateEnaReq, PublishEnabled, ApplicationEnables, EnableSchedule,
       OperateDsaReq, ApplicationDisables, DisableSchedule, WriteStrTm,
       WriteNumEntr, WriteSchdIntv, WriteValue, ApplicationSetsAccess,
       statusVars, runVars, threadVars

LEMMA EntriesDueStep ==
  ASSUME IInv, EntriesDue, [Next]_vars PROVE EntriesDue'
<1>1. RInv
  BY DEF IInv, RInv, TimesOrdered
<1>2. CASE StartSchedule
  <2>1. startTime' \in Nat /\ startTime' < now /\ now \in Nat
        /\ entryDurationInMs' \in Nat
    BY <1>2, PlannedStartTimeAhead
       DEF StartSchedule, BeginRun, StartIsDue, IInv, TypeOK, TimesOrdered,
           RunTimesOrdered
  <2>2. currentEntryIdx' = -2 /\ pc' = "commit" /\ UNCHANGED now
    BY <1>2 DEF StartSchedule, BeginRun, ReachCommit
  <2> QED
    BY <2>1, <2>2, StartKeepsEntriesDue
<1>3. CASE KeepWaiting \/ EndSchedule \/ Crash \/ UNCHANGED vars
  <2>1. LeavesEntries
    BY <1>3 DEF KeepWaiting, EndSchedule, Crash, EndIteration, ReachCommit,
                LeavesEntries, vars, statusVars, runVars, threadVars
  <2> QED
    BY <2>1, LeavesEntriesKeepsEntriesDue
<1>4. CASE EnaReqStep \/ ClientStep \/ ApplicationStep
  BY <1>4, ServerLeavesEntries, LeavesEntriesKeepsEntriesDue
<1> QED
  BY <1>1, <1>2, <1>3, <1>4, RunStepKeepsEntriesDue, TickKeepsEntriesDue
     DEF Next, ThreadStep, RunStep

LEMMA EntriesDueHolds == Spec => []EntriesDue
<1>1. IInv /\ EntriesDue /\ [Next]_vars => EntriesDue'
  BY EntriesDueStep
<1> QED
  BY <1>1, EntriesDueInit, IInvHolds, PTL DEF Spec

(* Only the first entry of a run may be smaller than the last entry of the *)
(* run before it.                                                          *)
LEMMA RunEntryMovesForward ==
  ASSUME RInv, EntriesDue, RunEntry, schdEntr' < schdEntr
  PROVE  currentEntryIdx = -2
<1>1. currentEntryIdx \in Nat \cup {-2} /\ schdEntr \in Nat
  BY DEF RInv, TypeOK
<1>2. currentEntryIdx' = DueEntry(tTime)
  BY DEF RunEntry, CurrentIdxAt, DueEntry
<1>3. currentEntryIdx <= currentEntryIdx' /\ currentEntryIdx' \in Nat
  BY <1>2, CurrentIdxType DEF RunEntry, EntriesDue
<1>4. currentEntryIdx' + 1 \in ValueIdx /\ schdEntr' = currentEntryIdx' + 1
  BY <1>1 DEF RunEntry
<1>5. CASE currentEntryIdx \in Nat
  <2>1. currentEntryIdx + 1 \in ValueIdx
    BY <1>3, <1>4, <1>5, SmallerEntryExists
  <2>2. schdEntr <= currentEntryIdx + 1
    BY <2>1 DEF EntriesDue
  <2>3. ~(schdEntr' < schdEntr)
    BY <1>1, <1>3, <1>4, <1>5, <2>2, SmallerEntryBelow
  <2> QED
    BY <2>3
<1> QED
  BY <1>1, <1>5

LEMMA RunStepMovesForward ==
  ASSUME RInv, EntriesDue, RunStep, schdEntr' < schdEntr
  PROVE  schdEntr' = 0 \/ currentEntryIdx = -2
<1>1. CASE ClearSchdEntr
  BY <1>1 DEF ClearSchdEntr
<1>2. CASE Poll \/ SameEntry \/ Commit
  <2>1. schdEntr' = schdEntr /\ schdEntr \in Nat
    BY <1>2 DEF Poll, SameEntry, Commit, statusVars, RInv, TypeOK
  <2> QED
    BY <2>1
<1> QED
  BY <1>1, <1>2, RunEntryMovesForward DEF RunStep

LEMMA NextMovesForward ==
  ASSUME IInv, EntriesDue, Next, schdEntr' < schdEntr
  PROVE  schdEntr' = 0 \/ currentEntryIdx = -2
<1>1. RInv
  BY DEF IInv, RInv, TimesOrdered
<1>2. ASSUME ~RunStep PROVE FALSE
  <2>1. CASE KeepWaiting \/ StartSchedule \/ EndSchedule \/ Crash \/ Tick
    BY <2>1 DEF KeepWaiting, StartSchedule, EndSchedule, Crash, Tick,
                statusVars, IInv, TypeOK
  <2>2. CASE EnaReqStep \/ ClientStep \/ ApplicationStep
    BY <2>2, ServerLeavesEntries DEF IInv, TypeOK
  <2> QED
    BY <1>2, <2>1, <2>2 DEF Next, ThreadStep, RunStep
<1> QED
  BY <1>1, <1>2, RunStepMovesForward

(* SchdEntr never goes back within a run: only the end of the run sets it  *)
(* to 0, and only the first entry of a run may be smaller than the last    *)
(* entry of the run before it.                                             *)
THEOREM EntriesInOrderHolds == Spec => EntriesInOrder
<1>1. IInv /\ EntriesDue /\ [Next]_vars
        => [schdEntr' < schdEntr => schdEntr' = 0 \/ currentEntryIdx = -2]_vars
  BY NextMovesForward
<1> QED
  BY <1>1, EntriesDueHolds, IInvHolds, PTL DEF Spec, EntriesInOrder

=============================================================================
