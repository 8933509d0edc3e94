-------------------------- MODULE ExecutionProofs --------------------------
(***************************************************************************)
(* Schedule implements Execution, for all constants.                       *)
(***************************************************************************)
EXTENDS ScheduleProofs

(* A run that is under way has a start time.                               *)
ActiveStarted == RunActive => 0 < startTime

LEMMA ActiveStartedHolds == Spec => []ActiveStarted
<1> USE DEF NOT_READY, READY, RUNNING, ActiveStarted, RunActive
<1>1. Init => ActiveStarted
  BY DEF Init
<1>2. ASSUME IInv, ActiveStarted, [Next]_vars PROVE ActiveStarted'
  <2>1. CASE StartSchedule
    <3>1. 0 < startTime'
      BY <1>2, <2>1, PlannedStartTimeAhead
         DEF StartSchedule, BeginRun, StartIsDue, IInv, TypeOK
    <3> QED
      BY <3>1
  <2>2. CASE Poll
    BY <1>2, <2>2 DEF Poll, runVars
  <2>3. CASE KeepWaiting \/ RunEntry \/ SameEntry \/ ClearSchdEntr
    BY <1>2, <2>3 DEF KeepWaiting, RunEntry, SameEntry, ClearSchdEntr,
                      EndIteration, runVars
  <2>4. CASE EndSchedule
    BY <1>2, <2>4 DEF EndSchedule, ReachCommit
  <2>5. CASE Commit
    BY <1>2, <2>5 DEF Commit, EndIteration, runVars
  <2>6. CASE Crash
    BY <1>2, <2>6 DEF Crash, runVars
  <2>7. CASE EnaReqStep \/ ClientStep \/ ApplicationStep
    <3>1. /\ UNCHANGED <<pc, tState, tNew, startTime>>
          /\ UNCHANGED schdSt \/ schdSt' # RUNNING
      BY <2>7
         DEF EnaReqStep, ClientStep, ApplicationStep, CheckEnaReq,
             OperateEnaReq, PublishEnabled, ApplicationEnables,
             EnableSchedule, OperateDsaReq, ApplicationDisables,
             DisableSchedule, WriteStrTm, WriteNumEntr, WriteSchdIntv,
             WriteValue, ApplicationSetsAccess, runVars, threadVars
    <3> QED
      BY <1>2, <3>1
  <2>8. CASE Tick \/ UNCHANGED vars
    BY <1>2, <2>8 DEF Tick, vars, runVars, threadVars
  <2> QED
    BY <1>2, <2>1, <2>2, <2>3, <2>4, <2>5, <2>6, <2>7, <2>8
       DEF Next, ThreadStep
<1> QED
  BY <1>1, <1>2, IInvHolds, PTL DEF Spec

-----------------------------------------------------------------------------
(* Each step of the schedule is a step of Execution, or stutters.          *)

LEMMA StartBegins ==
  ASSUME IInv, Reporting, StartSchedule PROVE Executed!Begin
<1>1. ~RunActive
  BY DEF StartSchedule, Reporting, RunActive, NOT_READY, READY, RUNNING
<1>2. RunActive'
  BY DEF StartSchedule, ReachCommit, RunActive
<1>3. /\ startTime' \in Nat /\ startTime < startTime' /\ startTime' < now
      /\ entryDurationInMs' \in Nat /\ numberOfScheduleEntries' \in Nat
  BY PlannedStartTimeAhead
     DEF StartSchedule, BeginRun, StartIsDue, IInv, TypeOK, TimesOrdered, RunTimesOrdered
<1>4. EntryExecuted' = 0
  BY DEF StartSchedule, BeginRun, EntryExecuted
<1>5. UNCHANGED now
  BY DEF StartSchedule
<1> QED
  BY <1>1, <1>2, <1>3, <1>4, <1>5 DEF Executed!Begin

LEMMA EntryExecutes ==
  ASSUME IInv, EntriesDue, ActiveStarted, RunEntry PROVE Executed!Execute
<1>1. RunActive
  BY DEF RunEntry, RunActive
<1>2. /\ startTime \in Nat /\ tTime \in Nat /\ now \in Nat
      /\ startTime <= tTime /\ tTime <= now /\ 0 < startTime
      /\ entryDurationInMs \in Nat /\ entryDurationInMs # 0
      /\ currentEntryIdx \in Nat \cup {-2}
      /\ numberOfScheduleEntries \in Nat
  BY <1>1 DEF RunEntry, IInv, TypeOK, TimesOrdered, RunTimesOrdered, ActiveStarted
<1>3. DueEntry(tTime) \in Nat /\ DueEntry(now) \in Nat
      /\ DueEntry(tTime) <= DueEntry(now)
  BY <1>2, DueEntryGrows DEF DueEntry
<1>4. currentEntryIdx' = DueEntry(tTime)
      /\ DueEntry(tTime) < numberOfScheduleEntries
      /\ currentEntryIdx # DueEntry(tTime)
  BY <1>2, <1>3 DEF RunEntry, CurrentIdxAt, DueEntry
<1>5. currentEntryIdx <= DueEntry(tTime)
  BY <1>2 DEF EntriesDue, RunEntry
<1>6. UNCHANGED <<now, startTime, entryDurationInMs, numberOfScheduleEntries>>
  BY DEF RunEntry
<1>7. EntryExecuted' = DueEntry(tTime) + 1
  BY <1>2, <1>3, <1>4, <1>6 DEF EntryExecuted
<1>8. EntryExecuted < EntryExecuted'
  BY <1>2, <1>3, <1>4, <1>5, <1>7 DEF EntryExecuted
<1>9. Executed!Begun = DueEntry(now) + 1
  BY DEF Executed!Begun, DueEntry
<1>10. RunActive' \in BOOLEAN
  BY DEF RunActive
<1> QED
  BY <1>1, <1>2, <1>3, <1>4, <1>6, <1>7, <1>8, <1>9, <1>10 DEF Executed!Execute

LEMMA OthersControl ==
  ASSUME IInv, Reporting, Next, ~StartSchedule, ~RunEntry, ~Tick
  PROVE  Executed!Control
<1> USE DEF NOT_READY, READY, RUNNING
<1>1. numberOfScheduleEntries' \in Nat
  <2>1. IInv'
    BY IInvStep
  <2> QED
    BY <2>1 DEF IInv, TypeOK
<1>2. UNCHANGED <<now, startTime, entryDurationInMs, currentEntryIdx>>
  BY DEF Next, ThreadStep, Poll, KeepWaiting, SameEntry, EndSchedule, Commit,
         ClearSchdEntr, Crash, EnaReqStep, ClientStep, ApplicationStep,
         CheckEnaReq, OperateEnaReq, PublishEnabled, ApplicationEnables,
         EnableSchedule, OperateDsaReq, ApplicationDisables, DisableSchedule,
         WriteStrTm, WriteNumEntr, WriteSchdIntv, WriteValue,
         ApplicationSetsAccess, runVars
<1>3. EntryExecuted' = EntryExecuted
  BY <1>2 DEF EntryExecuted
<1>4. RunActive' => RunActive
  <2>1. CASE ThreadStep
    BY <2>1 DEF ThreadStep, Poll, KeepWaiting, SameEntry, EndSchedule, Commit,
         ClearSchdEntr, Crash, EndIteration, ReachCommit, RunActive
  <2>2. CASE EnaReqStep \/ ClientStep \/ ApplicationStep
    <3>1. /\ UNCHANGED <<pc, tState, tNew>>
          /\ UNCHANGED schdSt \/ schdSt' # RUNNING
      BY <2>2
         DEF EnaReqStep, ClientStep, ApplicationStep, CheckEnaReq,
             OperateEnaReq, PublishEnabled, ApplicationEnables,
             EnableSchedule, OperateDsaReq, ApplicationDisables,
             DisableSchedule, WriteStrTm, WriteNumEntr, WriteSchdIntv,
             WriteValue, ApplicationSetsAccess, threadVars
    <3> QED
      BY <3>1 DEF RunActive
  <2> QED
    BY <2>1, <2>2 DEF Next
<1>5. RunActive' \in BOOLEAN /\ RunActive \in BOOLEAN
  BY DEF RunActive
<1>6. RunActive' \in {RunActive, FALSE}
  BY <1>4, <1>5
<1> QED
  BY <1>1, <1>2, <1>3, <1>6 DEF Executed!Control

(* The schedule implements Execution: what it executes is runs of its      *)
(* start times, in order, each entry by entry and when due, for every      *)
(* interleaving of the two threads.                                        *)
THEOREM ScheduleImplementsExecution == Spec => ImplementsExecution
<1>1. Init => Executed!Init
  <2> SUFFICES ASSUME Init PROVE Executed!Init
    OBVIOUS
  <2>1. now \in Nat \ {0}
    BY TimeAssumption DEF TimeAssumption, Init
  <2>2. RunActive = FALSE
    BY DEF Init, RunActive, NOT_READY, READY, RUNNING
  <2>3. EntryExecuted = 0
    BY DEF Init, EntryExecuted
  <2> QED
    BY <2>1, <2>2, <2>3 DEF Init, Executed!Init
<1>2. IInv /\ Reporting /\ EntriesDue /\ ActiveStarted /\ [Next]_vars
        => [Executed!Next]_<<now, Executed!runVars>>
  <2> SUFFICES ASSUME IInv, Reporting, EntriesDue, ActiveStarted, [Next]_vars
               PROVE  Executed!Next \/ UNCHANGED <<now, Executed!runVars>>
    OBVIOUS
  <2>1. CASE StartSchedule
    BY <2>1, StartBegins DEF Executed!Next
  <2>2. CASE RunEntry
    BY <2>2, EntryExecutes DEF Executed!Next
  <2>3. CASE Tick
    <3>1. now' > now
      BY <2>3 DEF Tick, IInv, TypeOK
    <3>2. RunActive' = RunActive
      BY <2>3 DEF Tick, threadVars, RunActive
    <3>3. EntryExecuted' = EntryExecuted
      BY <2>3 DEF Tick, runVars, EntryExecuted
    <3>4. Executed!PassTime
      BY <2>3, <3>1, <3>2, <3>3
         DEF Tick, runVars, Executed!PassTime, Executed!runVars
    <3> QED
      BY <3>4 DEF Executed!Next
  <2>4. CASE UNCHANGED vars
    <3>1. RunActive' = RunActive /\ EntryExecuted' = EntryExecuted
      BY <2>4 DEF vars, runVars, threadVars, RunActive, EntryExecuted
    <3> QED
      BY <2>4, <3>1 DEF vars, runVars, Executed!runVars
  <2>5. CASE Next /\ ~StartSchedule /\ ~RunEntry /\ ~Tick
    BY <2>5, OthersControl DEF Executed!Next
  <2> QED
    BY <2>1, <2>2, <2>3, <2>4, <2>5
<1> QED
  BY <1>1, <1>2, IInvHolds, ReportingHolds, EntriesDueHolds,
     ActiveStartedHolds, PTL
     DEF Spec, ImplementsExecution, Executed!Spec

=============================================================================
