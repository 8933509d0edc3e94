--------------------------- MODULE RestartProofs ---------------------------
(***************************************************************************)
(* Theorems about Restart, for any number of restarts and for all          *)
(* constants of Schedule.                                                  *)
(***************************************************************************)
EXTENDS Restart, ScheduleProofs

-----------------------------------------------------------------------------
(* What Schedule's invariant IInv needs of the file: an image of a RUNNING *)
(* schedule has a start time, and no image has one that is still ahead.    *)

GoodImages ==
  {i \in Images : i.startTime < now /\ (i.schdSt = RUNNING => 0 < i.startTime)}

(* Until the state is restored no schedule thread has anything to do.      *)
Starting ==
  /\ up # "up" => /\ schdSt = NOT_READY /\ pc = "poll" /\ nextStartTime = 0
                  /\ saving["thread"] = "no"
  /\ up = "restoring" => saving["server"] = "no" /\ file \in Images
                         /\ startTime = file.startTime

RestartIInv ==
  /\ IInv
  /\ up \in {"boot", "restoring", "up"}
  /\ file \in GoodImages \cup {NoFile, Torn}
  /\ saving \in [Writers -> {"no", "create", "open", "write"}]
  /\ image \in [Writers -> GoodImages \cup {NoImage}]
  /\ \A w \in Writers : saving[w] \in {"open", "write"} => image[w] \in GoodImages
  /\ crashes \in 0..MaxCrashes
  /\ lastStart \in Nat
  /\ raced \in BOOLEAN
  /\ Starting
  /\ lastStart < now
  /\ nextStartTime # 0 => lastStart < nextStartTime

LEMMA RestartInit == Boot => RestartIInv
<1> SUFFICES ASSUME Boot PROVE RestartIInv
  OBVIOUS
<1>1. IInv
  BY IInvInit DEF Boot
<1>2. Starting /\ lastStart < now /\ nextStartTime = 0
  BY TimeAssumption DEF TimeAssumption, Boot, Init, Starting, Writers
<1>3. crashes \in 0..MaxCrashes
  BY RestartAssumption DEF RestartAssumption, Boot
<1> QED
  BY <1>1, <1>2, <1>3 DEF Boot, RestartIInv, Writers

LEMMA GoodImagesLast ==
  ASSUME IInv, now' \in Nat, now <= now', NEW i \in GoodImages
  PROVE  i \in GoodImages'
<1>1. i \in Images /\ i.startTime < now /\ (i.schdSt = RUNNING => 0 < i.startTime)
  BY DEF GoodImages
<1>2. i.startTime \in Nat
  BY <1>1 DEF Images
<1>3. i.startTime < now'
  BY <1>1, <1>2 DEF IInv, TypeOK
<1> QED
  BY <1>1, <1>3 DEF GoodImages

LEMMA SnapshotGood == ASSUME IInv PROVE Snapshot \in GoodImages
BY DEF IInv, TypeOK, TimesOrdered, RunTimesOrdered, Snapshot, Images, GoodImages

LEMMA GoodImagesKept == UNCHANGED now => GoodImages' = GoodImages
BY DEF GoodImages

-----------------------------------------------------------------------------
(* The steps. *)

LEMMA IInvKept == ASSUME IInv, UNCHANGED vars PROVE IInv'
BY IInvStep

LEMMA SaveKeeps == ASSUME RestartIInv, Save PROVE RestartIInv'
<1> USE DEF RestartIInv
<1>1. PICK w \in Writers : CreateImage(w) \/ OpenFile(w) \/ WriteFile(w)
  BY DEF Save
<1>2. UNCHANGED <<vars, up, crashes, raced, lastStart>>
  BY <1>1 DEF CreateImage, OpenFile, WriteFile
<1>3. UNCHANGED <<now, schdSt, pc, startTime, nextStartTime>>
  BY <1>2 DEF vars, runVars, threadVars
<1>4. GoodImages' = GoodImages
  BY <1>3, GoodImagesKept
<1>5. saving[w] # "no"
  BY <1>1 DEF CreateImage, OpenFile, WriteFile
<1>6. up # "restoring" /\ (up # "up" => w = "server")
  BY <1>5 DEF Starting, Writers
<1>7. \E x \in {"no", "open", "write"} : saving' = [saving EXCEPT ![w] = x]
  BY <1>1 DEF CreateImage, OpenFile, WriteFile
<1>8. saving' \in [Writers -> {"no", "create", "open", "write"}]
  BY <1>7
<1>9. Starting'
  BY <1>2, <1>3, <1>6, <1>7 DEF Starting, Writers
<1>10. IInv'
  BY <1>2, IInvKept
<1>11. /\ file' \in GoodImages \cup {NoFile, Torn}
       /\ image' \in [Writers -> GoodImages \cup {NoImage}]
       /\ \A v \in Writers :
            saving'[v] \in {"open", "write"} => image'[v] \in GoodImages
  <2>1. CASE CreateImage(w)
    BY <2>1, SnapshotGood DEF CreateImage
  <2>2. CASE OpenFile(w)
    BY <2>2 DEF OpenFile
  <2>3. CASE WriteFile(w)
    BY <2>3 DEF WriteFile
  <2> QED
    BY <1>1, <2>1, <2>2, <2>3
<1> QED
  BY <1>2, <1>3, <1>4, <1>8, <1>9, <1>10, <1>11

(* Taking up a save, or none, leaves the rest of the invariant alone.      *)
LEMMA SavesKeeps ==
  ASSUME RestartIInv, NEW w \in Writers, Saves(w) \/ NothingToSave,
         now' \in Nat, now <= now'
  PROVE  /\ saving' \in [Writers -> {"no", "create", "open", "write"}]
         /\ \A v \in Writers : v # w => saving'[v] = saving[v]
         /\ image' \in [Writers -> GoodImages' \cup {NoImage}]
         /\ \A v \in Writers :
              saving'[v] \in {"open", "write"} => image'[v] \in GoodImages'
         /\ raced' \in BOOLEAN
<1> USE DEF RestartIInv
<1>1. \A i \in GoodImages : i \in GoodImages'
  BY GoodImagesLast
<1>2. image' = image
  BY DEF Saves, NothingToSave, saveVars
<1>3. \/ saving' = saving
      \/ saving' = [saving EXCEPT ![w] = "create"]
  BY DEF Saves, NothingToSave, saveVars
<1>4. \A v \in Writers : saving'[v] \in {"open", "write"} => saving[v] = saving'[v]
  BY <1>3
<1>5. saving' \in [Writers -> {"no", "create", "open", "write"}]
  BY <1>3
<1>6. \A v \in Writers : image'[v] \in GoodImages' \cup {NoImage}
  BY <1>1, <1>2
<1>7. image' \in [Writers -> GoodImages' \cup {NoImage}]
  BY <1>2, <1>6
<1>8. raced' \in BOOLEAN
  BY DEF Saves, NothingToSave, saveVars
<1> QED
  BY <1>1, <1>2, <1>3, <1>4, <1>5, <1>7, <1>8

LEMMA StartKeeps == ASSUME RestartIInv, Start PROVE RestartIInv'
<1> USE DEF RestartIInv
<1>1. CASE CreateFile
  <2>1. UNCHANGED <<vars, up, file, crashes, lastStart>>
    BY <1>1 DEF CreateFile
  <2>2. UNCHANGED <<now, schdSt, pc, startTime, nextStartTime>>
    BY <2>1 DEF vars, runVars, threadVars
  <2>3. now' \in Nat /\ now <= now'
    BY <2>2 DEF IInv, TypeOK
  <2>4. "server" \in Writers /\ "thread" \in Writers
    BY DEF Writers
  <2>5. Saves("server") /\ up = "boot"
    BY <1>1 DEF CreateFile
  <2>6. /\ saving' \in [Writers -> {"no", "create", "open", "write"}]
        /\ \A v \in Writers : v # "server" => saving'[v] = saving[v]
        /\ image' \in [Writers -> GoodImages' \cup {NoImage}]
        /\ \A v \in Writers :
             saving'[v] \in {"open", "write"} => image'[v] \in GoodImages'
        /\ raced' \in BOOLEAN
    BY <2>3, <2>4, <2>5, SavesKeeps
  <2>7. Starting'
    BY <2>1, <2>2, <2>4, <2>5, <2>6 DEF Starting
  <2> QED
    BY <2>1, <2>2, <2>6, <2>7, IInvKept, GoodImagesKept
<1>2. CASE SkipFile
  <2>1. UNCHANGED <<vars, file, saving, image, raced, crashes, lastStart>>
    BY <1>2 DEF SkipFile, saveVars
  <2>2. UNCHANGED <<now, schdSt, pc, startTime, nextStartTime>>
    BY <2>1 DEF vars, runVars, threadVars
  <2>3. up' = "up"
    BY <1>2 DEF SkipFile
  <2> QED
    BY <2>1, <2>2, <2>3, IInvKept, GoodImagesKept DEF Starting
<1>3. CASE RestoreData
  <2>1. file \in GoodImages
    BY <1>3 DEF RestoreData
  <2>2. /\ file.numEntr \in Nat /\ file.schdIntv \in Nat
        /\ file.startTime \in Nat /\ file.startTime < now
        /\ file.strTm \in [StrTm -> Nat]
    BY <2>1 DEF GoodImages, Images
  <2>3. /\ UNCHANGED <<now, schdSt, nxtStrTm, valGood, schdEntr, schdEnaErr,
                       nextStartTime, currentEntryIdx, allow, req, file,
                       crashes, lastStart>>
        /\ UNCHANGED <<pc, tState, tTime, tNew>>
        /\ UNCHANGED <<saving, image, raced>>
        /\ up = "boot" /\ up' = "restoring"
    BY <1>3 DEF RestoreData, threadVars, saveVars
  <2>4. pc = "poll" /\ schdSt = NOT_READY
    BY <2>3 DEF Starting
  <2>5. TypeOK'
    BY <1>3, <2>2, <2>3 DEF RestoreData, IInv, TypeOK
  <2>6. nextStartTime' = 0 /\ startTime' = file.startTime
    BY <1>3, <2>3 DEF RestoreData, Starting
  <2>7. TimesOrdered'
    BY <2>2, <2>3, <2>4, <2>6 DEF TimesOrdered, RunTimesOrdered, NOT_READY, RUNNING
  <2>8. Starting'
    <3>1. saving["server"] = "no" /\ saving["thread"] = "no"
      BY <1>3 DEF RestoreData, NobodySaves, Writers
    <3> QED
      BY <2>1, <2>3, <2>4, <2>6, <3>1 DEF Starting, GoodImages
  <2>9. GoodImages' = GoodImages
    BY <2>3, GoodImagesKept
  <2> QED
    BY <2>3, <2>5, <2>6, <2>7, <2>8, <2>9 DEF IInv
<1>4. CASE RestoreState
  <2>1. /\ UNCHANGED <<now, file, crashes, lastStart>>
        /\ UNCHANGED clientVars /\ UNCHANGED statusVars /\ UNCHANGED runVars
        /\ UNCHANGED threadVars /\ UNCHANGED req
        /\ up' = "up" /\ schdSt' = file.schdSt /\ up = "restoring"
        /\ Saves("server") \/ NothingToSave
    BY <1>4 DEF RestoreState
  <2>2. pc = "poll" /\ nextStartTime = 0 /\ startTime = file.startTime
        /\ file \in GoodImages
    BY <2>1, RestartAssumption DEF Starting, RestartAssumption
  <2>3. file.schdSt \in States /\ (file.schdSt = RUNNING => 0 < file.startTime)
    BY <2>2 DEF GoodImages, Images
  <2>4. UNCHANGED <<pc, tNew, startTime, nextStartTime>>
    BY <2>1 DEF threadVars, runVars
  <2>5. TypeOK'
    BY <2>1, <2>3 DEF IInv, TypeOK, clientVars, statusVars, runVars, threadVars
  <2>6. TimesOrdered'
    BY <2>1, <2>2, <2>3, <2>4 DEF IInv, TimesOrdered, RunTimesOrdered
  <2>7. now' \in Nat /\ now <= now' /\ "server" \in Writers
    BY <2>1 DEF IInv, TypeOK, Writers
  <2>8. /\ saving' \in [Writers -> {"no", "create", "open", "write"}]
        /\ image' \in [Writers -> GoodImages' \cup {NoImage}]
        /\ \A v \in Writers :
             saving'[v] \in {"open", "write"} => image'[v] \in GoodImages'
        /\ raced' \in BOOLEAN
    BY <2>1, <2>7, SavesKeeps
  <2>9. Starting'
    BY <2>1 DEF Starting
  <2> QED
    BY <2>1, <2>2, <2>4, <2>5, <2>6, <2>8, <2>9, GoodImagesKept
       DEF IInv
<1> QED
  BY <1>1, <1>2, <1>3, <1>4 DEF Start

(* The program ends at any point: what survives is the file and the clock. *)
LEMMA EndKeeps == ASSUME RestartIInv, EndAndRestart PROVE RestartIInv'
<1> USE DEF RestartIInv
<1>1. TypeOK'
  <2>1. allow' \in Access
    BY DEF EndAndRestart, Access, FullAccess
  <2>2. numEntr' \in Nat /\ schdIntv' \in Nat
    BY DataAssumption DEF DataAssumption, EndAndRestart
  <2>3. actStrTmGood' \in BOOLEAN /\ valGood' \in BOOLEAN
    BY DEF EndAndRestart
  <2>4. strTm' \in [StrTm -> Nat] /\ now' \in Nat
    BY DEF EndAndRestart, IInv, TypeOK
  <2> QED
    BY <2>1, <2>2, <2>3, <2>4
       DEF EndAndRestart, EndIteration, TypeOK, States, EnablingErrors
<1>2. TimesOrdered' /\ lastStart' < now' /\ nextStartTime' = 0
  BY DEF EndAndRestart, EndIteration, IInv, TypeOK, TimesOrdered, RunTimesOrdered, NOT_READY,
         RUNNING
<1>3. crashes' \in 0..MaxCrashes
  BY RestartAssumption DEF RestartAssumption, EndAndRestart
<1>4. Starting'
  BY DEF EndAndRestart, EndIteration, Starting, Writers
<1>5. GoodImages' = GoodImages /\ UNCHANGED <<file, lastStart>>
  BY GoodImagesKept DEF EndAndRestart
<1>6. /\ saving' = [w \in Writers |-> "no"]
      /\ image' = [w \in Writers |-> NoImage]
      /\ up' = "boot" /\ raced' = FALSE
  BY DEF EndAndRestart
<1>7. IInv'
  BY <1>1, <1>2 DEF IInv
<1> QED
  BY <1>2, <1>3, <1>4, <1>5, <1>6, <1>7

(* A step of Schedule, with or without a save, that leaves what is planned *)
(* ahead of the last start.                                                *)
LEMMA ScheduleStepKeeps ==
  ASSUME RestartIInv, Next, NEW w \in Writers, Saves(w) \/ NothingToSave,
         UNCHANGED <<up, file, crashes>>, up = "up",
         now' \in Nat, now <= now', lastStart' \in Nat, lastStart' < now',
         nextStartTime' # 0 => lastStart' < nextStartTime'
  PROVE  RestartIInv'
<1> USE DEF RestartIInv
<1>1. IInv'
  BY IInvStep
<1>2. /\ saving' \in [Writers -> {"no", "create", "open", "write"}]
      /\ image' \in [Writers -> GoodImages' \cup {NoImage}]
      /\ \A v \in Writers :
           saving'[v] \in {"open", "write"} => image'[v] \in GoodImages'
      /\ raced' \in BOOLEAN
  BY SavesKeeps
<1>3. file' \in GoodImages' \cup {NoFile, Torn}
  BY GoodImagesLast
<1>4. Starting'
  BY DEF Starting
<1> QED
  BY <1>1, <1>2, <1>3, <1>4

(* What the thread starts from lies after the last start, before or after  *)
(* a restart.                                                              *)
LEMMA PlannedAfterLastStart ==
  ASSUME RestartIInv PROVE PlannedStartTime # 0 => lastStart < PlannedStartTime
<1> USE DEF RestartIInv
<1>1. CASE nextStartTime = 0
  <2>1. strTm \in [StrTm -> Nat] /\ now \in Nat /\ lastStart < now
    BY DEF IInv, TypeOK
  <2>2. /\ NextStartTime(strTm, now) \in Nat
        /\ NextStartTime(strTm, now) = 0 \/ NextStartTime(strTm, now) > now
    BY <2>1, NextStartTimeAhead
  <2> QED
    BY <1>1, <2>1, <2>2 DEF PlannedStartTime
<1>2. CASE nextStartTime # 0
  BY <1>2 DEF PlannedStartTime
<1> QED
  BY <1>1, <1>2

LEMMA ThreadRunsWhenUp == ASSUME RestartIInv, RunThread PROVE up = "up"
<1>1. ThreadStep
  BY DEF RunThread, CommitAndSave, StartRun, OtherThreadStep, ThreadStep
<1>2. schdSt # NOT_READY \/ pc # "poll"
  BY <1>1 DEF ThreadStep, Poll, KeepWaiting, StartSchedule, RunEntry,
       SameEntry, EndSchedule, Commit, ClearSchdEntr, Crash
<1> QED
  BY <1>2 DEF RestartIInv, Starting

LEMMA ThreadKeeps == ASSUME RestartIInv, RunThread PROVE RestartIInv'
<1> USE DEF RestartIInv
<1>1. up = "up"
  BY ThreadRunsWhenUp
<1>2. /\ Saves("thread") \/ NothingToSave
      /\ UNCHANGED <<up, file, crashes>>
      /\ "thread" \in Writers
  BY DEF RunThread, CommitAndSave, StartRun, OtherThreadStep, Writers
<1>3. Next /\ UNCHANGED now
  BY DEF RunThread, CommitAndSave, StartRun, OtherThreadStep, Next, ThreadStep,
         Poll, KeepWaiting, StartSchedule, RunEntry, SameEntry, EndSchedule,
         Commit, ClearSchdEntr, Crash
<1>4. now' \in Nat /\ now <= now' /\ strTm \in [StrTm -> Nat] /\ now \in Nat
  BY <1>3 DEF IInv, TypeOK
<1>5. /\ PlannedStartTime \in Nat
      /\ PlannedStartTime # 0 => lastStart < PlannedStartTime
  BY PlannedStartTimeAhead, PlannedAfterLastStart
<1>6. CASE StartRun
  <2>1. /\ lastStart' = PlannedStartTime /\ PlannedStartTime < tTime
        /\ pc = "act" /\ tState = READY
        /\ strTm' = EraseStartTime(strTm, PlannedStartTime)
        /\ nextStartTime' = NextStartTime(strTm', now)
    BY <1>6 DEF StartRun, StartSchedule, StartIsDue, BeginRun
  <2>2. tTime <= now /\ tTime \in Nat
    BY <2>1 DEF IInv, TypeOK, TimesOrdered, RunTimesOrdered
  <2>3. lastStart' < now'
    BY <1>3, <1>4, <1>5, <2>1, <2>2
  <2>4. strTm' \in [StrTm -> Nat]
    BY <1>4, <1>5, <2>1, EraseStartTimeType
  <2>5. nextStartTime' \in Nat /\ (nextStartTime' = 0 \/ nextStartTime' > now)
    BY <1>4, <2>1, <2>4, NextStartTimeAhead
  <2> QED
    BY <1>1, <1>2, <1>3, <1>4, <1>5, <2>1, <2>3, <2>5, ScheduleStepKeeps
<1>7. CASE CommitAndSave \/ OtherThreadStep
  <2>1. UNCHANGED lastStart
    BY <1>7 DEF CommitAndSave, OtherThreadStep
  <2>2. \/ nextStartTime' \in {nextStartTime, PlannedStartTime}
        \/ nextStartTime' = NextStartTime(strTm, now)
    BY <1>7 DEF CommitAndSave, OtherThreadStep, Poll, KeepWaiting, RunEntry,
         SameEntry, EndSchedule, Commit, ClearSchdEntr, Crash, runVars
  <2>3. /\ NextStartTime(strTm, now) \in Nat
        /\ NextStartTime(strTm, now) = 0 \/ NextStartTime(strTm, now) > now
    BY <1>4, NextStartTimeAhead
  <2>4. nextStartTime' # 0 => lastStart' < nextStartTime'
    BY <1>4, <1>5, <2>1, <2>2, <2>3
  <2> QED
    BY <1>1, <1>2, <1>3, <1>4, <2>1, <2>4, ScheduleStepKeeps
<1> QED
  BY <1>6, <1>7 DEF RunThread

LEMMA ServeKeeps == ASSUME RestartIInv, Serve \/ TimePasses PROVE RestartIInv'
<1> USE DEF RestartIInv
<1>1. CASE Serve
  <2>1. EnaReqStep \/ ClientStep \/ ApplicationStep
    BY <1>1 DEF Serve, WriteParameter, Control, OtherServerStep, EnaReqStep,
                ClientStep, ApplicationStep
  <2>2. UNCHANGED <<now, nextStartTime>>
    BY <2>1 DEF EnaReqStep, ClientStep, ApplicationStep, CheckEnaReq,
         OperateEnaReq, PublishEnabled, ApplicationEnables, EnableSchedule,
         OperateDsaReq, ApplicationDisables, DisableSchedule, WriteStrTm,
         WriteNumEntr, WriteSchdIntv, WriteValue, ApplicationSetsAccess,
         runVars
  <2>3. /\ Saves("server") \/ NothingToSave
        /\ UNCHANGED <<up, file, crashes, lastStart>>
        /\ up = "up" /\ "server" \in Writers
    BY <1>1 DEF Serve, WriteParameter, Control, OtherServerStep, Writers
  <2>4. now' \in Nat /\ now <= now'
    BY <2>2 DEF IInv, TypeOK
  <2> QED
    BY <2>1, <2>2, <2>3, <2>4, ScheduleStepKeeps DEF Next
<1>2. CASE TimePasses
  <2>1. /\ now' \in Nat /\ now < now' /\ now \in Nat
        /\ UNCHANGED <<schdSt, pc, startTime, nextStartTime>>
        /\ UNCHANGED <<up, file, saving, image, raced, crashes, lastStart>>
    BY <1>2 DEF TimePasses, Tick, IInv, TypeOK, runVars, threadVars, saveVars
  <2>2. IInv'
    BY <1>2, IInvStep DEF TimePasses, Next
  <2>3. \A i \in GoodImages : i \in GoodImages'
    BY <2>1, GoodImagesLast
  <2>4. image' \in [Writers -> GoodImages' \cup {NoImage}]
    BY <2>1, <2>3
  <2>5. Starting'
    BY <2>1 DEF Starting
  <2> QED
    BY <2>1, <2>2, <2>3, <2>4, <2>5
<1> QED
  BY <1>1, <1>2

-----------------------------------------------------------------------------
(* Theorems. *)

LEMMA RestartIInvStep == RestartIInv /\ [NextWithRestarts]_allVars => RestartIInv'
<1> SUFFICES ASSUME RestartIInv, [NextWithRestarts]_allVars PROVE RestartIInv'
  OBVIOUS
<1>1. CASE UNCHANGED allVars
  <2>1. UNCHANGED <<vars, up, file, saving, image, raced, crashes, lastStart>>
    BY <1>1 DEF allVars, saveVars
  <2>2. UNCHANGED <<now, schdSt, pc, startTime, nextStartTime>>
    BY <2>1 DEF vars, runVars, threadVars
  <2> QED
    BY <2>1, <2>2, IInvKept, GoodImagesKept DEF RestartIInv, Starting
<1> QED
  BY <1>1, SaveKeeps, StartKeeps, EndKeeps, ThreadKeeps, ServeKeeps
     DEF NextWithRestarts

LEMMA RestartIInvHolds == RestartSpec => []RestartIInv
BY RestartInit, RestartIInvStep, PTL DEF RestartSpec

(* The file, the saves and the restored schedule keep their types, however *)
(* often and wherever the program ends.                                    *)
THEOREM RestartTypeCorrect == RestartSpec => []RestartTypeOK
<1>1. RestartIInv => RestartTypeOK
  BY DEF RestartIInv, RestartTypeOK, GoodImages, IInv
<1> QED
  BY <1>1, RestartIInvHolds, PTL

(* No run is early, also when the state RUNNING comes out of a file.       *)
THEOREM NeverEarlyAcrossRestarts == RestartSpec => []NeverEarly
<1>1. RestartIInv => NeverEarly
  BY DEF RestartIInv, IInv, TypeOK, TimesOrdered, RunTimesOrdered, NeverEarly
<1> QED
  BY <1>1, RestartIInvHolds, PTL

(* No start time is executed twice, and none after a later one, across any *)
(* number of restarts.                                                     *)
THEOREM RunsOnceHolds == RestartSpec => RunsOnce
<1>1. RestartIInv /\ [NextWithRestarts]_allVars
        => [StartRun => startTime' > lastStart]_allVars
  <2> SUFFICES ASSUME RestartIInv, StartRun PROVE startTime' > lastStart
    OBVIOUS
  <2>1. startTime' = PlannedStartTime /\ PlannedStartTime # 0
    BY DEF StartRun, StartSchedule, StartIsDue, BeginRun
  <2>2. PlannedStartTime \in Nat /\ lastStart \in Nat
    BY PlannedStartTimeAhead DEF RestartIInv
  <2> QED
    BY <2>1, <2>2, PlannedAfterLastStart
<1> QED
  BY <1>1, RestartIInvHolds, PTL DEF RestartSpec, RunsOnce

-----------------------------------------------------------------------------
(* FileCurrent.  While no saves have overlapped, what a writer has taken an*)
(* image of is still what the schedule holds, but for the start time that  *)
(* a run has erased and the thread saves with the state (pc = "commit").   *)

ImagesCurrent ==
  \A w \in Writers : saving[w] \in {"open", "write"} => image[w] = Snapshot

FileInv ==
  /\ up # "up" => ~raced
  /\ up = "boot" => Snapshot = ConfSnapshot
  /\ up = "restoring" => NobodySaves /\ Snapshot = [file EXCEPT !.schdSt = NOT_READY]
  /\ ~raced => \E w \in Writers : saving[w] = "no"
  /\ ~raced /\ pc # "commit" =>
       ImagesCurrent /\ (up = "up" /\ NobodySaves => Restored = Snapshot)

LEMMA SaveKeepsFileInv == ASSUME RestartIInv, FileInv, Save PROVE FileInv'
<1>1. PICK w \in Writers : CreateImage(w) \/ OpenFile(w) \/ WriteFile(w)
  BY DEF Save
<1>2. /\ UNCHANGED <<vars, up, raced>>
      /\ saving[w] # "no" /\ up # "restoring"
  BY <1>1 DEF CreateImage, OpenFile, WriteFile, FileInv, NobodySaves
<1>3. Snapshot' = Snapshot /\ pc' = pc
  BY <1>2 DEF vars, clientVars, runVars, threadVars, Snapshot
<1>4. saving \in [Writers -> {"no", "create", "open", "write"}]
      /\ image \in [Writers -> GoodImages \cup {NoImage}]
  BY DEF RestartIInv
<1>5. \A v \in Writers : saving'[v] = "no" => saving[v] = "no" \/ (v = w /\ WriteFile(w))
  BY <1>1, <1>4 DEF CreateImage, OpenFile, WriteFile
<1>6. \A v \in Writers : saving[v] = "no" => saving'[v] = "no"
  BY <1>1, <1>2, <1>4 DEF CreateImage, OpenFile, WriteFile
<1>7. ~raced /\ pc # "commit" => ImagesCurrent'
  BY <1>1, <1>3, <1>4
     DEF CreateImage, OpenFile, WriteFile, FileInv, ImagesCurrent
<1>8. ~raced /\ pc # "commit" /\ NobodySaves' => Restored' = Snapshot'
  <2> SUFFICES ASSUME ~raced, pc # "commit", NobodySaves'
               PROVE  Restored' = Snapshot'
    OBVIOUS
  <2>1. WriteFile(w)
    BY <1>2, <1>5 DEF NobodySaves
  <2>2. file' = image[w] /\ image[w] = Snapshot /\ image[w] \in GoodImages
    BY <2>1 DEF WriteFile, FileInv, ImagesCurrent, RestartIInv
  <2>3. file' \notin {NoFile, Torn}
    BY <2>2, RestartAssumption DEF RestartAssumption, GoodImages
  <2> QED
    BY <1>3, <2>2, <2>3 DEF Restored
<1> QED
  BY <1>2, <1>3, <1>6, <1>7, <1>8 DEF FileInv, ConfSnapshot

LEMMA StartKeepsFileInv == ASSUME RestartIInv, FileInv, Start PROVE FileInv'
<1>1. saving \in [Writers -> {"no", "create", "open", "write"}] /\ Starting
  BY DEF RestartIInv
<1>2. CASE CreateFile
  <2>1. Snapshot' = Snapshot /\ up' = "boot" /\ up = "boot"
    BY <1>2 DEF CreateFile, vars, clientVars, runVars, Snapshot
  <2>2. saving' = [saving EXCEPT !["server"] = "create"] /\ raced' = FALSE
    BY <1>1, <1>2, <2>1 DEF CreateFile, Saves, Other, NobodySaves, Writers
  <2>3. saving["thread"] = "no"
    BY <1>2 DEF CreateFile, NobodySaves, Writers
  <2>4. ImagesCurrent' /\ \E w \in Writers : saving'[w] = "no"
    BY <1>1, <2>2, <2>3 DEF ImagesCurrent, Writers
  <2> QED
    BY <2>1, <2>2, <2>4 DEF FileInv, ConfSnapshot
<1>3. CASE SkipFile
  <2>1. Snapshot' = Snapshot /\ up' = "up" /\ up = "boot" /\ file' = Torn
        /\ UNCHANGED <<saving, image, raced, pc>> /\ NobodySaves
    BY <1>3 DEF SkipFile, vars, clientVars, runVars, threadVars, saveVars, Snapshot
  <2>2. Restored' = Snapshot'
    BY <2>1 DEF Restored, FileInv, ConfSnapshot
  <2>3. ImagesCurrent' /\ \E w \in Writers : saving'[w] = "no"
    BY <2>1 DEF ImagesCurrent, NobodySaves, Writers
  <2> QED
    BY <2>1, <2>2, <2>3 DEF FileInv
<1>4. CASE RestoreData
  <2>1. up = "boot" /\ up' = "restoring" /\ NobodySaves
        /\ UNCHANGED <<saving, image, raced>> /\ file' = file
        /\ file \in Images
    BY <1>4 DEF RestoreData, saveVars, RestartIInv, GoodImages
  <2>2. schdSt' = NOT_READY
    BY <1>1, <1>4, <2>1 DEF RestoreData, Starting
  <2>3. Snapshot' = [schdSt |-> NOT_READY, numEntr |-> file.numEntr,
                     schdIntv |-> file.schdIntv, startTime |-> file.startTime,
                     strTm |-> file.strTm]
    BY <1>4, <2>2 DEF RestoreData, Snapshot
  <2>4. Snapshot' = [file EXCEPT !.schdSt = NOT_READY]
    BY <2>1, <2>3 DEF Images
  <2>5. NobodySaves' /\ ImagesCurrent' /\ \E w \in Writers : saving'[w] = "no"
    BY <2>1 DEF ImagesCurrent, NobodySaves, Writers
  <2> QED
    BY <2>1, <2>4, <2>5 DEF FileInv
<1>5. CASE RestoreState
  <2>1. /\ up = "restoring" /\ up' = "up" /\ NobodySaves /\ file' = file
        /\ file \in Images /\ schdSt' = file.schdSt
        /\ Snapshot = [file EXCEPT !.schdSt = NOT_READY]
    BY <1>1, <1>5 DEF RestoreState, FileInv, Starting
  <2>2. CASE schdSt' # schdSt
    <3>1. saving' = [saving EXCEPT !["server"] = "create"]
      BY <1>5, <2>2 DEF RestoreState, Saves
    <3>2. saving["thread"] = "no"
      BY <2>1 DEF NobodySaves, Writers
    <3>3. ImagesCurrent' /\ ~NobodySaves' /\ \E w \in Writers : saving'[w] = "no"
      BY <1>1, <2>1, <3>1, <3>2 DEF ImagesCurrent, NobodySaves, Writers
    <3> QED
      BY <2>1, <3>3 DEF FileInv
  <2>3. CASE schdSt' = schdSt
    <3>1. Snapshot' = Snapshot /\ UNCHANGED <<saving, image>> /\ schdSt = NOT_READY
      BY <1>1, <1>5, <2>1, <2>3
         DEF RestoreState, NothingToSave, saveVars, clientVars, runVars,
             Snapshot, Starting
    <3>2. file = [file EXCEPT !.schdSt = NOT_READY]
      BY <2>1, <2>3, <3>1 DEF Images
    <3>3. Restored' = Snapshot'
      BY <2>1, <3>1, <3>2, RestartAssumption DEF RestartAssumption, Restored
    <3>4. ImagesCurrent' /\ \E w \in Writers : saving'[w] = "no"
      BY <2>1, <3>1 DEF ImagesCurrent, NobodySaves, Writers
    <3> QED
      BY <2>1, <3>3, <3>4 DEF FileInv
  <2> QED
    BY <2>2, <2>3
<1> QED
  BY <1>2, <1>3, <1>4, <1>5 DEF Start

(* A step that changes what is saved and begins a save.                    *)
LEMMA SavedChange ==
  ASSUME RestartIInv, NEW w \in Writers, saving[w] = "no", Saves(w),
         up = "up", up' = "up"
  PROVE  FileInv'
<1>1. saving \in [Writers -> {"no", "create", "open", "write"}]
  BY DEF RestartIInv
<1>2. saving' = [saving EXCEPT ![w] = "create"]
  BY DEF Saves
<1>3. ~NobodySaves'
  BY <1>1, <1>2 DEF NobodySaves
<1>4. Other(w) \in Writers /\ Other(w) # w /\ \A v \in Writers : v \in {w, Other(w)}
  BY DEF Other, Writers
<1>5. ~raced' => saving[Other(w)] = "no"
  BY DEF Saves
<1>6. ~raced' => ImagesCurrent' /\ saving'[Other(w)] = "no"
  BY <1>1, <1>2, <1>4, <1>5 DEF ImagesCurrent
<1> QED
  BY <1>3, <1>4, <1>6 DEF FileInv

(* A step that begins no save and changes nothing that is saved, unless the*)
(* thread goes on to commit.                                               *)
LEMMA NoSavedChange ==
  ASSUME FileInv, NothingToSave, up = "up", up' = "up", file' = file,
         (Snapshot' = Snapshot /\ pc # "commit") \/ pc' = "commit"
  PROVE  FileInv'
<1>1. UNCHANGED <<saving, image, raced>>
  BY DEF NothingToSave, saveVars
<1> QED
  BY <1>1 DEF FileInv, ImagesCurrent, NobodySaves, Restored, ConfSnapshot

LEMMA ThreadKeepsFileInv == ASSUME RestartIInv, FileInv, RunThread PROVE FileInv'
<1>1. up = "up"
  BY ThreadRunsWhenUp
<1>2. CASE CommitAndSave
  BY <1>1, <1>2, SavedChange DEF RunThread, CommitAndSave, Writers
<1>3. CASE StartRun
  BY <1>1, <1>3, NoSavedChange
     DEF RunThread, StartRun, StartSchedule, ReachCommit
<1>4. CASE OtherThreadStep
  <2>1. (Snapshot' = Snapshot /\ pc # "commit") \/ pc' = "commit"
    BY <1>4 DEF OtherThreadStep, Poll, KeepWaiting, RunEntry, SameEntry,
         EndSchedule, ClearSchdEntr, Crash, ReachCommit, clientVars, runVars,
         Snapshot
  <2> QED
    BY <1>1, <1>4, <2>1, NoSavedChange DEF RunThread, OtherThreadStep
<1> QED
  BY <1>2, <1>3, <1>4 DEF RunThread

LEMMA ServeKeepsFileInv == ASSUME RestartIInv, FileInv, Serve PROVE FileInv'
<1>1. up = "up" /\ up' = "up" /\ file' = file /\ saving["server"] = "no"
      /\ "server" \in Writers
  BY DEF Serve, Writers
<1>2. CASE Saves("server")
  BY <1>1, <1>2, SavedChange
<1>3. CASE NothingToSave /\ ~WriteParameter
  <2>1. Snapshot' = Snapshot /\ pc' = pc
    <3>1. CASE Control /\ schdSt' = schdSt
      BY <3>1 DEF Control, OperateEnaReq, OperateDsaReq, ApplicationEnables,
           ApplicationDisables, EnableSchedule, DisableSchedule, clientVars,
           runVars, threadVars, Snapshot
    <3>2. CASE Control /\ schdSt' # schdSt
      <4>1. saving' = [saving EXCEPT !["server"] = "create"] /\ saving' = saving
        BY <1>3, <3>2 DEF Control, Saves, NothingToSave, saveVars
      <4>2. saving \in [Writers -> {"no", "create", "open", "write"}]
        BY DEF RestartIInv
      <4> QED
        BY <1>1, <4>1, <4>2
    <3>3. CASE OtherServerStep
      BY <3>3 DEF OtherServerStep, CheckEnaReq, PublishEnabled,
           ApplicationSetsAccess, clientVars, runVars, threadVars, Snapshot
    <3> QED
      BY <1>3, <3>1, <3>2, <3>3 DEF Serve
  <2> QED
    BY <1>1, <1>3, <2>1, NoSavedChange
<1> QED
  BY <1>2, <1>3 DEF Serve, WriteParameter, Control, OtherServerStep

LEMMA EndKeepsFileInv == ASSUME RestartIInv, EndAndRestart PROVE FileInv'
<1>1. up' = "boot" /\ raced' = FALSE /\ saving' = [w \in Writers |-> "no"]
  BY DEF EndAndRestart
<1>2. Snapshot' = ConfSnapshot'
  BY DEF EndAndRestart, Snapshot, ConfSnapshot
<1>3. ImagesCurrent' /\ \E w \in Writers : saving'[w] = "no"
  BY <1>1 DEF ImagesCurrent, Writers
<1> QED
  BY <1>1, <1>2, <1>3 DEF FileInv

(* As long as no two saves overlap, what a restart would restore is what   *)
(* the schedule held: every change of a saved field is followed by a save. *)
THEOREM FileCurrentHolds == RestartSpec => []FileCurrent
<1>1. Boot => FileInv
  <2> SUFFICES ASSUME Boot PROVE FileInv
    OBVIOUS
  <2>1. Snapshot = ConfSnapshot
    BY DEF Boot, Init, Snapshot, ConfSnapshot
  <2>2. ImagesCurrent /\ \E w \in Writers : saving[w] = "no"
    BY DEF Boot, ImagesCurrent, Writers
  <2> QED
    BY <2>1, <2>2 DEF Boot, FileInv
<1>2. RestartIInv /\ FileInv /\ [NextWithRestarts]_allVars => FileInv'
  <2> SUFFICES ASSUME RestartIInv, FileInv, [NextWithRestarts]_allVars
               PROVE  FileInv'
    OBVIOUS
  <2>1. CASE TimePasses \/ UNCHANGED allVars
    <3>1. UNCHANGED <<pc, up, file, saving, image, raced>> /\ Snapshot' = Snapshot
      BY <2>1 DEF TimePasses, Tick, allVars, vars, saveVars, clientVars,
                  runVars, threadVars, Snapshot
    <3> QED
      BY <3>1 DEF FileInv, ImagesCurrent, NobodySaves, Restored, ConfSnapshot
  <2> QED
    BY <2>1, SaveKeepsFileInv, StartKeepsFileInv, EndKeepsFileInv,
       ThreadKeepsFileInv, ServeKeepsFileInv DEF NextWithRestarts
<1>3. FileInv => FileCurrent
  BY DEF FileInv, FileCurrent
<1> QED
  BY <1>1, <1>2, <1>3, RestartIInvHolds, PTL DEF RestartSpec

-----------------------------------------------------------------------------
(* EntriesInOrder, by the invariant EntriesDue of ScheduleProofs.  A run   *)
(* that is resumed starts over with the entry index 0 and SchdEntr 0, and  *)
(* with a SchdIntv that may have been written after the run had begun.     *)

NothingPublished == up # "up" => currentEntryIdx = 0 /\ schdEntr = 0

LEMMA StepOfSchedule ==
  ASSUME RestartIInv, RunThread \/ Serve \/ TimePasses
  PROVE  Next /\ (up' # "up" => UNCHANGED <<up, currentEntryIdx, schdEntr>>)
<1>1. CASE RunThread
  <2>1. Next
    BY <1>1 DEF RunThread, CommitAndSave, StartRun, OtherThreadStep, Next,
                ThreadStep
  <2> QED
    BY <1>1, <2>1, ThreadRunsWhenUp DEF RunThread
<1>2. CASE Serve
  BY <1>2 DEF Serve, WriteParameter, Control, OtherServerStep, Next, EnaReqStep,
              ClientStep, ApplicationStep
<1>3. CASE TimePasses
  BY <1>3 DEF TimePasses, Next, Tick, runVars, statusVars
<1> QED
  BY <1>1, <1>2, <1>3

(* What the start of the program, a save and its end publish: nothing.     *)
LEMMA BootPublishesNothing ==
  ASSUME RestartIInv, NothingPublished,
         Start \/ Save \/ EndAndRestart \/ UNCHANGED allVars
  PROVE  /\ NothingPublished'
         /\ UNCHANGED schdEntr \/ schdEntr' = 0
         /\ EntriesDue => EntriesDue'
<1>1. CASE CreateFile \/ SkipFile \/ RestoreState \/ Save \/ UNCHANGED allVars
  <2>1. /\ UNCHANGED <<now, startTime, entryDurationInMs, currentEntryIdx,
                       schdEntr, pc, tTime>>
        /\ up' # "up" => UNCHANGED up
    BY <1>1 DEF CreateFile, SkipFile, RestoreState, Save, CreateImage, OpenFile,
                WriteFile, allVars, vars, statusVars, runVars, threadVars
  <2> QED
    BY <2>1, LeavesEntriesKeepsEntriesDue DEF NothingPublished, LeavesEntries
<1>2. CASE RestoreData
  <2>1. /\ file \in GoodImages /\ up # "up" /\ pc = "poll" /\ now \in Nat
    BY <1>2 DEF RestoreData, RestartIInv, Starting, IInv, TypeOK
  <2>2. /\ startTime' = file.startTime /\ entryDurationInMs' = file.schdIntv
        /\ UNCHANGED <<now, currentEntryIdx, schdEntr, pc>>
    BY <1>2 DEF RestoreData, threadVars
  <2>3. /\ startTime' \in Nat /\ startTime' <= now /\ now <= now
        /\ entryDurationInMs' \in Nat
    BY <2>1, <2>2 DEF GoodImages, Images
  <2>4. entryDurationInMs' # 0 =>
          (now - startTime') \div entryDurationInMs' \in Nat
    BY <2>1, <2>3, DueEntryGrows
  <2>5. currentEntryIdx' = 0 /\ schdEntr' = 0
    BY <2>1, <2>2 DEF NothingPublished
  <2>6. EntriesDue'
    BY <2>1, <2>2, <2>4, <2>5 DEF EntriesDue, DueEntry
  <2> QED
    BY <2>5, <2>6 DEF NothingPublished
<1>3. CASE EndAndRestart
  BY <1>3 DEF EndAndRestart, EndIteration, EntriesDue, NothingPublished
<1> QED
  BY <1>1, <1>2, <1>3 DEF Start

(* SchdEntr never goes back within a run, also in one that a restart       *)
(* resumes with another SchdIntv or NumEntr than it was started with.      *)
THEOREM EntriesInOrderAcrossRestarts == RestartSpec => EntriesInOrder
<1>1. Boot => EntriesDue /\ NothingPublished
  BY EntriesDueInit DEF Boot, Init, NothingPublished
<1>2. ASSUME RestartIInv, EntriesDue, NothingPublished,
             [NextWithRestarts]_allVars
      PROVE  EntriesDue' /\ NothingPublished'
  <2>1. CASE RunThread \/ Serve \/ TimePasses
    BY <1>2, <2>1, StepOfSchedule, EntriesDueStep
       DEF RestartIInv, NothingPublished
  <2>2. CASE Start \/ Save \/ EndAndRestart \/ UNCHANGED allVars
    BY <1>2, <2>2, BootPublishesNothing
  <2> QED
    BY <1>2, <2>1, <2>2 DEF NextWithRestarts
<1>3. ASSUME RestartIInv, EntriesDue, NothingPublished,
             [NextWithRestarts]_allVars, schdEntr' < schdEntr
      PROVE  schdEntr' = 0 \/ currentEntryIdx = -2
  <2>1. CASE RunThread \/ Serve \/ TimePasses
    BY <1>3, <2>1, StepOfSchedule, NextMovesForward DEF RestartIInv
  <2>2. CASE Start \/ Save \/ EndAndRestart \/ UNCHANGED allVars
    <3>1. schdEntr' # schdEntr
      BY <1>3 DEF RestartIInv, IInv, TypeOK
    <3> QED
      BY <1>3, <2>2, <3>1, BootPublishesNothing
  <2> QED
    BY <1>3, <2>1, <2>2 DEF NextWithRestarts
<1>4. RestartIInv /\ EntriesDue /\ NothingPublished /\ [NextWithRestarts]_allVars
        => [schdEntr' < schdEntr => schdEntr' = 0 \/ currentEntryIdx = -2]_vars
  BY <1>3
<1> QED
  BY <1>1, <1>2, <1>4, RestartIInvHolds, PTL DEF RestartSpec, EntriesInOrder

=============================================================================
