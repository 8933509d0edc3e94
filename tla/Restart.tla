------------------------------- MODULE Restart -------------------------------
(***************************************************************************)
(* A schedule that is kept in a file, src/src/scheduler/storage/           *)
(* storage_json.c, and restored when the program starts again.             *)
(*                                                                         *)
(* Every handler that changes a parameter, and every change of the state,  *)
(* saves the whole schedule from the thread that makes it: it takes an     *)
(* image of the schedule (createSchedule), opens the file, which empties   *)
(* it, and writes the image.  Neither the schedule nor the file is locked. *)
(* A thread goes on only when its save is over, so each thread has a       *)
(* position in its save next to its position in Schedule.                  *)
(*                                                                         *)
(* The program may end at any time, by a crash or by a power failure.      *)
(* After that main creates the schedule from its configuration file and    *)
(* restores it from what the file holds, before it starts the server.  The *)
(* program has no cause to run before the restore with a schedule enabled: *)
(* no configured start time lies ahead.                                    *)
(*                                                                         *)
(* An image is shorter than the buffer of a FILE, so it reaches the file   *)
(* in one piece, and cJSON_Parse stops at the end of the object: of two    *)
(* images written over one another it reads the later one.  SchdPrio and   *)
(* SchdReuse are saved with the rest and left out; a NaN is written as     *)
(* null and read as 0.                                                     *)
(***************************************************************************)
EXTENDS Schedule

CONSTANTS
  NoFile,       \* the schedule has no file yet
  Torn,         \* what a save under way leaves of the file: nothing to parse
  NoImage,      \* the image of a writer that does not save
  MaxCrashes    \* the program ends at most so often

Images ==
  [schdSt : States, numEntr : Nat, schdIntv : Nat, startTime : Nat,
   strTm : [StrTm -> Nat]]

ASSUME RestartAssumption ==
  /\ NoFile # Torn
  /\ NoFile \notin Images /\ Torn \notin Images
  /\ MaxCrashes \in Nat

(* The threads that save: the one that runs main and then the server, and  *)
(* the schedule thread.                                                    *)
Writers == {"server", "thread"}

Other(w) == CHOOSE v \in Writers : v # w

VARIABLES
  up,        \* how far the start of the program has come
  file,      \* the file of the schedule: NoFile, Torn or an image
  saving,    \* how far the save of each writer has come
  image,     \* the image each writer is about to write
  crashes,   \* how often the program has ended
  \* history
  lastStart, \* the start time of the last run, before or after a crash
  raced      \* a save overlapped another, and none was alone since

saveVars == <<saving, image, raced>>
allVars  == <<vars, up, file, saveVars, crashes, lastStart>>

-----------------------------------------------------------------------------
SnapshotNoActStrTm ==
  [schdSt |-> schdSt, numEntr |-> numEntr, schdIntv |-> schdIntv,
   startTime |-> 0, strTm |-> strTm]

(* The image of the schedule as it is now. *)
Snapshot ==
  [schdSt |-> schdSt, numEntr |-> numEntr, schdIntv |-> schdIntv,
   startTime |-> startTime, strTm |-> strTm]

(* What the schedule is restored from when the file cannot be read.        *)
ConfSnapshot ==
  [schdSt |-> NOT_READY, numEntr |-> ConfNumEntr, schdIntv |-> ConfSchdIntv,
   startTime |-> 0, strTm |-> [s \in StrTm |-> 0]]

Restored == IF file \in {NoFile, Torn} THEN ConfSnapshot ELSE file

NobodySaves == \A w \in Writers : saving[w] = "no"

-----------------------------------------------------------------------------
(* Saving. *)

(* Writer w is about to save what this step changed.                       *)
Saves(w) ==
  /\ saving' = [saving EXCEPT ![w] = "create"]
  /\ raced' = (saving[Other(w)] # "no")
  /\ UNCHANGED image

NothingToSave == UNCHANGED saveVars

CreateImage(w) ==
  /\ saving[w] = "create" /\ pc # "crashed"
  /\ image' = [image EXCEPT ![w] = Snapshot]
  /\ saving' = [saving EXCEPT ![w] = "open"]
  /\ UNCHANGED <<vars, up, file, raced, crashes, lastStart>>

OpenFile(w) ==
  /\ saving[w] = "open" /\ pc # "crashed"
  /\ file' = Torn
  /\ saving' = [saving EXCEPT ![w] = "write"]
  /\ UNCHANGED <<vars, up, image, raced, crashes, lastStart>>

WriteFile(w) ==
  /\ saving[w] = "write" /\ pc # "crashed"
  /\ file' = image[w]
  /\ image' = [image EXCEPT ![w] = NoImage]
  /\ saving' = [saving EXCEPT ![w] = "no"]
  /\ UNCHANGED <<vars, up, raced, crashes, lastStart>>

Save == \E w \in Writers : CreateImage(w) \/ OpenFile(w) \/ WriteFile(w)

-----------------------------------------------------------------------------
(* The program starts: Scheduler_create, then Scheduler_initializeStorage. *)

Boot ==
  /\ Init
  /\ up = "boot"
  /\ file = NoFile
  /\ saving = [w \in Writers |-> "no"]
  /\ image = [w \in Writers |-> NoImage]
  /\ crashes = 0
  /\ lastStart = 0
  /\ raced = FALSE

(* Without a file, the schedule as it is configured is written to one.     *)
CreateFile ==
  /\ up = "boot" /\ NobodySaves
  /\ file = NoFile
  /\ Saves("server")
  /\ UNCHANGED <<vars, up, file, crashes, lastStart>>

(* A file that is not a schedule restores nothing.                         *)
SkipFile ==
  /\ up = "boot" /\ NobodySaves
  /\ file = Torn
  /\ up' = "up"
  /\ UNCHANGED <<vars, file, saveVars, crashes, lastStart>>

(* All but the state.  The run's parameters are those of the data model,   *)
(* and neither the entry index nor the planned start time is restored.     *)
RestoreData ==
  /\ up = "boot" /\ NobodySaves
  /\ file \notin {NoFile, Torn}
  /\ numEntr' = file.numEntr /\ numberOfScheduleEntries' = file.numEntr
  /\ schdIntv' = file.schdIntv /\ entryDurationInMs' = file.schdIntv
  /\ startTime' = file.startTime
  /\ actStrTm' = file.startTime /\ actStrTmGood' = (file.startTime # 0)
  /\ nanValues' = {}
  /\ strTm' = file.strTm
  /\ up' = "restoring"
  /\ UNCHANGED <<now, schdSt, nxtStrTm, valGood, schdEntr, schdEnaErr,
                 nextStartTime, currentEntryIdx, allow, threadVars, req,
                 file, saveVars, crashes, lastStart>>

(* The state comes last: from here on the schedule thread goes on.         *)
RestoreState ==
  /\ up = "restoring"
  /\ schdSt' = file.schdSt
  /\ IF schdSt' # schdSt THEN Saves("server") ELSE NothingToSave
  /\ up' = "up"
  /\ UNCHANGED <<now, clientVars, statusVars, runVars, threadVars, req, file,
                 crashes, lastStart>>

Start == CreateFile \/ SkipFile \/ RestoreData \/ RestoreState

(* The program ends and is started again: all but the file is lost.        *)
EndAndRestart ==
  /\ crashes < MaxCrashes
  /\ crashes' = crashes + 1
  /\ schdSt' = NOT_READY
  /\ strTm' = [s \in StrTm |-> 0]
  /\ numEntr' = ConfNumEntr /\ schdIntv' = ConfSchdIntv
  /\ nanValues' = {} /\ allow' = FullAccess
  /\ nxtStrTm' = 0 /\ actStrTm' = 0 /\ actStrTmGood' = FALSE
  /\ valGood' = FALSE /\ schdEntr' = 0 /\ schdEnaErr' = "UNSET"
  /\ nextStartTime' = 0 /\ startTime' = 0
  /\ entryDurationInMs' = 0 /\ numberOfScheduleEntries' = 0
  /\ currentEntryIdx' = 0
  /\ EndIteration
  /\ req' = "idle"
  /\ up' = "boot"
  /\ saving' = [w \in Writers |-> "no"]
  /\ image' = [w \in Writers |-> NoImage]
  /\ raced' = FALSE
  /\ UNCHANGED <<now, file, lastStart>>

-----------------------------------------------------------------------------
(* The schedule thread and the server thread of Schedule, with their saves.*)

CommitUnsaved ==
  /\ Commit
  /\ NothingToSave
  /\ UNCHANGED lastStart

(* Every change of the state is saved.                                     *)
CommitAndSave ==
  /\ Commit
  /\ Saves("thread")
  /\ UNCHANGED lastStart

(* The start time a run erases is saved with the state, not at once.       *)
StartRun ==
  /\ StartSchedule
  /\ lastStart' = startTime'
  /\ NothingToSave

OtherThreadStep ==
  /\ \/ Poll \/ KeepWaiting \/ RunEntry \/ SameEntry \/ EndSchedule
     \/ ClearSchdEntr \/ Crash
  /\ NothingToSave
  /\ UNCHANGED lastStart

RunThread ==
  /\ saving["thread"] = "no"
  /\ CommitAndSave \/ StartRun \/ OtherThreadStep
  /\ UNCHANGED <<up, file, crashes>>

(* A parameter is saved when it is written, a state when it changes.       *)
WriteParameter ==
  /\ \/ \E s \in StrTm, t \in StrTmValues : WriteStrTm(s, t)
     \/ \E n \in NumEntrValues : WriteNumEntr(n)
     \/ \E i \in SchdIntvValues : WriteSchdIntv(i)
     \/ \E i \in ValueIdx, nan \in BOOLEAN : WriteValue(i, nan)
  /\ Saves("server")

Control ==
  /\ OperateEnaReq \/ OperateDsaReq \/ ApplicationEnables \/ ApplicationDisables
  /\ IF schdSt' # schdSt THEN Saves("server") ELSE NothingToSave

OtherServerStep ==
  /\ \/ CheckEnaReq \/ PublishEnabled
     \/ \E a \in AccessSettings : ApplicationSetsAccess(a)
  /\ NothingToSave

Serve ==
  /\ up = "up" /\ saving["server"] = "no"
  /\ WriteParameter \/ Control \/ OtherServerStep
  /\ UNCHANGED <<up, file, crashes, lastStart>>

TimePasses == Tick /\ UNCHANGED <<up, file, saveVars, crashes, lastStart>>

NextWithRestarts ==
  Start \/ Save \/ EndAndRestart \/ RunThread \/ Serve \/ TimePasses

RestartSpec == Boot /\ [][NextWithRestarts]_allVars

(* The operating system runs the threads, a save ends, and time passes.    *)
(* The program need not end.                                               *)
FairRestartSpec ==
  /\ RestartSpec
  /\ WF_allVars(Start)
  /\ WF_allVars(RunThread)
  /\ \A w \in Writers :
       WF_allVars(CreateImage(w) \/ OpenFile(w) \/ WriteFile(w))
  /\ WF_allVars(TimePasses)

-----------------------------------------------------------------------------
(* Type correctness of the program's position, the file and the saves.     *)
RestartTypeOK ==
  /\ TypeOK
  /\ up \in {"boot", "restoring", "up"}
  /\ file \in Images \cup {NoFile, Torn}
  /\ saving \in [Writers -> {"no", "create", "open", "write"}]
  /\ image \in [Writers -> Images \cup {NoImage}]
  /\ crashes \in 0..MaxCrashes
  /\ lastStart \in Nat
  /\ raced \in BOOLEAN

(* No start time is executed twice and none after a later one, also across *)
(* a restart that comes between the start of a run and the save that would *)
(* have told it, or after a file that was left torn.                       *)
RunsOnce == [][StartRun => startTime' > lastStart]_allVars

(* Unless two saves overlapped, a restart between two steps of the program *)
(* finds what the program held: each change of a saved field is followed   *)
(* by a save that sees it.                                                 *)
FileCurrent ==
  up = "up" /\ NobodySaves /\ pc # "commit" /\ ~raced => Restored = Snapshot

(* A run that a restart resumes ends, or a division by 0 ends the program. *)
ResumedRunEnds ==
  up = "restoring" /\ file.schdSt = RUNNING
    ~> (up = "up" /\ schdSt # RUNNING) \/ pc = "crashed"

=============================================================================
