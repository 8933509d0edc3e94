-------------------------- MODULE ControllerRestart --------------------------
(***************************************************************************)
(* A schedule controller whose references are kept in a file,              *)
(* src/src/scheduler/storage/storage_json.c, and restored when the program *)
(* starts again.                                                           *)
(*                                                                         *)
(* ScheduleController_initialize makes the list of schedules and looks up  *)
(* the controlled entity from the configuration; the restore that follows  *)
(* writes the references of the file to the data model, and to it only.    *)
(* Only the server thread saves a controller, as the last step of a write  *)
(* to a reference: it opens the file, which empties it, and writes.  The   *)
(* schedules run from the start; the server starts after the restore.      *)
(*                                                                         *)
(* A CtlEnt reference that names no object has no defined outcome          *)
(* (schedule_controller.c:399) and is not written here.                    *)
(***************************************************************************)
EXTENDS ScheduleController

CONSTANTS
  RefTargets,   \* schedules a client may write to a reference
  CtlEnts,      \* the objects that CtlEnt may refer to
  ConfCtlEnt,   \* the one of the configuration file
  NoFile,       \* the controller has no file yet
  Torn,         \* what a save under way leaves of the file: nothing to parse
  MaxCrashes    \* the program ends at most so often

References == [schdRef : [SchdRefs -> Schedules], ctlEnt : CtlEnts]

ASSUME FileAssumption ==
  /\ RefTargets \subseteq Schedules
  /\ ConfCtlEnt \in CtlEnts
  /\ NoFile # Torn
  /\ NoFile \notin References /\ Torn \notin References
  /\ MaxCrashes \in Nat

VARIABLES
  ctlEnt,         \* CtlEnt.setSrcRef
  controlEntity,  \* where the controller writes its target value
  up,             \* the restore is over and the server runs
  file,           \* the file of the controller
  saving,         \* how far the save of the server thread has come
  crashes,        \* how often the program has ended
  restored        \* history: references other than the configured were restored

entityVars  == <<ctlEnt, controlEntity>>
storageVars == <<up, file, saving, crashes, restored>>
allVars     == <<vars, entityVars, storageVars>>

SavedReferences == [schdRef |-> schdRef, ctlEnt |-> ctlEnt]

ConfReferences == [schdRef |-> ConfSchdRef, ctlEnt |-> ConfCtlEnt]

-----------------------------------------------------------------------------
Boot ==
  /\ Init
  /\ ctlEnt = ConfCtlEnt /\ controlEntity = ConfCtlEnt
  /\ up = FALSE /\ file = NoFile /\ saving = "no"
  /\ crashes = 0 /\ restored = FALSE

(* Without a file, the references as they are configured are written to    *)
(* one and then restored.                                                  *)
CreateFile ==
  /\ ~up /\ saving = "no"
  /\ file = NoFile
  /\ saving' = "open"
  /\ UNCHANGED <<vars, entityVars, up, file, crashes, restored>>

(* ScheduleController_setCtlEnt and _setSchdRef: the data model only.      *)
RestoreReferences ==
  /\ ~up /\ saving = "no"
  /\ file \in References
  /\ schdRef' = file.schdRef
  /\ ctlEnt' = file.ctlEnt
  /\ up' = TRUE
  /\ restored' = (file # ConfReferences)
  /\ UNCHANGED <<now, scheduleVars, schedules, listening, activeSchedule,
                 outputVars, threadVars, disturbed, outputState,
                 controlEntity, file, saving, crashes>>

(* A file that cannot be parsed is left as it is. *)
SkipFile ==
  /\ ~up /\ saving = "no"
  /\ file = Torn
  /\ up' = TRUE
  /\ UNCHANGED <<vars, entityVars, file, saving, crashes, restored>>

OpenFile ==
  /\ saving = "open"
  /\ file' = Torn
  /\ saving' = "write"
  /\ UNCHANGED <<vars, entityVars, up, crashes, restored>>

WriteFile ==
  /\ saving = "write"
  /\ file' = SavedReferences
  /\ saving' = "no"
  /\ UNCHANGED <<vars, entityVars, up, crashes, restored>>

(* The program ends and starts again.  The clock goes on.                  *)
Crash ==
  /\ crashes < MaxCrashes
  /\ crashes' = crashes + 1
  /\ now' = now
  /\ running' = [s \in Schedules |-> FALSE]
  /\ startTime' = [s \in Schedules |-> 0]
  /\ currentEntryIdx' = [s \in Schedules |-> NoEntry]
  /\ prio' = [s \in Schedules |-> ConfPrio]
  /\ schdRef' = ConfSchdRef
  /\ schedules' = ConfSchedules
  /\ listening' = ToSet(ConfSchedules)
  /\ activeSchedule' = NULL /\ actSchdRef' = NULL
  /\ curVal' = NULL /\ target' = NULL
  /\ pc' = [t \in Threads |-> "idle"]
  /\ win' = [t \in Threads |-> NULL]
  /\ val' = [t \in Threads |-> NULL]
  /\ disturbed' = FALSE /\ outputState' = "settled"
  /\ ctlEnt' = ConfCtlEnt /\ controlEntity' = ConfCtlEnt
  /\ up' = FALSE /\ saving' = "no" /\ restored' = FALSE
  /\ UNCHANGED file

-----------------------------------------------------------------------------
(* The server thread: one request at a time, each with its save.           *)

ServerIdle == up /\ saving = "no" /\ At(Server, "idle")

Saves ==
  /\ saving' = "open"
  /\ UNCHANGED <<up, file, crashes, restored>>

(* The new entity is given no value before the next entry of a schedule.   *)
SetControlEntity(e) ==
  /\ ctlEnt' = e /\ controlEntity' = e
  /\ outputState' = "mixed"
  /\ UNCHANGED <<now, scheduleVars, listVars, activeSchedule, outputVars,
                 threadVars, disturbed>>

WriteCtlEntUnsaved(e) ==
  /\ ServerIdle
  /\ SetControlEntity(e)
  /\ UNCHANGED storageVars

WriteCtlEnt(e) ==
  /\ ServerIdle
  /\ SetControlEntity(e)
  /\ Saves

WriteAndSaveSetSrcRef(r, s) ==
  /\ ServerIdle
  /\ WriteSetSrcRef(r, s)
  /\ Saves
  /\ UNCHANGED entityVars

WriteReferences ==
  \/ \E e \in CtlEnts : WriteCtlEnt(e)
  \/ \E s \in RefTargets, r \in SchdRefs : WriteAndSaveSetSrcRef(r, s)

ControllerStep ==
  /\ ScheduleStep \/ CallbackStep \/ Tick \/ (ServerIdle /\ ServerStep)
  /\ UNCHANGED <<entityVars, storageVars>>

StorageStep ==
  \/ CreateFile \/ RestoreReferences \/ SkipFile
  \/ OpenFile \/ WriteFile \/ Crash

RestartNext == ControllerStep \/ WriteReferences \/ StorageStep

RestartSpec == Boot /\ [][RestartNext]_allVars

-----------------------------------------------------------------------------
(* When no save is under way, the file holds the references and the        *)
(* controlled entity that the data model shows, unless a crash tore it and *)
(* nothing was written since: then these are the configured ones.          *)
FileHoldsReferences ==
  up /\ saving = "no" =>
    \/ file = SavedReferences
    \/ file = Torn /\ SavedReferences = ConfReferences

(* The list that decides on the active schedule, and the entity that is    *)
(* controlled, are those of the references, through any writes, saves and  *)
(* crashes, as long as no other than the configured ones were restored.    *)
ReferencesTakeEffect ==
  up /\ ~restored => ReferencesMatchList /\ controlEntity = ctlEnt

=============================================================================
