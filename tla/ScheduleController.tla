-------------------------- MODULE ScheduleController --------------------------
(***************************************************************************)
(* One schedule controller (FSCC), src/src/scheduler/schedule_controller.c,*)
(* with the schedules that may be connected to it.                         *)
(*                                                                         *)
(* The controller has no thread of its own.  A schedule calls it from its  *)
(* schedule thread, when it starts, ends or reaches a new entry, and from  *)
(* the server thread, when a client enables or disables it or writes its   *)
(* priority.  The controller locks nothing, so these callbacks overlap:    *)
(* each thread has a position in the callback, and what it has computed    *)
(* there, and every access to the shared state is a step of its own.       *)
(*                                                                         *)
(* A schedule is reduced to what the controller reads of it: whether it is *)
(* RUNNING, the start time of its run and its priority.  A schedule that   *)
(* is not running may start whenever the module Schedule lets it.  A value *)
(* is reduced to the entry it belongs to.  The loop of getActiveSchedule   *)
(* is one step, though the states it reads may change while it runs.       *)
(***************************************************************************)
EXTENDS Integers, FiniteSets, SequencesExt

CONSTANTS
  Schedules,      \* the schedules of the device
  Server,         \* the server thread
  NULL,           \* no schedule, an invalid value
  SchdRefs,       \* the reference objects Schd01 .. of the controller
  ConfSchdRef,    \* the schedules they refer to in the configuration file
  ConfSchedules,  \* the same schedules, in the order of the references
  PrioTargets,    \* schedules whose priority a client may write
  Prios,          \* priorities a client may write
  ConfPrio,       \* SchdPrio of the configuration file
  StartTimes,     \* times at which a run may start
  Entries,        \* number of entries of a run
  EntryDuration,  \* entryDurationInMs
  TargetIsMV,     \* the controlled entity is a measured value
  MaxTime         \* the clock of the model stops here

ASSUME ScheduleAssumption ==
  /\ Server \notin Schedules
  /\ NULL \notin Schedules
  /\ PrioTargets \subseteq Schedules

ASSUME ConfigurationAssumption ==
  /\ ConfSchdRef \in [SchdRefs -> Schedules]
  /\ ConfSchedules \in Seq(Schedules)
  /\ ToSet(ConfSchedules) = {ConfSchdRef[r] : r \in SchdRefs}
  /\ \A q, r \in SchdRefs : ConfSchdRef[q] = ConfSchdRef[r] => q = r
  /\ \A i, j \in DOMAIN ConfSchedules :
       ConfSchedules[i] = ConfSchedules[j] => i = j
  /\ SchdRefs \subseteq Nat
  /\ \A q, r \in SchdRefs : \A i, j \in DOMAIN ConfSchedules :
       /\ ConfSchedules[i] = ConfSchdRef[q]
       /\ ConfSchedules[j] = ConfSchdRef[r]
       /\ i < j
       => q < r
  /\ Prios \subseteq Int /\ ConfPrio \in Prios

ASSUME RunAssumption ==
  /\ StartTimes \subseteq Nat
  /\ Entries \in Nat
  /\ EntryDuration \in Nat \ {0}
  /\ TargetIsMV \in BOOLEAN
  /\ MaxTime \in Nat

Threads == Schedules \cup {Server}

NoEntry == -2

(* A value: the schedule, the start of the run and the entry it belongs to.*)
Values == [sched : Schedules, start : Nat, idx : 0..(Entries - 1)]

VARIABLES
  now,              \* Hal_getTimeInMs()
  \* the schedules
  running,          \* SchdSt is RUNNING
  startTime,        \* the start time of the current or last run
  currentEntryIdx,  \* the entry whose value was published last
  prio,             \* SchdPrio
  \* the schedule controller
  schdRef,          \* Schd01 .. : the schedule each refers to
  schedules,        \* the list getActiveSchedule goes through
  listening,        \* the schedules that know the controller
  activeSchedule, actSchdRef,
  curVal,           \* its ValMV, ValINS, ...: a value or NULL
  target,           \* what the controlled entity was last given
  \* the threads
  pc, win, val,
  disturbed,        \* history: a decision overlapped another (see Disturbs)
  outputState       \* history: have overlapping callbacks left their mark on
                    \* the outputs? (see Overlaps)

scheduleVars == <<running, startTime, currentEntryIdx, prio>>
listVars     == <<schdRef, schedules, listening>>
outputVars   == <<actSchdRef, curVal, target>>
threadVars   == <<pc, win, val>>

vars == <<now, scheduleVars, listVars, activeSchedule, outputVars, threadVars,
          disturbed, outputState>>

-----------------------------------------------------------------------------
(* getActiveSchedule: one pass over the list with the best so far.         *)

BetterLastTie(best, s) ==
  CASE ~running[s]         -> best
    [] running[s]          ->
       IF \/ best = NULL
          \/ prio[s] > prio[best]
          \/ prio[s] = prio[best] /\ startTime[s] >= startTime[best]
       THEN s ELSE best

Better(best, s) ==
  CASE ~running[s]         -> best
    [] running[s]          ->
       IF \/ best = NULL
          \/ prio[s] > prio[best]
          \/ prio[s] = prio[best] /\ startTime[s] > startTime[best]
       THEN s ELSE best

(* The best of the first i schedules of the list.                          *)
Best[i \in 0..Len(schedules)] ==
  IF i = 0 THEN NULL ELSE Better(Best[i - 1], schedules[i])

GetActiveSchedule == Best[Len(schedules)]

(* The index of the entry due now. *)
CurrentIdx(s) == (now - startTime[s]) \div EntryDuration

EntryValue(s, idx) == [sched |-> s, start |-> startTime[s], idx |-> idx]

GetCurrentValue(s) ==
  IF CurrentIdx(s) < Entries THEN EntryValue(s, CurrentIdx(s)) ELSE NULL

-----------------------------------------------------------------------------
(* ScheduleController_initialize; no schedule runs yet. *)

Init ==
  /\ now = 1
  /\ running = [s \in Schedules |-> FALSE]
  /\ startTime = [s \in Schedules |-> 0]
  /\ currentEntryIdx = [s \in Schedules |-> NoEntry]
  /\ prio = [s \in Schedules |-> ConfPrio]
  /\ schdRef = ConfSchdRef
  /\ schedules = ConfSchedules
  /\ listening = ToSet(ConfSchedules)
  /\ activeSchedule = NULL /\ actSchdRef = NULL
  /\ curVal = NULL /\ target = NULL
  /\ pc = [t \in Threads |-> "idle"]
  /\ win = [t \in Threads |-> NULL]
  /\ val = [t \in Threads |-> NULL]
  /\ disturbed = FALSE
  /\ outputState = "settled"

-----------------------------------------------------------------------------
(* The callbacks' positions between their first read and their last write  *)
(* of what decides on the active schedule.                                 *)
Deciding == {"state", "switch", "show", "clear", "clearTarget", "forget",
             "prio", "prioSwitch", "showRef"}

NobodyDecides == \A t \in Threads : pc[t] \notin Deciding

(* No thread is in a callback. *)
NobodyCalls == \A t \in Threads : pc[t] \in {"idle", "ended"}

At(t, loc) == pc[t] = loc

Goto(t, loc) == pc' = [pc EXCEPT ![t] = loc]

(* The callback is over, and its locals are dead. *)
Return(t) ==
  /\ Goto(t, "idle")
  /\ win' = [win EXCEPT ![t] = NULL]
  /\ val' = [val EXCEPT ![t] = NULL]

(* Thread t calls the controller, if schedule s knows one. *)
Call(t, s, callback) ==
  Goto(t, IF s \in listening THEN callback ELSE "idle")

(* A call is undisturbed when it starts while nobody decides; one on a     *)
(* state update makes up for what came before.                             *)
Disturbs(s, heals) ==
  disturbed' = CASE s \notin listening                   -> disturbed
                 [] s \in listening /\ NobodyDecides     -> disturbed /\ ~heals
                 [] s \in listening /\ ~NobodyDecides    -> TRUE

(* Callbacks that overlap mix up the outputs.  When callbacks run alone    *)
(* again the outputs are owed a value; the first that writes them settles  *)
(* them.                                                                   *)
Overlaps(s) ==
  outputState' = CASE s \notin listening               -> outputState
                   [] s \in listening /\ NobodyCalls   ->
                        IF outputState = "mixed" THEN "owed" ELSE outputState
                   [] s \in listening /\ ~NobodyCalls  -> "mixed"

WritesOutputs ==
  outputState' = IF outputState = "owed" THEN "settled" ELSE outputState

(* The active schedule changes without its value. *)
OwesOutputs ==
  outputState' = IF outputState = "settled" THEN "owed" ELSE outputState

-----------------------------------------------------------------------------
(* The schedule threads.                                                   *)

(* A run starts at a start time that is over and later than the last run's.*)
StartRun(s, t) ==
  /\ At(s, "idle") /\ ~running[s]
  /\ startTime[s] < t /\ t <= now
  /\ running' = [running EXCEPT ![s] = TRUE]
  /\ startTime' = [startTime EXCEPT ![s] = t]
  /\ currentEntryIdx' = [currentEntryIdx EXCEPT ![s] = NoEntry]
  /\ Call(s, s, "state")
  /\ Disturbs(s, TRUE) /\ Overlaps(s)
  /\ UNCHANGED <<now, prio, listVars, activeSchedule, outputVars, win, val>>

NewEntryPastEnd(s) ==
  /\ At(s, "idle") /\ running[s]
  /\ currentEntryIdx[s] # CurrentIdx(s)
  /\ currentEntryIdx' = [currentEntryIdx EXCEPT ![s] = CurrentIdx(s)]
  /\ Call(s, s, "value")
  /\ val' = [val EXCEPT ![s] = EntryValue(s, CurrentIdx(s))]
  /\ Overlaps(s)
  /\ UNCHANGED <<now, running, startTime, prio, listVars, activeSchedule,
                 outputVars, win, disturbed>>

(* The thread of a RUNNING schedule finds a new entry.                     *)
NewEntry(s) ==
  /\ At(s, "idle") /\ running[s]
  /\ CurrentIdx(s) < Entries
  /\ currentEntryIdx[s] # CurrentIdx(s)
  /\ currentEntryIdx' = [currentEntryIdx EXCEPT ![s] = CurrentIdx(s)]
  /\ Call(s, s, "value")
  /\ val' = [val EXCEPT ![s] = IF s \in listening
                               THEN EntryValue(s, CurrentIdx(s)) ELSE NULL]
  /\ Overlaps(s)
  /\ UNCHANGED <<now, running, startTime, prio, listVars, activeSchedule,
                 outputVars, win, disturbed>>

FindEnd(s) ==
  /\ At(s, "idle") /\ running[s]
  /\ CurrentIdx(s) >= Entries
  /\ Goto(s, "ended")
  /\ UNCHANGED <<now, scheduleVars, listVars, activeSchedule, outputVars, win,
                 val, disturbed, outputState>>

(* A schedule leaves RUNNING; the entry index is dead until the next run.  *)
SetNotRunning(t, s) ==
  /\ running' = [running EXCEPT ![s] = FALSE]
  /\ currentEntryIdx' = [currentEntryIdx EXCEPT ![s] = NoEntry]
  /\ Call(t, s, "state")
  /\ Disturbs(s, TRUE) /\ Overlaps(s)
  /\ UNCHANGED <<now, startTime, prio, listVars, activeSchedule, outputVars,
                 win, val>>

EndRun(s) == At(s, "ended") /\ SetNotRunning(s, s)

-----------------------------------------------------------------------------
(* The server thread.                                                      *)

(* EnaReq or DsaReq: the schedule becomes READY or NOT_READY.              *)
OperateReq(s) == At(Server, "idle") /\ SetNotRunning(Server, s)

WritePrio(s, p) ==
  /\ At(Server, "idle")
  /\ prio' = [prio EXCEPT ![s] = p]
  /\ Call(Server, s, "prio")
  /\ Disturbs(s, FALSE) /\ Overlaps(s)
  /\ UNCHANGED <<now, running, startTime, currentEntryIdx, listVars,
                 activeSchedule, outputVars, win, val>>

WriteSetSrcRefNoRemove(r, s) ==
  /\ At(Server, "idle")
  /\ ~Contains(schedules, s)
  /\ schedules' = Append(schedules, s)
  /\ listening' = listening \cup {s}
  /\ schdRef' = [schdRef EXCEPT ![r] = s]
  /\ disturbed' = TRUE
  /\ UNCHANGED <<now, scheduleVars, activeSchedule, outputVars, threadVars,
                 outputState>>

(* Connect schedule s in place of the one that reference r named.  Nobody  *)
(* decides anew on the active schedule.                                    *)
WriteSetSrcRef(r, s) ==
  /\ At(Server, "idle")
  /\ ~Contains(schedules, s)
  /\ schedules' = Append(RemoveFirst(schedules, schdRef[r]), s)
  /\ listening' = listening \cup {s}
  /\ schdRef' = [schdRef EXCEPT ![r] = s]
  /\ disturbed' = TRUE
  /\ UNCHANGED <<now, scheduleVars, activeSchedule, outputVars, threadVars,
                 outputState>>

-----------------------------------------------------------------------------
(* scheduleStateUpdated *)

DecideOnState(t) ==
  /\ At(t, "state")
  /\ \/ /\ GetActiveSchedule = NULL
        /\ Goto(t, "clear")
        /\ UNCHANGED win
     \/ /\ GetActiveSchedule \notin {NULL, activeSchedule}
        /\ Goto(t, "switch")
        /\ win' = [win EXCEPT ![t] = GetActiveSchedule]
     \/ /\ GetActiveSchedule # NULL
        /\ GetActiveSchedule = activeSchedule
        /\ Goto(t, "idle")
        /\ UNCHANGED win
  /\ UNCHANGED <<now, scheduleVars, listVars, activeSchedule, outputVars, val,
                 disturbed, outputState>>

SwitchSchedule(t) ==
  /\ At(t, "switch")
  /\ activeSchedule' = win[t]
  /\ val' = [val EXCEPT ![t] = GetCurrentValue(win[t])]
  /\ win' = [win EXCEPT ![t] = NULL]
  /\ Goto(t, "show")
  /\ UNCHANGED <<now, scheduleVars, listVars, outputVars, disturbed,
                 outputState>>

(* ActSchdRef is set from activeSchedule, not from the callback's choice.  *)
ShowSchedule(t) ==
  /\ At(t, "show")
  /\ actSchdRef' = activeSchedule
  /\ curVal' = val[t]
  /\ Goto(t, "target")
  /\ UNCHANGED <<now, scheduleVars, listVars, activeSchedule, target, win, val,
                 disturbed, outputState>>

UpdateTarget(t) ==
  /\ At(t, "target")
  /\ target' = val[t]
  /\ Return(t)
  /\ WritesOutputs
  /\ UNCHANGED <<now, scheduleVars, listVars, activeSchedule, actSchdRef,
                 curVal, disturbed>>

(* No schedule runs: only a ValMV is made invalid (SCHD_TYPE_UNKNOWN).     *)
ShowNoSchedule(t) ==
  /\ At(t, "clear")
  /\ actSchdRef' = NULL
  /\ curVal' = IF TargetIsMV THEN NULL ELSE curVal
  /\ Goto(t, "clearTarget")
  /\ UNCHANGED <<now, scheduleVars, listVars, activeSchedule, target, win, val,
                 disturbed, outputState>>

ClearTarget(t) ==
  /\ At(t, "clearTarget")
  /\ target' = NULL
  /\ Goto(t, "forget")
  /\ UNCHANGED <<now, scheduleVars, listVars, activeSchedule, actSchdRef,
                 curVal, win, val, disturbed, outputState>>

ForgetScheduleSkipped(t) ==
  /\ At(t, "forget")
  /\ Goto(t, "idle")
  /\ WritesOutputs
  /\ UNCHANGED <<now, scheduleVars, listVars, activeSchedule, outputVars, win,
                 val, disturbed>>

ForgetSchedule(t) ==
  /\ At(t, "forget")
  /\ activeSchedule' = NULL
  /\ Goto(t, "idle")
  /\ WritesOutputs
  /\ UNCHANGED <<now, scheduleVars, listVars, outputVars, win, val, disturbed>>

StateUpdated(t) ==
  \/ DecideOnState(t) \/ SwitchSchedule(t) \/ ShowSchedule(t)
  \/ UpdateTarget(t)
  \/ ShowNoSchedule(t) \/ ClearTarget(t) \/ ForgetSchedule(t)

-----------------------------------------------------------------------------
(* schedulePrioUpdated: the values are left as they are, and so is         *)
(* activeSchedule when no schedule runs.                                   *)

DecideOnPrio(t) ==
  /\ At(t, "prio")
  /\ \/ /\ GetActiveSchedule = NULL
        /\ Goto(t, "showNoRef")
        /\ UNCHANGED win
     \/ /\ GetActiveSchedule \notin {NULL, activeSchedule}
        /\ Goto(t, "prioSwitch")
        /\ win' = [win EXCEPT ![t] = GetActiveSchedule]
     \/ /\ GetActiveSchedule # NULL
        /\ GetActiveSchedule = activeSchedule
        /\ Goto(t, "idle")
        /\ UNCHANGED win
  /\ UNCHANGED <<now, scheduleVars, listVars, activeSchedule, outputVars, val,
                 disturbed, outputState>>

SwitchOnPrio(t) ==
  /\ At(t, "prioSwitch")
  /\ activeSchedule' = win[t]
  /\ win' = [win EXCEPT ![t] = NULL]
  /\ Goto(t, "showRef")
  /\ OwesOutputs
  /\ UNCHANGED <<now, scheduleVars, listVars, outputVars, val, disturbed>>

ShowRef(t) ==
  /\ \/ At(t, "showRef") /\ actSchdRef' = activeSchedule
     \/ At(t, "showNoRef") /\ actSchdRef' = NULL
  /\ Goto(t, "idle")
  /\ UNCHANGED <<now, scheduleVars, listVars, activeSchedule, curVal, target,
                 win, val, disturbed, outputState>>

PrioUpdated(t) == DecideOnPrio(t) \/ SwitchOnPrio(t) \/ ShowRef(t)

-----------------------------------------------------------------------------
(* scheduleValueUpdated; the rest of it is UpdateTarget. *)

CheckActiveSkipped(s) ==
  /\ At(s, "value")
  /\ Goto(s, "showValue")
  /\ UNCHANGED <<now, scheduleVars, listVars, activeSchedule, outputVars, win,
                 val, disturbed, outputState>>

CheckActive(s) ==
  /\ At(s, "value")
  /\ IF s = activeSchedule
     THEN Goto(s, "showValue") /\ UNCHANGED <<win, val>>
     ELSE Return(s)
  /\ UNCHANGED <<now, scheduleVars, listVars, activeSchedule, outputVars,
                 disturbed, outputState>>

ShowValue(s) ==
  /\ At(s, "showValue")
  /\ curVal' = val[s]
  /\ Goto(s, "target")
  /\ UNCHANGED <<now, scheduleVars, listVars, activeSchedule, actSchdRef,
                 target, win, val, disturbed, outputState>>

ValueUpdated(s) == CheckActive(s) \/ ShowValue(s)

-----------------------------------------------------------------------------
ScheduleStep ==
  \E s \in Schedules :
    \/ \E t \in StartTimes : StartRun(s, t)
    \/ NewEntry(s) \/ FindEnd(s) \/ EndRun(s)

(* Writes to the references are steps of ControllerRestart, which saves   *)
(* them.                                                                   *)
ServerStep ==
  \E s \in Schedules :
    \/ OperateReq(s)
    \/ s \in PrioTargets /\ \E p \in Prios : WritePrio(s, p)

CallbackStep ==
  \/ \E t \in Threads : StateUpdated(t)
  \/ PrioUpdated(Server)
  \/ \E s \in Schedules : ValueUpdated(s)

Tick ==
  /\ now < MaxTime
  /\ now' = now + 1
  /\ UNCHANGED <<scheduleVars, listVars, activeSchedule, outputVars, threadVars,
                 disturbed, outputState>>

Next == ScheduleStep \/ ServerStep \/ CallbackStep \/ Tick

Spec == Init /\ [][Next]_vars

-----------------------------------------------------------------------------
(* Type correctness of the schedules, the controller and the callbacks.    *)
TypeOK ==
  /\ now \in Nat
  /\ running \in [Schedules -> BOOLEAN]
  /\ startTime \in [Schedules -> Nat]
  /\ currentEntryIdx \in [Schedules -> 0..(Entries - 1) \cup {NoEntry}]
  /\ prio \in [Schedules -> Prios]
  /\ schdRef \in [SchdRefs -> Schedules]
  /\ schedules \in Seq(Schedules)
  /\ listening \subseteq Schedules
  /\ activeSchedule \in Schedules \cup {NULL}
  /\ actSchdRef \in Schedules \cup {NULL}
  /\ curVal \in Values \cup {NULL} /\ target \in Values \cup {NULL}
  /\ pc \in [Threads -> Deciding \cup {"idle", "value", "showValue", "target",
                                       "showNoRef", "ended"}]
  /\ win \in [Threads -> Schedules \cup {NULL}]
  /\ val \in [Threads -> Values \cup {NULL}]
  /\ disturbed \in BOOLEAN
  /\ outputState \in {"settled", "owed", "mixed"}

(* Which of the schedules that run is to be executed: the one of highest   *)
(* priority, then the one that started last.                               *)
Outranks(s, t) ==
  \/ prio[s] > prio[t]
  \/ prio[s] = prio[t] /\ startTime[s] > startTime[t]

Tied(s, t) == prio[s] = prio[t] /\ startTime[s] = startTime[t]

Runners == {s \in ToSet(schedules) : running[s]}

(* Of two schedules that are tied, REQUIREMENTS S17 has the one executed   *)
(* that a reference names first.                                           *)
NamedFirst(s, t) ==
  \E r \in SchdRefs :
    schdRef[r] = s /\ \A q \in SchdRefs : schdRef[q] = t => r < q

(* The pass over the list finds the schedule that outranks all others that *)
(* run or, if some are tied with it, is named first.  This is so while no  *)
(* reference is written: the list is then in the order of the references.  *)
ArbitrationIsWinner ==
  LET w == GetActiveSchedule
  IN  IF Runners = {} THEN w = NULL
      ELSE /\ w \in Runners
           /\ \A t \in Runners \ {w} :
                Outranks(w, t) \/ (Tied(w, t) /\ NamedFirst(w, t))

(* What the code goes by when schedules are tied is the list.              *)
Position(s) == CHOOSE i \in DOMAIN schedules : schedules[i] = s

ComesBefore(s, t) ==
  Outranks(s, t) \/ (Tied(s, t) /\ Position(s) < Position(t))

Winner ==
  IF Runners = {} THEN NULL
  ELSE CHOOSE s \in Runners : \A t \in Runners \ {s} : ComesBefore(s, t)

(* Value v is what the outputs are to show of schedule s.                  *)
Fits(v, s) ==
  \/ v = NULL /\ CurrentIdx(s) >= Entries
  \/ \E idx \in 0..(Entries - 1) :
       /\ v = EntryValue(s, idx)
       /\ currentEntryIdx[s] <= idx /\ idx <= CurrentIdx(s)

(* The list getActiveSchedule goes through holds each schedule that the    *)
(* references name once, and no other, after any writes to the references. *)
ReferencesMatchList ==
  /\ ToSet(schedules) = {schdRef[r] : r \in SchdRefs}
  /\ Len(schedules) = Cardinality(SchdRefs)

(* Whatever earlier races left behind, one state update that no other      *)
(* decision overlaps puts the winner in charge, or nobody and an empty     *)
(* ActSchdRef if no schedule runs; priority updates keep it that way.      *)
SettlesOnWinner ==
  NobodyDecides /\ ~disturbed =>
    /\ activeSchedule = Winner
    /\ Winner = NULL => actSchdRef = NULL

(* Whatever overlapping callbacks left at the outputs, a value of another  *)
(* schedule or an older one, the next callback that writes them alone puts *)
(* it right: the controller's value and the controlled entity agree on an  *)
(* entry of the active schedule's run that has come and is no older than   *)
(* the one published last.  They have none only past the end of the run.   *)
OutputSettles ==
  NobodyCalls /\ outputState = "settled" =>
    IF activeSchedule = NULL THEN target = NULL
    ELSE /\ Fits(target, activeSchedule)
         /\ curVal = target

-----------------------------------------------------------------------------
(* What the repository says of the controller and the code does not do.    *)

Quiet == \A t \in Threads : pc[t] = "idle"

(* "Execution of schedules must regard schedule priority": when nothing is *)
(* under way, the winner is the active schedule.                           *)
ActiveIsWinner == Quiet => activeSchedule = Winner

(* "If two schedules are configured with the same priority and start time, *)
(* the schedule that comes first in the schedule controller's schedule     *)
(* reference is executed", also when references were written.              *)
TiesByReferences ==
  Quiet /\ ~disturbed /\ activeSchedule # NULL =>
    \A t \in Runners \ {activeSchedule} :
      Tied(activeSchedule, t) => NamedFirst(activeSchedule, t)

(* The same as ActiveIsWinner, of what is executed: when a priority update *)
(* is over and nothing else is under way, the controlled entity does not   *)
(* hold a value of a schedule that the active one outranks.                *)
OutputFollowsPrio ==
  [][/\ ShowRef(Server) /\ Quiet' /\ ~disturbed
     /\ actSchdRef' # NULL /\ target # NULL
       => ~Outranks(actSchdRef', target.sched)]_vars

=============================================================================
