# The DER scheduler in TLA+

A verification project for the scheduler of distributed energy resources in
`src/src/scheduler`: TLA+ modules of its components, TLC runs that check them on
small instances, and theorems that TLAPS proves for every value of the constants.

    tlc -workers 2 -config MCScheduleSafety.cfg MCSchedule.tla
    tlapm ScheduleProofs.tla

`PROJECT.json` lists the runs, the lines each definition stands for, the hazards with the
properties that cover them, the disagreements between code and documentation that the runs
show, and the theorems. Section 2 to 6 describe the modules:

    Schedule -- implements --> Execution          ScheduleController
       |  \                                              |
    Restart  PeriodicSchedule                     ControllerRestart        OutputQueue

## 1. The system

The program is an IEC 61850 server (libiec61850). A client writes *schedules* (logical
nodes FSCH) into its data model: start times, an interval, a priority and up to 100
values. A *schedule controller* (FSCC) refers to several schedules and passes the values
of the most important one that runs to the entity it controls.

| Component | Code | State | Operations | Correct when |
|---|---|---|---|---|
| Schedule | `schedule.c` | data model of the node, `struct sSchedule` (`nextStartTime`, `startTime`, `currentEntryIdx`, ...), locals of its thread | thread loop; write handlers for StrTm, NumEntr, SchdIntv, values, SchdPrio, SchdReuse; check and control handlers of EnaReq and DsaReq | runs start on time, once, in order; entries are published in order; a run ends; a request the client was told succeeded has its effect; status objects describe the run |
| Periodic start times | `schedule.c` 113-282, 448-551 | `setCal` of a start time | next hourly or daily time | the next time is the earliest in the future that matches |
| Schedule controller | `schedule_controller.c` | `schedules`, `activeSchedule`, ActSchdRef, Val*, controlled entity | callbacks for a new state, value and priority; writes of the references and of CtlEnt | the active schedule is the one that outranks the others; the outputs are its |
| Scheduler | `der_scheduler.c` | lists of schedules and controllers, storage | start-up, the application's interface | all nodes found, connected and restored |
| Storage | `storage/storage_json.c` | one JSON file per node | save, restore | what was accepted survives a restart; a restart repeats no run |
| Example | `examples/scheduler_example1.c` | output queue, semaphore, `running` | target value handler, worker thread, start and end of main | outputs are executed in order, none is lost; the program ends |

How they interact: each schedule has a thread that wakes every 100 ms; the server has one
thread that runs all handlers, one at a time. Both change the schedule's state and then call
the controller directly, on the caller's thread, which calls the application's target value
handler, which appends to the output queue. The only lock is libiec61850's lock around a
single update of the data model; a schedule, a controller and the storage have none. Hence
what is hard here:

* the schedule thread decides on a state it read before and writes the new state without
  looking again (`schedule.c` 1723 and 1828);
* several threads are inside one controller at a time (`schedule_controller.c` 265-349);
* parameters are checked by EnaReq but read when the run starts;
* start times pass, are erased and are written while the thread waits;
* a crash or restart, with files that two threads write.

`PROJECT.json` lists every hazard at its line with the properties that cover it.

### Not modelled, and why

* Event driven schedules: there is no code that starts one.
* The data model files, the test client, the Java tests: data and clients. The tests'
  comments are used as statements of what the program should do.
* libiec61850 and cJSON: external; modelled by how the code uses them (one server thread,
  atomic updates of single objects, a clock that does not go back).
* Parsing the data model, `scheduler_parseModel`: start-up code over a fixed file.
* SchdReuse: nothing but the storage reads it.
* What has no defined outcome: the list of schedules changed by one thread while another
  goes through it, a CtlEnt that names no object (`schedule_controller.c` 399), a call through
  a controller that is freed, a negative SchdIntv.
* Integer widths and a clock that is set back.

## 2. `Schedule`: one schedule and its two threads

A time triggered, non periodic schedule. Variables are the objects of the data model
(`schdSt`, `strTm`, `nxtStrTm`, ...), the fields of `struct sSchedule` that matter, the
schedule thread's position `pc` and locals (`tState`, `tTime`, `tNew` are `state`,
`currentTime` and `newState`), and how far the server thread is with an EnaReq (`req`).

| Actions | Code |
|---|---|
| `Poll` | reads the state and the clock, 1723-1727 |
| `KeepWaiting`, `StartSchedule` | state READY, 1729-1763 |
| `RunEntry`, `SameEntry`, `EndSchedule` | state RUNNING, 1764-1824 |
| `Commit`, `ClearSchdEntr` | the write of the new state, 1826-1834 |
| `Crash` | the division by `entryDurationInMs`, 1606 |
| `CheckEnaReq`, `OperateEnaReq`, `PublishEnabled` | check handler, control handler, and the part of `enabledSchedule` after the state update |
| `OperateDsaReq`, `Application...`, `Write...` | the other handlers and the application's interface |

Everything between two accesses that another thread can observe and disturb is one action.
`Poll` and the action that follows are separate, so any handler can run in between, and
`Commit` is separate again. The write of `schdSt` inside `enabledSchedule` and the
publication of NxtStrTm after it are separate because the thread may start the schedule
between them. Refused requests change nothing and have no action, except the refused
EnaReq, which overwrites `numberOfScheduleEntries`. Times are small numbers; one unit may be
read as the 100 ms of the poll. The 100 ms sleep is left out: a thread may poll at any time,
which includes what a sleeping thread does. Values are abstracted to "is NaN or not", the
only thing the schedule asks of them.

The first division of a new run (line 1749) has a result nobody uses, so a compiler may drop
it; both outcomes are in the model (`Crash`, or `StartSchedule`).

### Properties

* `NeverEarly`: RUNNING only from a start time that is set and over.
* `RunIsReported`: ActStrTm and SchdEntr describe the run that is executed.
* `StartTimesIncrease`: no start time is executed twice, none after a later one.
* `EntriesInOrder`: SchdEntr never moves backwards within a run.
* `RunsEnd`, `PlannedStartHappens`: liveness.

* `ImplementsExecution`: `Schedule` implements `Execution`.

`Execution` is what a schedule promises, without threads, requests and parameters: runs, one at
a time, each from a start time that is over and later than that of the run before; the entries
of a run in order, none before it is due, none twice, none once the run is over. The
refinement mapping says when a run is under way (`RunActive`): from the thread's *decision* to
start it to its decision to end it, or until a request takes the state from RUNNING - but an
iteration that has read RUNNING before that request still executes its entry. `EntryExecuted` is
the index `currentEntryIdx` with its two markers (0 before the first run, -2 at the start
of each) removed. With `schdSt = RUNNING`
alone the step that sets the start time, before the commit, would be no step of `Execution`. An entry may
be passed over, and the number of entries may change at any time: the code polls, and every
EnaReq, refused or not, sets `numberOfScheduleEntries`.

Violated by the code, with the statement of the repository it contradicts (findings in
`PROJECT.json`): `DisableSticks` (a DsaReq between the thread's read and write is lost; the
same write loses an EnaReq). Two other things the model shows contradict no more than a
comment and are not checked as properties: a DsaReq leaves SchdEntr at the entry it
interrupted, and a SchdIntv of 0 written after EnaReq reaches the thread, which divides by it.

### Runs

* `MCScheduleSafety`: 2 start time objects, times 8 and 10 from a clock that goes from 7 to
  14, 2 values, NumEntr 2 or 3 (3 is refused), SchdIntv 0 or 2 (0 is refused, or divides).
  Two start times are enough for one run to follow another, for a start time to be written
  again after it was erased, and for an earlier one to be written while a later one is
  planned. Two entries of two units each are enough for a run to be in its first entry (the
  thread starts it only after the start time), in the last, past the end, stopped and
  resumed, and for a second run to start while the first is in its last entry. 2.3 million
  states.
* `MCScheduleLiveness`: one start time object and one value, with access rights that the
  application takes away and gives back as it does for the reserve schedules. The clock stops
  at 10, after every start time and its run.
* `MCScheduleDisableSticks` uses the smallest constants that show the trace.

Deadlock is not checked: the clock of the model stops, and `Crash` ends the program.

Fairness (`FairSpec`): weak fairness of the schedule thread, of an EnaReq under way and of
the clock, since the operating system runs all threads and the loop has no blocking call but
the sleep. None of clients or of the application. With the clock stopped at `MaxTime` the
liveness properties are about schedules whose times lie before it: the values are chosen so
that all do.

## 3. `ScheduleController`: callbacks that overlap

The controller with the schedules it may be connected to. A schedule is reduced to
`running`, `startTime`, `currentEntryIdx` and `prio`; it may start whenever `Schedule` lets
it: at a start time that is over and later than that of its last run (`StartTimesIncrease`,
`NeverEarly`). While it runs its start time stays, which the loop reads from other threads
without a lock, and no entry is published before it is due: what `Execution` promises, and
`Schedule` is proved to keep. Every thread has a position in its callback (`pc`) and its
locals: the choice (`win`) and the value to show (`val`). A value is the entry it belongs to:
the schedule, the start of the run and the index, which is
`(currentTime - startTime) / entryDurationInMs` (`CurrentIdx`).

| Actions | Code |
|---|---|
| `StartRun`, `NewEntry`, `FindEnd`, `EndRun` | the schedule thread, as the controller sees it |
| `OperateReq`, `WritePrio` | the server thread |
| `WriteSetSrcRef` | the server thread; a step of `ControllerRestart`, which saves it |
| `DecideOnState`, `SwitchSchedule`, `ShowSchedule`, `UpdateTarget`, `ShowNoSchedule`, `ClearTarget`, `ForgetSchedule` | `scheduleStateUpdated` |
| `DecideOnPrio`, `SwitchOnPrio`, `ShowRef` | `schedulePrioUpdated` |
| `CheckActive`, `ShowValue`, `UpdateTarget` | `scheduleValueUpdated` |

Three steps are coarser than the code: the loop of `getActiveSchedule` is one step, together
with the comparison that follows it; ActSchdRef and the controller's Val* object are updated
in one step by a switch; an index and its value are read at once. That removes
interleavings, so what the runs find violated is violated by the code as well, and
`SettlesOnWinner` and `OutputSettles` speak of callbacks that nothing overlaps, where the
granularity makes no difference. `disturbed` is a history variable: it says that some decision
overlapped another since the last state update that began and ended alone. `outputState` is
one too: callbacks that overlapped have `"mixed"` the outputs; with the next callback that begins
while no other is under way the outputs are `"owed"` a value, and `"settled"` when it, or a later
one that runs alone, has written them. A switch on a priority owes them a value as well, for the
code leaves them.

### Properties

* `ArbitrationIsWinner`: the loop finds the schedule that is to be executed: priority, later
  start, and of those that are tied the one a reference names first (REQUIREMENTS S17, E01 and the
  tests on equal priorities). This is so while no reference is written.
* `SettlesOnWinner`: one undisturbed state update repairs `activeSchedule`, whatever earlier
  races left, and priority updates keep it right. The winner is that of the *list*, so that the
  property can be checked with written references as well.
* `OutputSettles`: whatever overlapping callbacks left at the outputs - a value of the schedule that
  was active before, or an older one - the next callback that writes them alone puts it right:
  controller and controlled entity agree on an entry of the active schedule's run that has come and is
  no older than the one published last, or have none, past the end of the run.

Violated by the code: `ActiveIsWinner` (two callbacks, the older decision is written last),
`OutputFollowsPrio` (a priority update leaves the outranked schedule's value), and
`TiesByReferences`: a written reference goes to the end of the list, wherever it stands among the
references, so of two schedules of equal priority and start time the last written loses. S17 has
the one executed that "comes first in the schedule controller's schedule reference".

### Runs

* `MCControllerOverlap`: two schedules, so three threads in the callbacks; a clock from 1 to 5,
  starts at 1 and 5, two entries of two units. Each schedule can start, reach its second entry,
  be past its end before it finds so, be stopped, and start again; the two can be tied, or one have
  started later; one schedule's priority can be written. 7.0 million states.
* `MCControllerActiveIsWinner`, `MCControllerOutputFollowsPrio`: the traces, with one entry.
* `MCControllerTies` (of `ControllerRestart`): two references, a third schedule that is written to
  the first.

No fairness is assumed; all properties are safety. Deadlock is not checked, since the clock
and the schedules stop.

## 4. Restart: `Restart` and `ControllerRestart`

### `Restart`: a schedule, its file and the two threads that save it

Extends `Schedule`. Every handler that changes a parameter and every change of the state saves
the whole schedule, on the thread that makes it: `CreateImage` (`createSchedule`), `OpenFile`
(`fopen` with "w", which empties the file), `WriteFile`. A thread goes on when its save is
over, so a writer's position (`saving`) stands next to the thread's position in `Schedule`, and
the steps of two saves interleave. `EndAndRestart` may happen before and after any step: it
sets all but the clock and the file to what `Scheduler_create` makes of the configuration. Then
`CreateFile`, `SkipFile` or `RestoreData` and `RestoreState` are `Scheduler_initializeStorage`,
with the schedule's thread running already.

Three details of the code decide the results. The restore writes SchdIntv to the data model
*and* to `entryDurationInMs`, and NumEntr to `numberOfScheduleEntries`, so a run is resumed with
the parameters of the data model, not with those it was started with. `currentEntryIdx` and
`nextStartTime` are not saved: they are 0 after a restart, so a resumed run never publishes
its first entry, and the start time is planned anew. A start time is erased in memory when its
run starts and saved only after the commit: a crash in between loses the run, for the next plan
looks for later start times only.

Abstracted: an image is one value and reaches the file in one piece, since it is shorter than
the buffer of a FILE; SchdPrio and SchdReuse are saved with the rest and left out; a NaN is
saved as null and read as 0, so a restored schedule has no NaN. The fallback schedules that
main enables before the restore are taken to have no configured start time ahead.

* `NeverEarly` (again), `RunsOnce`: no restart makes a run early, repeats one, or goes back.
* `FileCurrent`: unless two saves overlapped, a restart between two steps finds what the
  program held. The condition is needed: of two saves that overlap the one with the older
  image may write last, and a restart then undoes an accepted change (`raced` says that some
  save overlapped another since the last one that began alone), though REQUIREMENTS C04 says
  "Changes in schedules are persisted into the file as soon as the schedule is validated".
* `ResumedRunEnds`: a run resumed from a file ends, or the division by a SchdIntv of 0, which a
  client may write during a run, ends the program.

Run `MCRestart`: one start time object, two times, one entry of two units, one crash at any
step. One crash is enough for each pair of a step and a restart; two start times for a run
before and one after it. 1.3 million states. Fairness: weak fairness of the start of the
program, of the schedule thread, of each writer's save and of the clock, none of crashes.

### `ControllerRestart`: a controller and its references

Extends `ScheduleController` with the file of a controller, the writes of `Schd*.setSrcRef` and
`CtlEnt.setSrcRef` (`WriteAndSaveSetSrcRef`, `WriteCtlEnt`), which save, and crashes.
`ScheduleController_initialize` makes the list of schedules and looks up the controlled entity
from the *configuration*; `RestoreReferences` then writes the data model, and only that. So
after a restart that restores other references than the configured ones, the model shows
references that have no effect (history variable `restored`). No document says that a restored
reference is connected, so this is described, not reported.

* `FileHoldsReferences`: between two saves the file holds the references and the entity that
  the data model shows; the exception is a file torn by a crash.
* `ReferencesTakeEffect`: the list that decides is the one the references name, without
  duplicates, and the controlled entity is CtlEnt, unless other references were restored.
* `SettlesOnWinner` and `OutputSettles`, now with schedules that take each other's place while
  callbacks run, and with crashes. A new CtlEnt is given no value, so a write of it leaves the outputs
  "mixed" until the next callback that writes them alone.

Run `MCControllerRestart`: one reference, two schedules, two entities, two crashes, one instant.
Two crashes let a restored file be torn again, and a restart follow a restart. 2.5 million states. The run `ties_by_references` uses this module too: see
section 3.

## 5. `PeriodicSchedule`: hourly and daily start times

Extends `Schedule` with a setCal attribute per start time object. `NextHourly`, `NextDaily` and
`UpdateNext` are `updateNextPeriodicStartTime`; the actions that ask for a next start time
(`KeepWaitingPeriodic`, `StartPeriodic`, `EndPeriodic`, `PublishEnabledPeriodic`) replace those
of `Schedule`, the others are its own. The calendar has parts of a minute, minutes, and hours;
what lies below the minute is kept from the moment of the question, as the code keeps the
seconds. `handleSetCal` ends without a return statement when setCal is valid; its caller
branches on the result, so every call has a result chosen from `SetCalReturns`.

What the code does, and the model with it:

* Hourly: the occurrence in the current hour is taken while a run from it would still be under
  way, else the one an hour later. `PlansOccurrence` says so of runs that end within the hour they
  start in; asked in the part of a run that reaches into the next hour, the code plans the
  occurrence of that hour.
* The end of a run is found at `currentTime`, with the milliseconds of the poll, and compared
  with an occurrence at the same milliseconds. A run of a duration that is not a whole number of
  minutes can therefore be executed twice in an hour; `OncePerHour` is about the others.
* A NumEntr of 0, written after the checks, makes a run empty. It is over at once, and for the
  rest of the minute the occurrence computed is the poll itself, so the schedule starts again
  and again. `OncePerHour` is about schedules that have entries.
* Daily: the hour is set and the *current minute kept*, `mn` is ignored, and a day later is
  computed as one hour later (`schedule.c` 503), and assigned only if it is not after
  `nextStartTime` - never, when that is 0.
* Of several start time objects one that lies ahead always replaces the one found before
  (`a <= a <= next`).
* The periodic branch of `checkForValidStartTimes` (1269-1283) is never reached: EnaReq of a
  periodic schedule does not look at start times.

Properties: `PlansOccurrence` compares `NextHourly` in every reachable state with a reference
definition by sets of times; `OncePerHour` and `StaysEnabled` are about the schedule's runs over
time; `StaysEnabled` only of runs after which `handleSetCal` returns what it should.
`PeriodicTypeOK` says that no time computed falls below 0, where the unsigned arithmetic
of the code would wrap around; `NeverEarly` and `RunIsReported` are those of `Schedule`, for
threads that plan by the calendar. `OncePerHour` is not unconditional. It speaks of schedules
with one start time object (two of them may name two minutes of an hour), with entries, with runs of
whole minutes, and of a start before which no client has enabled the schedule since the last start,
or written to it since the one before (`touched`). `StaysEnabled` fails for a daily schedule:
REQUIREMENTS S04 "Periodical schedules must be supported", but after its run it becomes NOT_READY.

Runs: `MCPeriodicHourly` has two parts of a minute, two minutes and hours, one object that may
be rewritten, one entry of two parts, so that a run lasts one minute of two; the clock passes
from one hour into the next. `handleSetCal` returns either result. 2.7 million states.
`MCPeriodicDailyStaysEnabled` has three hours in a day and a `handleSetCal` that always succeeds.
No fairness: all properties are safety. Local time is UTC.

`NextPeriodic` is a recursive function over the positions of the start time objects, as the
loop of `schedule_getNextStartTime` is, so that it can be reasoned about.

## 6. `OutputQueue`: the example program

The threads of the schedules and of the server call `scheduler_TargetValueChanged`, which
appends to a list under a semaphore; the worker takes one output at a time and runs a script.
SIGINT (`Interrupt`, at any time) makes main stop the schedules, the server and the worker, and
free the queue. A thread goes through the list as it finds it when it has the semaphore
(`seen`) and changes the list a step later, so that a missing semaphore would lose an output.

* `NothingLost`: what was added is what was executed, what the worker holds and what is queued.
* `OutputsHappen`: an output given to the handler is executed, unless the program is
  interrupted; the worker needs no signal, since it asks again every 50 ms.
* `NoUseAfterDestroy`: nobody is at the queue or on the way to it when main frees it.
* `NoDeadlock`: while main ends the program, one of the threads it waits for can be stopped or
  goes on, or the worker is about to give the semaphore back. `Ends` needs fairness, this does not.
* `Ends`: once main has seen the SIGINT, the program ends.

What is queued at the end is dropped: the code frees it. A SIGINT that arrives before main sets
`running` to true is overwritten, and the program goes on until the next one; both are in the
model.

Run `MCOutputQueue`: three callers with one call each, so that three threads may wait for the
semaphore at a time, and the worker finds the list empty, with one and with more outputs; the
order of the calls of one thread is that of the list and needs no second call. Fairness: weak
for main and the worker, whose calls return; strong for taking the semaphore, which the kernel
hands to a waiting thread in the end. None for callers and SIGINT.

## 7. Proofs

Every theorem holds for all values of the constants: any number of start time objects,
schedules, threads, entries, crashes.

| Module | Theorem | Argument |
|---|---|---|
| `ExecutionProofs` | `ScheduleImplementsExecution` | step simulation from `IInv`, `Reporting`, `EntriesDue` and `ActiveStarted`: a start is `Begin`, a new entry `Execute`, a tick `PassTime`, all else `Control` or a stutter |
| `RestartProofs` | `RestartTypeCorrect`, `NeverEarlyAcrossRestarts`, `RunsOnceHolds` | `RestartIInv` is inductive |
| `RestartProofs` | `EntriesInOrderAcrossRestarts` | `EntriesDue` of `ScheduleProofs`, inductive relative to `RestartIInv` |
| `RestartProofs` | `FileCurrentHolds` | `FileInv`, inductive relative to `RestartIInv` |
| `OutputQueueProofs` | `TypeCorrect`, `NothingLostHolds`, `NoUseAfterDestroyHolds`, `NoDeadlockHolds` | `IInv` is inductive |
| `ControllerRestartProofs` | `FileHoldsReferencesAlways` | `FileInv` is inductive |
| `ControllerRestartProofs` | `ReferencesTakeEffectAlways`, `SettlesOnWinnerAlways`, `OutputSettlesAlways` | `RestartInv` is inductive |
| `PeriodicScheduleProofs` | `PeriodicTypeCorrect`, `PeriodicNeverEarly` | `PInv` is inductive |
| `PeriodicScheduleProofs` | `PeriodicRunIsReported`, `PeriodicEntriesInOrder` | `Reporting` and `EntriesDue` of `ScheduleProofs`, inductive relative to `PInv` |
| `PeriodicScheduleProofs` | `PlansOccurrenceHolds` | arithmetic of the calendar, for any time |
| `PeriodicScheduleProofs` | `HourlyStaysEnabled`, `OncePerHourHolds` | the plan is an occurrence; `HourlyInv`, inductive relative to `PInv` |
| `ScheduleControllerProofs` | `ArbitrationIsWinnerHolds` | `PassFindsWinner`: the best of the first i schedules, by induction on i; the list is in the order of the references (`FirstInList`) |
| `ScheduleControllerProofs` | `TypeCorrect` | `CInv` is inductive |
| `ScheduleControllerProofs` | `SettlesOnWinnerHolds` | `SInv`, inductive relative to `CInv` |
| `ScheduleControllerProofs` | `OutputSettlesHolds` | `OInv`, inductive relative to `CInv` |
| `ScheduleProofs` | five theorems | below |

`RestartIInv` extends `IInv` of `Schedule` to the file and to the images under way: none has a
start time that is still ahead, and one that says RUNNING has a start time (`GoodImages`), which
is what makes a restored state satisfy `IInv`; and the last start, before or after a crash,
lies before the clock and before the plan. `FileInv` says that while no save overlapped another,
an image under way is the current one (`ImagesCurrent`): every step that changes a saved field
begins a save, and that save takes its image later. `IInv` of `OutputQueue` adds to the
conservation of outputs that the holder of the semaphore is the one between `Lock` and `Unlock`
and that the list is still as it found it (`HolderAlone`), without which an append to `seen`
would lose what others added. The same part leaves no room for a deadlock: who has the semaphore
stands where it is given back. `FileInv` of `ControllerRestart` adds that before the restore the
references are the configured ones, which is why a torn file is the only exception.

`ScheduleControllerProofs` first proves what the pass over the list computes. `Best` is a
recursive function; that it exists and unfolds (`BestUnfolds`) and what holds of
each of its values (`PassIsBest`) go by induction on positions, which `PositionInduction` states
for a set of numbers. (The induction is in the module `Positions`, with the existence of such a pass, `PassOfExists`,
and of the least number of a set, `LeastExists`; the proofs about `Schedule`, about the
controller and about the pass over periodic start times use it. It is stated for sets, since
the library's induction theorems, which take an operator, are out of the provers' reach.)
`BestOf(b, i)` says that b runs and comes before the other runners of the
first i positions; `OneWinner` that outranking leaves room for one winner. `CInv` adds to `TypeOK`
that a start time is over (`Started`) and no entry published before it is due (`Published`), that a
callback about to switch has chosen a schedule (`Chosen`), and that the list has no duplicates and its
schedules know the controller, as do those that are active or chosen (`Connected`). `SInv` says that while `disturbed` is false either
nobody decides and the active schedule is the winner, or one thread decides alone and `Knows`, at
each position, what the ones before it found: the winner cannot change under it, because every
schedule of the list that starts, ends or changes its priority calls the controller and so
disturbs it. `OInv` says the same of the outputs: while they are not mixed either nobody calls, or one
thread does and `Brings`, at each position, what makes the outputs right when it is done. Between the
end of a run and the decision that follows the active schedule does not run, and in between the
outputs are still those of the run that ended.

What a schedule that does not know the controller does changes nothing of this
(`UnseenKeepsOrder`), since active and chosen schedules know it. `TiesByReferences` is false, and
`ArbitrationIsWinnerHolds` hence is a theorem of `Spec`, where nobody writes a reference, and not of
`RestartSpec`.

`RestartInv` of `ControllerRestart` joins `FileInv` with `CInv`, `SInv` and `OInv`, which the restart
establishes anew whatever the crash found (`CInvStart`, `SInvStart`, `OInvStart`), and adds `Connects`: the
references name the schedules of the list, no two the same one, and CtlEnt the controlled
entity - unless others were restored. That makes `ReferencesTakeEffect` inductive: a write takes
one schedule out of the list and appends another, and the reference written is the only one that
named the first. `Configured` says that before the restore the list and the entity are
the configured ones. A write of a reference is followed
by no state update, so it counts as disturbing, and `SInv` claims nothing until the next one; `OInv`
goes on, for the schedule that is active still knows the controller.

`PeriodicScheduleProofs` first derives what the calendar computes from facts about quotients
and multiples that Z3 does not find by itself (`QuotientIs`, `MultipleIs`, `TimeAt`...): the
minute of a time with its minute replaced is the new one, and its hour and what is below the
minute stay. `PInv` is `RInv` of `ScheduleProofs`, the types of the calendar, and that the clock
is past the first hour, without which a start in the current hour could lie before 0.
`TimesOrdered` of `Schedule` is no part of it: a periodic plan may lie before the last start.
`PlansOccurrenceHolds` needs no invariant but this; the reference definition is by the greatest
and least member of a set, the code's by three cases. `HourlyStaysEnabled` assumes that clients
write hourly start times only (`AllHourly`): the plan is then never 0, by induction on the
positions of the start time objects. `OncePerHourHolds` needs `HourlyInv`, which relates the plan
to the last start through every position of the thread and of an EnaReq:

* `KeepsMinute`: the plan and the last start are at the minute of the start time object, unless
  a client wrote to it meanwhile;
* `AsWritten`: the run has the length that the data model shows;
* `WaitsForNextHour`: a schedule that waits after a run has a plan in a later hour;
* `NotReenabled`: while the thread ends a run nobody has made the state READY;
* `FirstIsEnabled`: before the first start only an EnaReq wakes the thread.

TLC checked `HourlyInv` with NumEntr 0 and 1 before it was proved; with NumEntr 0 it found the
empty runs of section 5 and with them the condition `numEntr > 0`.

`ScheduleProofs` holds the theorems about `Schedule`, for any sets of start time objects,
values and access rights, any NumEntr and SchdIntv and any clock bound.

| Theorem | Argument |
|---|---|
| `TypeCorrect` | `IInv` is inductive |
| `NeverEarlyHolds` | follows from `IInv` |
| `StartTimesIncreaseHolds` | `IInv`, and that the planned time lies after the last start |
| `RunIsReportedHolds` | `Reporting`, inductive relative to `IInv` |
| `EntriesInOrderHolds` | `EntriesDue`, inductive relative to `IInv` |

`IInv == TypeOK /\ TimesOrdered`. TypeOK alone is not inductive: the entry index
`(t - startTime) \div entryDurationInMs` is a natural number only because the start of a run
lies before the time the thread read. `TimesOrdered` says so, and that what the thread has
planned lies after the last start. `Reporting` adds what the thread knows at each position:
since it alone writes RUNNING, a schedule it has seen READY does not run before its commit.
`EntriesDue` says that the entry published last was due at a time the clock has reached, so
the entry due now is that one or a later one (`DueEntryGrows`). `NextStartTimeAhead` and
`MinOfTimes` are the facts about the earliest start time. Which steps disturb `Reporting` and
`EntriesDue` is said once (`RunStep`, `LeavesRun`, `LeavesEntries`), so that the proofs about
`PeriodicSchedule` and `Restart`, which have other steps around them, use the same lemmas: a
restored run starts over with the entry 0 and publishes none before it is due, since its start
time is over; no start time later than the last is needed.

Assumptions: `ScheduleAssumption` and `ConfigurationAssumption` of `ScheduleController` (the
configured references, which are numbered, name distinct schedules, and the list is in their order),
`RunAssumption` (an entry has a duration other than 0: `Schedule` models the division by 0);
`DataAssumption` (what clients write are natural numbers), `TimeAssumption`
(the clock starts after 0), `CalendarAssumption` (minutes, hours and days are not empty, clients
write minutes and hours of the calendar, and the clock starts after its first hour),
`RestartAssumption` and `FileAssumption` (the markers for no file
and a torn file are no images; the configured values are among the values),
`ThreadAssumption` (threads are distinct). `BootAssumption` is not used by the proofs: it says
that a start time of 0 with its duration is over, which the runs rely on.

Only model-checked: the liveness properties `RunsEnd`, `PlannedStartHappens`, `ResumedRunEnds`,
`OutputsHappen` and `Ends`, since fairness is beyond the prover. Every safety property that a
passing run checks is stated by a theorem; `StaysEnabled` for hourly schedules only, for it is
violated by daily ones.

## 8. What the checks do not cover

A clock that is set back; widths of integers (SchdIntv in milliseconds is computed in 32
bits); a negative SchdIntv; data races on single words; more than one controller; the
reference list changed by one thread while another goes through it; a saved file that names
another node; a power failure that leaves part of an image; a local time with daylight saving;
two periodic start time objects in one schedule (the theorems about `PeriodicSchedule` are for
any number, except that `OncePerHour` speaks of one).

Every violation run checks one property that a test, comment or requirement states, and
`PROJECT.json` quotes it. The interleavings among them are a few steps long: with a
100 ms poll and an unlocked controller they are rare, and a test hardly meets them.

## 9. Plan

Done: `Schedule`, `ScheduleController`, `Execution` with its refinement, `PeriodicSchedule`,
`Restart`, `ControllerRestart`, `OutputQueue`, and proofs of every safety property that a passing
run checks. Left, in this order:

1. That `Schedule` and `PeriodicSchedule` are what `ScheduleController` assumes of a schedule, as
   a refinement: an abstract schedule that a controller sees (running, start time, entry), which
   both the steps of `Schedule` and the schedule's part of `ScheduleController` implement.
2. An abstract queue that `OutputQueue` implements, and an abstract controller that
   `ScheduleController` implements while nothing overlaps.
3. The interval conversion in 32 bits and a clock that is set back.
