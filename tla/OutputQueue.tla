---------------------------- MODULE OutputQueue ----------------------------
(***************************************************************************)
(* The example program, src/examples/scheduler_example1.c: the queue of    *)
(* outputs between the scheduler and the worker that executes them, and    *)
(* the end of the program.                                                 *)
(*                                                                         *)
(* The scheduler calls the target value handler on its own threads (the    *)
(* schedules' and the server's), several at a time.  The handler adds the  *)
(* output to the queue, the worker takes one at a time and runs a script   *)
(* for it.  A semaphore guards the queue: a thread goes through the list   *)
(* as it finds it when it has the semaphore, and changes the list one step *)
(* later.  A handler call with an invalid value adds nothing and has no    *)
(* action.                                                                 *)
(*                                                                         *)
(* SIGINT makes main stop the threads, wait for the worker and free the    *)
(* queue; what is queued then is dropped.  The controllers are freed first *)
(* of all (der_scheduler.c:229); a call that still passes through one is   *)
(* taken to arrive.  malloc does not fail, and the script returns.         *)
(***************************************************************************)
EXTENDS Integers, Sequences, SequencesExt

CONSTANTS
  Schedules,     \* the threads of the schedules, which call the handler
  Server,        \* the server's thread, which calls it too
  Worker,
  Nobody,        \* the semaphore is free
  MaxOutputs     \* a caller makes at most so many calls

Callers == Schedules \cup {Server}

ASSUME ThreadAssumption ==
  /\ Server \notin Schedules
  /\ Worker \notin Callers /\ Nobody \notin Callers \cup {Worker}
  /\ MaxOutputs \in Nat

(* An output: who made it, and the how many-th of its caller it is. *)
Outputs == [by : Callers, nr : Nat]

VARIABLES
  running,       \* the flag that SIGINT clears
  outputQueue, outputQueueLock,
  seen,          \* the list as each thread found it
  \* a caller's position in the handler, and the number of calls it has made
  cpc, calls,
  \* the worker: position, outputData (none or one output), isEmpty
  wpc, outputData, isEmpty,
  \* main: position, and the callers it has not stopped
  mpc, callersLeft,
  \* history: what was added to the queue, and what was executed
  added, executed

callerVars == <<cpc, calls>>
workerVars == <<wpc, outputData, isEmpty>>
mainVars   == <<mpc, callersLeft>>
queueVars  == <<outputQueue, outputQueueLock, seen>>
vars == <<running, queueVars, callerVars, workerVars, mainVars, added, executed>>

-----------------------------------------------------------------------------
Init ==
  /\ running = FALSE
  /\ outputQueue = <<>> /\ outputQueueLock = Nobody
  /\ seen = [t \in Callers \cup {Worker} |-> <<>>]
  /\ cpc = [c \in Callers |-> "idle"] /\ calls = [c \in Callers |-> 0]
  /\ wpc = "unborn" /\ outputData = <<>> /\ isEmpty = TRUE
  /\ mpc = "start" /\ callersLeft = Callers
  /\ added = <<>> /\ executed = <<>>

-----------------------------------------------------------------------------
(* scheduler_TargetValueChanged *)

NewOutput(c) == [by |-> c, nr |-> calls[c]]

CallHandler(c) ==
  /\ cpc[c] = "idle" /\ c \in callersLeft
  /\ calls[c] < MaxOutputs
  /\ calls' = [calls EXCEPT ![c] = @ + 1]
  /\ cpc' = [cpc EXCEPT ![c] = "wait"]
  /\ UNCHANGED <<running, queueVars, workerVars, mainVars, added, executed>>

(* Not waiting for the semaphore: a bug the code does not have.            *)
LockUnguarded(t) ==
  /\ outputQueueLock' = t
  /\ seen' = [seen EXCEPT ![t] = outputQueue]
  /\ UNCHANGED outputQueue

Lock(t) ==
  /\ outputQueueLock = Nobody
  /\ outputQueueLock' = t
  /\ seen' = [seen EXCEPT ![t] = outputQueue]
  /\ UNCHANGED outputQueue

Unlock == outputQueueLock' = Nobody /\ UNCHANGED seen

LockByCaller(c) ==
  /\ cpc[c] = "wait"
  /\ Lock(c)
  /\ cpc' = [cpc EXCEPT ![c] = "add"]
  /\ UNCHANGED <<running, calls, workerVars, mainVars, added, executed>>

AddOutput(c) ==
  /\ cpc[c] = "add"
  /\ outputQueue' = Append(seen[c], NewOutput(c))
  /\ added' = Append(added, NewOutput(c))
  /\ Unlock
  /\ cpc' = [cpc EXCEPT ![c] = "idle"]
  /\ UNCHANGED <<running, calls, workerVars, mainVars, executed>>

-----------------------------------------------------------------------------
(* outputWorkerThread *)

CheckRunning ==
  /\ wpc = "loop"
  /\ wpc' = IF running THEN "wait" ELSE "ended"
  /\ UNCHANGED <<running, queueVars, callerVars, outputData,
                 isEmpty, mainVars, added, executed>>

LockByWorker ==
  /\ wpc = "wait"
  /\ Lock(Worker)
  /\ wpc' = "take"
  /\ UNCHANGED <<running, callerVars, outputData, isEmpty, mainVars, added,
                 executed>>

TakeFirst(queue) ==
  /\ outputData' = <<Head(queue)>>
  /\ outputQueue' = Tail(queue)

(* The semaphore is given back only when there was an output: a bug the    *)
(* code does not have.                                                     *)
TakeOutputKeepLock ==
  /\ wpc = "take"
  /\ \/ seen[Worker] # <<>> /\ TakeFirst(seen[Worker]) /\ Unlock
     \/ seen[Worker] = <<>> /\ UNCHANGED <<queueVars, outputData>>
  /\ isEmpty' = (outputQueue' = <<>>)
  /\ wpc' = "execute"
  /\ UNCHANGED <<running, callerVars, mainVars, added, executed>>

TakeOutput ==
  /\ wpc = "take"
  /\ \/ seen[Worker] # <<>> /\ TakeFirst(seen[Worker])
     \/ seen[Worker] = <<>> /\ UNCHANGED <<outputQueue, outputData>>
  /\ isEmpty' = (outputQueue' = <<>>)
  /\ Unlock
  /\ wpc' = "execute"
  /\ UNCHANGED <<running, callerVars, mainVars, added, executed>>

(* Run the script, if there is an output, and sleep if there is no other.  *)
ExecuteOutput ==
  /\ wpc = "execute"
  /\ executed' = executed \o outputData
  /\ outputData' = <<>>
  /\ wpc' = IF isEmpty THEN "sleep" ELSE "loop"
  /\ UNCHANGED <<running, queueVars, callerVars, isEmpty,
                 mainVars, added>>

WakeUp ==
  /\ wpc = "sleep"
  /\ wpc' = "loop"
  /\ UNCHANGED <<running, queueVars, callerVars, outputData,
                 isEmpty, mainVars, added, executed>>

WorkerStep ==
  CheckRunning \/ LockByWorker \/ TakeOutput \/ ExecuteOutput \/ WakeUp

-----------------------------------------------------------------------------
(* main *)

(* The server runs: start the worker.  A SIGINT before this is lost.       *)
StartWorker ==
  /\ mpc = "start"
  /\ running' = TRUE
  /\ wpc' = "loop"
  /\ mpc' = "serve"
  /\ UNCHANGED <<queueVars, callerVars, outputData, isEmpty,
                 callersLeft, added, executed>>

(* The server does not start: there is no worker to wait for.              *)
FailToServe ==
  /\ mpc = "start"
  /\ mpc' = "stop"
  /\ UNCHANGED <<running, queueVars, callerVars, workerVars,
                 callersLeft, added, executed>>

StopServing ==
  /\ mpc = "serve" /\ ~running
  /\ mpc' = "stop"
  /\ UNCHANGED <<running, queueVars, callerVars, workerVars,
                 callersLeft, added, executed>>

(* Scheduler_destroy, then IedServer_destroy, wait for their threads.      *)
StopCaller(c) ==
  /\ mpc = "stop" /\ c \in callersLeft
  /\ c = Server => callersLeft = {Server}
  /\ cpc[c] = "idle"
  /\ callersLeft' = callersLeft \ {c}
  /\ UNCHANGED <<running, queueVars, callerVars, workerVars,
                 mpc, added, executed>>

(* Not waiting for the worker: a bug the code does not have.              *)
DestroyQueueAtOnce ==
  /\ mpc = "stop" /\ callersLeft = {}
  /\ mpc' = "destroyed"
  /\ UNCHANGED <<running, queueVars, callerVars, workerVars,
                 callersLeft, added, executed>>

(* Wait for the worker and free the queue, with what is left in it.        *)
DestroyQueue ==
  /\ mpc = "stop" /\ callersLeft = {}
  /\ wpc \in {"unborn", "ended"}
  /\ mpc' = "destroyed"
  /\ UNCHANGED <<running, queueVars, callerVars, workerVars,
                 callersLeft, added, executed>>

MainStep ==
  \/ StartWorker \/ FailToServe \/ StopServing \/ DestroyQueue
  \/ \E c \in Callers : StopCaller(c)

(* SIGINT, at any time. *)
Interrupt ==
  /\ mpc # "destroyed"
  /\ running' = FALSE
  /\ UNCHANGED <<queueVars, callerVars, workerVars, mainVars,
                 added, executed>>

-----------------------------------------------------------------------------
HandlerStep(c) == CallHandler(c) \/ LockByCaller(c) \/ AddOutput(c)

Next ==
  \/ \E c \in Callers : HandlerStep(c)
  \/ WorkerStep \/ MainStep \/ Interrupt

Spec == Init /\ [][Next]_vars

(* All threads run, and a thread that waits for the semaphore gets it if   *)
(* it is free again and again.  No output and no SIGINT need come.         *)
FairSpec ==
  /\ Spec
  /\ WF_vars(MainStep)
  /\ WF_vars(CheckRunning \/ TakeOutput \/ ExecuteOutput \/ WakeUp)
  /\ SF_vars(LockByWorker)
  /\ \A c \in Callers : SF_vars(LockByCaller(c)) /\ WF_vars(AddOutput(c))

-----------------------------------------------------------------------------
(* Type correctness of the queue, the semaphore and the positions.         *)
TypeOK ==
  /\ running \in BOOLEAN /\ isEmpty \in BOOLEAN
  /\ outputQueue \in Seq(Outputs) /\ outputData \in Seq(Outputs)
  /\ outputQueueLock \in Callers \cup {Worker, Nobody}
  /\ seen \in [Callers \cup {Worker} -> Seq(Outputs)]
  /\ cpc \in [Callers -> {"idle", "wait", "add"}]
  /\ calls \in [Callers -> 0..MaxOutputs]
  /\ wpc \in {"unborn", "loop", "wait", "take", "execute", "sleep", "ended"}
  /\ mpc \in {"start", "serve", "stop", "destroyed"}
  /\ callersLeft \subseteq Callers
  /\ added \in Seq(Outputs) /\ executed \in Seq(Outputs)

(* Outputs are executed in the order in which they were added, none is     *)
(* lost and none executed twice: what was added is what was executed, what *)
(* the worker holds, and what is queued.                                   *)
NothingLost == added = executed \o outputData \o outputQueue

(* Nobody is on the way to the queue, or at it, when main destroys it.     *)
NoUseAfterDestroy ==
  mpc = "destroyed" =>
    /\ \A c \in Callers : cpc[c] = "idle"
    /\ wpc \in {"unborn", "ended"}
    /\ outputQueueLock = Nobody

CanGoOn(c) == cpc[c] = "add" \/ (cpc[c] = "wait" /\ outputQueueLock = Nobody)

CanBeStopped(c) == cpc[c] = "idle" /\ (c = Server => callersLeft = {Server})

(* While main ends the program nobody is in a deadlock: of the threads it  *)
(* waits for one can be stopped, or goes on, or waits for a semaphore that *)
(* the worker is about to give back; once they have stopped, the worker    *)
(* does not wait for one that nobody gives back, and is told to end.       *)
NoDeadlock ==
  mpc = "stop" =>
    /\ ~running
    /\ callersLeft # {} =>
         wpc = "take" \/ \E c \in callersLeft : CanBeStopped(c) \/ CanGoOn(c)
    /\ callersLeft = {} /\ wpc = "wait" => outputQueueLock = Nobody

(* An output that was given to the handler is executed, unless the program *)
(* is interrupted: no wakeup of the sleeping worker is needed.             *)
OutputsHappen ==
  \A c \in Callers :
    \A n \in 1..MaxOutputs :
      calls[c] >= n ~> ~running \/ [by |-> c, nr |-> n] \in ToSet(executed)

(* Once main has seen the SIGINT, the program ends: nobody waits for a     *)
(* semaphore or a thread for ever.                                         *)
Ends == mpc = "stop" ~> mpc = "destroyed"

=============================================================================
