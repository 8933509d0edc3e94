------------------------- MODULE OutputQueueProofs -------------------------
(***************************************************************************)
(* Theorems about OutputQueue, for any number of threads and of outputs.   *)
(***************************************************************************)
EXTENDS OutputQueue, SequenceTheorems, TLAPS

(* The thread that has the semaphore is the one between Lock and Unlock,   *)
(* and the list is still as it found it.                                   *)
HolderAlone ==
  /\ \A c \in Callers : cpc[c] = "add" <=> outputQueueLock = c
  /\ wpc = "take" <=> outputQueueLock = Worker
  /\ outputQueueLock # Nobody => seen[outputQueueLock] = outputQueue
  /\ wpc # "execute" => outputData = <<>>

(* Main stops every thread before it destroys the queue.                   *)
Stopped ==
  /\ \A c \in Callers \ callersLeft : cpc[c] = "idle"
  /\ mpc = "start" => wpc = "unborn"
  /\ mpc = "destroyed" => callersLeft = {} /\ wpc \in {"unborn", "ended"}

IInv == TypeOK /\ HolderAlone /\ NothingLost /\ Stopped

-----------------------------------------------------------------------------
(* An output taken from the front of the list.                             *)
LEMMA TakeFromFront ==
  ASSUME NEW S, NEW e \in Seq(S), NEW q \in Seq(S), q # <<>>
  PROVE  (e \o <<>>) \o q = (e \o <<Head(q)>>) \o Tail(q)
<1>1. Head(q) \in S /\ Tail(q) \in Seq(S)
  BY HeadTailProperties, Zenon
<1>2. <<Head(q)>> \in Seq(S)
  BY <1>1
<1>3. e \o <<>> = e
  BY ConcatEmptySeq, Zenon
<1>4. q = <<Head(q)>> \o Tail(q)
  OBVIOUS
<1>5. (e \o <<Head(q)>>) \o Tail(q) = e \o (<<Head(q)>> \o Tail(q))
  BY <1>1, <1>2, ConcatAssociative
<1> QED
  BY <1>3, <1>4, <1>5, Zenon

(* What the worker holds is executed.                                      *)
LEMMA ExecuteHeld ==
  ASSUME NEW S, NEW e \in Seq(S), NEW d \in Seq(S), NEW q \in Seq(S)
  PROVE  (e \o d) \o q = ((e \o d) \o <<>>) \o q
<1>1. e \o d \in Seq(S)
  BY ConcatProperties, Zenon
<1>2. (e \o d) \o <<>> = e \o d
  BY <1>1, ConcatEmptySeq, Zenon
<1> QED
  BY <1>2, Zenon

-----------------------------------------------------------------------------
(* The steps of the handler. *)

LEMMA CallPreserves ==
  ASSUME IInv, NEW c \in Callers, CallHandler(c)
  PROVE  IInv'
<1> USE ThreadAssumption DEF IInv, CallHandler, queueVars, workerVars, mainVars
<1>1. TypeOK'
  BY DEF TypeOK
<1>2. HolderAlone'
  BY DEF HolderAlone, TypeOK
<1>3. NothingLost'
  BY DEF NothingLost
<1>4. Stopped'
  BY DEF Stopped, TypeOK
<1> QED
  BY <1>1, <1>2, <1>3, <1>4

LEMMA LockByCallerPreserves ==
  ASSUME IInv, NEW c \in Callers, LockByCaller(c)
  PROVE  IInv'
<1> USE ThreadAssumption DEF IInv, LockByCaller, Lock, workerVars, mainVars
<1>1. TypeOK'
  BY DEF TypeOK
<1>2. HolderAlone'
  BY DEF HolderAlone, TypeOK
<1>3. NothingLost'
  BY DEF NothingLost
<1>4. Stopped'
  BY DEF Stopped, TypeOK
<1> QED
  BY <1>1, <1>2, <1>3, <1>4

LEMMA AddOutputPreserves ==
  ASSUME IInv, NEW c \in Callers, AddOutput(c)
  PROVE  IInv'
<1> USE ThreadAssumption
<1>1. /\ outputQueue' = Append(outputQueue, NewOutput(c))
      /\ NewOutput(c) \in Outputs
  BY DEF IInv, AddOutput, HolderAlone, TypeOK, NewOutput, Outputs
<1>2. TypeOK'
  BY <1>1 DEF IInv, TypeOK, AddOutput, Unlock, workerVars, mainVars
<1>3. HolderAlone'
  BY DEF IInv, HolderAlone, TypeOK, AddOutput, Unlock, workerVars
<1>4. NothingLost'
  <2>1. /\ executed \in Seq(Outputs) /\ outputData \in Seq(Outputs)
        /\ outputQueue \in Seq(Outputs) /\ added \in Seq(Outputs)
    BY DEF IInv, TypeOK
  <2>2. /\ executed \o outputData \in Seq(Outputs)
        /\ <<NewOutput(c)>> \in Seq(Outputs)
    BY <1>1, <2>1, ConcatProperties
  <2>3. /\ added' = added \o <<NewOutput(c)>>
        /\ outputQueue' = outputQueue \o <<NewOutput(c)>>
    BY <1>1, <2>1, AppendIsConcat DEF AddOutput
  <2>4. executed' = executed /\ outputData' = outputData
    BY DEF AddOutput, workerVars
  <2>5. ((executed \o outputData) \o outputQueue) \o <<NewOutput(c)>>
          = (executed \o outputData) \o (outputQueue \o <<NewOutput(c)>>)
    BY <2>1, <2>2, ConcatAssociative
  <2> QED
    BY <2>3, <2>4, <2>5 DEF IInv, NothingLost
<1>5. Stopped'
  BY DEF IInv, Stopped, TypeOK, AddOutput, workerVars, mainVars
<1> QED
  BY <1>2, <1>3, <1>4, <1>5 DEF IInv

-----------------------------------------------------------------------------
(* The steps of the worker. *)

LEMMA TakeOutputPreserves ==
  ASSUME IInv, TakeOutput
  PROVE  IInv'
<1> USE ThreadAssumption
<1>1. /\ outputData = <<>> /\ seen[Worker] = outputQueue
      /\ executed' = executed /\ added' = added
  BY DEF IInv, TakeOutput, HolderAlone, TypeOK
<1>2. /\ executed \in Seq(Outputs) /\ outputQueue \in Seq(Outputs)
  BY DEF IInv, TypeOK
<1>3. /\ outputQueue' \in Seq(Outputs) /\ outputData' \in Seq(Outputs)
      /\ NothingLost'
  <2>1. CASE outputQueue # <<>>
    <3>1. outputData' = <<Head(outputQueue)>> /\ outputQueue' = Tail(outputQueue)
      BY <1>1, <2>1 DEF TakeOutput, TakeFirst
    <3>2. Head(outputQueue) \in Outputs /\ Tail(outputQueue) \in Seq(Outputs)
      BY <1>2, <2>1
    <3>3. (executed \o <<>>) \o outputQueue
            = (executed \o <<Head(outputQueue)>>) \o Tail(outputQueue)
      BY <1>2, <2>1, TakeFromFront
    <3>4. NothingLost'
      BY <1>1, <3>1, <3>3 DEF IInv, NothingLost
    <3> QED
      BY <3>1, <3>2, <3>4
  <2>2. CASE outputQueue = <<>>
    BY <1>1, <1>2, <2>2 DEF TakeOutput, IInv, NothingLost
  <2> QED
    BY <2>1, <2>2
<1>4. TypeOK'
  BY <1>3 DEF IInv, TypeOK, TakeOutput, Unlock, callerVars, mainVars
<1>5. HolderAlone'
  BY DEF IInv, HolderAlone, TypeOK, TakeOutput, Unlock, callerVars
<1>6. Stopped'
  BY DEF IInv, Stopped, TypeOK, TakeOutput, callerVars, mainVars
<1> QED
  BY <1>3, <1>4, <1>5, <1>6 DEF IInv

LEMMA ExecuteOutputPreserves ==
  ASSUME IInv, ExecuteOutput
  PROVE  IInv'
<1> USE ThreadAssumption
<1>1. /\ executed \in Seq(Outputs) /\ outputData \in Seq(Outputs)
      /\ outputQueue \in Seq(Outputs)
  BY DEF IInv, TypeOK
<1>2. executed \o outputData \in Seq(Outputs)
  BY <1>1, ConcatProperties
<1>3. TypeOK'
  BY <1>2 DEF IInv, TypeOK, ExecuteOutput, queueVars, callerVars, mainVars
<1>4. HolderAlone'
  BY DEF IInv, HolderAlone, TypeOK, ExecuteOutput, queueVars, callerVars
<1>5. NothingLost'
  <2>1. (executed \o outputData) \o outputQueue
          = ((executed \o outputData) \o <<>>) \o outputQueue
    BY <1>1, ExecuteHeld
  <2> QED
    BY <2>1 DEF IInv, NothingLost, ExecuteOutput, queueVars
<1>6. Stopped'
  BY DEF IInv, Stopped, TypeOK, ExecuteOutput, callerVars, mainVars
<1> QED
  BY <1>3, <1>4, <1>5, <1>6 DEF IInv

LEMMA WorkerPreserves ==
  ASSUME IInv, WorkerStep
  PROVE  IInv'
<1> USE ThreadAssumption DEF queueVars, callerVars, mainVars
<1>1. CASE CheckRunning
  BY <1>1 DEF CheckRunning, IInv, TypeOK, HolderAlone, NothingLost, Stopped
<1>2. CASE LockByWorker
  <2> USE <1>2 DEF IInv, LockByWorker, Lock
  <2>1. TypeOK' /\ NothingLost' /\ Stopped'
    BY DEF TypeOK, NothingLost, Stopped
  <2>2. HolderAlone'
    BY DEF HolderAlone, TypeOK
  <2> QED
    BY <2>1, <2>2
<1>3. CASE WakeUp
  BY <1>3 DEF WakeUp, IInv, TypeOK, HolderAlone, NothingLost, Stopped
<1> QED
  BY <1>1, <1>2, <1>3, TakeOutputPreserves, ExecuteOutputPreserves DEF WorkerStep

-----------------------------------------------------------------------------
(* The steps of main, and SIGINT. *)

LEMMA MainPreserves ==
  ASSUME IInv, MainStep \/ Interrupt
  PROVE  IInv'
<1> USE ThreadAssumption DEF queueVars, callerVars, workerVars, mainVars
<1>1. CASE StartWorker
  BY <1>1 DEF StartWorker, IInv, TypeOK, HolderAlone, NothingLost, Stopped
<1>2. CASE FailToServe
  BY <1>2 DEF FailToServe, IInv, TypeOK, HolderAlone, NothingLost, Stopped
<1>3. CASE StopServing
  BY <1>3 DEF StopServing, IInv, TypeOK, HolderAlone, NothingLost, Stopped
<1>4. ASSUME NEW c \in Callers, StopCaller(c) PROVE IInv'
  BY <1>4 DEF StopCaller, IInv, TypeOK, HolderAlone, NothingLost, Stopped
<1>5. CASE DestroyQueue
  BY <1>5 DEF DestroyQueue, IInv, TypeOK, HolderAlone, NothingLost, Stopped
<1>6. CASE Interrupt
  BY <1>6 DEF Interrupt, IInv, TypeOK, HolderAlone, NothingLost, Stopped
<1> QED
  BY <1>1, <1>2, <1>3, <1>4, <1>5, <1>6 DEF MainStep

LEMMA IInvHolds == Spec => []IInv
<1>1. Init => IInv
  <2> SUFFICES ASSUME Init PROVE IInv
    OBVIOUS
  <2>1. TypeOK
    <3>1. <<>> \in Seq(Outputs)
      OBVIOUS
    <3>2. /\ seen \in [Callers \cup {Worker} -> Seq(Outputs)]
          /\ outputQueue \in Seq(Outputs) /\ outputData \in Seq(Outputs)
          /\ added \in Seq(Outputs) /\ executed \in Seq(Outputs)
      BY <3>1, Zenon DEF Init
    <3>3. cpc \in [Callers -> {"idle", "wait", "add"}]
      BY DEF Init
    <3>4. calls \in [Callers -> 0..MaxOutputs]
      BY ThreadAssumption DEF Init
    <3> QED
      BY <3>2, <3>3, <3>4 DEF Init, TypeOK
  <2>2. HolderAlone
    BY ThreadAssumption DEF Init, HolderAlone
  <2>3. NothingLost
    BY DEF Init, NothingLost
  <2>4. Stopped
    BY DEF Init, Stopped
  <2> QED
    BY <2>1, <2>2, <2>3, <2>4 DEF IInv
<1>2. IInv /\ [Next]_vars => IInv'
  <2>1. ASSUME IInv, Next PROVE IInv'
    BY <2>1, CallPreserves, LockByCallerPreserves, AddOutputPreserves,
       WorkerPreserves, MainPreserves DEF Next, HandlerStep
  <2>2. ASSUME IInv, UNCHANGED vars PROVE IInv'
    BY <2>2 DEF IInv, TypeOK, HolderAlone, NothingLost, Stopped, vars,
       queueVars, callerVars, workerVars, mainVars
  <2> QED
    BY <2>1, <2>2
<1> QED
  BY <1>1, <1>2, PTL DEF Spec

-----------------------------------------------------------------------------
(* Type correctness of the queue, the semaphore and the positions, for any *)
(* number of threads (scheduler_example1.c).                               *)
THEOREM TypeCorrect == Spec => []TypeOK
BY IInvHolds, PTL DEF IInv

(* Outputs are executed in the order in which they were added, and none is *)
(* lost or executed twice, for any number of threads and outputs: the      *)
(* semaphore of scheduler_example1.c is held wherever the list is changed. *)
THEOREM NothingLostHolds == Spec => []NothingLost
BY IInvHolds, PTL DEF IInv

(* No thread uses the queue after main destroyed it, for any number of     *)
(* threads.                                                                *)
THEOREM NoUseAfterDestroyHolds == Spec => []NoUseAfterDestroy
<1>1. IInv => NoUseAfterDestroy
  BY ThreadAssumption
     DEF IInv, TypeOK, HolderAlone, Stopped, NoUseAfterDestroy
<1> QED
  BY <1>1, IInvHolds, PTL

-----------------------------------------------------------------------------
(* NoDeadlock. *)

LEMMA ServingWhileRunning == Spec => [](mpc # "serve" => ~running)
<1>1. Init => (mpc # "serve" => ~running)
  BY DEF Init
<1>2. (mpc # "serve" => ~running) /\ [Next]_vars
        => (mpc # "serve" => ~running)'
  BY DEF Next, HandlerStep, CallHandler, LockByCaller, AddOutput, WorkerStep,
         CheckRunning, LockByWorker, TakeOutput, ExecuteOutput, WakeUp,
         MainStep, StartWorker, FailToServe, StopServing, StopCaller,
         DestroyQueue, Interrupt, mainVars, vars
<1> QED
  BY <1>1, <1>2, PTL DEF Spec

(* Nobody waits in a circle: who has the semaphore gives it back, and main *)
(* stops the server last but waits for no thread that waits for main.      *)
THEOREM NoDeadlockHolds == Spec => []NoDeadlock
<1>1. IInv /\ (mpc # "serve" => ~running) => NoDeadlock
  <2> SUFFICES ASSUME IInv, mpc # "serve" => ~running, mpc = "stop"
               PROVE  NoDeadlock
    BY DEF NoDeadlock
  <2>1. ~running
    OBVIOUS
  <2>2. /\ outputQueueLock \in Callers \cup {Worker, Nobody}
        /\ callersLeft \subseteq Callers
        /\ \A c \in Callers : cpc[c] \in {"idle", "wait", "add"}
        /\ \A c \in Callers \ callersLeft : cpc[c] = "idle"
        /\ \A c \in Callers : cpc[c] = "add" <=> outputQueueLock = c
        /\ wpc = "take" <=> outputQueueLock = Worker
    BY DEF IInv, TypeOK, HolderAlone, Stopped
  <2>3. ASSUME callersLeft # {}, wpc # "take"
        PROVE  \E c \in callersLeft : CanBeStopped(c) \/ CanGoOn(c)
    <3>1. CASE outputQueueLock \in Callers
      BY <2>2, <3>1 DEF CanGoOn
    <3>2. CASE outputQueueLock = Nobody /\ \E c \in callersLeft : cpc[c] # "idle"
      BY <2>2, <3>2 DEF CanGoOn
    <3>3. CASE \A c \in callersLeft : cpc[c] = "idle"
      BY <2>3, <3>3 DEF CanBeStopped
    <3> QED
      BY <2>2, <2>3, <3>1, <3>2, <3>3
  <2>4. ASSUME callersLeft = {}, wpc = "wait" PROVE outputQueueLock = Nobody
    BY <2>2, <2>4
  <2> QED
    BY <2>1, <2>3, <2>4 DEF NoDeadlock
<1> QED
  BY <1>1, IInvHolds, ServingWhileRunning, PTL

=============================================================================
