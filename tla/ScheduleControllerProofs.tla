----------------------- MODULE ScheduleControllerProofs -----------------------
(***************************************************************************)
(* Theorems about ScheduleController, for any schedules, references and    *)
(* priorities, any number of entries and any clock bound.                  *)
(***************************************************************************)
EXTENDS ScheduleController, Positions, SequenceTheorems

-----------------------------------------------------------------------------
(* The pass over the list.                                                 *)

Candidates == Schedules \cup {NULL}

LEMMA BetterType ==
  ASSUME NEW b \in Candidates, NEW s \in Schedules
  PROVE  Better(b, s) \in Candidates
BY DEF Better, Candidates

(* Best is the pass that starts with NULL and takes the better schedule.   *)
LEMMA BestUnfolds ==
  ASSUME schedules \in Seq(Schedules)
  PROVE  Best = [i \in 0..Len(schedules) |->
                   IF i = 0 THEN NULL ELSE Better(Best[i - 1], schedules[i])]
<1> DEFINE f == [i \in 1..Len(schedules) |->
                   [b \in Candidates |-> Better(b, schedules[i])]]
<1>1. f \in [1..Len(schedules) -> [Candidates -> Candidates]]
  <2>1. \A i \in 1..Len(schedules) : schedules[i] \in Schedules
    OBVIOUS
  <2> QED
    BY <2>1, BetterType
<1>2. PICK g \in [0..Len(schedules) -> Candidates] :
        IsPassOf(g, Len(schedules), NULL, f)
  <2>1. NULL \in Candidates /\ Len(schedules) \in Nat
    BY DEF Candidates
  <2> HIDE DEF f
  <2> QED
    BY <1>1, <2>1, PassOfExists
<1>3. ASSUME NEW i \in 0..Len(schedules)
      PROVE  g[i] = IF i = 0 THEN NULL ELSE Better(g[i - 1], schedules[i])
  <2>1. i # 0 => i \in 1..Len(schedules) /\ g[i - 1] \in Candidates
    OBVIOUS
  <2> QED
    BY <1>2, <2>1 DEF IsPassOf
<1>4. g = [i \in 0..Len(schedules) |->
             IF i = 0 THEN NULL ELSE Better(g[i - 1], schedules[i])]
  BY <1>3
<1> QED
  BY <1>4, Zenon DEF Best

-----------------------------------------------------------------------------
(* The pass finds the winner.                                              *)

Lists ==
  /\ schedules \in Seq(Schedules)
  /\ \A i, j \in DOMAIN schedules : schedules[i] = schedules[j] => i = j

Readable ==
  /\ Lists
  /\ running \in [Schedules -> BOOLEAN]
  /\ startTime \in [Schedules -> Nat]
  /\ prio \in [Schedules -> Int]

(* The schedule at position k comes before the one at position j.          *)
Ahead(k, j) ==
  LET s == schedules[k]
      t == schedules[j]
  IN  \/ prio[s] > prio[t]
      \/ prio[s] = prio[t] /\ startTime[s] > startTime[t]
      \/ prio[s] = prio[t] /\ startTime[s] = startTime[t] /\ k < j

(* b is what runs and comes first of the first i schedules of the list.    *)
BestOf(b, i) ==
  \/ b = NULL /\ \A j \in 1..i : ~running[schedules[j]]
  \/ \E k \in 1..i :
       /\ b = schedules[k] /\ running[b]
       /\ \A j \in 1..i : running[schedules[j]] /\ j # k => Ahead(k, j)

LEMMA BetterIsBest ==
  ASSUME Readable, NEW i \in 0..(Len(schedules) - 1), NEW b \in Candidates,
         BestOf(b, i)
  PROVE  BestOf(Better(b, schedules[i + 1]), i + 1)
<1> DEFINE s == schedules[i + 1]
           c == Better(b, s)
<1>1. s \in Schedules /\ s # NULL /\ i + 1 \in 1..(i + 1)
  BY ScheduleAssumption DEF Readable, Lists
<1>2. \A j \in 1..(i + 1) : j \in 1..i \/ j = i + 1
  OBVIOUS
<1>3. \A j \in 1..(i + 1) : schedules[j] \in Schedules
  BY DEF Readable, Lists
<1>4. CASE ~running[s]
  <2>1. c = b
    BY <1>4 DEF Better
  <2> QED
    BY <1>2, <1>4, <2>1 DEF BestOf
<1>5. CASE running[s] /\ b = NULL
  <2>1. c = s
    BY <1>5 DEF Better
  <2>2. \A j \in 1..i : ~running[schedules[j]]
    <3>1. ASSUME NEW k \in 1..i PROVE schedules[k] # NULL
      BY <1>3, ScheduleAssumption
    <3> QED
      BY <1>5, <3>1 DEF BestOf
  <2> QED
    BY <1>1, <1>2, <1>5, <2>1, <2>2 DEF BestOf
<1>6. CASE running[s] /\ b # NULL
  <2>1. PICK k \in 1..i :
          /\ b = schedules[k] /\ running[b]
          /\ \A j \in 1..i : running[schedules[j]] /\ j # k => Ahead(k, j)
    BY <1>6 DEF BestOf
  <2>2. /\ prio[s] \in Int /\ startTime[s] \in Int
        /\ \A j \in 1..(i + 1) :
             prio[schedules[j]] \in Int /\ startTime[schedules[j]] \in Int
    BY <1>1, <1>3 DEF Readable
  <2>3. k \in 1..(i + 1) /\ k < i + 1 /\ k # i + 1
    OBVIOUS
  <2>4. CASE prio[s] > prio[b] \/ (prio[s] = prio[b] /\ startTime[s] > startTime[b])
    <3>1. c = s
      BY <1>6, <2>4 DEF Better
    <3>2. Ahead(i + 1, k)
      BY <2>1, <2>4 DEF Ahead
    <3>3. ASSUME NEW j \in 1..i, running[schedules[j]] PROVE Ahead(i + 1, j)
      <4>1. j = k \/ Ahead(k, j)
        BY <2>1, <3>3
      <4>2. j \in 1..(i + 1)
        OBVIOUS
      <4> QED
        BY <2>1, <2>2, <2>3, <2>4, <3>2, <4>1, <4>2 DEF Ahead
    <3> QED
      BY <1>1, <1>2, <1>6, <3>1, <3>3 DEF BestOf
  <2>5. CASE ~(prio[s] > prio[b] \/ (prio[s] = prio[b] /\ startTime[s] > startTime[b]))
    <3>1. c = b
      BY <1>6, <2>5 DEF Better
    <3>2. Ahead(k, i + 1)
      BY <2>1, <2>2, <2>3, <2>5 DEF Ahead
    <3>3. ASSUME NEW j \in 1..(i + 1), running[schedules[j]], j # k
          PROVE  Ahead(k, j)
      BY <1>2, <2>1, <3>2, <3>3
    <3> QED
      BY <2>1, <2>3, <3>1, <3>3 DEF BestOf
  <2> QED
    BY <2>4, <2>5
<1> QED
  BY <1>4, <1>5, <1>6

LEMMA PassIsBest ==
  ASSUME Readable
  PROVE  GetActiveSchedule \in Candidates /\ BestOf(GetActiveSchedule, Len(schedules))
<1> DEFINE S == {i \in 0..Len(schedules) : Best[i] \in Candidates /\ BestOf(Best[i], i)}
<1>1. Len(schedules) \in Nat /\ schedules \in Seq(Schedules)
  BY DEF Readable, Lists
<1>2. \A i \in 0..Len(schedules) :
        Best[i] = IF i = 0 THEN NULL ELSE Better(Best[i - 1], schedules[i])
  BY <1>1, BestUnfolds
<1>3. 0 \in S
  <2>1. Best[0] = NULL
    BY <1>1, <1>2
  <2> QED
    BY <1>1, <2>1 DEF BestOf, Candidates
<1>4. ASSUME NEW i \in 0..(Len(schedules) - 1), i \in S PROVE i + 1 \in S
  <2>1. Best[i + 1] = Better(Best[i], schedules[i + 1])
    <3>1. i + 1 \in 0..Len(schedules) /\ i + 1 # 0 /\ (i + 1) - 1 = i
      BY <1>1
    <3> QED
      BY <1>2, <3>1
  <2>2. BestOf(Best[i + 1], i + 1)
    BY <1>4, <2>1, BetterIsBest
  <2>3. Best[i + 1] \in Candidates
    BY <1>1, <1>4, <2>1, BetterType
  <2> QED
    BY <1>1, <2>2, <2>3
<1> HIDE DEF S
<1>5. 0..Len(schedules) \subseteq S
  BY <1>1, <1>3, <1>4, PositionInduction
<1>6. Len(schedules) \in S
  BY <1>1, <1>5
<1> QED
  BY <1>6 DEF S, GetActiveSchedule

(* What it means to be the winner, without choice.                         *)
Wins(w) ==
  \/ w = NULL /\ Runners = {}
  \/ w \in Runners /\ \A t \in Runners \ {w} : ComesBefore(w, t)

LEMMA PositionIs ==
  ASSUME Lists, NEW k \in DOMAIN schedules
  PROVE  Position(schedules[k]) = k
BY DEF Lists, Position

LEMMA PassFindsWinner == ASSUME Readable PROVE Wins(GetActiveSchedule)
<1>1. BestOf(GetActiveSchedule, Len(schedules))
  BY PassIsBest
<1>2. DOMAIN schedules = 1..Len(schedules)
  BY DEF Readable, Lists
<1>3. ToSet(schedules) = {schedules[k] : k \in 1..Len(schedules)}
  BY <1>2 DEF ToSet
<1>4. CASE GetActiveSchedule = NULL /\ \A j \in 1..Len(schedules) : ~running[schedules[j]]
  BY <1>3, <1>4 DEF Wins, Runners
<1>5. ASSUME NEW k \in 1..Len(schedules),
             GetActiveSchedule = schedules[k], running[schedules[k]],
             \A j \in 1..Len(schedules) :
               running[schedules[j]] /\ j # k => Ahead(k, j)
      PROVE  Wins(GetActiveSchedule)
  <2>1. schedules[k] \in Runners
    BY <1>3, <1>5 DEF Runners
  <2>2. ASSUME NEW t \in Runners \ {schedules[k]} PROVE ComesBefore(schedules[k], t)
    <3>1. PICK j \in 1..Len(schedules) : t = schedules[j] /\ running[t]
      BY <1>3 DEF Runners
    <3>2. Ahead(k, j)
      BY <1>5, <3>1
    <3>3. Position(schedules[k]) = k /\ Position(t) = j
      BY <1>2, <3>1, PositionIs DEF Readable
    <3> QED
      BY <3>1, <3>2, <3>3 DEF Ahead, ComesBefore, Outranks, Tied
  <2> QED
    BY <1>5, <2>1, <2>2 DEF Wins
<1> QED
  BY <1>1, <1>4, <1>5 DEF BestOf

LEMMA OneWinner ==
  ASSUME Readable, NEW v, NEW w, Wins(v), Wins(w)
  PROVE  v = w
<1> SUFFICES ASSUME v # w PROVE FALSE
  OBVIOUS
<1>1. v \in Runners /\ w \in Runners
  BY DEF Wins
<1>2. ComesBefore(v, w) /\ ComesBefore(w, v)
  BY <1>1 DEF Wins
<1>3. PICK i \in DOMAIN schedules, j \in DOMAIN schedules :
        v = schedules[i] /\ w = schedules[j]
  BY <1>1 DEF Runners, ToSet
<1>4. i \in Int /\ j \in Int /\ v \in Schedules /\ w \in Schedules
  BY <1>3 DEF Readable, Lists
<1>5. Position(v) = i /\ Position(w) = j
  BY <1>3, PositionIs DEF Readable
<1>6. /\ prio[v] \in Int /\ prio[w] \in Int
      /\ startTime[v] \in Int /\ startTime[w] \in Int
  BY <1>4 DEF Readable
<1> QED
  BY <1>2, <1>4, <1>5, <1>6 DEF ComesBefore, Outranks, Tied

(* The winner wins, and nobody else.                                       *)
LEMMA WinnerWins == ASSUME Readable PROVE Wins(Winner)
<1>1. PICK w : Wins(w)
  BY PassFindsWinner
<1>2. CASE Runners = {}
  BY <1>2 DEF Winner, Wins
<1>3. CASE Runners # {}
  <2>1. \E s \in Runners : \A t \in Runners \ {s} : ComesBefore(s, t)
    BY <1>1, <1>3 DEF Wins
  <2>2. Winner = CHOOSE s \in Runners : \A t \in Runners \ {s} : ComesBefore(s, t)
    BY <1>3 DEF Winner
  <2>3. Winner \in Runners /\ \A t \in Runners \ {Winner} : ComesBefore(Winner, t)
    BY <2>1, <2>2, Zenon
  <2> QED
    BY <2>3 DEF Wins
<1> QED
  BY <1>2, <1>3

-----------------------------------------------------------------------------
(* Type correctness, and what the threads have chosen.                     *)

(* A thread that is about to make a schedule active has chosen one.        *)
Chosen == \A t \in Threads : pc[t] \in {"switch", "prioSwitch"} => win[t] \in Schedules

Started == \A s \in Schedules : startTime[s] <= now

(* No entry is published before it is due.                                 *)
Published == \A s \in Schedules : currentEntryIdx[s] <= CurrentIdx(s)

(* The list has no duplicates, and its schedules know the controller, as   *)
(* do those that are active or about to be.                                *)
Connected ==
  /\ Lists
  /\ ToSet(schedules) \subseteq listening
  /\ activeSchedule \in listening \cup {NULL}
  /\ \A t \in Threads : win[t] \in listening \cup {NULL}

CInv == TypeOK /\ Chosen /\ Started /\ Published /\ Connected

LEMMA IsReadable == ASSUME CInv PROVE Readable
BY ConfigurationAssumption DEF CInv, TypeOK, Connected, Readable

(* Of a start time that is over, an entry is due, and a later one later.   *)
LEMMA DueIdxGrows ==
  ASSUME NEW s \in Nat, NEW t \in Nat, NEW u \in Nat, s <= t, t <= u,
         NEW d \in Nat, d # 0
  PROVE  /\ (t - s) \div d \in Nat
         /\ (t - s) \div d <= (u - s) \div d
<1>1. t - s \in Nat /\ u - s \in Nat /\ t - s <= u - s /\ d > 0
  OBVIOUS
<1> QED
  BY <1>1

LEMMA CurrentIdxType ==
  ASSUME now \in Nat, NEW s \in Schedules, startTime[s] \in Nat, startTime[s] <= now
  PROVE  CurrentIdx(s) \in Nat
<1>1. EntryDuration \in Nat /\ EntryDuration # 0
  BY RunAssumption
<1> QED
  BY <1>1, DueIdxGrows DEF CurrentIdx

LEMMA CurrentValueType ==
  ASSUME CInv, NEW s \in Schedules
  PROVE  /\ CurrentIdx(s) \in Nat
         /\ CurrentIdx(s) < Entries => EntryValue(s, CurrentIdx(s)) \in Values
         /\ GetCurrentValue(s) \in Values \cup {NULL}
<1>1. now \in Nat /\ startTime[s] \in Nat /\ startTime[s] <= now
  BY DEF CInv, TypeOK, Started
<1>2. CurrentIdx(s) \in Nat
  BY <1>1, CurrentIdxType
<1>3. CurrentIdx(s) < Entries => CurrentIdx(s) \in 0..(Entries - 1)
  BY <1>2, RunAssumption
<1> QED
  BY <1>1, <1>2, <1>3 DEF Values, EntryValue, GetCurrentValue

(* While the clock goes on, so does the index.                             *)
LEMMA LaterIdx ==
  ASSUME CInv, NEW s \in Schedules, now' = now + 1, startTime' = startTime
  PROVE  /\ CurrentIdx(s) \in Nat
         /\ CurrentIdx(s) <= CurrentIdx(s)'
<1>1. /\ now \in Nat /\ now + 1 \in Nat /\ startTime[s] \in Nat
      /\ startTime[s] <= now /\ now <= now + 1
      /\ EntryDuration \in Nat /\ EntryDuration # 0
  BY RunAssumption DEF CInv, TypeOK, Started
<1>2. CurrentIdx(s)' = (now' - startTime'[s]) \div EntryDuration
  BY DEF CurrentIdx
<1>3. CurrentIdx(s)' = ((now + 1) - startTime[s]) \div EntryDuration
  BY <1>2, Zenon
<1> QED
  BY <1>1, <1>3, DueIdxGrows DEF CurrentIdx

(* What the pass chooses knows the controller.                             *)
LEMMA ChoiceListens ==
  ASSUME CInv
  PROVE  GetActiveSchedule \in listening \cup {NULL}
<1>1. Wins(GetActiveSchedule)
  BY IsReadable, PassFindsWinner
<1> QED
  BY <1>1 DEF Wins, Runners, CInv, Connected

(* A step that leaves the entries and the clock.                           *)
LEMMA EntriesKept ==
  ASSUME Started, Published, UNCHANGED <<now, startTime, currentEntryIdx>>
  PROVE  Started' /\ Published'
<1>1. \A s \in Schedules : CurrentIdx(s)' = CurrentIdx(s)
  BY DEF CurrentIdx
<1> QED
  BY <1>1 DEF Started, Published

(* The state in which the program starts, whatever the clock says.         *)
StartState ==
  /\ running = [s \in Schedules |-> FALSE]
  /\ startTime = [s \in Schedules |-> 0]
  /\ currentEntryIdx = [s \in Schedules |-> NoEntry]
  /\ prio = [s \in Schedules |-> ConfPrio]
  /\ schdRef = ConfSchdRef
  /\ schedules = ConfSchedules
  /\ listening = ToSet(ConfSchedules)
  /\ activeSchedule = NULL /\ actSchdRef = NULL
  /\ curVal = NULL /\ target = NULL
  /\ pc = [t \in Threads |-> "idle"]
  /\ win = [t \in Threads |-> NULL]
  /\ val = [t \in Threads |-> NULL]
  /\ disturbed = FALSE
  /\ outputState = "settled"

LEMMA CInvStart == StartState /\ now \in Nat => CInv
<1> SUFFICES ASSUME StartState, now \in Nat PROVE CInv
  OBVIOUS
<1> USE ScheduleAssumption, ConfigurationAssumption, RunAssumption DEF StartState
<1>1. listening = ToSet(schedules) /\ listening \subseteq Schedules
  BY DEF ToSet
<1>2. TypeOK
  BY <1>1 DEF TypeOK, NoEntry
<1>3. Chosen /\ Started /\ Connected
  BY <1>1 DEF Chosen, Started, Connected, Lists
<1>4. Published
  <2>1. \A s \in Schedules : CurrentIdx(s) \in Nat
    BY CurrentIdxType
  <2> QED
    BY <2>1 DEF Published, NoEntry
<1> QED
  BY <1>2, <1>3, <1>4 DEF CInv

LEMMA CInvInit == Init => CInv
BY CInvStart DEF Init, StartState

(* The steps. *)

LEMMA ListKept ==
  ASSUME Connected, UNCHANGED <<listVars, activeSchedule, win>>
  PROVE  Connected'
BY DEF Connected, Lists, listVars

(* A call to the controller leaves a position and the history variables.   *)
Positions == Deciding \cup {"idle", "value", "showValue", "target", "showNoRef", "ended"}

OutputStates == {"settled", "owed", "mixed"}

LEMMA CallType ==
  ASSUME TypeOK, NEW t \in Threads, NEW s, NEW c \in Positions, Call(t, s, c)
  PROVE  pc' \in [Threads -> Positions]
<1>1. pc \in [Threads -> Positions] /\ "idle" \in Positions
  BY DEF TypeOK, Positions
<1> QED
  BY <1>1 DEF Call, Goto

LEMMA DisturbsType ==
  ASSUME TypeOK, NEW s, NEW heals \in BOOLEAN, Disturbs(s, heals)
  PROVE  disturbed' \in BOOLEAN
<1>1. disturbed \in BOOLEAN
  BY DEF TypeOK
<1>2. CASE s \notin listening
  BY <1>1, <1>2 DEF Disturbs
<1>3. CASE s \in listening /\ NobodyDecides
  BY <1>1, <1>3, Zenon DEF Disturbs
<1>4. CASE s \in listening /\ ~NobodyDecides
  BY <1>1, <1>4, Zenon DEF Disturbs
<1> QED
  BY <1>2, <1>3, <1>4

LEMMA OverlapsType ==
  ASSUME TypeOK, NEW s, Overlaps(s)
  PROVE  outputState' \in OutputStates
<1>1. outputState \in OutputStates
  BY DEF TypeOK, OutputStates
<1>2. CASE s \notin listening
  BY <1>1, <1>2 DEF Overlaps
<1>3. CASE s \in listening /\ NobodyCalls
  BY <1>1, <1>3 DEF Overlaps, OutputStates
<1>4. CASE s \in listening /\ ~NobodyCalls
  BY <1>1, <1>4 DEF Overlaps, OutputStates
<1> QED
  BY <1>2, <1>3, <1>4

LEMMA StartRunKeeps ==
  ASSUME CInv, NEW s \in Schedules, NEW t \in StartTimes, StartRun(s, t)
  PROVE  CInv'
<1> USE RunAssumption, ScheduleAssumption DEF CInv, StartRun, Call, Goto, outputVars
<1>1. TypeOK'
  <2>1. s \in Threads /\ "state" \in Positions
    BY DEF Threads, Positions, Deciding
  <2>2. /\ pc' \in [Threads -> Positions] /\ disturbed' \in BOOLEAN
        /\ outputState' \in OutputStates
    BY <2>1, CallType, DisturbsType, OverlapsType
  <2> QED
    BY <2>2 DEF TypeOK, listVars, NoEntry, Positions, OutputStates
<1>2. Started'
  BY DEF Started, TypeOK
<1>3. Published'
  <2>1. CurrentIdx(s)' \in Nat /\ currentEntryIdx'[s] = NoEntry
    <3>1. now' \in Nat /\ startTime'[s] \in Nat /\ startTime'[s] <= now'
      BY <1>1, <1>2 DEF TypeOK, Started
    <3>2. (now' - startTime'[s]) \div EntryDuration \in Nat
      BY <3>1, DueIdxGrows
    <3> QED
      BY <3>2 DEF CurrentIdx, TypeOK
  <2>2. ASSUME NEW u \in Schedules, u # s
        PROVE  CurrentIdx(u)' = CurrentIdx(u) /\ currentEntryIdx'[u] = currentEntryIdx[u]
    BY <2>2 DEF CurrentIdx, TypeOK
  <2> QED
    BY <2>1, <2>2 DEF Published, NoEntry
<1>4. Chosen'
  BY DEF Chosen, TypeOK
<1> QED
  BY <1>1, <1>2, <1>3, <1>4, ListKept

LEMMA NewEntryKeeps ==
  ASSUME CInv, NEW s \in Schedules, NewEntry(s)
  PROVE  CInv'
<1> USE RunAssumption, ScheduleAssumption DEF CInv, NewEntry, Call, Goto, outputVars
<1>1. CurrentIdx(s) \in 0..(Entries - 1)
  BY CurrentValueType
<1>2. val'[s] \in Values \cup {NULL} /\ outputState' \in OutputStates
  BY CurrentValueType, OverlapsType DEF TypeOK, Threads
<1>3. TypeOK'
  BY <1>1, <1>2 DEF TypeOK, listVars, Threads, OutputStates
<1>4. Started'
  BY DEF Started
<1>5. Published'
  <2>1. \A u \in Schedules : CurrentIdx(u)' = CurrentIdx(u)
    BY DEF CurrentIdx
  <2>2. ASSUME NEW u \in Schedules
        PROVE  currentEntryIdx'[u] = IF u = s THEN CurrentIdx(s) ELSE currentEntryIdx[u]
    BY DEF TypeOK
  <2> QED
    BY <1>1, <2>1, <2>2 DEF Published
<1>6. Chosen'
  BY DEF Chosen, TypeOK
<1> QED
  BY <1>3, <1>4, <1>5, <1>6, ListKept

LEMMA NotRunningKeeps ==
  ASSUME CInv, NEW t \in Threads, NEW s \in Schedules, SetNotRunning(t, s)
  PROVE  CInv'
<1> USE DEF CInv, SetNotRunning, Call, Goto, outputVars
<1>1. TypeOK'
  <2>1. "state" \in Positions
    BY DEF Positions, Deciding
  <2>2. /\ pc' \in [Threads -> Positions] /\ disturbed' \in BOOLEAN
        /\ outputState' \in OutputStates
    BY <2>1, CallType, DisturbsType, OverlapsType
  <2> QED
    BY <2>2 DEF TypeOK, listVars, NoEntry, Positions, OutputStates
<1>2. Started'
  BY DEF Started
<1>3. Published'
  <2>1. \A u \in Schedules : CurrentIdx(u)' = CurrentIdx(u) /\ CurrentIdx(u) \in Nat
    BY CurrentValueType DEF CurrentIdx
  <2>2. ASSUME NEW u \in Schedules
        PROVE  currentEntryIdx'[u] = IF u = s THEN NoEntry ELSE currentEntryIdx[u]
    BY DEF TypeOK
  <2> QED
    BY <2>1, <2>2 DEF Published, NoEntry
<1>4. Chosen'
  BY DEF Chosen, TypeOK
<1> QED
  BY <1>1, <1>2, <1>3, <1>4, ListKept

LEMMA WritePrioKeeps ==
  ASSUME CInv, NEW s \in Schedules, NEW p \in Prios, WritePrio(s, p)
  PROVE  CInv'
<1> USE DEF CInv, WritePrio, Call, Goto, outputVars
<1>1. TypeOK'
  <2>1. Server \in Threads /\ "prio" \in Positions
    BY DEF Threads, Positions, Deciding
  <2>2. /\ pc' \in [Threads -> Positions] /\ disturbed' \in BOOLEAN
        /\ outputState' \in OutputStates
    BY <2>1, CallType, DisturbsType, OverlapsType
  <2> QED
    BY <2>2 DEF TypeOK, listVars, Positions, OutputStates
<1>2. Chosen'
  BY DEF Chosen, TypeOK
<1> QED
  BY <1>1, <1>2, EntriesKept, ListKept

(* A step within a callback.                                               *)
LEMMA CallbackKeeps ==
  ASSUME CInv, UNCHANGED <<now, scheduleVars, listVars>>, TypeOK', Chosen',
         activeSchedule' \in listening \cup {NULL},
         \A t \in Threads : win'[t] \in listening \cup {NULL}
  PROVE  CInv'
<1>1. Connected'
  BY DEF CInv, Connected, Lists, listVars
<1> QED
  BY <1>1, EntriesKept DEF CInv, scheduleVars

LEMMA StateUpdatedKeeps ==
  ASSUME CInv, NEW t \in Threads, StateUpdated(t)
  PROVE  CInv'
<1> USE DEF CInv, At, Goto, Return, outputVars, WritesOutputs
<1>w. /\ activeSchedule \in listening \cup {NULL}
      /\ \A u \in Threads : win[u] \in listening \cup {NULL}
  BY DEF Connected
<1>1. CASE DecideOnState(t)
  <2>1. GetActiveSchedule \in Candidates /\ GetActiveSchedule \in listening \cup {NULL}
    BY IsReadable, PassIsBest, ChoiceListens
  <2>2. TypeOK'
    BY <1>1, <2>1 DEF DecideOnState, TypeOK, Candidates, Deciding, listVars, scheduleVars
  <2>3. Chosen' /\ \A u \in Threads : win'[u] \in listening \cup {NULL}
    BY <1>1, <1>w, <2>1 DEF DecideOnState, Chosen, Candidates, TypeOK
  <2> QED
    BY <1>1, <1>w, <2>2, <2>3, CallbackKeeps DEF DecideOnState
<1>2. CASE SwitchSchedule(t)
  <2>1. win[t] \in Schedules
    BY <1>2 DEF SwitchSchedule, Chosen
  <2>2. GetCurrentValue(win[t]) \in Values \cup {NULL}
    BY <2>1, CurrentValueType
  <2>3. TypeOK'
    BY <1>2, <2>1, <2>2 DEF SwitchSchedule, TypeOK, Deciding, listVars, scheduleVars
  <2>4. Chosen' /\ \A u \in Threads : win'[u] \in listening \cup {NULL}
    BY <1>2, <1>w DEF SwitchSchedule, Chosen, TypeOK
  <2>5. activeSchedule' \in listening \cup {NULL}
    BY <1>2, <1>w DEF SwitchSchedule
  <2> QED
    BY <1>2, <2>3, <2>4, <2>5, CallbackKeeps DEF SwitchSchedule
<1>3. CASE ShowSchedule(t)
  <2>1. TypeOK' /\ Chosen'
    BY <1>3 DEF ShowSchedule, TypeOK, listVars, scheduleVars, Chosen
  <2> QED
    BY <1>3, <1>w, <2>1, CallbackKeeps DEF ShowSchedule
<1>4. CASE UpdateTarget(t)
  <2>1. TypeOK' /\ Chosen'
    BY <1>4 DEF UpdateTarget, TypeOK, listVars, scheduleVars, Chosen
  <2>2. \A u \in Threads : win'[u] \in listening \cup {NULL}
    BY <1>4, <1>w DEF UpdateTarget, TypeOK
  <2> QED
    BY <1>4, <1>w, <2>1, <2>2, CallbackKeeps DEF UpdateTarget
<1>5. CASE ShowNoSchedule(t)
  <2>1. TypeOK' /\ Chosen'
    BY <1>5 DEF ShowNoSchedule, TypeOK, Deciding, listVars, scheduleVars, Chosen
  <2> QED
    BY <1>5, <1>w, <2>1, CallbackKeeps DEF ShowNoSchedule
<1>6. CASE ClearTarget(t)
  <2>1. TypeOK' /\ Chosen'
    BY <1>6 DEF ClearTarget, TypeOK, Deciding, listVars, scheduleVars, Chosen
  <2> QED
    BY <1>6, <1>w, <2>1, CallbackKeeps DEF ClearTarget
<1>7. CASE ForgetSchedule(t)
  <2>1. TypeOK' /\ Chosen'
    BY <1>7 DEF ForgetSchedule, TypeOK, listVars, scheduleVars, Chosen
  <2> QED
    BY <1>7, <1>w, <2>1, CallbackKeeps DEF ForgetSchedule
<1> QED
  BY <1>1, <1>2, <1>3, <1>4, <1>5, <1>6, <1>7 DEF StateUpdated

LEMMA PrioUpdatedKeeps ==
  ASSUME CInv, NEW t \in Threads, PrioUpdated(t)
  PROVE  CInv'
<1> USE DEF CInv, At, Goto, outputVars, OwesOutputs
<1>w. /\ activeSchedule \in listening \cup {NULL}
      /\ \A u \in Threads : win[u] \in listening \cup {NULL}
  BY DEF Connected
<1>1. CASE DecideOnPrio(t)
  <2>1. GetActiveSchedule \in Candidates /\ GetActiveSchedule \in listening \cup {NULL}
    BY IsReadable, PassIsBest, ChoiceListens
  <2>2. TypeOK'
    BY <1>1, <2>1 DEF DecideOnPrio, TypeOK, Candidates, Deciding, listVars, scheduleVars
  <2>3. Chosen' /\ \A u \in Threads : win'[u] \in listening \cup {NULL}
    BY <1>1, <1>w, <2>1 DEF DecideOnPrio, Chosen, Candidates, TypeOK
  <2> QED
    BY <1>1, <1>w, <2>2, <2>3, CallbackKeeps DEF DecideOnPrio
<1>2. CASE SwitchOnPrio(t)
  <2>1. win[t] \in Schedules
    BY <1>2 DEF SwitchOnPrio, Chosen
  <2>2. TypeOK' /\ Chosen'
    BY <1>2, <2>1 DEF SwitchOnPrio, TypeOK, Deciding, listVars, scheduleVars, Chosen
  <2>3. \A u \in Threads : win'[u] \in listening \cup {NULL}
    BY <1>2, <1>w DEF SwitchOnPrio, TypeOK
  <2>4. activeSchedule' \in listening \cup {NULL}
    BY <1>2, <1>w DEF SwitchOnPrio
  <2> QED
    BY <1>2, <2>2, <2>3, <2>4, CallbackKeeps DEF SwitchOnPrio
<1>3. CASE ShowRef(t)
  <2>1. TypeOK' /\ Chosen'
    BY <1>3 DEF ShowRef, TypeOK, listVars, scheduleVars, Chosen
  <2> QED
    BY <1>3, <1>w, <2>1, CallbackKeeps DEF ShowRef
<1> QED
  BY <1>1, <1>2, <1>3 DEF PrioUpdated

LEMMA ValueUpdatedKeeps ==
  ASSUME CInv, NEW s \in Schedules, ValueUpdated(s)
  PROVE  CInv'
<1> USE DEF CInv, At, Goto, Return, outputVars, Threads
<1>w. /\ activeSchedule \in listening \cup {NULL}
      /\ \A u \in Threads : win[u] \in listening \cup {NULL}
  BY DEF Connected
<1>1. CASE CheckActive(s)
  <2>1. TypeOK' /\ Chosen'
    BY <1>1 DEF CheckActive, TypeOK, listVars, scheduleVars, Chosen
  <2>2. \A u \in Threads : win'[u] \in listening \cup {NULL}
    BY <1>1, <1>w DEF CheckActive, TypeOK
  <2> QED
    BY <1>1, <1>w, <2>1, <2>2, CallbackKeeps DEF CheckActive
<1>2. CASE ShowValue(s)
  <2>1. TypeOK' /\ Chosen'
    BY <1>2 DEF ShowValue, TypeOK, listVars, scheduleVars, Chosen
  <2> QED
    BY <1>2, <1>w, <2>1, CallbackKeeps DEF ShowValue
<1> QED
  BY <1>1, <1>2 DEF ValueUpdated

LEMMA FindEndKeeps ==
  ASSUME CInv, NEW s \in Schedules, FindEnd(s)
  PROVE  CInv'
<1>1. TypeOK' /\ Chosen'
  BY DEF CInv, FindEnd, Goto, scheduleVars, outputVars, Threads, TypeOK, listVars, Chosen
<1>2. /\ activeSchedule' \in listening \cup {NULL}
      /\ \A u \in Threads : win'[u] \in listening \cup {NULL}
  BY DEF CInv, Connected, FindEnd
<1> QED
  BY <1>1, <1>2, CallbackKeeps DEF FindEnd

LEMMA TickKeeps == ASSUME CInv, Tick PROVE CInv'
<1> USE DEF CInv, Tick, scheduleVars, outputVars, threadVars
<1>1. TypeOK'
  BY DEF TypeOK, listVars
<1>2. Started' /\ Chosen'
  BY DEF Started, Chosen, TypeOK
<1>3. Published'
  <2> SUFFICES ASSUME NEW s \in Schedules
               PROVE  currentEntryIdx'[s] <= CurrentIdx(s)'
    BY DEF Published
  <2>1. CurrentIdx(s) \in Nat /\ CurrentIdx(s) <= CurrentIdx(s)'
    BY LaterIdx
  <2>2. CurrentIdx(s)' \in Nat
    <3>1. now' \in Nat /\ startTime'[s] \in Nat /\ startTime'[s] <= now'
      BY <1>1, <1>2 DEF TypeOK, Started
    <3> QED
      BY <3>1, RunAssumption, DueIdxGrows DEF CurrentIdx
  <2>3. currentEntryIdx'[s] = currentEntryIdx[s] /\ currentEntryIdx[s] \in Int
    BY RunAssumption DEF TypeOK, NoEntry
  <2> QED
    BY <2>1, <2>2, <2>3 DEF Published
<1> QED
  BY <1>1, <1>2, <1>3, ListKept

LEMMA StutterKeeps == ASSUME CInv, UNCHANGED vars PROVE CInv'
<1> USE DEF CInv, vars, scheduleVars, outputVars, threadVars
<1>1. TypeOK' /\ Chosen'
  BY DEF TypeOK, listVars, Chosen
<1> QED
  BY <1>1, EntriesKept, ListKept

LEMMA CInvStep == ASSUME CInv, [Next]_vars PROVE CInv'
<1> USE DEF Threads
<1>1. CASE ScheduleStep
  BY <1>1, StartRunKeeps, NewEntryKeeps, FindEndKeeps, NotRunningKeeps
     DEF ScheduleStep, EndRun
<1>2. CASE ServerStep
  BY <1>2, NotRunningKeeps, WritePrioKeeps DEF ServerStep, OperateReq
<1>3. CASE CallbackStep
  BY <1>3, StateUpdatedKeeps, PrioUpdatedKeeps, ValueUpdatedKeeps DEF CallbackStep
<1>4. CASE Tick
  BY <1>4, TickKeeps
<1>5. CASE UNCHANGED vars
  BY <1>5, StutterKeeps
<1> QED
  BY <1>1, <1>2, <1>3, <1>4, <1>5 DEF Next

LEMMA CInvHolds == Spec => []CInv
<1>1. Init => CInv
  BY CInvInit
<1>2. CInv /\ [Next]_vars => CInv'
  BY CInvStep
<1> QED
  BY <1>1, <1>2, PTL DEF Spec

-----------------------------------------------------------------------------
(* Whatever the threads interleave, the state of the controller, of its    *)
(* schedules and of its callbacks keeps its type.                          *)
THEOREM TypeCorrect == Spec => []TypeOK
<1>1. CInv => TypeOK
  BY DEF CInv
<1> QED
  BY <1>1, CInvHolds, PTL

(* Without writes to the references the list stays as it is configured, in *)
(* the order of the references.                                            *)
LEMMA ListStays ==
  ASSUME [Next]_vars
  PROVE  UNCHANGED <<schdRef, schedules>>
<1>1. CASE ScheduleStep
  BY <1>1 DEF ScheduleStep, StartRun, NewEntry, FindEnd, EndRun, SetNotRunning,
     listVars
<1>2. CASE CallbackStep
  BY <1>2 DEF CallbackStep, StateUpdated, DecideOnState, SwitchSchedule,
     ShowSchedule, UpdateTarget, ShowNoSchedule, ClearTarget, ForgetSchedule,
     PrioUpdated, DecideOnPrio, SwitchOnPrio, ShowRef, ValueUpdated,
     CheckActive, ShowValue, listVars
<1>3. CASE Tick
  BY <1>3 DEF Tick, listVars
<1>4. CASE ServerStep
  BY <1>4 DEF ServerStep, OperateReq, WritePrio, SetNotRunning, listVars
<1>5. CASE UNCHANGED vars
  BY <1>5 DEF vars, listVars
<1> QED
  BY <1>1, <1>2, <1>3, <1>4, <1>5 DEF Next

AsConfigured == schdRef = ConfSchdRef /\ schedules = ConfSchedules

LEMMA FirstInList ==
  ASSUME CInv, AsConfigured, NEW s \in Runners, NEW t \in Runners,
         Position(s) < Position(t)
  PROVE  NamedFirst(s, t)
<1>1. PICK i \in DOMAIN schedules, j \in DOMAIN schedules :
        s = schedules[i] /\ t = schedules[j]
  BY DEF Runners, ToSet
<1>2. i < j
  BY <1>1, PositionIs DEF CInv, Connected
<1>3. PICK r \in SchdRefs : schdRef[r] = s
  <2>1. s \in ToSet(ConfSchedules)
    BY DEF Runners, AsConfigured
  <2> QED
    BY <2>1, ConfigurationAssumption DEF AsConfigured
<1>4. ASSUME NEW q \in SchdRefs, schdRef[q] = t PROVE r < q
  BY <1>1, <1>2, <1>3, <1>4, ConfigurationAssumption DEF AsConfigured
<1> QED
  BY <1>3, <1>4 DEF NamedFirst

(* While no reference is written, the pass of getActiveSchedule finds the  *)
(* one schedule that outranks the others that run, or is tied and named    *)
(* first, whatever the number of references, priorities and start times.   *)
THEOREM ArbitrationIsWinnerHolds == Spec => []ArbitrationIsWinner
<1>1. Init => AsConfigured
  BY DEF Init, AsConfigured
<1>2. AsConfigured /\ [Next]_vars => AsConfigured'
  BY ListStays DEF AsConfigured
<1>3. CInv /\ AsConfigured => ArbitrationIsWinner
  <2> SUFFICES ASSUME CInv, AsConfigured PROVE ArbitrationIsWinner
    OBVIOUS
  <2> DEFINE w == GetActiveSchedule
  <2>1. Wins(w)
    BY IsReadable, PassFindsWinner
  <2>2. NULL \notin Runners
    BY ScheduleAssumption DEF CInv, TypeOK, Runners, ToSet
  <2>3. ASSUME w \in Runners, NEW t \in Runners \ {w}, ComesBefore(w, t)
        PROVE  Outranks(w, t) \/ (Tied(w, t) /\ NamedFirst(w, t))
    BY <2>3, FirstInList DEF ComesBefore
  <2> QED
    BY <2>1, <2>2, <2>3 DEF Wins, ArbitrationIsWinner
<1> QED
  BY <1>1, <1>2, <1>3, CInvHolds, PTL DEF Spec

-----------------------------------------------------------------------------
(* An undisturbed decision settles on the winner.                          *)

Winners == {w \in Candidates : Wins(w)}

Settled == activeSchedule \in Winners /\ (activeSchedule = NULL => actSchdRef = NULL)

(* What a thread that decides alone knows at each of its positions.        *)
Knows(t) ==
  /\ pc[t] \in {"switch", "prioSwitch"} => win[t] \in Winners \ {NULL}
  /\ pc[t] \in {"show", "showRef"} => activeSchedule \in Winners \ {NULL}
  /\ pc[t] \in {"clear", "clearTarget", "forget"} => NULL \in Winners
  /\ pc[t] \in {"clearTarget", "forget"} => actSchdRef = NULL
  /\ pc[t] = "prio" /\ NULL \in Winners => activeSchedule = NULL /\ actSchdRef = NULL

Alone(t) == \A u \in Threads \ {t} : pc[u] \notin Deciding

SInv ==
  ~disturbed =>
    \/ NobodyDecides /\ Settled
    \/ \E t \in Threads : pc[t] \in Deciding /\ Alone(t) /\ Knows(t)

LEMMA NobodyWins ==
  ASSUME CInv
  PROVE  NULL \in Winners <=> Runners = {}
<1>1. Runners \subseteq Schedules
  BY DEF CInv, TypeOK, Runners, ToSet
<1>2. NULL \notin Runners
  BY <1>1, ScheduleAssumption
<1> QED
  BY <1>2 DEF Winners, Wins, Candidates

(* The winner depends only on the schedules of the list.                   *)
LEMMA WinnersKept ==
  ASSUME CInv, schedules' = schedules,
         \A s \in ToSet(schedules) :
           /\ running'[s] = running[s]
           /\ prio'[s] = prio[s]
           /\ startTime'[s] = startTime[s]
  PROVE  Winners' = Winners
<1>1. ToSet(schedules)' = ToSet(schedules)
  OBVIOUS
<1>2. Runners' = Runners
  BY <1>1 DEF Runners
<1>3. \A v, w \in Runners : ComesBefore(v, w)' = ComesBefore(v, w)
  BY DEF Runners, ComesBefore, Outranks, Tied, Position
<1>4. \A w \in Candidates : Wins(w)' = Wins(w)
  BY <1>2, <1>3 DEF Wins
<1> QED
  BY <1>4 DEF Winners, Candidates

LEMMA SInvStart == StartState /\ now \in Nat => SInv
<1> SUFFICES ASSUME StartState, now \in Nat PROVE SInv
  OBVIOUS
<1>1. NobodyDecides
  BY DEF StartState, NobodyDecides, Deciding
<1>2. CInv
  BY CInvStart
<1>3. Runners = {}
  BY <1>2 DEF StartState, Runners, CInv, TypeOK, ToSet
<1>4. Settled
  BY <1>2, <1>3, NobodyWins DEF StartState, Settled
<1> QED
  BY <1>1, <1>4 DEF SInv

LEMMA SInvInit == Init => SInv
BY SInvStart DEF Init, StartState

(* A step that no decision takes part in.                                  *)
LEMMA AsideKeeps ==
  ASSUME CInv, SInv, disturbed' = disturbed, Winners' = Winners,
         activeSchedule' = activeSchedule, actSchdRef' \in {actSchdRef, NULL},
         \A t \in Threads :
           \/ pc'[t] = pc[t] /\ win'[t] = win[t]
           \/ pc[t] \notin Deciding /\ pc'[t] \notin Deciding
  PROVE  SInv'
<1> SUFFICES ASSUME ~disturbed
             PROVE  \/ NobodyDecides' /\ Settled'
                    \/ \E t \in Threads : pc'[t] \in Deciding /\ Alone(t)' /\ Knows(t)'
  BY DEF SInv
<1>1. CASE NobodyDecides /\ Settled
  BY <1>1 DEF NobodyDecides, Settled
<1>2. ASSUME NEW t \in Threads, pc[t] \in Deciding, Alone(t), Knows(t)
      PROVE  pc'[t] \in Deciding /\ Alone(t)' /\ Knows(t)'
  <2>1. pc'[t] = pc[t] /\ win'[t] = win[t]
    BY <1>2
  <2>2. Alone(t)'
    BY <1>2 DEF Alone
  <2>3. Knows(t)'
    BY <1>2, <2>1 DEF Knows
  <2> QED
    BY <1>2, <2>1, <2>2, <2>3
<1> QED
  BY <1>1, <1>2 DEF SInv

(* A step of the thread that decides, alone.                               *)
LEMMA DeciderKeeps ==
  ASSUME SInv, NEW t \in Threads, pc[t] \in Deciding, disturbed' = disturbed,
         \A u \in Threads \ {t} : pc'[u] = pc[u],
         Knows(t) => \/ pc'[t] \in Deciding /\ Knows(t)'
                     \/ pc'[t] \notin Deciding /\ Settled'
  PROVE  SInv'
<1> SUFFICES ASSUME ~disturbed
             PROVE  \/ NobodyDecides' /\ Settled'
                    \/ pc'[t] \in Deciding /\ Alone(t)' /\ Knows(t)'
  BY DEF SInv
<1>1. Alone(t) /\ Knows(t)
  <2>1. PICK u \in Threads : pc[u] \in Deciding /\ Alone(u) /\ Knows(u)
    BY DEF SInv, NobodyDecides
  <2>2. u = t
    BY <2>1 DEF Alone
  <2> QED
    BY <2>1, <2>2
<1>2. Alone(t)'
  BY <1>1 DEF Alone
<1> QED
  BY <1>1, <1>2 DEF Alone, NobodyDecides

(* A call to the controller.                                               *)
LEMMA CallKeeps ==
  ASSUME CInv, SInv, NEW t \in Threads, NEW s \in Schedules,
         NEW c \in Deciding, NEW heals \in BOOLEAN,
         Call(t, s, c), Disturbs(s, heals), pc[t] \notin Deciding,
         activeSchedule' = activeSchedule, actSchdRef' = actSchdRef, win' = win,
         s \notin listening => Winners' = Winners,
         (heals \/ (NobodyDecides /\ Settled)) /\ pc'[t] = c => Knows(t)'
  PROVE  SInv'
<1> USE DEF Call, Goto
<1>1. pc \in [Threads -> Positions]
  BY DEF CInv, TypeOK, Positions
<1>2. CASE s \notin listening
  <2>1. disturbed' = disturbed
    BY <1>2 DEF Disturbs
  <2>2. pc'[t] \notin Deciding /\ \A u \in Threads \ {t} : pc'[u] = pc[u]
    BY <1>1, <1>2 DEF Deciding
  <2>3. \A u \in Threads : \/ pc'[u] = pc[u] /\ win'[u] = win[u]
                           \/ pc[u] \notin Deciding /\ pc'[u] \notin Deciding
    BY <2>2
  <2> QED
    BY <1>2, <2>1, <2>3, AsideKeeps
<1>3. CASE s \in listening /\ NobodyDecides
  <2>1. pc'[t] = c /\ \A u \in Threads \ {t} : pc'[u] = pc[u]
    BY <1>1, <1>3
  <2>2. Alone(t)'
    BY <1>3, <2>1 DEF Alone, NobodyDecides
  <2>3. disturbed' = (disturbed /\ ~heals)
    BY <1>3 DEF Disturbs
  <2>4. ASSUME ~disturbed' PROVE heals \/ (NobodyDecides /\ Settled)
    BY <1>3, <2>3, <2>4, Zenon DEF SInv, NobodyDecides
  <2>5. ~disturbed' => Knows(t)'
    BY <2>1, <2>4
  <2> QED
    BY <2>1, <2>2, <2>5 DEF SInv
<1>4. CASE s \in listening /\ ~NobodyDecides
  <2>1. disturbed'
    BY <1>4 DEF Disturbs
  <2> QED
    BY <2>1 DEF SInv
<1> QED
  BY <1>2, <1>3, <1>4

(* A schedule that the controller does not know is not in its list.        *)
LEMMA NotListed ==
  ASSUME CInv, NEW s \in Schedules, s \notin listening
  PROVE  \A u \in ToSet(schedules) : u \in Schedules /\ u # s
BY DEF CInv, TypeOK, Connected

LEMMA StartRunSettles ==
  ASSUME CInv, SInv, NEW s \in Schedules, NEW t \in StartTimes, StartRun(s, t)
  PROVE  SInv'
<1> USE DEF StartRun, outputVars, listVars
<1>1. s \in Threads /\ "state" \in Deciding /\ pc[s] \notin Deciding
  BY DEF Threads, Deciding, At
<1>2. ASSUME s \notin listening PROVE Winners' = Winners
  <2>1. \A u \in ToSet(schedules) :
          /\ running'[u] = running[u]
          /\ prio'[u] = prio[u]
          /\ startTime'[u] = startTime[u]
    BY <1>2, NotListed DEF CInv, TypeOK
  <2> QED
    BY <2>1, WinnersKept
<1>3. ASSUME pc'[s] = "state" PROVE Knows(s)'
  BY <1>3 DEF Knows
<1> QED
  BY <1>1, <1>2, <1>3, CallKeeps

LEMMA NotRunningSettles ==
  ASSUME CInv, SInv, NEW t \in Threads, NEW s \in Schedules, SetNotRunning(t, s),
         pc[t] \notin Deciding
  PROVE  SInv'
<1> USE DEF SetNotRunning, outputVars, listVars
<1>1. "state" \in Deciding
  BY DEF Deciding
<1>2. ASSUME s \notin listening PROVE Winners' = Winners
  <2>1. \A u \in ToSet(schedules) :
          /\ running'[u] = running[u]
          /\ prio'[u] = prio[u]
          /\ startTime'[u] = startTime[u]
    BY <1>2, NotListed DEF CInv, TypeOK
  <2> QED
    BY <2>1, WinnersKept
<1>3. ASSUME pc'[t] = "state" PROVE Knows(t)'
  BY <1>3 DEF Knows
<1> QED
  BY <1>1, <1>2, <1>3, CallKeeps

(* Priorities do not change which schedules run: when none does, there is  *)
(* no active schedule either.                                              *)
LEMMA WritePrioSettles ==
  ASSUME CInv, SInv, NEW s \in Schedules, NEW p \in Prios, WritePrio(s, p)
  PROVE  SInv'
<1> USE DEF WritePrio, outputVars, listVars
<1>1. Server \in Threads /\ "prio" \in Deciding /\ pc[Server] \notin Deciding
  BY DEF Threads, Deciding, At
<1>2. ASSUME s \notin listening PROVE Winners' = Winners
  <2>1. \A u \in ToSet(schedules) :
          /\ running'[u] = running[u]
          /\ prio'[u] = prio[u]
          /\ startTime'[u] = startTime[u]
    BY <1>2, NotListed DEF CInv, TypeOK
  <2> QED
    BY <2>1, WinnersKept
<1>3. ASSUME Settled, pc'[Server] = "prio" PROVE Knows(Server)'
  <2>1. Runners' = Runners
    BY DEF Runners
  <2>2. Runners \subseteq Schedules
    BY DEF CInv, TypeOK, Runners, ToSet
  <2>3. ASSUME NULL \in Winners' PROVE activeSchedule = NULL /\ actSchdRef = NULL
    <3>1. Runners = {}
      BY <2>1, <2>2, <2>3, ScheduleAssumption DEF Winners, Wins
    <3>2. activeSchedule = NULL
      BY <1>3, <3>1 DEF Settled, Winners, Wins
    <3> QED
      BY <1>3, <3>2 DEF Settled
  <2> QED
    BY <1>3, <2>3 DEF Knows
<1> QED
  BY <1>1, <1>2, <1>3, CallKeeps

(* The steps of a decision.                                                *)
LEMMA DecisionSettles ==
  ASSUME CInv, SInv, NEW t \in Threads,
         \/ DecideOnState(t) \/ SwitchSchedule(t) \/ ShowSchedule(t)
         \/ ShowNoSchedule(t) \/ ClearTarget(t) \/ ForgetSchedule(t)
         \/ DecideOnPrio(t) \/ SwitchOnPrio(t) \/ (At(t, "showRef") /\ ShowRef(t))
  PROVE  SInv'
<1> USE DEF At, Goto, scheduleVars, listVars, outputVars
<1> DEFINE Kept == \/ pc'[t] \in Deciding /\ Knows(t)'
                   \/ pc'[t] \notin Deciding /\ Settled'
<1>1. pc \in [Threads -> Positions] /\ win \in [Threads -> Schedules \cup {NULL}]
  BY DEF CInv, TypeOK, Positions
<1>2. Winners' = Winners
  BY WinnersKept DEF DecideOnState, SwitchSchedule, ShowSchedule, ShowNoSchedule,
     ClearTarget, ForgetSchedule, DecideOnPrio, SwitchOnPrio, ShowRef
<1>3. pc[t] \in Deciding
  BY DEF Deciding, DecideOnState, SwitchSchedule, ShowSchedule, ShowNoSchedule,
     ClearTarget, ForgetSchedule, DecideOnPrio, SwitchOnPrio
<1>4. disturbed' = disturbed /\ \A u \in Threads \ {t} : pc'[u] = pc[u]
  BY <1>1 DEF DecideOnState, SwitchSchedule, ShowSchedule, ShowNoSchedule,
     ClearTarget, ForgetSchedule, DecideOnPrio, SwitchOnPrio, ShowRef
<1>5. GetActiveSchedule \in Winners
  BY IsReadable, PassIsBest, PassFindsWinner DEF Winners
<1>6. ASSUME Knows(t) PROVE Kept
  <2>1. CASE DecideOnState(t)
    <3>1. CASE pc'[t] = "clear" /\ NULL \in Winners
      BY <1>2, <3>1 DEF Knows, Deciding
    <3>2. CASE pc'[t] = "switch" /\ win'[t] = GetActiveSchedule /\ GetActiveSchedule # NULL
      BY <1>2, <1>5, <3>2 DEF Knows, Deciding
    <3>3. CASE /\ pc'[t] = "idle" /\ activeSchedule' = GetActiveSchedule
               /\ GetActiveSchedule # NULL
      BY <1>2, <1>5, <3>3 DEF Settled, Deciding
    <3> QED
      BY <1>1, <1>5, <2>1, <3>1, <3>2, <3>3 DEF DecideOnState
  <2>2. CASE SwitchSchedule(t)
    <3>1. pc'[t] = "show" /\ activeSchedule' \in Winners' \ {NULL}
      BY <1>1, <1>2, <1>6, <2>2 DEF SwitchSchedule, Knows
    <3> QED
      BY <3>1 DEF Knows, Deciding
  <2>3. CASE ShowSchedule(t)
    <3>1. pc'[t] = "target" /\ activeSchedule' \in Winners' \ {NULL}
      BY <1>1, <1>2, <1>6, <2>3 DEF ShowSchedule, Knows
    <3> QED
      BY <3>1 DEF Settled, Deciding
  <2>4. CASE ShowNoSchedule(t)
    <3>1. pc'[t] = "clearTarget" /\ NULL \in Winners' /\ actSchdRef' = NULL
      BY <1>1, <1>2, <1>6, <2>4 DEF ShowNoSchedule, Knows
    <3> QED
      BY <3>1 DEF Knows, Deciding
  <2>5. CASE ClearTarget(t)
    <3>1. pc'[t] = "forget" /\ NULL \in Winners' /\ actSchdRef' = NULL
      BY <1>1, <1>2, <1>6, <2>5 DEF ClearTarget, Knows
    <3> QED
      BY <3>1 DEF Knows, Deciding
  <2>6. CASE ForgetSchedule(t)
    <3>1. pc'[t] = "idle" /\ NULL \in Winners' /\ actSchdRef' = NULL
          /\ activeSchedule' = NULL
      BY <1>1, <1>2, <1>6, <2>6 DEF ForgetSchedule, Knows
    <3> QED
      BY <3>1 DEF Settled, Deciding
  <2>7. CASE DecideOnPrio(t)
    <3>1. CASE pc'[t] = "showNoRef" /\ NULL \in Winners
      BY <1>2, <1>6, <2>7, <3>1 DEF DecideOnPrio, Knows, Settled, Deciding
    <3>2. CASE /\ pc'[t] = "prioSwitch" /\ win'[t] = GetActiveSchedule
               /\ GetActiveSchedule # NULL
      BY <1>2, <1>5, <3>2 DEF Knows, Deciding
    <3>3. CASE /\ pc'[t] = "idle" /\ activeSchedule' = GetActiveSchedule
               /\ GetActiveSchedule # NULL
      BY <1>2, <1>5, <3>3 DEF Settled, Deciding
    <3> QED
      BY <1>1, <1>5, <2>7, <3>1, <3>2, <3>3 DEF DecideOnPrio
  <2>8. CASE SwitchOnPrio(t)
    <3>1. pc'[t] = "showRef" /\ activeSchedule' \in Winners' \ {NULL}
      BY <1>1, <1>2, <1>6, <2>8 DEF SwitchOnPrio, Knows
    <3> QED
      BY <3>1 DEF Knows, Deciding
  <2>9. CASE At(t, "showRef") /\ ShowRef(t)
    <3>1. pc'[t] = "idle" /\ activeSchedule' \in Winners' \ {NULL}
      BY <1>1, <1>2, <1>6, <2>9 DEF ShowRef, Knows
    <3> QED
      BY <3>1 DEF Settled, Deciding
  <2> QED
    BY <2>1, <2>2, <2>3, <2>4, <2>5, <2>6, <2>7, <2>8, <2>9
<1> QED
  BY <1>3, <1>4, <1>6, DeciderKeeps

(* The other steps: of what is shown, of values, and of the clock.         *)
LEMMA OtherSettles ==
  ASSUME CInv, SInv,
         \/ \E t \in Threads : UpdateTarget(t) \/ (At(t, "showNoRef") /\ ShowRef(t))
         \/ \E s \in Schedules : NewEntry(s) \/ FindEnd(s) \/ ValueUpdated(s)
         \/ Tick \/ UNCHANGED vars
  PROVE  SInv'
<1> USE DEF At, Goto, Return, scheduleVars, listVars, outputVars, threadVars
<1>1. pc \in [Threads -> Positions] /\ win \in [Threads -> Schedules \cup {NULL}]
  BY DEF CInv, TypeOK, Positions
<1>2. /\ disturbed' = disturbed /\ Winners' = Winners
      /\ activeSchedule' = activeSchedule
  BY WinnersKept DEF UpdateTarget, ShowRef, NewEntry, FindEnd, ValueUpdated,
     CheckActive, ShowValue, Tick, vars
<1>3. actSchdRef' \in {actSchdRef, NULL}
  BY DEF UpdateTarget, ShowRef, NewEntry, FindEnd, ValueUpdated, CheckActive,
     ShowValue, Tick, vars
<1> DEFINE Aside(u) == \/ pc'[u] = pc[u] /\ win'[u] = win[u]
                       \/ pc[u] \notin Deciding /\ pc'[u] \notin Deciding
<1>4. ASSUME NEW t \in Threads, UpdateTarget(t) \/ (At(t, "showNoRef") /\ ShowRef(t))
      PROVE  \A u \in Threads : Aside(u)
  BY <1>1, <1>4 DEF UpdateTarget, ShowRef, Deciding
<1>5. ASSUME NEW s \in Schedules, NewEntry(s) \/ FindEnd(s) \/ ValueUpdated(s)
      PROVE  \A u \in Threads : Aside(u)
  BY <1>1, <1>5 DEF NewEntry, Call, FindEnd, ValueUpdated, CheckActive, ShowValue,
     Deciding
<1>6. ASSUME Tick \/ UNCHANGED vars PROVE \A u \in Threads : Aside(u)
  BY <1>6 DEF Tick, vars
<1>7. \A u \in Threads : Aside(u)
  BY <1>4, <1>5, <1>6
<1> QED
  BY <1>2, <1>3, <1>7, AsideKeeps

LEMMA SInvStep == ASSUME CInv, SInv, [Next]_vars PROVE SInv'
<1>1. CASE ScheduleStep
  <2>1. ASSUME NEW s \in Schedules, EndRun(s) PROVE SInv'
    <3>1. s \in Threads /\ pc[s] \notin Deciding
      BY <2>1 DEF EndRun, At, Deciding, Threads
    <3> QED
      BY <2>1, <3>1, NotRunningSettles DEF EndRun
  <2> QED
    BY <1>1, <2>1, StartRunSettles, OtherSettles DEF ScheduleStep
<1>2. CASE ServerStep
  <2>1. ASSUME NEW s \in Schedules, OperateReq(s) PROVE SInv'
    <3>1. Server \in Threads /\ pc[Server] \notin Deciding
      BY <2>1 DEF OperateReq, At, Deciding, Threads
    <3> QED
      BY <2>1, <3>1, NotRunningSettles DEF OperateReq
  <2> QED
    BY <1>2, <2>1, WritePrioSettles DEF ServerStep
<1>3. CASE CallbackStep
  <2>1. ASSUME NEW t \in Threads, StateUpdated(t) PROVE SInv'
    BY <2>1, DecisionSettles, OtherSettles DEF StateUpdated
  <2>2. ASSUME PrioUpdated(Server) PROVE SInv'
    <3>1. Server \in Threads
      BY DEF Threads
    <3>2. CASE ShowRef(Server)
      <4>1. At(Server, "showRef") \/ At(Server, "showNoRef")
        BY <3>2 DEF ShowRef
      <4> QED
        BY <3>1, <3>2, <4>1, DecisionSettles, OtherSettles
    <3> QED
      BY <2>2, <3>1, <3>2, DecisionSettles DEF PrioUpdated
  <2> QED
    BY <1>3, <2>1, <2>2, OtherSettles DEF CallbackStep
<1>4. CASE Tick \/ UNCHANGED vars
  BY <1>4, OtherSettles
<1> QED
  BY <1>1, <1>2, <1>3, <1>4 DEF Next

LEMMA SInvSettles == ASSUME CInv, SInv PROVE SettlesOnWinner
<1> SUFFICES ASSUME NobodyDecides, ~disturbed
             PROVE  activeSchedule = Winner /\ (Winner = NULL => actSchdRef = NULL)
  BY DEF SettlesOnWinner
<1>1. Settled
  BY DEF SInv, NobodyDecides
<1>2. activeSchedule = Winner
  BY <1>1, IsReadable, WinnerWins, OneWinner DEF Settled, Winners
<1> QED
  BY <1>1, <1>2 DEF Settled

(* Whatever earlier races left behind, a decision on a state update that   *)
(* no other decision overlaps makes the winner the active schedule, and    *)
(* priority updates that none overlaps keep it so.                         *)
THEOREM SettlesOnWinnerHolds == Spec => []SettlesOnWinner
<1>1. Init => CInv /\ SInv
  BY CInvInit, SInvInit
<1>2. CInv /\ SInv /\ [Next]_vars => (CInv /\ SInv)'
  BY CInvStep, SInvStep
<1>3. CInv /\ SInv => SettlesOnWinner
  BY SInvSettles
<1> QED
  BY <1>1, <1>2, <1>3, PTL DEF Spec

-----------------------------------------------------------------------------
(* A callback that writes the outputs alone puts them in order.            *)

Consistent ==
  IF activeSchedule = NULL THEN target = NULL
  ELSE Fits(target, activeSchedule) /\ curVal = target

InOrder == Consistent /\ (activeSchedule = NULL \/ running[activeSchedule])

Busy(t) == pc[t] \notin {"idle", "ended"}

Only(t) == \A u \in Threads \ {t} : ~Busy(u)

BringsEntry(t) ==
  /\ t \in listening /\ running[t]
  /\ currentEntryIdx[t] \in 0..(Entries - 1)
  /\ val[t] = EntryValue(t, currentEntryIdx[t])

(* What a callback that runs alone brings, at each of its positions.  The  *)
(* active schedule may have ended, but only before the decision.           *)
Brings(t) ==
  /\ pc[t] = "state" /\ outputState = "settled" => Consistent
  /\ pc[t] = "switch" => running[win[t]]
  /\ pc[t] \in {"show", "target"} =>
       /\ activeSchedule # NULL /\ running[activeSchedule]
       /\ Fits(val[t], activeSchedule)
  /\ pc[t] = "target" => curVal = val[t]
  /\ pc[t] = "forget" => target = NULL
  /\ pc[t] \in {"prio", "showNoRef"} /\ outputState = "settled" => InOrder
  /\ pc[t] = "showRef" => outputState # "settled"
  /\ pc[t] = "value" =>
       /\ BringsEntry(t)
       /\ t # activeSchedule /\ outputState = "settled" => InOrder
  /\ pc[t] = "showValue" => BringsEntry(t) /\ t = activeSchedule

OInv ==
  outputState # "mixed" =>
    \/ NobodyCalls /\ (outputState = "settled" => InOrder)
    \/ \E t \in Threads : Busy(t) /\ Only(t) /\ Brings(t)

LEMMA OInvStart == StartState => OInv
BY DEF StartState, OInv, NobodyCalls, InOrder, Consistent

LEMMA OInvInit == Init => OInv
BY OInvStart DEF Init, StartState

(* A value goes on to fit while its schedule is in the same run.           *)
LEMMA FitsOn ==
  ASSUME CInv, CInv', NEW s \in Schedules, NEW v, Fits(v, s),
         startTime'[s] = startTime[s], currentEntryIdx'[s] <= currentEntryIdx[s],
         CurrentIdx(s) <= CurrentIdx(s)'
  PROVE  Fits(v, s)'
<1>1. /\ CurrentIdx(s) \in Nat /\ currentEntryIdx[s] \in Int
      /\ CurrentIdx(s)' \in Nat /\ currentEntryIdx'[s] \in Int
      /\ Entries \in Nat
  <2>1. CurrentIdx(s) \in Nat
    BY CurrentValueType
  <2>2. now' \in Nat /\ startTime'[s] \in Nat /\ startTime'[s] <= now'
    BY DEF CInv, TypeOK, Started
  <2>3. CurrentIdx(s)' \in Nat
    BY <2>2, RunAssumption, DueIdxGrows DEF CurrentIdx
  <2> QED
    BY <2>1, <2>3, RunAssumption DEF CInv, TypeOK, NoEntry
<1>2. \A idx : EntryValue(s, idx)' = EntryValue(s, idx)
  BY DEF EntryValue
<1>3. CASE v = NULL /\ CurrentIdx(s) >= Entries
  BY <1>1, <1>3 DEF Fits
<1>4. ASSUME NEW idx \in 0..(Entries - 1), v = EntryValue(s, idx),
             currentEntryIdx[s] <= idx, idx <= CurrentIdx(s)
      PROVE  Fits(v, s)'
  <2>1. currentEntryIdx'[s] <= idx /\ idx <= CurrentIdx(s)'
    BY <1>1, <1>4
  <2>2. v = EntryValue(s, idx)'
    BY <1>2, <1>4
  <2> QED
    BY <2>1, <2>2 DEF Fits
<1> QED
  BY <1>3, <1>4 DEF Fits

(* A step that the controller does not see.                                *)
LEMMA UnseenKeepsOrder ==
  ASSUME CInv, CInv', OInv, listening \subseteq listening',
         UNCHANGED <<activeSchedule, curVal, target, outputState>>,
         \A s \in listening :
           /\ running'[s] = running[s]
           /\ startTime'[s] = startTime[s]
           /\ currentEntryIdx'[s] = currentEntryIdx[s]
           /\ CurrentIdx(s) <= CurrentIdx(s)',
         \A t \in Threads :
           \/ pc'[t] = pc[t] /\ win'[t] = win[t] /\ val'[t] = val[t]
           \/ ~Busy(t) /\ ~Busy(t)'
  PROVE  OInv'
<1>1. listening \subseteq Schedules /\ NULL \notin Schedules
  BY ScheduleAssumption DEF CInv, TypeOK
<1>2. ASSUME NEW s \in listening, NEW v, Fits(v, s) PROVE Fits(v, s)'
  <2>1. currentEntryIdx[s] \in Int /\ currentEntryIdx'[s] = currentEntryIdx[s]
    BY <1>1, RunAssumption DEF CInv, TypeOK, NoEntry
  <2>2. currentEntryIdx'[s] <= currentEntryIdx[s]
    BY <2>1
  <2> QED
    BY <1>1, <1>2, <2>2, FitsOn
<1>3. activeSchedule \in listening \cup {NULL}
  BY DEF CInv, Connected
<1>4. Consistent => Consistent'
  BY <1>2, <1>3 DEF Consistent, Fits
<1>5. InOrder => InOrder'
  BY <1>3, <1>4 DEF InOrder
<1> SUFFICES ASSUME outputState # "mixed" PROVE OInv'
  BY DEF OInv
<1>6. CASE NobodyCalls /\ (outputState = "settled" => InOrder)
  <2>1. NobodyCalls'
    BY <1>6 DEF NobodyCalls, Busy
  <2> QED
    BY <1>5, <1>6, <2>1 DEF OInv
<1>7. ASSUME NEW t \in Threads, Busy(t), Only(t), Brings(t) PROVE OInv'
  <2>1. pc'[t] = pc[t] /\ win'[t] = win[t] /\ val'[t] = val[t]
    BY <1>7
  <2>2. Busy(t)' /\ Only(t)'
    BY <1>7, <2>1 DEF Only, Busy
  <2>3. BringsEntry(t) => BringsEntry(t)'
    BY <2>1 DEF BringsEntry, EntryValue
  <2>4. pc[t] = "switch" => win[t] \in listening
    BY <1>1 DEF CInv, Chosen, Connected
  <2>5. pc[t] \in {"show", "target"} /\ Fits(val[t], activeSchedule)
          /\ activeSchedule # NULL => Fits(val[t], activeSchedule)'
    BY <1>2, <1>3, <2>1 DEF Fits
  <2>6. Brings(t)'
    BY <1>3, <1>4, <1>5, <1>7, <2>1, <2>3, <2>4, <2>5 DEF Brings
  <2> QED
    BY <2>2, <2>6 DEF OInv
<1> QED
  BY <1>6, <1>7 DEF OInv

(* A schedule that knows the controller calls it.                          *)
LEMMA CallKeepsOrder ==
  ASSUME CInv, OInv, NEW t \in Threads, NEW s \in listening,
         NEW c \in Positions, c \notin {"idle", "ended"},
         Call(t, s, c), Overlaps(s), ~Busy(t),
         pc'[t] = c /\ (outputState' = "settled" => InOrder) => Brings(t)'
  PROVE  OInv'
<1>1. pc \in [Threads -> Positions]
  BY DEF CInv, TypeOK, Positions
<1>2. pc'[t] = c /\ \A u \in Threads \ {t} : pc'[u] = pc[u]
  BY <1>1 DEF Call, Goto
<1>3. CASE NobodyCalls
  <2>1. Busy(t)' /\ Only(t)'
    BY <1>2, <1>3 DEF Busy, Only, NobodyCalls
  <2>2. outputState = "settled" => InOrder
    BY <1>3 DEF OInv, NobodyCalls, Busy
  <2>3. outputState' = "settled" => outputState = "settled"
    BY <1>3 DEF Overlaps
  <2> QED
    BY <1>2, <2>1, <2>2, <2>3 DEF OInv
<1>4. CASE ~NobodyCalls
  BY <1>4 DEF Overlaps, OInv
<1> QED
  BY <1>3, <1>4

(* Calls of the schedules and of the server. *)

LEMMA IdxStays ==
  ASSUME UNCHANGED <<now, startTime>>
  PROVE  \A s \in Schedules : CurrentIdx(s)' = CurrentIdx(s)
BY DEF CurrentIdx

LEMMA StartRunKeepsOrder ==
  ASSUME CInv, CInv', OInv, NEW s \in Schedules, NEW t \in StartTimes, StartRun(s, t)
  PROVE  OInv'
<1> USE DEF StartRun, outputVars, listVars
<1>1. s \in Threads /\ ~Busy(s) /\ "state" \in Positions
  BY DEF Threads, Busy, At, Positions, Deciding
<1>2. ASSUME NEW u \in Schedules, u # s
      PROVE  /\ running'[u] = running[u] /\ startTime'[u] = startTime[u]
             /\ currentEntryIdx'[u] = currentEntryIdx[u]
             /\ CurrentIdx(u) \in Nat /\ CurrentIdx(u)' = CurrentIdx(u)
  <2>1. CurrentIdx(u) \in Nat
    BY CurrentValueType
  <2> QED
    BY <1>2, <2>1 DEF CInv, TypeOK, CurrentIdx
<1>3. CASE s \notin listening
  <2>1. outputState' = outputState
    BY <1>3 DEF Overlaps
  <2>2. \A u \in Threads : \/ pc'[u] = pc[u] /\ win'[u] = win[u] /\ val'[u] = val[u]
                           \/ ~Busy(u) /\ ~Busy(u)'
    BY <1>1, <1>3 DEF Call, Goto, Busy, CInv, TypeOK
  <2>3. \A u \in listening : u \in Schedules /\ u # s
    BY <1>3 DEF CInv, TypeOK
  <2>4. \A u \in listening : CurrentIdx(u) <= CurrentIdx(u)'
    BY <1>2, <2>3
  <2> QED
    BY <1>2, <2>1, <2>2, <2>3, <2>4, UnseenKeepsOrder
<1>4. CASE s \in listening
  <2>1. ASSUME pc'[s] = "state", InOrder PROVE Brings(s)'
    <3>1. activeSchedule # s
      BY <2>1, <1>4, ScheduleAssumption DEF InOrder
    <3>2. Consistent'
      <4>1. CASE activeSchedule = NULL
        BY <2>1, <4>1 DEF InOrder, Consistent
      <4>2. CASE activeSchedule # NULL
        <5>1. activeSchedule \in Schedules
          BY <4>2 DEF CInv, TypeOK
        <5>2. Fits(target, activeSchedule)'
          BY <1>2, <2>1, <3>1, <4>2, <5>1 DEF InOrder, Consistent, Fits, EntryValue
        <5> QED
          BY <2>1, <4>2, <5>2 DEF InOrder, Consistent
      <4> QED
        BY <4>1, <4>2
    <3> QED
      BY <2>1, <3>2 DEF Brings
  <2>2. pc'[s] = "state" /\ outputState' # "settled" => Brings(s)'
    BY DEF Brings
  <2>3. pc'[s] = "state" /\ (outputState' = "settled" => InOrder) => Brings(s)'
    BY <2>1, <2>2
  <2> QED
    BY <1>1, <1>4, <2>3, CallKeepsOrder
<1> QED
  BY <1>3, <1>4

LEMMA NotRunningKeepsOrder ==
  ASSUME CInv, CInv', OInv, NEW t \in Threads, NEW s \in Schedules,
         SetNotRunning(t, s), ~Busy(t)
  PROVE  OInv'
<1> USE DEF SetNotRunning, outputVars, listVars
<1>1. "state" \in Positions /\ "state" \notin {"idle", "ended"}
  BY DEF Positions, Deciding
<1>2. \A u \in Schedules : CurrentIdx(u)' = CurrentIdx(u) /\ CurrentIdx(u) \in Nat
  BY IdxStays, CurrentValueType
<1>3. CASE s \notin listening
  <2>1. outputState' = outputState
    BY <1>3 DEF Overlaps
  <2>2. \A u \in Threads : \/ pc'[u] = pc[u] /\ win'[u] = win[u] /\ val'[u] = val[u]
                           \/ ~Busy(u) /\ ~Busy(u)'
    BY <1>3 DEF Call, Goto, Busy, CInv, TypeOK
  <2>3. \A u \in listening : u \in Schedules /\ u # s
    BY <1>3 DEF CInv, TypeOK
  <2>4. ASSUME NEW u \in listening
        PROVE  /\ running'[u] = running[u]
               /\ currentEntryIdx'[u] = currentEntryIdx[u]
               /\ startTime'[u] = startTime[u]
               /\ CurrentIdx(u) <= CurrentIdx(u)'
    <3>1. u \in Schedules /\ u # s
      BY <2>3
    <3>2. CurrentIdx(u) <= CurrentIdx(u)'
      BY <1>2, <3>1
    <3> QED
      BY <3>1, <3>2 DEF CInv, TypeOK
  <2> QED
    BY <2>1, <2>2, <2>4, UnseenKeepsOrder
<1>4. CASE s \in listening
  <2>1. ASSUME pc'[t] = "state", InOrder PROVE Brings(t)'
    <3>1. ASSUME NEW u \in Schedules, NEW v, Fits(v, u) PROVE Fits(v, u)'
      <4>1. currentEntryIdx'[u] \in {currentEntryIdx[u], NoEntry}
        BY DEF CInv, TypeOK
      <4>2. currentEntryIdx[u] \in Int /\ currentEntryIdx[u] >= NoEntry
        BY RunAssumption DEF CInv, TypeOK, NoEntry
      <4>3. currentEntryIdx'[u] <= currentEntryIdx[u] /\ startTime'[u] = startTime[u]
        BY <4>1, <4>2 DEF NoEntry
      <4>4. CurrentIdx(u) <= CurrentIdx(u)'
        BY <1>2
      <4> QED
        BY <3>1, <4>3, <4>4, FitsOn
    <3>2. activeSchedule \in Schedules \cup {NULL}
      BY DEF CInv, TypeOK
    <3>3. Consistent'
      BY <2>1, <3>1, <3>2 DEF InOrder, Consistent, Fits
    <3> QED
      BY <2>1, <3>3 DEF Brings
  <2>2. pc'[t] = "state" /\ outputState' # "settled" => Brings(t)'
    BY DEF Brings
  <2>3. pc'[t] = "state" /\ (outputState' = "settled" => InOrder) => Brings(t)'
    BY <2>1, <2>2
  <2> QED
    BY <1>1, <1>4, <2>3, CallKeepsOrder
<1> QED
  BY <1>3, <1>4

LEMMA WritePrioKeepsOrder ==
  ASSUME CInv, CInv', OInv, NEW s \in Schedules, NEW p \in Prios, WritePrio(s, p)
  PROVE  OInv'
<1> USE DEF WritePrio, outputVars, listVars
<1>1. Server \in Threads /\ ~Busy(Server) /\ "prio" \in Positions
  BY DEF Threads, Busy, At, Positions, Deciding
<1>2. \A u \in Schedules : CurrentIdx(u)' = CurrentIdx(u) /\ CurrentIdx(u) \in Nat
  BY IdxStays, CurrentValueType
<1>3. CASE s \notin listening
  <2>1. outputState' = outputState
    BY <1>3 DEF Overlaps
  <2>2. \A u \in Threads : \/ pc'[u] = pc[u] /\ win'[u] = win[u] /\ val'[u] = val[u]
                           \/ ~Busy(u) /\ ~Busy(u)'
    BY <1>1, <1>3 DEF Call, Goto, Busy, CInv, TypeOK
  <2>3. \A u \in listening : CurrentIdx(u) <= CurrentIdx(u)'
    BY <1>2 DEF CInv, TypeOK
  <2> QED
    BY <2>1, <2>2, <2>3, UnseenKeepsOrder
<1>4. CASE s \in listening
  <2>1. ASSUME pc'[Server] = "prio", InOrder PROVE Brings(Server)'
    <3>1. activeSchedule \in Schedules \cup {NULL}
      BY DEF CInv, TypeOK
    <3>2. Consistent'
      BY <1>2, <2>1, <3>1 DEF InOrder, Consistent, Fits, EntryValue
    <3>3. InOrder'
      BY <2>1, <3>2 DEF InOrder
    <3> QED
      BY <2>1, <3>3 DEF Brings
  <2>2. pc'[Server] = "prio" /\ outputState' # "settled" => Brings(Server)'
    BY DEF Brings
  <2>3. pc'[Server] = "prio" /\ (outputState' = "settled" => InOrder) => Brings(Server)'
    BY <2>1, <2>2
  <2> QED
    BY <1>1, <1>4, <2>3, CallKeepsOrder
<1> QED
  BY <1>3, <1>4

(* The new entry of a schedule that runs.                                  *)
LEMMA NewEntryKeepsOrder ==
  ASSUME CInv, CInv', OInv, NEW s \in Schedules, NewEntry(s)
  PROVE  OInv'
<1> USE DEF NewEntry, outputVars, listVars
<1>1. s \in Threads /\ ~Busy(s) /\ "value" \in Positions
  BY DEF Threads, Busy, At, Positions
<1>2. \A u \in Schedules : CurrentIdx(u)' = CurrentIdx(u) /\ CurrentIdx(u) \in Nat
  BY IdxStays, CurrentValueType
<1>3. CASE s \notin listening
  <2>1. outputState' = outputState
    BY <1>3 DEF Overlaps
  <2>2. \A u \in Threads : \/ pc'[u] = pc[u] /\ win'[u] = win[u] /\ val'[u] = val[u]
                           \/ ~Busy(u) /\ ~Busy(u)'
    BY <1>1, <1>3 DEF Call, Goto, Busy, CInv, TypeOK
  <2>3. \A u \in listening : u \in Schedules /\ u # s
    BY <1>3 DEF CInv, TypeOK
  <2>4. ASSUME NEW u \in listening
        PROVE  /\ currentEntryIdx'[u] = currentEntryIdx[u]
               /\ CurrentIdx(u) <= CurrentIdx(u)'
    <3>1. u \in Schedules /\ u # s
      BY <2>3
    <3>2. CurrentIdx(u) <= CurrentIdx(u)'
      BY <1>2, <3>1
    <3> QED
      BY <3>1, <3>2 DEF CInv, TypeOK
  <2> QED
    BY <2>1, <2>2, <2>4, UnseenKeepsOrder
<1>4. CASE s \in listening
  <2>1. BringsEntry(s)'
    <3>1. currentEntryIdx'[s] = CurrentIdx(s) /\ CurrentIdx(s) \in 0..(Entries - 1)
      BY CurrentValueType, RunAssumption DEF CInv, TypeOK
    <3>2. val'[s] = EntryValue(s, CurrentIdx(s))
      BY <1>1, <1>4 DEF CInv, TypeOK
    <3> QED
      BY <1>4, <3>1, <3>2 DEF BringsEntry, EntryValue
  <2>2. ASSUME InOrder, s # activeSchedule PROVE InOrder'
    <3>1. activeSchedule \in Schedules \cup {NULL}
      BY DEF CInv, TypeOK
    <3>2. currentEntryIdx'[activeSchedule] = currentEntryIdx[activeSchedule]
            \/ activeSchedule = NULL
      BY <2>2, <3>1 DEF CInv, TypeOK
    <3>3. Consistent'
      BY <1>2, <2>2, <3>1, <3>2 DEF InOrder, Consistent, Fits, EntryValue
    <3> QED
      BY <2>2, <3>3 DEF InOrder
  <2>3. ASSUME pc'[s] = "value", outputState' = "settled" => InOrder
        PROVE  Brings(s)'
    BY <2>1, <2>2, <2>3 DEF Brings
  <2> QED
    BY <1>1, <1>4, <2>3, CallKeepsOrder
<1> QED
  BY <1>3, <1>4

(* The steps of a callback: one that nothing overlaps brings the outputs   *)
(* in order, or leaves them so.                                            *)
LEMMA CallerKeepsOrder ==
  ASSUME CInv, OInv, NEW t \in Threads, Busy(t),
         \A u \in Threads \ {t} : pc'[u] = pc[u],
         outputState = "mixed" => outputState' = "mixed",
         Brings(t) => \/ Busy(t)' /\ Brings(t)'
                      \/ ~Busy(t)' /\ (outputState' = "settled" => InOrder')
  PROVE  OInv'
<1> SUFFICES ASSUME outputState # "mixed" PROVE OInv'
  BY DEF OInv
<1>1. Only(t) /\ Brings(t)
  <2>1. ~NobodyCalls
    BY DEF NobodyCalls, Busy
  <2>2. PICK u \in Threads : Busy(u) /\ Only(u) /\ Brings(u)
    BY <2>1 DEF OInv
  <2>3. u = t
    BY <2>2 DEF Only
  <2> QED
    BY <2>2, <2>3
<1>2. Only(t)'
  BY <1>1 DEF Only, Busy
<1>3. CASE Busy(t)' /\ Brings(t)'
  BY <1>2, <1>3 DEF OInv
<1>4. CASE ~Busy(t)' /\ (outputState' = "settled" => InOrder')
  <2>1. NobodyCalls'
    BY <1>2, <1>4 DEF Only, Busy, NobodyCalls
  <2> QED
    BY <1>4, <2>1 DEF OInv
<1> QED
  BY <1>1, <1>3, <1>4

(* A callback does not change what fits. *)
LEMMA FitsKept ==
  ASSUME UNCHANGED <<now, scheduleVars>>
  PROVE  \A s \in Schedules : \A v : Fits(v, s)' <=> Fits(v, s)
<1>1. \A s \in Schedules : CurrentIdx(s)' = CurrentIdx(s)
  BY IdxStays DEF scheduleVars
<1> QED
  BY <1>1 DEF Fits, EntryValue, scheduleVars

LEMMA PassRuns ==
  ASSUME CInv, GetActiveSchedule # NULL
  PROVE  GetActiveSchedule \in Schedules /\ running[GetActiveSchedule]
<1>1. Wins(GetActiveSchedule)
  BY IsReadable, PassFindsWinner
<1> QED
  BY <1>1 DEF Wins, Runners, CInv, TypeOK, ToSet

LEMMA DecisionKeepsOrder ==
  ASSUME CInv, OInv, NEW t \in Threads, DecideOnState(t) \/ DecideOnPrio(t)
  PROVE  OInv'
<1> USE DEF DecideOnState, DecideOnPrio, At, Goto
<1>1. pc \in [Threads -> Positions] /\ win \in [Threads -> Schedules \cup {NULL}]
  BY DEF CInv, TypeOK, Positions
<1>2. Busy(t) /\ \A u \in Threads \ {t} : pc'[u] = pc[u]
  BY <1>1 DEF Busy
<1>3. UNCHANGED <<now, scheduleVars, activeSchedule, outputVars, val, outputState>>
  OBVIOUS
<1>4. Consistent' = Consistent /\ InOrder' = InOrder
  <2>1. activeSchedule \in Schedules \cup {NULL}
    BY DEF CInv, TypeOK
  <2>2. Consistent' = Consistent
    BY <1>3, <2>1, FitsKept DEF Consistent, outputVars, Fits
  <2> QED
    BY <1>3, <2>2 DEF InOrder, scheduleVars
<1>5. ASSUME Brings(t)
      PROVE  \/ Busy(t)' /\ Brings(t)'
             \/ ~Busy(t)' /\ (outputState' = "settled" => InOrder')
  <2>1. CASE pc'[t] = "clear"
    BY <2>1 DEF Busy, Brings
  <2>2. CASE pc'[t] = "switch" /\ win'[t] = GetActiveSchedule /\ GetActiveSchedule # NULL
    <3>1. running'[win'[t]]
      BY <1>3, <2>2, PassRuns DEF scheduleVars
    <3> QED
      BY <2>2, <3>1 DEF Busy, Brings
  <2>3. CASE pc'[t] = "idle" /\ GetActiveSchedule = activeSchedule /\ GetActiveSchedule # NULL
    <3>1. running[activeSchedule]
      BY <2>3, PassRuns
    <3>2. outputState = "settled" => InOrder
      BY <1>5, <3>1 DEF Brings, InOrder
    <3> QED
      BY <1>3, <1>4, <2>3, <3>2 DEF Busy
  <2>4. CASE pc'[t] = "showNoRef" /\ pc[t] = "prio"
    BY <1>3, <1>4, <1>5, <2>4 DEF Busy, Brings
  <2>5. CASE pc'[t] = "prioSwitch"
    BY <2>5 DEF Busy, Brings
  <2> QED
    BY <1>1, <2>1, <2>2, <2>3, <2>4, <2>5
<1> QED
  BY <1>2, <1>3, <1>5, CallerKeepsOrder

LEMMA ShowKeepsOrder ==
  ASSUME CInv, OInv, NEW t \in Threads,
         SwitchSchedule(t) \/ ShowSchedule(t) \/ UpdateTarget(t)
  PROVE  OInv'
<1> USE DEF SwitchSchedule, ShowSchedule, UpdateTarget, At, Goto, Return
<1>1. /\ pc \in [Threads -> Positions] /\ win \in [Threads -> Schedules \cup {NULL}]
      /\ val \in [Threads -> Values \cup {NULL}]
      /\ activeSchedule \in Schedules \cup {NULL} /\ NULL \notin Schedules
      /\ outputState \in OutputStates
  BY ScheduleAssumption DEF CInv, TypeOK, Positions, OutputStates
<1>2. Busy(t) /\ \A u \in Threads \ {t} : pc'[u] = pc[u]
  BY <1>1 DEF Busy
<1>3. UNCHANGED <<now, scheduleVars>>
  OBVIOUS
<1>4. outputState = "mixed" => outputState' = "mixed"
  BY DEF WritesOutputs
<1>5. ASSUME Brings(t)
      PROVE  \/ Busy(t)' /\ Brings(t)'
             \/ ~Busy(t)' /\ (outputState' = "settled" => InOrder')
  <2>1. CASE SwitchSchedule(t)
    <3>1. win[t] \in Schedules /\ running[win[t]]
      BY <1>5, <2>1 DEF Brings, CInv, Chosen
    <3>2. activeSchedule' = win[t] /\ val'[t] = GetCurrentValue(win[t]) /\ pc'[t] = "show"
      BY <1>1, <2>1
    <3>3. Fits(val'[t], win[t])
      <4>1. CurrentIdx(win[t]) \in Nat /\ Entries \in Nat
        BY <3>1, CurrentValueType, RunAssumption
      <4>2. currentEntryIdx[win[t]] <= CurrentIdx(win[t])
        BY <3>1 DEF CInv, Published
      <4> QED
        BY <3>2, <4>1, <4>2 DEF Fits, GetCurrentValue
    <3>4. Fits(val[t], activeSchedule)'
      BY <1>3, <3>1, <3>2, <3>3, FitsKept DEF Fits
    <3> QED
      BY <1>1, <1>3, <3>1, <3>2, <3>4 DEF Busy, Brings, scheduleVars
  <2>2. CASE ShowSchedule(t)
    <3>1. pc'[t] = "target" /\ curVal' = val[t] /\ val' = val
          /\ activeSchedule' = activeSchedule
      BY <1>1, <2>2
    <3>2. activeSchedule # NULL /\ running[activeSchedule] /\ Fits(val[t], activeSchedule)
      BY <1>5, <2>2 DEF Brings
    <3>3. Fits(val[t], activeSchedule)'
      BY <1>1, <1>3, <3>1, <3>2, FitsKept DEF Fits
    <3> QED
      BY <1>3, <3>1, <3>2, <3>3 DEF Busy, Brings, scheduleVars
  <2>3. CASE UpdateTarget(t)
    <3>1. /\ pc'[t] = "idle" /\ target' = val[t] /\ curVal' = curVal
          /\ activeSchedule' = activeSchedule
      BY <1>1, <2>3
    <3>2. /\ activeSchedule # NULL /\ running[activeSchedule]
          /\ Fits(val[t], activeSchedule) /\ curVal = val[t]
      BY <1>5, <2>3 DEF Brings
    <3>3. Fits(target, activeSchedule)'
      BY <1>1, <1>3, <3>1, <3>2, FitsKept DEF Fits
    <3>4. InOrder'
      BY <1>3, <3>1, <3>2, <3>3 DEF InOrder, Consistent, scheduleVars
    <3> QED
      BY <3>1, <3>4 DEF Busy
  <2> QED
    BY <2>1, <2>2, <2>3
<1> QED
  BY <1>2, <1>4, <1>5, CallerKeepsOrder

LEMMA ClearKeepsOrder ==
  ASSUME CInv, OInv, NEW t \in Threads,
         ShowNoSchedule(t) \/ ClearTarget(t) \/ ForgetSchedule(t) \/ SwitchOnPrio(t)
  PROVE  OInv'
<1> USE DEF ShowNoSchedule, ClearTarget, ForgetSchedule, SwitchOnPrio, At, Goto
<1>1. pc \in [Threads -> Positions] /\ outputState \in OutputStates
  BY DEF CInv, TypeOK, Positions, OutputStates
<1>2. Busy(t) /\ \A u \in Threads \ {t} : pc'[u] = pc[u]
  BY <1>1 DEF Busy
<1>3. outputState = "mixed" => outputState' = "mixed"
  BY DEF WritesOutputs, OwesOutputs
<1>4. ASSUME Brings(t)
      PROVE  \/ Busy(t)' /\ Brings(t)'
             \/ ~Busy(t)' /\ (outputState' = "settled" => InOrder')
  <2>1. CASE ShowNoSchedule(t)
    BY <1>1, <2>1 DEF Busy, Brings
  <2>2. CASE ClearTarget(t)
    BY <1>1, <2>2 DEF Busy, Brings
  <2>3. CASE ForgetSchedule(t)
    <3>1. pc'[t] = "idle" /\ target' = NULL /\ activeSchedule' = NULL
      BY <1>1, <1>4, <2>3 DEF Brings, outputVars
    <3> QED
      BY <3>1 DEF Busy, InOrder, Consistent
  <2>4. CASE SwitchOnPrio(t)
    BY <1>1, <2>4 DEF Busy, Brings, OwesOutputs
  <2> QED
    BY <2>1, <2>2, <2>3, <2>4
<1> QED
  BY <1>2, <1>3, <1>4, CallerKeepsOrder

LEMMA ValueKeepsOrder ==
  ASSUME CInv, OInv, NEW t \in Threads,
         ShowRef(t) \/ CheckActive(t) \/ ShowValue(t)
  PROVE  OInv'
<1> USE DEF ShowRef, CheckActive, ShowValue, At, Goto, Return
<1>1. /\ pc \in [Threads -> Positions]
      /\ activeSchedule \in Schedules \cup {NULL} /\ NULL \notin Schedules
  BY ScheduleAssumption DEF CInv, TypeOK, Positions
<1>2. Busy(t) /\ \A u \in Threads \ {t} : pc'[u] = pc[u]
  BY <1>1 DEF Busy
<1>3. UNCHANGED <<now, scheduleVars, listening, activeSchedule, target, outputState>>
  BY DEF listVars, outputVars
<1>4. ASSUME curVal' = curVal PROVE InOrder' = InOrder
  <2>1. Consistent' = Consistent
    BY <1>1, <1>3, <1>4, FitsKept DEF Consistent, Fits
  <2> QED
    BY <1>3, <2>1 DEF InOrder, scheduleVars
<1>5. ASSUME Brings(t)
      PROVE  \/ Busy(t)' /\ Brings(t)'
             \/ ~Busy(t)' /\ (outputState' = "settled" => InOrder')
  <2>1. CASE ShowRef(t)
    <3>1. pc'[t] = "idle" /\ curVal' = curVal
      BY <1>1, <2>1
    <3>2. outputState = "settled" => InOrder
      BY <1>5, <2>1 DEF Brings
    <3> QED
      BY <1>3, <1>4, <3>1, <3>2 DEF Busy
  <2>2. CASE CheckActive(t)
    <3>1. curVal' = curVal
      BY <2>2 DEF outputVars
    <3>2. CASE t = activeSchedule
      <4>1. pc'[t] = "showValue" /\ val' = val
        BY <1>1, <2>2, <3>2
      <4>2. BringsEntry(t)'
        BY <1>3, <1>5, <2>2, <4>1 DEF Brings, BringsEntry, EntryValue, scheduleVars
      <4> QED
        BY <1>3, <3>2, <4>1, <4>2 DEF Busy, Brings
    <3>3. CASE t # activeSchedule
      <4>1. pc'[t] = "idle"
        BY <1>1, <2>2, <3>3
      <4>2. outputState = "settled" => InOrder
        BY <1>5, <2>2, <3>3 DEF Brings
      <4> QED
        BY <1>3, <1>4, <3>1, <4>1, <4>2 DEF Busy
    <3> QED
      BY <3>2, <3>3
  <2>3. CASE ShowValue(t)
    <3>1. pc'[t] = "target" /\ curVal' = val[t] /\ val' = val
      BY <1>1, <2>3
    <3>2. BringsEntry(t) /\ t = activeSchedule
      BY <1>5, <2>3 DEF Brings
    <3>3. t \in Schedules /\ running[t]
      BY <1>1, <3>2 DEF BringsEntry, CInv, TypeOK
    <3>4. Fits(val[t], t)
      <4>1. currentEntryIdx[t] <= CurrentIdx(t)
        BY <3>3 DEF CInv, Published
      <4>2. currentEntryIdx[t] <= currentEntryIdx[t]
        BY <3>2 DEF BringsEntry
      <4> QED
        BY <3>2, <4>1, <4>2 DEF BringsEntry, Fits
    <3>5. Fits(val[t], activeSchedule)'
      BY <1>3, <3>1, <3>2, <3>3, <3>4, FitsKept DEF Fits
    <3> QED
      BY <1>1, <1>3, <3>1, <3>2, <3>3, <3>5 DEF Busy, Brings, scheduleVars
  <2> QED
    BY <2>1, <2>2, <2>3
<1> QED
  BY <1>2, <1>3, <1>5, CallerKeepsOrder

LEMMA OtherKeepsOrder ==
  ASSUME CInv, CInv', OInv,
         Tick \/ UNCHANGED vars \/ \E s \in Schedules : FindEnd(s)
  PROVE  OInv'
<1> USE DEF vars, scheduleVars, listVars, outputVars, threadVars
<1>1. \A s \in Schedules : CurrentIdx(s) <= CurrentIdx(s)'
  <2>1. CASE Tick
    BY <2>1, LaterIdx DEF Tick
  <2>2. CASE UNCHANGED <<now, startTime>>
    BY <2>2, IdxStays, CurrentValueType
  <2> QED
    BY <2>1, <2>2 DEF FindEnd
<1>2. \A u \in Threads : \/ pc'[u] = pc[u] /\ win'[u] = win[u] /\ val'[u] = val[u]
                         \/ ~Busy(u) /\ ~Busy(u)'
  <2>1. ASSUME NEW s \in Schedules, FindEnd(s), NEW u \in Threads
        PROVE  \/ pc'[u] = pc[u] /\ win'[u] = win[u] /\ val'[u] = val[u]
               \/ ~Busy(u) /\ ~Busy(u)'
    BY <2>1 DEF FindEnd, Goto, At, Busy, CInv, TypeOK
  <2> QED
    BY <2>1 DEF Tick
<1>3. listening \subseteq Schedules
  BY DEF CInv, TypeOK
<1>4. /\ listening' = listening
      /\ UNCHANGED <<activeSchedule, curVal, target, outputState, running,
                     startTime, currentEntryIdx>>
  BY DEF Tick, FindEnd
<1> QED
  BY <1>1, <1>2, <1>3, <1>4, UnseenKeepsOrder

LEMMA OInvStep == ASSUME CInv, CInv', OInv, [Next]_vars PROVE OInv'
<1> USE DEF Threads
<1>1. CASE ScheduleStep
  <2>1. ASSUME NEW s \in Schedules, EndRun(s) PROVE OInv'
    BY <2>1, NotRunningKeepsOrder DEF EndRun, At, Busy
  <2> QED
    BY <1>1, <2>1, StartRunKeepsOrder, NewEntryKeepsOrder, OtherKeepsOrder
       DEF ScheduleStep
<1>2. CASE ServerStep
  <2>1. ASSUME NEW s \in Schedules, OperateReq(s) PROVE OInv'
    BY <2>1, NotRunningKeepsOrder DEF OperateReq, At, Busy
  <2> QED
    BY <1>2, <2>1, WritePrioKeepsOrder DEF ServerStep
<1>3. CASE CallbackStep
  BY <1>3, DecisionKeepsOrder, ShowKeepsOrder, ClearKeepsOrder, ValueKeepsOrder
     DEF CallbackStep, StateUpdated, PrioUpdated, ValueUpdated
<1>4. CASE Tick \/ UNCHANGED vars
  BY <1>4, OtherKeepsOrder
<1> QED
  BY <1>1, <1>2, <1>3, <1>4 DEF Next

LEMMA OInvSettles == ASSUME OInv PROVE OutputSettles
BY DEF OInv, OutputSettles, NobodyCalls, Busy, InOrder, Consistent

(* Whatever overlapping callbacks left at the outputs, the next callback   *)
(* that writes them alone leaves there what the active schedule's run is   *)
(* to show, never an older entry, and those that follow alone keep it so.  *)
THEOREM OutputSettlesHolds == Spec => []OutputSettles
<1>1. Init => CInv /\ OInv
  BY CInvInit, OInvInit
<1>2. CInv /\ OInv /\ [Next]_vars => (CInv /\ OInv)'
  BY CInvStep, OInvStep
<1>3. OInv => OutputSettles
  BY OInvSettles
<1> QED
  BY <1>1, <1>2, <1>3, PTL DEF Spec

===============================================================================
