----------------------- MODULE ControllerRestartProofs -----------------------
(***************************************************************************)
(* Theorems about ControllerRestart, for any schedules, references and     *)
(* controlled entities, and any number of crashes.                         *)
(***************************************************************************)
EXTENDS ControllerRestart, ScheduleControllerProofs, FiniteSetTheorems

(* The references are well formed, the configured ones until the restore.  *)
Good ==
  /\ schdRef \in [SchdRefs -> Schedules] /\ ctlEnt \in CtlEnts
  /\ file \in References \cup {NoFile, Torn}
  /\ saving \in {"no", "open", "write"} /\ up \in BOOLEAN
  /\ up => file # NoFile
  /\ ~up => SavedReferences = ConfReferences

FileInv == Good /\ FileHoldsReferences

(* A restored file is what the data model then shows.                      *)
LEMMA FileIsRestored ==
  ASSUME NEW f \in References
  PROVE  /\ f.schdRef \in [SchdRefs -> Schedules] /\ f.ctlEnt \in CtlEnts
         /\ [schdRef |-> f.schdRef, ctlEnt |-> f.ctlEnt] = f
BY DEF References

(* Nothing that the schedules, the callbacks and the clock do changes a    *)
(* reference.                                                              *)
LEMMA ControllerKeepsReferences ==
  ASSUME ControllerStep
  PROVE  UNCHANGED <<schdRef, schedules>>
<1>1. [Next]_vars
  BY DEF ControllerStep, Next
<1> QED
  BY <1>1, ListStays

LEMMA WritesPreserve ==
  ASSUME FileInv, WriteReferences
  PROVE  FileInv'
<1> USE DEF FileInv, Good, FileHoldsReferences, SavedReferences, ServerIdle, Saves
<1>1. ASSUME NEW e \in CtlEnts, WriteCtlEnt(e) PROVE FileInv'
  BY <1>1 DEF WriteCtlEnt, SetControlEntity, listVars
<1>2. ASSUME NEW s \in RefTargets, NEW r \in SchdRefs, WriteAndSaveSetSrcRef(r, s)
      PROVE  FileInv'
  <2>1. schdRef' \in [SchdRefs -> Schedules]
    BY <1>2, FileAssumption DEF WriteAndSaveSetSrcRef, WriteSetSrcRef
  <2> QED
    BY <1>2, <2>1 DEF WriteAndSaveSetSrcRef, entityVars
<1> QED
  BY <1>1, <1>2 DEF WriteReferences

LEMMA StoragePreserves ==
  ASSUME FileInv, StorageStep
  PROVE  FileInv'
<1> USE FileAssumption DEF FileInv, Good, FileHoldsReferences, entityVars
<1>1. CASE CreateFile
  BY <1>1 DEF CreateFile, SavedReferences, vars, listVars
<1>2. CASE RestoreReferences
  <2>1. SavedReferences' = file /\ file' = file /\ up' /\ saving' = "no"
    BY <1>2, FileIsRestored DEF RestoreReferences, SavedReferences
  <2>2. schdRef' \in [SchdRefs -> Schedules] /\ ctlEnt' \in CtlEnts
    BY <1>2, FileIsRestored DEF RestoreReferences
  <2> QED
    BY <1>2, <2>1, <2>2 DEF RestoreReferences
<1>3. CASE SkipFile
  BY <1>3 DEF SkipFile, SavedReferences, vars, listVars
<1>4. CASE OpenFile
  BY <1>4 DEF OpenFile, SavedReferences, vars, listVars
<1>5. CASE WriteFile
  <2>1. SavedReferences \in References
    BY DEF SavedReferences, References
  <2>2. SavedReferences' = SavedReferences /\ schdRef' = schdRef /\ ctlEnt' = ctlEnt
    BY <1>5 DEF WriteFile, SavedReferences, vars, listVars
  <2> QED
    BY <1>5, <2>1, <2>2 DEF WriteFile
<1>6. CASE Crash
  <2>1. SavedReferences' = ConfReferences
    BY <1>6 DEF Crash, SavedReferences, ConfReferences
  <2> QED
    BY <1>6, <2>1, ConfigurationAssumption DEF Crash
<1> QED
  BY <1>1, <1>2, <1>3, <1>4, <1>5, <1>6 DEF StorageStep

LEMMA FileInvInit == Boot => FileInv
BY ConfigurationAssumption, FileAssumption
   DEF Boot, Init, FileInv, Good, FileHoldsReferences, SavedReferences,
       ConfReferences

LEMMA FileInvStep == FileInv /\ [RestartNext]_allVars => FileInv'
<1>1. ASSUME FileInv, ControllerStep PROVE FileInv'
  BY <1>1, ControllerKeepsReferences
     DEF ControllerStep, FileInv, Good, FileHoldsReferences, SavedReferences,
         entityVars, storageVars
<1>2. ASSUME FileInv, UNCHANGED allVars PROVE FileInv'
  BY <1>2 DEF FileInv, Good, FileHoldsReferences, SavedReferences, allVars,
     vars, listVars, entityVars, storageVars
<1> QED
  BY <1>1, <1>2, WritesPreserve, StoragePreserves DEF RestartNext

(* When no save is under way, the file of a controller holds what its data *)
(* model shows, or is torn and the data model is as configured, for any    *)
(* number of references, writes and crashes (storage_json.c).              *)
THEOREM FileHoldsReferencesAlways == RestartSpec => []FileHoldsReferences
<1>1. FileInv => FileHoldsReferences
  BY DEF FileInv
<1> QED
  BY <1>1, FileInvInit, FileInvStep, PTL DEF RestartSpec

-----------------------------------------------------------------------------
(* Lists without duplicates.                                               *)

NoDuplicates(l) == \A i, j \in 1..Len(l) : l[i] = l[j] => i = j

(* RemoveFirst drops the position of the element, the only one it has.     *)
LEMMA RemoveFirstIs ==
  ASSUME NEW S, NEW l \in Seq(S), NoDuplicates(l), NEW k \in 1..Len(l)
  PROVE  RemoveFirst(l, l[k]) = SubSeq(l, 1, k - 1) \o SubSeq(l, k + 1, Len(l))
<1>1. {i \in 1..Len(l) : l[i] = l[k]} = {k}
  BY DEF NoDuplicates
<1>2. k \in Nat /\ {k} # {}
  OBVIOUS
<1>3. Min({k}) = k
  BY <1>2 DEF Min
<1>4. SelectInSeq(l, LAMBDA v : v = l[k]) = k
  BY <1>1, <1>2, <1>3 DEF SelectInSeq
<1>5. \E i \in 1..Len(l) : l[i] = l[k]
  OBVIOUS
<1> QED
  BY <1>4, <1>5 DEF RemoveFirst, RemoveAt

LEMMA RemoveFirstProperties ==
  ASSUME NEW S, NEW l \in Seq(S), NoDuplicates(l), NEW k \in 1..Len(l)
  PROVE  LET m == RemoveFirst(l, l[k])
         IN  /\ m \in Seq(S) /\ Len(m) = Len(l) - 1
             /\ \A i \in 1..Len(m) : m[i] = IF i < k THEN l[i] ELSE l[i + 1]
<1> DEFINE a == SubSeq(l, 1, k - 1)
           b == SubSeq(l, k + 1, Len(l))
<1>1. Len(l) \in Nat /\ k \in Nat /\ \A i \in 1..Len(l) : l[i] \in S
  OBVIOUS
<1>2. /\ a \in Seq(S) /\ Len(a) = k - 1
      /\ \A i \in 1..(k - 1) : a[i] = l[i]
  <2>1. \A i \in 1..(k - 1) : l[i] \in S
    BY <1>1
  <2> QED
    BY <1>1, <2>1, SubSeqProperties
<1>3. /\ b \in Seq(S) /\ Len(b) = Len(l) - k
      /\ \A i \in 1..(Len(l) - k) : b[i] = l[k + i]
  <2>1. \A i \in (k + 1)..Len(l) : l[i] \in S
    BY <1>1
  <2>2. /\ b \in Seq(S)
        /\ Len(b) = IF k + 1 <= Len(l) THEN Len(l) - (k + 1) + 1 ELSE 0
        /\ \A i \in 1..(Len(l) - (k + 1) + 1) : b[i] = l[(k + 1) + i - 1]
    BY <1>1, <2>1, SubSeqProperties
  <2> HIDE DEF b
  <2> QED
    BY <1>1, <2>2
<1>4. RemoveFirst(l, l[k]) = a \o b
  BY RemoveFirstIs
<1> HIDE DEF a, b
<1>5. /\ a \o b \in Seq(S) /\ Len(a \o b) = Len(l) - 1
      /\ \A i \in 1..(Len(l) - 1) :
           (a \o b)[i] = IF i <= k - 1 THEN a[i] ELSE b[i - (k - 1)]
  BY <1>1, <1>2, <1>3, ConcatProperties
<1>6. ASSUME NEW i \in 1..(Len(l) - 1)
      PROVE  (a \o b)[i] = IF i < k THEN l[i] ELSE l[i + 1]
  <2>1. CASE i < k
    BY <1>1, <1>2, <1>5, <2>1
  <2>2. CASE ~(i < k)
    <3>1. i - (k - 1) \in 1..(Len(l) - k) /\ k + (i - (k - 1)) = i + 1
      BY <1>1, <2>2
    <3> QED
      BY <1>1, <1>3, <1>5, <2>2, <3>1
  <2> QED
    BY <2>1, <2>2
<1> QED
  BY <1>4, <1>5, <1>6

(* What WriteSetSrcRef makes of the list.                                  *)
LEMMA ReplaceProperties ==
  ASSUME NEW S, NEW l \in Seq(S), NoDuplicates(l),
         NEW e, NEW s \in S, s \notin ToSet(l)
  PROVE  LET m == Append(RemoveFirst(l, e), s)
         IN  /\ m \in Seq(S) /\ NoDuplicates(m)
             /\ ToSet(m) = (ToSet(l) \ {e}) \cup {s}
<1> DEFINE r == RemoveFirst(l, e)
           m == Append(r, s)
<1>t. Len(l) \in Nat /\ ToSet(l) = {l[i] : i \in 1..Len(l)}
  BY DEF ToSet
<1>1. r \in Seq(S) /\ NoDuplicates(r) /\ ToSet(r) = ToSet(l) \ {e}
  <2>1. CASE e \in ToSet(l)
    <3>1. PICK k \in 1..Len(l) : l[k] = e
      BY <1>t, <2>1
    <3>2. /\ r \in Seq(S) /\ Len(r) = Len(l) - 1
          /\ \A i \in 1..Len(r) : r[i] = IF i < k THEN l[i] ELSE l[i + 1]
      BY <3>1, RemoveFirstProperties
    <3> HIDE DEF r
    <3>3. NoDuplicates(r)
      <4> SUFFICES ASSUME NEW i \in 1..Len(r), NEW j \in 1..Len(r), r[i] = r[j]
                   PROVE  i = j
        BY DEF NoDuplicates
      <4> DEFINE at(x) == IF x < k THEN x ELSE x + 1
      <4>1. at(i) \in 1..Len(l) /\ at(j) \in 1..Len(l)
        BY <1>t, <3>2
      <4>2. r[i] = l[at(i)] /\ r[j] = l[at(j)]
        BY <3>2
      <4>3. at(i) = at(j)
        BY <4>1, <4>2 DEF NoDuplicates
      <4> QED
        BY <1>t, <3>2, <4>3
    <3>4. ToSet(r) = {r[i] : i \in 1..Len(r)}
      BY <3>2 DEF ToSet
    <3>5. ASSUME NEW i \in 1..Len(r) PROVE r[i] \in ToSet(l) \ {e}
      <4> DEFINE x == IF i < k THEN i ELSE i + 1
      <4>1. x \in 1..Len(l) /\ x # k
        BY <1>t, <3>2
      <4>2. r[i] = l[x]
        BY <3>2
      <4> QED
        BY <1>t, <3>1, <4>1, <4>2 DEF NoDuplicates
    <3>6. ASSUME NEW y \in ToSet(l) \ {e} PROVE y \in ToSet(r)
      <4>1. PICK x \in 1..Len(l) : y = l[x]
        BY <1>t
      <4>2. x # k
        BY <3>1, <4>1
      <4>3. CASE x < k
        <5>1. x \in 1..Len(r) /\ r[x] = l[x]
          BY <1>t, <3>2, <4>3
        <5> QED
          BY <3>4, <4>1, <5>1
      <4>4. CASE x > k
        <5>1. x - 1 \in 1..Len(r) /\ ~(x - 1 < k) /\ (x - 1) + 1 = x
          BY <1>t, <3>2, <4>4
        <5>2. r[x - 1] = l[x]
          BY <3>2, <5>1
        <5> QED
          BY <3>4, <4>1, <5>1, <5>2
      <4> QED
        BY <4>2, <4>3, <4>4
    <3> QED
      BY <3>2, <3>3, <3>4, <3>5, <3>6
  <2>2. CASE e \notin ToSet(l)
    <3>1. r = l
      BY <1>t, <2>2 DEF RemoveFirst
    <3> QED
      BY <2>2, <3>1
  <2> QED
    BY <2>1, <2>2
<1> HIDE DEF r
<1>2. /\ m \in Seq(S) /\ Len(m) = Len(r) + 1 /\ Len(r) \in Nat
      /\ \A i \in 1..Len(r) : m[i] = r[i]
      /\ m[Len(r) + 1] = s
  BY <1>1, AppendProperties
<1> HIDE DEF m
<1>3. ToSet(r) = {r[i] : i \in 1..Len(r)} /\ ToSet(m) = {m[i] : i \in 1..Len(m)}
  BY <1>1, <1>2 DEF ToSet
<1>4. \A i \in 1..Len(m) : i \in 1..Len(r) \/ i = Len(r) + 1
  BY <1>2
<1>5. \A i \in 1..Len(r) : i \in 1..Len(m) /\ r[i] # s
  BY <1>1, <1>2, <1>3
<1>6. NoDuplicates(m)
  BY <1>1, <1>2, <1>4, <1>5 DEF NoDuplicates
<1>7. ToSet(m) = ToSet(r) \cup {s}
  <2>1. Len(r) + 1 \in 1..Len(m)
    BY <1>2
  <2> QED
    BY <1>2, <1>3, <1>4, <1>5, <2>1
<1> QED
  BY <1>1, <1>2, <1>6, <1>7 DEF m, r

(* A list without duplicates of what as many references name is as long.   *)
LEMMA ListLength ==
  ASSUME NEW l \in Seq(Schedules), NoDuplicates(l),
         NEW ref \in [SchdRefs -> Schedules],
         \A q, r \in SchdRefs : ref[q] = ref[r] => q = r,
         ToSet(l) = {ref[r] : r \in SchdRefs}
  PROVE  Len(l) = Cardinality(SchdRefs)
<1> DEFINE I == 1..Len(l)
           f == [i \in I |-> CHOOSE r \in SchdRefs : ref[r] = l[i]]
<1>1. Len(l) \in Nat /\ ToSet(l) = {l[i] : i \in I}
  BY DEF ToSet
<1>2. ASSUME NEW i \in I PROVE f[i] \in SchdRefs /\ ref[f[i]] = l[i]
  <2>1. \E r \in SchdRefs : ref[r] = l[i]
    BY <1>1
  <2> QED
    BY <2>1
<1> HIDE DEF f
<1>3. f \in [I -> SchdRefs]
  BY <1>2 DEF f
<1>4. \A i, j \in I : f[i] = f[j] => i = j
  BY <1>2 DEF NoDuplicates
<1>5. \A r \in SchdRefs : \E i \in I : f[i] = r
  <2>1. ASSUME NEW r \in SchdRefs PROVE \E i \in I : f[i] = r
    <3>1. PICK i \in I : l[i] = ref[r]
      BY <1>1
    <3> QED
      BY <1>2, <3>1
  <2> QED
    BY <2>1
<1>6. f \in Bijection(I, SchdRefs)
  BY <1>3, <1>4, <1>5 DEF Bijection, Injection, Surjection, IsInjective
<1>7. IsFiniteSet(I) /\ Cardinality(I) = Len(l)
  <2>1. /\ IsFiniteSet(1..Len(l))
        /\ Cardinality(1..Len(l)) = IF 1 > Len(l) THEN 0 ELSE Len(l) - 1 + 1
    BY <1>1, FS_Interval
  <2> QED
    BY <1>1, <2>1
<1> QED
  BY <1>6, <1>7, FS_Bijection DEF ExistsBijection

-----------------------------------------------------------------------------
(* The controller of a program that may end and start again.               *)

(* The list is that of the references, or they were restored over it.      *)
Connects ==
  ~restored =>
    /\ ToSet(schedules) = {schdRef[r] : r \in SchdRefs}
    /\ \A q, r \in SchdRefs : schdRef[q] = schdRef[r] => q = r
    /\ controlEntity = ctlEnt

(* Until the restore all of it is as configured.                           *)
Configured ==
  ~up => ~restored /\ schedules = ConfSchedules /\ controlEntity = ConfCtlEnt

RestartInv == FileInv /\ CInv /\ SInv /\ OInv /\ Connects /\ Configured

LEMMA RestartInvMeans ==
  ASSUME RestartInv
  PROVE  ReferencesTakeEffect /\ SettlesOnWinner /\ OutputSettles
<1>1. ReferencesTakeEffect
  <2> SUFFICES ASSUME ~restored PROVE ReferencesMatchList /\ controlEntity = ctlEnt
    BY DEF ReferencesTakeEffect
  <2>1. schedules \in Seq(Schedules) /\ NoDuplicates(schedules)
    BY DEF RestartInv, CInv, Connected, Lists, NoDuplicates
  <2>2. schdRef \in [SchdRefs -> Schedules]
    BY DEF RestartInv, CInv, TypeOK
  <2> QED
    BY <2>1, <2>2, ListLength DEF RestartInv, Connects, ReferencesMatchList
<1>2. SettlesOnWinner /\ OutputSettles
  BY SInvSettles, OInvSettles DEF RestartInv
<1> QED
  BY <1>1, <1>2

LEMMA RestartInvInit == Boot => RestartInv
<1> SUFFICES ASSUME Boot PROVE RestartInv
  OBVIOUS
<1>1. FileInv /\ CInv /\ SInv /\ OInv
  BY FileInvInit, CInvInit, SInvInit, OInvInit DEF Boot
<1>2. Connects /\ Configured
  BY ConfigurationAssumption DEF Boot, Init, Connects, Configured
<1> QED
  BY <1>1, <1>2 DEF RestartInv

(* The controller's own steps.                                             *)
LEMMA ControllerStepKeeps ==
  ASSUME RestartInv, ControllerStep
  PROVE  CInv' /\ SInv' /\ OInv' /\ Connects' /\ Configured'
<1>1. [Next]_vars
  BY DEF ControllerStep, Next
<1>2. CInv' /\ SInv' /\ OInv'
  BY <1>1, CInvStep, SInvStep, OInvStep DEF RestartInv
<1>3. Connects' /\ Configured'
  BY ControllerKeepsReferences
     DEF ControllerStep, entityVars, storageVars, RestartInv, Connects, Configured
<1> QED
  BY <1>2, <1>3

(* A write to a reference: the schedule it named makes way for the new one.*)
LEMMA WriteSetSrcRefKeeps ==
  ASSUME RestartInv, NEW r \in SchdRefs, NEW s \in RefTargets,
         WriteAndSaveSetSrcRef(r, s)
  PROVE  CInv' /\ SInv' /\ OInv' /\ Connects' /\ Configured'
<1> USE DEF WriteAndSaveSetSrcRef, WriteSetSrcRef
<1>1. /\ s \in Schedules /\ schdRef \in [SchdRefs -> Schedules]
      /\ schedules \in Seq(Schedules) /\ NoDuplicates(schedules)
      /\ ToSet(schedules) \subseteq listening /\ listening \subseteq Schedules
  BY FileAssumption
     DEF RestartInv, CInv, TypeOK, Connected, Lists, NoDuplicates
<1>2. s \notin ToSet(schedules)
  BY <1>1 DEF Contains, ToSet
<1>3. /\ schedules' \in Seq(Schedules) /\ NoDuplicates(schedules')
      /\ ToSet(schedules') = (ToSet(schedules) \ {schdRef[r]}) \cup {s}
  BY <1>1, <1>2, ReplaceProperties
<1>4. CInv'
  <2>1. listening' \subseteq Schedules /\ schdRef' \in [SchdRefs -> Schedules]
    BY <1>1
  <2>2. TypeOK'
    BY <1>3, <2>1 DEF RestartInv, CInv, TypeOK, scheduleVars, outputVars,
                      threadVars
  <2>3. Chosen' /\ Started' /\ Published'
    BY EntriesKept DEF RestartInv, CInv, Chosen, scheduleVars, threadVars
  <2>4. Connected'
    BY <1>1, <1>3
       DEF RestartInv, CInv, Connected, Lists, NoDuplicates, threadVars
  <2> QED
    BY <2>2, <2>3, <2>4 DEF CInv
<1>5. SInv' /\ OInv'
  <2>1. SInv'
    BY DEF SInv
  <2>2. \A u \in Schedules : CurrentIdx(u) <= CurrentIdx(u)'
    BY IdxStays, CurrentValueType DEF RestartInv, scheduleVars
  <2>3. OInv'
    BY <1>1, <1>4, <2>2, UnseenKeepsOrder
       DEF RestartInv, scheduleVars, outputVars, threadVars
  <2> QED
    BY <2>1, <2>3
<1>6. Connects'
  <2> SUFFICES ASSUME ~restored
               PROVE  /\ ToSet(schedules') = {schdRef'[q] : q \in SchdRefs}
                      /\ \A p, q \in SchdRefs : schdRef'[p] = schdRef'[q] => p = q
                      /\ controlEntity' = ctlEnt'
    BY DEF Connects, Saves
  <2>1. /\ ToSet(schedules) = {schdRef[q] : q \in SchdRefs}
        /\ \A p, q \in SchdRefs : schdRef[p] = schdRef[q] => p = q
        /\ controlEntity = ctlEnt
    BY DEF RestartInv, Connects
  <2>2. \A q \in SchdRefs : schdRef'[q] = IF q = r THEN s ELSE schdRef[q]
    BY <1>1
  <2>3. \A q \in SchdRefs : schdRef[q] # s
    BY <1>2, <2>1
  <2>4. \A p, q \in SchdRefs : schdRef'[p] = schdRef'[q] => p = q
    BY <2>1, <2>2, <2>3
  <2>5. {schdRef'[q] : q \in SchdRefs} =
          ({schdRef[q] : q \in SchdRefs} \ {schdRef[r]}) \cup {s}
    BY <2>1, <2>2
  <2> QED
    BY <1>3, <2>1, <2>4, <2>5 DEF entityVars
<1>7. Configured'
  BY DEF RestartInv, Configured, Saves, ServerIdle
<1> QED
  BY <1>4, <1>5, <1>6, <1>7

(* The new entity is yet to be given a value.                              *)
LEMMA WriteCtlEntKeeps ==
  ASSUME RestartInv, NEW e \in CtlEnts, WriteCtlEnt(e)
  PROVE  CInv' /\ SInv' /\ OInv' /\ Connects' /\ Configured'
<1> USE DEF WriteCtlEnt, SetControlEntity, scheduleVars, listVars, outputVars,
            threadVars
<1>1. CInv'
  <2>1. TypeOK' /\ Chosen'
    BY DEF RestartInv, CInv, TypeOK, Chosen
  <2> QED
    BY <2>1, EntriesKept, ListKept DEF RestartInv, CInv
<1>2. SInv'
  <2>1. Winners' = Winners
    BY WinnersKept DEF RestartInv
  <2> QED
    BY <2>1, AsideKeeps DEF RestartInv
<1>3. OInv'
  BY DEF OInv
<1>4. Connects' /\ Configured'
  BY DEF Saves, ServerIdle, RestartInv, Connects, Configured
<1> QED
  BY <1>1, <1>2, <1>3, <1>4

(* The restore writes the references only: the list, and who is active,    *)
(* stay as they are.                                                       *)
LEMMA RestoreKeeps ==
  ASSUME RestartInv, RestoreReferences
  PROVE  CInv' /\ SInv' /\ OInv' /\ Connects' /\ Configured'
<1> USE DEF RestoreReferences, scheduleVars, outputVars, threadVars
<1>1. schdRef' \in [SchdRefs -> Schedules]
  BY FileIsRestored
<1>2. CInv'
  <2>1. TypeOK'
    BY <1>1 DEF RestartInv, CInv, TypeOK
  <2>2. Chosen' /\ Started' /\ Published' /\ Connected'
    BY EntriesKept DEF RestartInv, CInv, Chosen, Connected, Lists
  <2> QED
    BY <2>1, <2>2 DEF CInv
<1>3. SInv' /\ OInv'
  <2>1. Winners' = Winners
    BY WinnersKept DEF RestartInv
  <2>2. SInv'
    BY <2>1, AsideKeeps DEF RestartInv
  <2>3. \A u \in Schedules : CurrentIdx(u) <= CurrentIdx(u)'
    BY IdxStays, CurrentValueType DEF RestartInv
  <2>4. listening \subseteq Schedules
    BY DEF RestartInv, CInv, TypeOK
  <2>5. OInv'
    BY <1>2, <2>3, <2>4, UnseenKeepsOrder DEF RestartInv
  <2> QED
    BY <2>2, <2>5
<1>4. Connects'
  <2>1. ASSUME ~restored'
        PROVE  schdRef' = ConfSchdRef /\ ctlEnt' = ConfCtlEnt
    <3>1. restored' = (file # ConfReferences)
      OBVIOUS
    <3>2. file = ConfReferences
      BY <2>1, <3>1, Zenon
    <3>3. schdRef' = file.schdRef /\ ctlEnt' = file.ctlEnt
      OBVIOUS
    <3> QED
      BY <3>2, <3>3, Zenon DEF ConfReferences
  <2>2. schedules' = ConfSchedules /\ controlEntity' = ConfCtlEnt
    BY DEF RestartInv, Configured
  <2> QED
    BY <2>1, <2>2, ConfigurationAssumption DEF Connects
<1>5. Configured'
  BY DEF Configured
<1> QED
  BY <1>2, <1>3, <1>4, <1>5

LEMMA CrashKeeps ==
  ASSUME RestartInv, Crash
  PROVE  CInv' /\ SInv' /\ OInv' /\ Connects' /\ Configured'
<1>1. StartState' /\ now' \in Nat
  BY DEF Crash, StartState, RestartInv, CInv, TypeOK
<1>2. (StartState /\ now \in Nat => CInv /\ SInv /\ OInv)'
  BY CInvStart, SInvStart, OInvStart, PTL
<1>3. Connects' /\ Configured'
  BY ConfigurationAssumption DEF Crash, Connects, Configured
<1> QED
  BY <1>1, <1>2, <1>3

LEMMA StorageStepKeeps ==
  ASSUME RestartInv, StorageStep
  PROVE  CInv' /\ SInv' /\ OInv' /\ Connects' /\ Configured'
<1>1. CASE CreateFile \/ SkipFile \/ OpenFile \/ WriteFile
  <2>1. UNCHANGED <<vars, entityVars, restored>> /\ up' \in {up, TRUE}
    BY <1>1 DEF CreateFile, SkipFile, OpenFile, WriteFile
  <2>2. CInv' /\ SInv' /\ OInv'
    BY <2>1, CInvStep, SInvStep, OInvStep DEF RestartInv
  <2>3. Connects' /\ Configured'
    BY <2>1 DEF RestartInv, Connects, Configured, vars, listVars, entityVars
  <2> QED
    BY <2>2, <2>3
<1> QED
  BY <1>1, RestoreKeeps, CrashKeeps DEF StorageStep

LEMMA RestartInvStep == RestartInv /\ [RestartNext]_allVars => RestartInv'
<1> SUFFICES ASSUME RestartInv, [RestartNext]_allVars PROVE RestartInv'
  OBVIOUS
<1>1. FileInv'
  BY FileInvStep DEF RestartInv
<1>2. CInv' /\ SInv' /\ OInv' /\ Connects' /\ Configured'
  <2>1. CASE WriteReferences
    BY <2>1, WriteSetSrcRefKeeps, WriteCtlEntKeeps DEF WriteReferences
  <2>2. CASE UNCHANGED allVars
    <3>1. UNCHANGED <<vars, entityVars, up, restored>>
      BY <2>2 DEF allVars, storageVars
    <3>2. CInv' /\ SInv' /\ OInv'
      BY <3>1, CInvStep, SInvStep, OInvStep DEF RestartInv
    <3>3. Connects' /\ Configured'
      BY <3>1 DEF RestartInv, Connects, Configured, vars, listVars, entityVars
    <3> QED
      BY <3>2, <3>3
  <2> QED
    BY <2>1, <2>2, ControllerStepKeeps, StorageStepKeeps DEF RestartNext
<1> QED
  BY <1>1, <1>2 DEF RestartInv

LEMMA RestartInvHolds == RestartSpec => []RestartInv
BY RestartInvInit, RestartInvStep, PTL DEF RestartSpec

(* Through any writes to the references, saves and restarts, the list that *)
(* decides on the active schedule holds what the references name, each     *)
(* once, and the entity they name is the one that is controlled, unless    *)
(* other references than the configured ones were restored.                *)
THEOREM ReferencesTakeEffectAlways == RestartSpec => []ReferencesTakeEffect
<1>1. RestartInv => ReferencesTakeEffect
  BY RestartInvMeans
<1> QED
  BY <1>1, RestartInvHolds, PTL

(* An undisturbed decision settles on the winner also when the references  *)
(* are written, and after any restart.                                     *)
THEOREM SettlesOnWinnerAlways == RestartSpec => []SettlesOnWinner
<1>1. RestartInv => SettlesOnWinner
  BY RestartInvMeans
<1> QED
  BY <1>1, RestartInvHolds, PTL

(* So do the outputs, once a callback writes them alone: with references   *)
(* that are written and restored and a program that ends at any step, the  *)
(* entity that is controlled holds an entry of the active schedule's run.  *)
THEOREM OutputSettlesAlways == RestartSpec => []OutputSettles
<1>1. RestartInv => OutputSettles
  BY RestartInvMeans
<1> QED
  BY <1>1, RestartInvHolds, PTL

=============================================================================
