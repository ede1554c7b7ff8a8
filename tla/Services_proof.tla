--------------------------- MODULE Services_proof ---------------------------
(***************************************************************************)
(* The time service, the executor, the control loop, the event centre, the *)
(* network settings, the configuration store, alarms and the operation     *)
(* log, for any zones, workers, tasks, timers, listeners, interfaces,      *)
(* scopes, rules and log files and any capacities.                         *)
(***************************************************************************)
EXTENDS OperationLog, AlarmService, Config, TimeService, Executor, ControlLoop, EventCenter,
        NetworkService, Minimum, FiniteSetTheorems, SequenceTheorems, TLAPS

-----------------------------------------------------------------------------
(***************************************************************************)
(* Time settings.                                                          *)
(***************************************************************************)

ClockSources == {"manual", "browser", "ntp", "onvif"}

\* The settings, with suppress_config_apply_ never left set.
SettingsInv ==
    /\ ClockTypeOK /\ TimeStoreAgrees
    /\ tsOn \in BOOLEAN /\ tsRefused \in BOOLEAN /\ tsSuppress = FALSE

\* A call whose platform call succeeded has set the clock to the time it will
\* report, whatever the other thread did meanwhile.
SyncInv ==
    /\ tsThread \in [TimeThreads -> [pc : {"idle", "platform", "done", "failed"},
                                     source : ClockSources \cup {"none"},
                                     time : ClockTimes \cup {0}]]
    /\ \A t \in TimeThreads :
          /\ tsThread[t].pc # "idle" => tsThread[t].source \in ClockSources
          /\ tsThread[t].pc = "done" => <<tsThread[t].source, tsThread[t].time>> \in tsSets
    /\ SyncTimeHappened

TimeInv == SettingsInv /\ SyncInv

\* A normalised setting is one, and normalising it again changes nothing.
LEMMA NormalizeTyped ==
    ASSUME NEW c \in TimeConfigs
    PROVE  /\ NormalizeTimeConfig(c) \in TimeConfigs
           /\ NormalizeTimeConfig(c).browser => NormalizeTimeConfig(c).manual
           /\ NormalizeTimeConfig(NormalizeTimeConfig(c)) = NormalizeTimeConfig(c)
BY DEF TimeConfigs, NormalizeTimeConfig

\* The clock service before Start satisfies its invariant.
LEMMA TimeInitEstablishes == ClockInit => TimeInv
<1> SUFFICES ASSUME ClockInit PROVE TimeInv
  OBVIOUS
<1>1. DefaultTime \in TimeConfigs /\ (DefaultTime.browser => DefaultTime.manual)
  BY TimeAssumption DEF DefaultTime, TimeConfigs
<1>2. SettingsInv
  BY <1>1 DEF ClockInit, SettingsInv, ClockTypeOK, TimeStoreAgrees
<1>3. SyncInv
  BY DEF ClockInit, SyncInv, SyncTimeHappened, NoTimeCall, TimeThreads
<1> QED
  BY <1>2, <1>3 DEF TimeInv

\* Steps of the settings leave the synchronisation alone ...
LEMMA SettingsStepPreserves ==
    ASSUME TimeInv,
           \/ TimeStart
           \/ \E c \in TimeConfigs, saved \in BOOLEAN : ApplyTimeConfigUpdate(c, saved) \/ SetTimeScope(c, saved)
           \/ \E saved \in BOOLEAN : TimeStop(saved)
    PROVE  TimeInv'
<1> USE DEF TimeInv, SettingsInv, ClockTypeOK, TimeStoreAgrees
<1>1. UNCHANGED <<tsSync, tsThread, tsSets>>
  BY DEF TimeStart, ApplyTimeConfigUpdate, SetTimeScope, TimeStop
<1>2. SyncInv'
  BY <1>1 DEF SyncInv, SyncTimeHappened
<1>3. CASE TimeStart
  BY <1>2, <1>3, NormalizeTyped DEF TimeStart
<1>4. ASSUME NEW c \in TimeConfigs, NEW saved \in BOOLEAN, ApplyTimeConfigUpdate(c, saved)
      PROVE  TimeInv'
  BY <1>2, <1>4, NormalizeTyped DEF ApplyTimeConfigUpdate, PersistTime, TimeStoreTakes
<1>5. ASSUME NEW c \in TimeConfigs, NEW saved \in BOOLEAN, SetTimeScope(c, saved)
      PROVE  TimeInv'
  BY <1>2, <1>5, NormalizeTyped DEF SetTimeScope, TimeStoreTakes
<1>6. ASSUME NEW saved \in BOOLEAN, TimeStop(saved)
      PROVE  TimeInv'
  BY <1>2, <1>6 DEF TimeStop
<1> QED
  BY <1>3, <1>4, <1>5, <1>6

\* ... and the steps of SetSystemTime() and SyncNow() leave the settings alone.
LEMMA SyncStepPreserves ==
    ASSUME TimeInv,
           \/ \E t \in TimeThreads, time \in ClockTimes : \E source \in SourcesOf[t] : SetTimeBegin(t, source, time)
           \/ \E t \in TimeThreads, ok \in BOOLEAN : SetTimePlatform(t, ok)
           \/ \E t \in TimeThreads : SetTimeEnd(t)
    PROVE  TimeInv'
<1> USE DEF TimeInv, SyncInv, SyncTimeHappened
<1>1. UNCHANGED tsSettings
  BY DEF SetTimeBegin, SetTimePlatform, SetTimeEnd
<1>2. SettingsInv'
  BY <1>1 DEF tsSettings, SettingsInv, ClockTypeOK, TimeStoreAgrees
<1>3. ASSUME NEW t \in TimeThreads, NEW time \in ClockTimes, NEW source \in SourcesOf[t],
             SetTimeBegin(t, source, time)
      PROVE  TimeInv'
  <2>1. source \in ClockSources
    BY DEF TimeThreads, SourcesOf, ClockSources
  <2> QED
    BY <1>2, <1>3, <2>1 DEF SetTimeBegin
<1>4. ASSUME NEW t \in TimeThreads, NEW ok \in BOOLEAN, SetTimePlatform(t, ok)
      PROVE  TimeInv'
  BY <1>2, <1>4 DEF SetTimePlatform
<1>5. ASSUME NEW t \in TimeThreads, SetTimeEnd(t)
      PROVE  TimeInv'
  <2>1. tsThread' \in [TimeThreads -> [pc : {"idle", "platform", "done", "failed"},
                                       source : ClockSources \cup {"none"},
                                       time : ClockTimes \cup {0}]]
    BY <1>5 DEF SetTimeEnd, NoTimeCall
  <2>2. SyncTimeHappened'
    BY <1>5 DEF SetTimeEnd, UpdateSyncState, ClockSources
  <2> QED
    BY <1>2, <1>5, <2>1, <2>2 DEF SetTimeEnd, NoTimeCall
<1> QED
  BY <1>3, <1>4, <1>5

\* Service and store agree on the time settings through updates, scope writes,
\* failing saves and restarts, and the synchronisation time shown is one the
\* clock was set to, with two threads in SetSystemTime() at once.
THEOREM TimeAsConfiguredHolds == ClockSpec => []TimeAsConfigured
<1>1. TimeInv => TimeAsConfigured
  BY DEF TimeInv, SettingsInv, SyncInv, TimeAsConfigured
<1>2. TimeInv /\ [ClockNext]_tsVars => TimeInv'
  <2>1. TimeInv /\ UNCHANGED tsVars => TimeInv'
    BY DEF tsVars, TimeInv, SettingsInv, SyncInv, ClockTypeOK, TimeStoreAgrees, SyncTimeHappened
  <2> QED
    BY <2>1, SettingsStepPreserves, SyncStepPreserves DEF ClockNext
<1> QED
  BY <1>1, <1>2, TimeInitEstablishes, PTL DEF ClockSpec

-----------------------------------------------------------------------------
(***************************************************************************)
(* The executor.                                                           *)
(***************************************************************************)

WorkersIn(where, S) == {w \in ExWorkers : where[w] \in S}

ExTypes ==
    /\ exFlags \in [run : BOOLEAN, stop : BOOLEAN, discard : BOOLEAN]
    /\ exRing \in [RingSlots -> Nat] /\ exHead \in RingSlots /\ exTail \in RingSlots
    /\ exSize \in 0 .. RingCapacity
    /\ exWorker \in [ExWorkers -> {"none", "wait", "awake", "busy", "ended"}]
    /\ exTask \in [ExWorkers -> Nat]
    /\ exJoining \in BOOLEAN /\ exPosted \in Nat /\ exTaken \in Seq(Nat)
    /\ exEnd \in {"no", "drain", "discard"}

\* The flags, the way it ends and where the workers are go together.
ExPhase ==
    /\ exFlags.run => /\ ~exFlags.stop /\ ~exFlags.discard /\ ~exJoining /\ exEnd = "no"
                      /\ \A w \in ExWorkers : exWorker[w] \in {"wait", "awake", "busy"}
    /\ ~exFlags.run /\ exJoining =>
          /\ exFlags.stop /\ exEnd # "no"
          /\ exFlags.discard <=> exEnd = "discard"
          /\ exEnd = "discard" => exSize = 0
          /\ \A w \in ExWorkers : exWorker[w] \in {"awake", "busy", "ended"}
          /\ \A w \in ExWorkers : exWorker[w] = "ended" => exSize = 0
    /\ ~exFlags.run /\ ~exJoining =>
          exSize = 0 /\ \A w \in ExWorkers : exWorker[w] = "none"
    /\ \A w \in ExWorkers : exWorker[w] # "busy" => exTask[w] = 0

\* The k-th slot from the head, without the modulus.
Slot(h, k) == IF h + k < RingCapacity THEN h + k ELSE h + k - RingCapacity

\* Unless the queue was discarded, tasks were taken in the order they were
\* posted and the ring holds the others, oldest at the head.
ExQueue ==
    /\ exTail = Slot(exHead, exSize)
    /\ exEnd # "discard" =>
          /\ Len(exTaken) + exSize = exPosted
          /\ \A i \in 1 .. Len(exTaken) : exTaken[i] = i
          /\ \A k \in 0 .. (exSize - 1) : exRing[Slot(exHead, k)] = Len(exTaken) + k + 1

ExCounts ==
    /\ exRunning = Cardinality(WorkersIn(exWorker, {"busy"}))
    /\ WorkersIn(exWorker, {"wait"}) # {} => exSize <= Cardinality(WorkersIn(exWorker, {"awake"}))

ExInv == ExTypes /\ ExPhase /\ ExQueue /\ ExCounts

\* head_ and tail_ never run more than once around the ring.
LEMMA RingModulus ==
    ASSUME NEW h \in RingSlots, NEW k \in 0 .. RingCapacity
    PROVE  /\ Slot(h, k) = (h + k) % RingCapacity
           /\ Slot(h, k) \in RingSlots
BY ExecutorAssumption DEF Slot, RingSlots

\* Moving head or tail on by one moves every slot counted from it.
LEMMA RingNext ==
    ASSUME NEW h \in RingSlots
    PROVE  /\ NextSlot(h) = Slot(h, 1) /\ NextSlot(h) \in RingSlots
           /\ \A k \in 0 .. (RingCapacity - 1) : Slot(NextSlot(h), k) = Slot(h, k + 1)
           /\ \A k \in 0 .. (RingCapacity - 1) : NextSlot(Slot(h, k)) = Slot(h, k + 1)
<1>1. NextSlot(h) = Slot(h, 1) /\ NextSlot(h) \in RingSlots
  BY RingModulus, ExecutorAssumption DEF NextSlot, RingSlots
<1>2. ASSUME NEW k \in 0 .. (RingCapacity - 1)
      PROVE  Slot(NextSlot(h), k) = Slot(h, k + 1) /\ NextSlot(Slot(h, k)) = Slot(h, k + 1)
  <2>1. Slot(h, k) \in RingSlots
    BY RingModulus, ExecutorAssumption DEF RingSlots
  <2>2. NextSlot(Slot(h, k)) = Slot(Slot(h, k), 1)
    BY <2>1, RingModulus, ExecutorAssumption DEF NextSlot, RingSlots
  <2> QED
    BY <1>1, <2>1, <2>2, ExecutorAssumption DEF Slot, RingSlots
<1> QED
  BY <1>1, <1>2

\* Two places of a ring that is not full are two slots.
LEMMA SlotsDiffer ==
    ASSUME NEW h \in RingSlots, NEW k \in 0 .. (RingCapacity - 1), NEW l \in 0 .. (RingCapacity - 1),
           Slot(h, k) = Slot(h, l)
    PROVE  k = l
BY ExecutorAssumption DEF Slot, RingSlots

\* Counting workers: one of them moves into or out of a group.
LEMMA CountWorkers ==
    ASSUME NEW where, NEW S
    PROVE  /\ IsFiniteSet(WorkersIn(where, S))
           /\ Cardinality(WorkersIn(where, S)) \in Nat
           /\ (Cardinality(WorkersIn(where, S)) = 0) <=> (WorkersIn(where, S) = {})
<1>1. WorkersIn(where, S) \subseteq ExWorkers
  BY DEF WorkersIn
<1>2. IsFiniteSet(WorkersIn(where, S))
  BY <1>1, ExecutorAssumption, FS_Subset
<1> QED
  BY <1>2, FS_CardinalityType, FS_EmptySet

\* One worker more is counted once.
LEMMA CountOneMore ==
    ASSUME NEW where, NEW there, NEW S, NEW T, NEW w \in ExWorkers,
           WorkersIn(there, T) = WorkersIn(where, S) \cup {w}, w \notin WorkersIn(where, S)
    PROVE  Cardinality(WorkersIn(there, T)) = Cardinality(WorkersIn(where, S)) + 1
BY CountWorkers, FS_AddElement

\* An executor that was never started satisfies the invariant.
LEMMA ExInitEstablishes == ExecutorInit => ExInv
<1> SUFFICES ASSUME ExecutorInit PROVE ExInv
  OBVIOUS
<1>1. ExTypes
  <2>1. 0 \in RingSlots /\ 0 \in 0 .. RingCapacity
    BY ExecutorAssumption DEF RingSlots
  <2>2. exRing \in [RingSlots -> Nat]
    BY DEF ExecutorInit, EmptyRing
  <2> QED
    BY <2>1, <2>2 DEF ExecutorInit, ExTypes
<1>2. ExPhase
  BY DEF ExecutorInit, ExPhase
<1>3. ExQueue
  BY ExecutorAssumption DEF ExecutorInit, ExQueue, Slot
<1>4. ExCounts
  <2>1. WorkersIn(exWorker, {"busy"}) = {} /\ WorkersIn(exWorker, {"wait"}) = {}
    BY DEF ExecutorInit, WorkersIn
  <2> QED
    BY <2>1, FS_EmptySet DEF ExecutorInit, ExCounts
<1> QED
  BY <1>1, <1>2, <1>3, <1>4 DEF ExInv

\* Start creates the workers.
LEMMA ExStartPreserves == ASSUME ExInv, ExecutorStart PROVE ExInv'
<1>1. ExTypes'
  BY ExecutorAssumption DEF ExInv, ExecutorStart, ExTypes, RingSlots, EmptyRing
<1>2. ExPhase'
  BY DEF ExInv, ExTypes, ExecutorStart, ExPhase
<1>3. ExQueue'
  BY ExecutorAssumption DEF ExecutorStart, ExQueue, Slot
<1>4. ExCounts'
  <2>1. WorkersIn(exWorker', {"busy"}) = {} /\ WorkersIn(exWorker', {"wait"}) = {}
    BY DEF ExecutorStart, WorkersIn
  <2> QED
    BY <2>1, FS_EmptySet DEF ExecutorStart, ExCounts
<1> QED
  BY <1>1, <1>2, <1>3, <1>4 DEF ExInv

\* ClearQueueLocked() leaves an empty ring.
LEMMA ClearQueueTyped ==
    ASSUME ExTypes, ClearQueue
    PROVE  /\ exRing' \in [RingSlots -> Nat] /\ exHead' \in RingSlots /\ exTail' \in RingSlots
           /\ exSize' = 0 /\ exTail' = Slot(exHead', exSize')
BY ExecutorAssumption DEF ExTypes, ClearQueue, RingSlots, Slot

\* Stop raises its flags and wakes every worker.
LEMMA ExStopBeginPreserves ==
    ASSUME ExInv, NEW mode \in {"drain", "discard"}, ExecutorStopBegin(mode)
    PROVE  ExInv'
<1> USE DEF ExInv
<1>1. ExTypes'
  <2>1. exWorker' \in [ExWorkers -> {"none", "wait", "awake", "busy", "ended"}]
    BY DEF ExecutorStopBegin, NotifyAll, ExTypes
  <2>2. CASE mode = "discard"
    BY <2>1, <2>2, ClearQueueTyped, ExecutorAssumption, SMTT(30) DEF ExecutorStopBegin, ExTypes
  <2>3. CASE mode = "drain"
    BY <2>1, <2>3 DEF ExecutorStopBegin, ExTypes, exIndex
  <2> QED
    BY <2>2, <2>3
<1>2. ExPhase'
  <2>1. \A w \in ExWorkers : exWorker'[w] \in {"awake", "busy"}
    BY DEF ExecutorStopBegin, NotifyAll, ExTypes, ExPhase
  <2>2. \A w \in ExWorkers : exWorker'[w] = "busy" <=> exWorker[w] = "busy"
    BY DEF ExecutorStopBegin, NotifyAll, ExTypes
  <2>3. mode = "discard" => exSize' = 0
    BY DEF ExecutorStopBegin, ClearQueue
  <2> QED
    BY <2>1, <2>2, <2>3 DEF ExecutorStopBegin, ExPhase
<1>3. ExQueue'
  <2>1. CASE mode = "discard"
    BY <2>1, ClearQueueTyped DEF ExecutorStopBegin, ExQueue
  <2>2. CASE mode = "drain"
    BY <2>2 DEF ExecutorStopBegin, ExQueue, ExPhase, exIndex
  <2> QED
    BY <2>1, <2>2
<1>4. ExCounts'
  <2>1. /\ WorkersIn(exWorker', {"busy"}) = WorkersIn(exWorker, {"busy"})
        /\ WorkersIn(exWorker', {"wait"}) = {}
    BY DEF ExecutorStopBegin, NotifyAll, WorkersIn, ExTypes
  <2> QED
    BY <2>1 DEF ExecutorStopBegin, ExCounts
<1> QED
  BY <1>1, <1>2, <1>3, <1>4

\* Stop returns after the join.
LEMMA ExStopEndPreserves == ASSUME ExInv, ExecutorStopEnd PROVE ExInv'
<1> USE DEF ExInv
<1>1. ExTypes'
  <2>1. exWorker' \in [ExWorkers -> {"none", "wait", "awake", "busy", "ended"}]
    BY DEF ExecutorStopEnd
  <2>2. 0 \in 0 .. RingCapacity
    BY ExecutorAssumption
  <2> QED
    BY <2>1, <2>2, ClearQueueTyped DEF ExecutorStopEnd, ExTypes
<1>2. ExPhase'
  BY ClearQueueTyped DEF ExecutorStopEnd, ExPhase, ExTypes
<1>3. ExQueue'
  <2>1. exSize = 0
    BY ExecutorAssumption DEF ExecutorStopEnd, ExPhase, ExTypes
  <2> QED
    BY <2>1, ClearQueueTyped DEF ExecutorStopEnd, ExQueue, ExTypes
<1>4. ExCounts'
  <2>1. WorkersIn(exWorker', {"busy"}) = {} /\ WorkersIn(exWorker', {"wait"}) = {}
    BY DEF ExecutorStopEnd, WorkersIn
  <2> QED
    BY <2>1, FS_EmptySet DEF ExecutorStopEnd, ExCounts
<1> QED
  BY <1>1, <1>2, <1>3, <1>4

\* A posted task goes behind the others, and a sleeping worker is woken for it.
LEMMA ExPostPreserves == ASSUME ExInv, ExecutorPost PROVE ExInv'
<1> USE DEF ExInv
<1>1. exWorker' \in [ExWorkers -> {"none", "wait", "awake", "busy", "ended"}]
  BY DEF ExecutorPost, NotifyOne, ExTypes
<1>2. ExTypes'
  BY <1>1, RingNext, ExecutorAssumption DEF ExecutorPost, RingHasRoom, ExTypes
<1>3. ExPhase'
  BY DEF ExecutorPost, NotifyOne, ExTypes, ExPhase
<1>4. ExQueue'
  <2>1. exEnd = "no" /\ exEnd' = "no" /\ exTaken' = exTaken /\ exHead' = exHead /\ exSize' = exSize + 1
        /\ exSize \in 0 .. (RingCapacity - 1) /\ exPosted' = exPosted + 1
    BY ExecutorAssumption DEF ExecutorPost, RingHasRoom, ExTypes, ExPhase
  <2>2. exTail' = Slot(exHead', exSize')
    BY <2>1, RingNext DEF ExecutorPost, ExQueue, ExTypes
  <2>3. ASSUME NEW k \in 0 .. (exSize' - 1)
        PROVE  exRing'[Slot(exHead', k)] = Len(exTaken') + k + 1
    <3>1. Slot(exHead, k) \in RingSlots
      BY <2>1, RingModulus, ExecutorAssumption DEF ExTypes
    <3>2. CASE k = exSize
      BY <2>1, <3>1, <3>2 DEF ExecutorPost, ExQueue, ExTypes
    <3>3. CASE k # exSize
      <4>1. k \in 0 .. (exSize - 1)
        BY <2>1, <3>3
      <4>2. Slot(exHead, k) # exTail
        BY <2>1, <4>1, SlotsDiffer, ExecutorAssumption DEF ExQueue, ExTypes
      <4> QED
        BY <2>1, <3>1, <4>1, <4>2 DEF ExecutorPost, ExQueue, ExTypes
    <3> QED
      BY <3>2, <3>3
  <2>4. Len(exTaken') + exSize' = exPosted' /\ \A i \in 1 .. Len(exTaken') : exTaken'[i] = i
    BY <2>1 DEF ExQueue, ExTypes
  <2> QED
    BY <2>1, <2>2, <2>3, <2>4 DEF ExQueue
<1>5. ExCounts'
  <2>1. exRunning' = exRunning /\ exSize' = exSize + 1 /\ exSize \in Nat
    BY DEF ExecutorPost, ExTypes
  <2>2. ASSUME NEW w \in ExWorkers, exWorker[w] = "wait", exWorker' = [exWorker EXCEPT ![w] = "awake"]
        PROVE  ExCounts'
    <3>1. WorkersIn(exWorker', {"busy"}) = WorkersIn(exWorker, {"busy"})
      BY <2>2 DEF WorkersIn, ExTypes
    <3>2. WorkersIn(exWorker', {"awake"}) = WorkersIn(exWorker, {"awake"}) \cup {w}
      BY <2>2 DEF WorkersIn, ExTypes
    <3>3. Cardinality(WorkersIn(exWorker', {"awake"})) = Cardinality(WorkersIn(exWorker, {"awake"})) + 1
      <4>1. w \notin WorkersIn(exWorker, {"awake"})
        BY <2>2 DEF WorkersIn
      <4> QED
        BY <3>2, <4>1, CountOneMore
    <3>4. exSize <= Cardinality(WorkersIn(exWorker, {"awake"}))
      BY <2>2 DEF ExCounts, WorkersIn
    <3> QED
      BY <2>1, <3>1, <3>3, <3>4, CountWorkers DEF ExCounts
  <2>3. CASE (\A w \in ExWorkers : exWorker[w] # "wait") /\ UNCHANGED exWorker
    BY <2>1, <2>3 DEF ExCounts, WorkersIn
  <2> QED
    BY <2>2, <2>3 DEF ExecutorPost, NotifyOne
<1> QED
  BY <1>2, <1>3, <1>4, <1>5

\* A worker finds nothing and waits.
LEMMA ExWaitPreserves == ASSUME ExInv, NEW w \in ExWorkers, WorkerWait(w) PROVE ExInv'
<1> USE DEF ExInv
<1>1. ExTypes'
  BY DEF WorkerWait, ExTypes, exIndex
<1>2. ExPhase' /\ ExQueue'
  BY DEF WorkerWait, ExTypes, ExPhase, ExQueue, exIndex
<1>3. ExCounts'
  <2>1. WorkersIn(exWorker', {"busy"}) = WorkersIn(exWorker, {"busy"})
    BY DEF WorkerWait, WorkersIn, ExTypes
  <2>2. exSize' = 0 /\ exRunning' = exRunning
    BY DEF WorkerWait, exIndex
  <2> QED
    BY <2>1, <2>2, CountWorkers DEF ExCounts
<1> QED
  BY <1>1, <1>2, <1>3

\* A worker leaves its loop.
LEMMA ExEndPreserves == ASSUME ExInv, NEW w \in ExWorkers, WorkerEnd(w) PROVE ExInv'
<1> USE DEF ExInv
<1>1. exFlags.stop /\ ~exFlags.run /\ exJoining /\ exSize = 0
  BY DEF WorkerEnd, WorkerMustEnd, ExPhase, ExTypes
<1>2. ExTypes'
  BY DEF WorkerEnd, ExTypes, exIndex
<1>3. ExPhase' /\ ExQueue'
  BY <1>1 DEF WorkerEnd, ExTypes, ExPhase, ExQueue, exIndex
<1>4. ExCounts'
  <2>1. WorkersIn(exWorker', {"busy"}) = WorkersIn(exWorker, {"busy"})
    BY DEF WorkerEnd, WorkersIn, ExTypes
  <2>2. WorkersIn(exWorker', {"wait"}) = {}
    BY <1>1 DEF WorkerEnd, WorkersIn, ExTypes, ExPhase
  <2> QED
    BY <2>1, <2>2 DEF ExCounts, WorkerEnd
<1> QED
  BY <1>2, <1>3, <1>4

\* A worker takes the oldest task, and one awake worker fewer goes with one
\* task fewer.
LEMMA ExTakePreserves == ASSUME ExInv, NEW w \in ExWorkers, WorkerTake(w) PROVE ExInv'
<1> USE DEF ExInv
<1>1. /\ exSize \in 1 .. RingCapacity /\ exEnd # "discard" /\ exEnd' = exEnd
      /\ exWorker[w] = "awake" /\ exWorker' = [exWorker EXCEPT ![w] = "busy"]
      /\ exSize' = exSize - 1 /\ exHead \in RingSlots /\ exHead' = NextSlot(exHead)
      /\ exTail' = exTail /\ exPosted' = exPosted
      /\ exRing' = [exRing EXCEPT ![exHead] = 0]
      /\ exTaken' = Append(exTaken, exRing[exHead])
      /\ exTask' = [exTask EXCEPT ![w] = exRing[exHead]]
      /\ exRunning' = exRunning + 1 /\ exRing[exHead] \in Nat
  BY DEF WorkerTake, WorkerMustEnd, ExTypes, ExPhase
<1>2. ExTypes'
  <2>1. exTaken' \in Seq(Nat)
    BY <1>1 DEF ExTypes
  <2>2. exRing' \in [RingSlots -> Nat] /\ exHead' \in RingSlots
    BY <1>1, RingNext DEF ExTypes
  <2>3. exWorker' \in [ExWorkers -> {"none", "wait", "awake", "busy", "ended"}]
        /\ exTask' \in [ExWorkers -> Nat]
    BY <1>1 DEF ExTypes
  <2>4. exSize' \in 0 .. RingCapacity
    BY <1>1, ExecutorAssumption
  <2> QED
    BY <1>1, <2>1, <2>2, <2>3, <2>4 DEF WorkerTake, ExTypes
<1>3. ExPhase'
  BY <1>1, ExecutorAssumption DEF WorkerTake, ExTypes, ExPhase
<1>4. ExQueue'
  <2> DEFINE n == Len(exTaken)
  <2>1. n \in Nat /\ Len(exTaken') = n + 1
    BY <1>1 DEF ExTypes
  <2>2. Slot(exHead, 0) = exHead /\ exRing[exHead] = n + 1
    <3>1. Slot(exHead, 0) = exHead
      BY <1>1, ExecutorAssumption DEF Slot, RingSlots
    <3>2. 0 \in 0 .. (exSize - 1)
      BY <1>1, ExecutorAssumption
    <3>3. exRing[Slot(exHead, 0)] = n + 0 + 1
      BY <1>1, <3>2 DEF ExQueue
    <3> QED
      BY <2>1, <3>1, <3>3
  <2>3. exTail' = Slot(exHead', exSize')
    BY <1>1, RingNext, ExecutorAssumption DEF ExQueue
  <2>4. Len(exTaken') + exSize' = exPosted'
    <3>1. n + exSize = exPosted
      BY <1>1 DEF ExQueue
    <3> QED
      BY <1>1, <2>1, <3>1, ExecutorAssumption
  <2>5. \A i \in 1 .. Len(exTaken') : exTaken'[i] = i
    BY <1>1, <2>1, <2>2 DEF ExQueue, ExTypes
  <2>6. ASSUME NEW k \in 0 .. (exSize' - 1)
        PROVE  exRing'[Slot(exHead', k)] = Len(exTaken') + k + 1
    <3>1. k \in 0 .. (RingCapacity - 1) /\ k + 1 \in 0 .. (RingCapacity - 1) /\ k + 1 \in 0 .. (exSize - 1)
      BY <1>1, ExecutorAssumption
    <3>2. Slot(exHead', k) = Slot(exHead, k + 1)
      BY <1>1, <3>1, RingNext
    <3>3. Slot(exHead, k + 1) # exHead
      BY <1>1, <2>2, <3>1, SlotsDiffer, ExecutorAssumption
    <3>4. Slot(exHead, k + 1) \in RingSlots
      BY <1>1, <3>1, RingModulus, ExecutorAssumption
    <3>5. exRing[Slot(exHead, k + 1)] = n + (k + 1) + 1
      BY <1>1, <3>1 DEF ExQueue
    <3> QED
      BY <1>1, <2>1, <3>1, <3>2, <3>3, <3>4, <3>5 DEF ExTypes
  <2> QED
    BY <2>3, <2>4, <2>5, <2>6 DEF ExQueue
<1>5. ExCounts'
  <2>1. /\ WorkersIn(exWorker', {"busy"}) = WorkersIn(exWorker, {"busy"}) \cup {w}
        /\ w \notin WorkersIn(exWorker, {"busy"})
        /\ WorkersIn(exWorker, {"awake"}) = WorkersIn(exWorker', {"awake"}) \cup {w}
        /\ w \notin WorkersIn(exWorker', {"awake"})
        /\ WorkersIn(exWorker', {"wait"}) = WorkersIn(exWorker, {"wait"})
    BY <1>1 DEF WorkersIn, ExTypes
  <2>2. Cardinality(WorkersIn(exWorker', {"busy"})) = Cardinality(WorkersIn(exWorker, {"busy"})) + 1
    BY <2>1, CountOneMore
  <2>3. Cardinality(WorkersIn(exWorker, {"awake"})) = Cardinality(WorkersIn(exWorker', {"awake"})) + 1
    BY <2>1, CountOneMore
  <2>4. Cardinality(WorkersIn(exWorker', {"awake"})) \in Nat
    BY CountWorkers
  <2> QED
    <3>1. exRunning' = Cardinality(WorkersIn(exWorker', {"busy"}))
      BY <1>1, <2>2 DEF ExCounts
    <3>2. ASSUME WorkersIn(exWorker', {"wait"}) # {}
          PROVE  exSize' <= Cardinality(WorkersIn(exWorker', {"awake"}))
      <4>1. exSize <= Cardinality(WorkersIn(exWorker, {"awake"}))
        BY <2>1, <3>2 DEF ExCounts
      <4> QED
        BY <1>1, <2>3, <2>4, <4>1, ExecutorAssumption
    <3> QED
      BY <3>1, <3>2 DEF ExCounts
<1> QED
  BY <1>2, <1>3, <1>4, <1>5

\* A task returns.
LEMMA ExDonePreserves == ASSUME ExInv, NEW w \in ExWorkers, WorkerDone(w) PROVE ExInv'
<1> USE DEF ExInv
<1>1. exWorker' \in [ExWorkers -> {"none", "wait", "awake", "busy", "ended"}]
  BY DEF WorkerDone, ExTypes
<1>2. ExTypes'
  BY <1>1 DEF WorkerDone, ExTypes, exIndex
<1>3. ExPhase' /\ ExQueue'
  BY <1>1 DEF WorkerDone, ExTypes, ExPhase, ExQueue, exIndex
<1>4. \A v \in ExWorkers : v # w => exWorker'[v] = exWorker[v]
  BY DEF WorkerDone, ExPhase, ExTypes
<1>5. exWorker'[w] = "awake" /\ exWorker[w] = "busy" /\ exRunning' = exRunning - 1 /\ exSize' = exSize
  BY DEF WorkerDone, exIndex
<1>6. ExCounts'
  <2>1. /\ WorkersIn(exWorker, {"busy"}) = WorkersIn(exWorker', {"busy"}) \cup {w}
        /\ w \notin WorkersIn(exWorker', {"busy"})
        /\ WorkersIn(exWorker', {"awake"}) = WorkersIn(exWorker, {"awake"}) \cup {w}
        /\ w \notin WorkersIn(exWorker, {"awake"})
        /\ WorkersIn(exWorker', {"wait"}) = WorkersIn(exWorker, {"wait"})
    BY <1>4, <1>5 DEF WorkersIn
  <2>2. Cardinality(WorkersIn(exWorker, {"busy"})) = Cardinality(WorkersIn(exWorker', {"busy"})) + 1
    BY <2>1, CountOneMore
  <2>3. Cardinality(WorkersIn(exWorker', {"awake"})) = Cardinality(WorkersIn(exWorker, {"awake"})) + 1
    BY <2>1, CountOneMore
  <2>4. /\ Cardinality(WorkersIn(exWorker, {"awake"})) \in Nat
        /\ Cardinality(WorkersIn(exWorker', {"busy"})) \in Nat
    BY CountWorkers
  <2> QED
    BY <1>5, <2>1, <2>2, <2>3, <2>4 DEF ExCounts, ExTypes
<1> QED
  BY <1>2, <1>3, <1>6

\* The inductive invariant gives what the executor promises.
LEMMA ExInvImplies == ExInv => ExecutorDrains
<1> SUFFICES ASSUME ExInv PROVE ExecutorDrains
  OBVIOUS
<1> USE DEF ExInv
<1>1. ExecutorTypeOK
  <2>1. {w \in ExWorkers : exWorker[w] = "busy"} = WorkersIn(exWorker, {"busy"})
    BY DEF WorkersIn
  <2> QED
    BY <2>1 DEF ExecutorTypeOK, ExTypes, ExCounts
<1>2. RingIsQueue
  <2> SUFFICES ASSUME exFlags.run
               PROVE  exTaken \o [k \in 1 .. exSize |-> exRing[(exHead + k - 1) % RingCapacity]]
                        = [i \in 1 .. exPosted |-> i]
    BY DEF RingIsQueue
  <2> DEFINE ring == [k \in 1 .. exSize |-> exRing[(exHead + k - 1) % RingCapacity]]
             all == exTaken \o ring
  <2>1. exEnd # "discard" /\ exSize \in Nat /\ exHead \in RingSlots /\ Len(exTaken) \in Nat
    BY DEF ExPhase, ExTypes
  <2>2. ASSUME NEW k \in 1 .. exSize
        PROVE  ring[k] = Len(exTaken) + k /\ ring[k] \in Nat
    <3>1. k - 1 \in 0 .. (exSize - 1) /\ k - 1 \in 0 .. RingCapacity
      BY <2>1, ExecutorAssumption DEF ExTypes
    <3>2. exRing[Slot(exHead, k - 1)] = Len(exTaken) + (k - 1) + 1
      BY <2>1, <3>1 DEF ExQueue
    <3>3. Slot(exHead, k - 1) = (exHead + (k - 1)) % RingCapacity
      BY <2>1, <3>1, RingModulus
    <3>4. exHead + (k - 1) = exHead + k - 1
      BY <2>1 DEF RingSlots
    <3> QED
      BY <2>1, <3>2, <3>3, <3>4
  <2>3. ring \in Seq(Nat) /\ Len(ring) = exSize
    BY <2>1, <2>2
  <2>4. exTaken \in Seq(Nat)
    BY DEF ExTypes
  <2> HIDE DEF ring
  <2>5. all \in Seq(Nat) /\ Len(all) = exPosted
    <3>1. Len(exTaken) + exSize = exPosted
      BY <2>1 DEF ExQueue
    <3> QED
      BY <2>3, <2>4, <3>1, ConcatProperties
  <2>6. ASSUME NEW i \in 1 .. exPosted PROVE all[i] = i
    <3>1. CASE i <= Len(exTaken)
      BY <2>1, <2>3, <2>4, <3>1 DEF ExQueue
    <3>2. CASE ~(i <= Len(exTaken))
      <4>1. i - Len(exTaken) \in 1 .. exSize
        BY <2>1, <3>2 DEF ExQueue
      <4>2. all[i] = ring[i - Len(exTaken)]
        BY <2>1, <2>3, <2>4, <3>2, <4>1
      <4> QED
        BY <2>1, <2>2, <4>1, <4>2
    <3> QED
      BY <3>1, <3>2
  <2>7. DOMAIN all = 1 .. exPosted
    BY <2>5
  <2>8. all = [i \in 1 .. exPosted |-> i]
    <3> HIDE DEF all
    <3>1. all = [i \in DOMAIN all |-> all[i]]
      BY <2>5
    <3> QED
      BY <2>6, <2>7, <3>1
  <2> QED
    BY <2>8 DEF ring
<1>3. StopDrains
  BY DEF StopDrains, ExPhase, ExQueue, ExTypes
<1>4. NoIdleWorker
  <2>1. {w \in ExWorkers : exWorker[w] = "awake"} = WorkersIn(exWorker, {"awake"})
    BY DEF WorkersIn
  <2>2. (\E w \in ExWorkers : exWorker[w] = "wait") => WorkersIn(exWorker, {"wait"}) # {}
    BY DEF WorkersIn
  <2> QED
    BY <2>1, <2>2 DEF NoIdleWorker, ExCounts
<1> QED
  BY <1>1, <1>2, <1>3, <1>4 DEF ExecutorDrains

\* For any number of workers and any ring size: the ring is a queue that loses
\* and repeats no task, a draining Stop() returns after every accepted task ran,
\* and no worker sleeps while a task waits (Post(), Stop(), WorkerLoop()).
THEOREM ExecutorDrainsHolds == ExecutorSpec => []ExecutorDrains
<1>1. ExInv /\ [ExecutorNext]_exVars => ExInv'
  <2> SUFFICES ASSUME ExInv, [ExecutorNext]_exVars PROVE ExInv'
    OBVIOUS
  <2>1. CASE UNCHANGED exVars
    BY <2>1 DEF exVars, ExInv, ExTypes, ExPhase, ExQueue, ExCounts
  <2> QED
    BY <2>1, ExStartPreserves, ExStopBeginPreserves, ExStopEndPreserves, ExPostPreserves,
       ExWaitPreserves, ExEndPreserves, ExTakePreserves, ExDonePreserves DEF ExecutorNext
<1> QED
  BY <1>1, ExInitEstablishes, ExInvImplies, PTL DEF ExecutorSpec

-----------------------------------------------------------------------------
(***************************************************************************)
(* The control loop.                                                       *)
(***************************************************************************)

ReadyIds == {clReady[k].id : k \in DOMAIN clReady}

ClTypes ==
    /\ LoopTypeOK
    /\ clTasks \in Seq(Nat) /\ clBatch \in Seq(Nat) /\ clRan \in Seq(Nat)
    /\ clPosted \in Nat /\ clNow \in Nat /\ clNextTimer \in Nat \ {0}
    /\ \A i \in DOMAIN clTimers : clTimers[i] \in [deadline : Nat, interval : Nat]
    /\ clReady \in Seq([id : Nat, deadline : Nat, interval : Nat])
    /\ clCancelled \cup clDone \cup ReadyIds \subseteq 1 .. (clNextTimer - 1)
    /\ clJoining \in BOOLEAN /\ clEnd \in {"no", "drain", "discard", "self"}

\* The flags, the thread, the caller of Stop() and how the loop ends go together.
ClPhase ==
    /\ clFlags.run => ~clFlags.stop /\ ~clJoining /\ clEnd = "no" /\ clThread \notin {"none", "ended"}
    /\ ~clFlags.run => (clFlags.stop \/ clThread = "none") /\ DOMAIN clTimers = {}
    /\ ~clFlags.run /\ clThread # "none" => clEnd # "no"
    /\ clJoining => clFlags.stop
    /\ clEnd = "drain" => /\ ~clFlags.run /\ ~clFlags.discard
                          /\ clJoining \/ clThread = "none"
                          /\ clThread \in {"none", "ended"} => clTasks = <<>>
    /\ clThread = "task" => clBatch # <<>>
    /\ clThread = "firing" => clBatch = <<>> /\ clReady # <<>>

\* What ran, what was taken and what waits, until something is discarded.
ClQueue == clEnd \in {"no", "drain"} => clRan \o clBatch \o clTasks = Upto(clPosted)

\* A timer is in one place: in the table, among the ready ones, or cancelled.
ClTimers ==
    /\ DOMAIN clTimers \cap ReadyIds = {}
    /\ clCancelled \cap (DOMAIN clTimers \cup ReadyIds) = {}
    /\ \A j, k \in DOMAIN clReady : clReady[j].id = clReady[k].id => j = k
    /\ \A k \in DOMAIN clReady : clReady[k].deadline <= clNow
    /\ clFlags.run => 1 .. (clNextTimer - 1) \subseteq DOMAIN clTimers \cup ReadyIds \cup clCancelled \cup clDone

ClInv == ClTypes /\ ClPhase /\ ClQueue /\ ClTimers /\ LoopWakesInTime

\* Running the first task of a batch, and accepting one more task.
LEMMA MoveHead ==
    ASSUME NEW r \in Seq(Nat), NEW b \in Seq(Nat), NEW t \in Seq(Nat), b # <<>>
    PROVE  Append(r, Head(b)) \o Tail(b) \o t = r \o b \o t
<1>1. Head(b) \in Nat /\ Tail(b) \in Seq(Nat) /\ Len(Tail(b)) = Len(b) - 1 /\ Len(b) \in Nat \ {0}
  OBVIOUS
<1>2. Append(r, Head(b)) \in Seq(Nat) /\ Len(Append(r, Head(b))) = Len(r) + 1
  BY <1>1
<1> DEFINE x == Append(r, Head(b)) \o Tail(b)
           y == r \o b
<1>3. x \in Seq(Nat) /\ y \in Seq(Nat) /\ Len(x) = Len(r) + Len(b) /\ Len(y) = Len(r) + Len(b)
  BY <1>1, <1>2
<1>4. ASSUME NEW i \in 1 .. Len(x) PROVE x[i] = y[i]
  <2>1. CASE i <= Len(r)
    BY <1>1, <1>2, <1>3, <2>1
  <2>2. CASE i = Len(r) + 1
    BY <1>1, <1>2, <1>3, <2>2
  <2>3. CASE i > Len(r) + 1
    BY <1>1, <1>2, <1>3, <2>3
  <2>4. i \in Nat /\ Len(r) \in Nat
    BY <1>3
  <2>5. i <= Len(r) \/ i = Len(r) + 1 \/ i > Len(r) + 1
    BY <2>4
  <2> HIDE DEF x, y
  <2> QED
    BY <2>1, <2>2, <2>3, <2>5
<1>5. x = y
  <2> HIDE DEF x, y
  <2> QED
    BY <1>3, <1>4, SeqEqual
<1> QED
  BY <1>5

\* A task accepted last is the last of the queue.
LEMMA AcceptLast ==
    ASSUME NEW x \in Seq(Nat), NEW t \in Seq(Nat), NEW p \in Nat, x \o t = Upto(p)
    PROVE  x \o Append(t, p + 1) = Upto(p + 1)
<1> DEFINE y == x \o Append(t, p + 1)
<1>1. /\ x \o t \in Seq(Nat) /\ Len(x \o t) = Len(x) + Len(t)
      /\ \A i \in 1 .. Len(x) + Len(t) : (x \o t)[i] = IF i <= Len(x) THEN x[i] ELSE t[i - Len(x)]
  BY ConcatProperties
<1>2. Len(Upto(p)) = p /\ \A i \in 1 .. p : Upto(p)[i] = i
  BY DEF Upto
<1>3. Len(x) + Len(t) = p /\ Len(x) \in Nat /\ Len(t) \in Nat
  BY <1>1, <1>2
<1>4. Append(t, p + 1) \in Seq(Nat) /\ Len(Append(t, p + 1)) = Len(t) + 1
  OBVIOUS
<1>5. y \in Seq(Nat) /\ Len(y) = p + 1
  BY <1>3, <1>4, ConcatProperties
<1>6. ASSUME NEW i \in 1 .. p + 1 PROVE y[i] = i
  <2>1. y[i] = IF i <= Len(x) THEN x[i] ELSE Append(t, p + 1)[i - Len(x)]
    BY <1>3, <1>4, ConcatProperties
  <2>2. CASE i <= p
    <3>1. y[i] = (x \o t)[i]
      <4>1. i \in 1 .. Len(x) + Len(t) /\ (~(i <= Len(x)) => i - Len(x) \in 1 .. Len(t))
        BY <1>3, <2>2
      <4>2. ~(i <= Len(x)) => Append(t, p + 1)[i - Len(x)] = t[i - Len(x)]
        BY <4>1
      <4>3. (x \o t)[i] = IF i <= Len(x) THEN x[i] ELSE t[i - Len(x)]
        BY <1>1, <4>1
      <4> HIDE DEF y
      <4>4. CASE i <= Len(x)
        BY <2>1, <4>3, <4>4
      <4>5. CASE ~(i <= Len(x))
        BY <2>1, <4>2, <4>3, <4>5
      <4> QED BY <4>4, <4>5
    <3> QED
      BY <1>2, <2>2, <3>1
  <2>3. CASE i = p + 1
    BY <1>3, <2>1, <2>3
  <2>4. i <= p \/ i = p + 1
    OBVIOUS
  <2> QED
    BY <2>2, <2>3, <2>4
<1>7. Upto(p + 1) \in Seq(Nat) /\ Len(Upto(p + 1)) = p + 1 /\ \A i \in 1 .. p + 1 : Upto(p + 1)[i] = i
  BY DEF Upto
<1> HIDE DEF y
<1>8. y = Upto(p + 1)
  BY <1>5, <1>6, <1>7, SeqEqual
<1> QED
  BY <1>8 DEF y

\* The due timers, put in the order of their ids, are all of them.
LEMMA OrderCovers ==
    ASSUME NEW due, IsFiniteSet(due), due \subseteq Nat, NEW n \in Nat, n = Cardinality(due),
           NEW order \in [1 .. n -> due],
           \A j, k \in DOMAIN order : j < k => order[j] < order[k]
    PROVE  /\ {order[k] : k \in DOMAIN order} = due
           /\ \A j, k \in DOMAIN order : order[j] = order[k] => j = k
<1>1. ASSUME NEW j \in 1 .. n, NEW k \in 1 .. n, order[j] = order[k]
      PROVE  j = k
  <2>1. order[j] \in Nat /\ order[k] \in Nat
    OBVIOUS
  <2> QED
    BY <1>1, <2>1
<1>2. order \in Injection(1 .. n, due)
  BY <1>1 DEF Injection, IsInjective
<1>3. IsFiniteSet(1 .. n) /\ Cardinality(1 .. n) = n
  BY FS_Interval
<1>4. order \in Surjection(1 .. n, due)
  <2> DEFINE S == 1 .. n
  <2>1. order \in Injection(S, due) /\ Cardinality(S) = Cardinality(due)
    BY <1>2, <1>3
  <2> HIDE DEF S
  <2>2. order \in Surjection(S, due)
    BY <2>1, FS_Injection, Zenon
  <2> QED
    BY <2>2 DEF S
<1>5. \A d \in due : \E k \in 1 .. n : order[k] = d
  BY <1>4 DEF Surjection
<1>6. DOMAIN order = 1 .. n
  OBVIOUS
<1>7. {order[k] : k \in 1 .. n} = due
  BY <1>5
<1> QED
  BY <1>1, <1>6, <1>7

\* A loop that was never started satisfies the invariant.
LEMMA ClInitEstablishes == LoopInit => ClInv
<1> SUFFICES ASSUME LoopInit PROVE ClInv
  OBVIOUS
<1>1. ReadyIds = {} /\ DOMAIN clTimers = {}
  BY DEF LoopInit, ReadyIds
<1>2. ClTypes
  <2>1. LoopTypeOK
    BY <1>1, LoopAssumption DEF LoopInit, LoopTypeOK
  <2>2. <<>> \in Seq(Nat) /\ <<>> \in Seq([id : Nat, deadline : Nat, interval : Nat])
    OBVIOUS
  <2>3. clCancelled \cup clDone \cup ReadyIds = {}
    BY <1>1 DEF LoopInit
  <2>4. clJoining \in BOOLEAN /\ clEnd \in {"no", "drain", "discard", "self"}
    BY DEF LoopInit
  <2>5. /\ clTasks \in Seq(Nat) /\ clBatch \in Seq(Nat) /\ clRan \in Seq(Nat)
        /\ clReady \in Seq([id : Nat, deadline : Nat, interval : Nat])
        /\ clPosted \in Nat /\ clNow \in Nat /\ clNextTimer \in Nat \ {0}
    BY <2>2 DEF LoopInit
  <2> QED
    BY <1>1, <2>1, <2>3, <2>4, <2>5 DEF ClTypes
<1>3. ClPhase /\ LoopWakesInTime
  BY <1>1 DEF LoopInit, ClPhase, LoopWakesInTime
<1>4. ClQueue
  BY DEF LoopInit, ClQueue, Upto
<1>5. ClTimers
  BY <1>1 DEF LoopInit, ClTimers
<1> QED
  BY <1>2, <1>3, <1>4, <1>5 DEF ClInv

\* Start of the control loop.
LEMMA ClStartPreserves == ASSUME ClInv, LoopStart PROVE ClInv'
<1>1. ReadyIds' = {} /\ DOMAIN clTimers' = {}
  BY DEF LoopStart, ReadyIds
<1>2. ClTypes'
  BY <1>1, LoopAssumption DEF LoopStart, ClInv, ClTypes, LoopTypeOK
<1>3. ClPhase' /\ LoopWakesInTime'
  BY <1>1 DEF LoopStart, ClInv, ClTypes, ClPhase, LoopWakesInTime
<1>4. ClQueue'
  BY DEF LoopStart, ClQueue, Upto
<1>5. ClTimers'
  BY <1>1 DEF LoopStart, ClTimers
<1> QED
  BY <1>2, <1>3, <1>4, <1>5 DEF ClInv

\* Stop() empties the table, and in the modes that keep the queue keeps its order.
LEMMA ClStopPreserves ==
    ASSUME ClInv, NEW mode \in {"drain", "discard"}, LoopStopBegin(mode) \/ LoopSelfStop(mode)
    PROVE  ClInv'
<1> USE DEF ClInv
<1>1. /\ clFlags' = [run |-> FALSE, stop |-> TRUE, discard |-> mode = "discard"]
      /\ DOMAIN clTimers' = {} /\ clReady' = clReady /\ ReadyIds' = ReadyIds
      /\ clBatch' = clBatch /\ clRan' = clRan /\ clPosted' = clPosted /\ clNow' = clNow
      /\ clNextTimer' = clNextTimer /\ clCancelled' = clCancelled /\ clDone' = clDone
  BY DEF LoopStopBegin, LoopSelfStop, StopFlags, ReadyIds
<1>7. /\ clTasks' \in {clTasks, <<>>}
      /\ clThread' = clThread \/ (clThread = "asleep" /\ clThread' = "top")
      /\ clThread' # "asleep" /\ clJoining' \in BOOLEAN
      /\ clEnd' \in {"drain", "discard", "self"}
  <2>1. CASE LoopStopBegin(mode)
    <3>1. clJoining' \in BOOLEAN
      BY <2>1 DEF LoopStopBegin
    <3>2. clEnd' \in {"drain", "discard", "self"}
      BY <2>1 DEF LoopStopBegin, ClTypes
    <3>3. clTasks' \in {clTasks, <<>>}
      BY <2>1 DEF LoopStopBegin
    <3> QED
      BY <2>1, <3>1, <3>2, <3>3 DEF LoopStopBegin, Notify
  <2>2. CASE LoopSelfStop(mode)
    <3>1. clJoining' \in BOOLEAN
      BY <2>2 DEF LoopSelfStop, ClTypes
    <3> QED
      BY <2>2, <3>1 DEF LoopSelfStop
  <2> QED
    BY <2>1, <2>2
<1>2. ClTypes'
  <2>1. clTasks' \in Seq(Nat) /\ Len(clTasks') <= LoopCapacity
    <3>1. CASE clTasks' = clTasks
      BY <3>1 DEF ClTypes, LoopTypeOK
    <3>2. CASE clTasks' = <<>>
      BY <3>2, LoopAssumption
    <3> QED
      BY <1>7, <3>1, <3>2
  <2> QED
    BY <1>1, <1>7, <2>1 DEF ClTypes, LoopTypeOK
<1>3. clEnd' = "drain" => clEnd = "no" /\ mode = "drain" /\ clTasks' = clTasks /\ clJoining'
                          /\ clThread \notin {"none", "ended"}
  BY DEF LoopStopBegin, LoopSelfStop, ClPhase, ClTypes, LoopTypeOK
<1>4. ClPhase'
  BY <1>1, <1>3, <1>7 DEF ClPhase, ClTypes, LoopTypeOK
<1>5. ClQueue'
  BY <1>1, <1>3, <1>7 DEF ClQueue
<1>6. ClTimers' /\ LoopWakesInTime'
  BY <1>1, <1>7 DEF ClTimers, LoopWakesInTime
<1> QED
  BY <1>2, <1>4, <1>5, <1>6

\* Stop returns after the join.
LEMMA ClStopEndPreserves == ASSUME ClInv, LoopStopEnd PROVE ClInv'
<1> USE DEF ClInv
<1>1. /\ DOMAIN clTimers' = {} /\ clTasks' = <<>> /\ ReadyIds' = ReadyIds
      /\ clThread = "ended" /\ clThread' = "none" /\ clJoining /\ clJoining' = FALSE
      /\ UNCHANGED <<clFlags, clNextTimer, clBatch, clReady, clNow, clGhosts>>
  BY DEF LoopStopEnd, ReadyIds
<1>2. ClTypes'
  <2>1. clTasks' \in Seq(Nat) /\ Len(clTasks') <= LoopCapacity
    BY <1>1, LoopAssumption
  <2>2. LoopTypeOK'
    BY <1>1, <2>1 DEF ClTypes, LoopTypeOK
  <2> QED
    BY <1>1, <2>1, <2>2 DEF ClTypes, clGhosts
<1>3. ~clFlags.run /\ clFlags.stop
  BY <1>1 DEF ClPhase
<1>4. ClPhase' /\ ClTimers' /\ LoopWakesInTime'
  BY <1>1, <1>3 DEF ClPhase, ClTimers, LoopWakesInTime, clGhosts, ClTypes, LoopTypeOK
<1>5. ClQueue'
  <2>1. clEnd = "drain" => clTasks = <<>>
    BY <1>1 DEF ClPhase
  <2>2. clEnd # "no"
    BY <1>1, <1>3 DEF ClPhase
  <2> QED
    BY <1>1, <2>1, <2>2 DEF ClQueue, clGhosts
<1> QED
  BY <1>2, <1>4, <1>5

\* Notify() only ever wakes the thread.
LEMMA ClPostPreserves == ASSUME ClInv, LoopPost PROVE ClInv'
<1> USE DEF ClInv
<1>1. /\ clFlags.run /\ clFlags' = clFlags /\ clTasks' = Append(clTasks, clPosted + 1)
      /\ clPosted' = clPosted + 1 /\ Len(clTasks) < LoopCapacity /\ clEnd' = clEnd
      /\ ReadyIds' = ReadyIds
      /\ UNCHANGED <<clTimers, clNextTimer, clBatch, clReady, clJoining, clNow, clRan, clCancelled, clDone>>
  BY DEF LoopPost, LoopHasRoom, ReadyIds
<1>2. clThread' # "asleep" /\ (clThread' = clThread \/ (clThread = "asleep" /\ clThread' = "top"))
  BY DEF LoopPost, Notify
<1>3. clTasks' \in Seq(Nat) /\ Len(clTasks') <= LoopCapacity
  BY <1>1, LoopAssumption DEF ClTypes
<1>4. ClTypes'
  <2>1. LoopTypeOK'
    BY <1>1, <1>2, <1>3 DEF ClTypes, LoopTypeOK
  <2> QED
    BY <1>1, <1>3, <2>1 DEF ClTypes
<1>5. ClPhase' /\ ClTimers' /\ LoopWakesInTime'
  BY <1>1, <1>2 DEF ClPhase, ClTimers, LoopWakesInTime, ClTypes, LoopTypeOK
<1>6. ClQueue'
  <2>1. clRan \o clBatch \in Seq(Nat)
    BY DEF ClTypes
  <2>2. clRan \o clBatch \o clTasks = Upto(clPosted)
    BY <1>1 DEF ClPhase, ClQueue
  <2>3. (clRan \o clBatch) \o Append(clTasks, clPosted + 1) = Upto(clPosted + 1)
    BY <2>1, <2>2, AcceptLast DEF ClTypes
  <2> QED
    BY <1>1, <2>3 DEF ClQueue
<1> QED
  BY <1>4, <1>5, <1>6

\* AddTimer, from any thread.
LEMMA ClAddTimerPreserves ==
    ASSUME ClInv, NEW delay \in Nat, NEW interval \in Nat, AddTimer(delay, interval)
    PROVE  ClInv'
<1> USE DEF ClInv
<1>1. /\ clFlags.run /\ clFlags' = clFlags /\ clEnd' = clEnd
      /\ DOMAIN clTimers' = DOMAIN clTimers \cup {clNextTimer}
      /\ clTimers'[clNextTimer] = [deadline |-> clNow + delay, interval |-> interval]
      /\ \A i \in DOMAIN clTimers \ {clNextTimer} : clTimers'[i] = clTimers[i]
      /\ clNextTimer' = clNextTimer + 1 /\ ReadyIds' = ReadyIds
      /\ UNCHANGED <<clTasks, clBatch, clReady, clJoining, clNow, clGhosts>>
  BY DEF AddTimer, ReadyIds, clGhosts
<1>2. clThread' # "asleep" /\ (clThread' = clThread \/ (clThread = "asleep" /\ clThread' = "top"))
  BY DEF AddTimer, Notify
<1>3. clNextTimer \in Nat \ {0} /\ clNow \in Nat
      /\ 1 .. (clNextTimer' - 1) = (1 .. (clNextTimer - 1)) \cup {clNextTimer}
      /\ clNextTimer \notin 1 .. (clNextTimer - 1)
  BY <1>1 DEF ClTypes
<1>4. ClTypes'
  <2>1. DOMAIN clTimers' \subseteq 1 .. (clNextTimer' - 1)
    BY <1>1, <1>3 DEF ClTypes, LoopTypeOK
  <2>2. \A i \in DOMAIN clTimers' : clTimers'[i] \in [deadline : Nat, interval : Nat]
    BY <1>1, <1>3 DEF ClTypes
  <2>3. LoopTypeOK'
    BY <1>1, <1>2, <2>1 DEF ClTypes, LoopTypeOK
  <2> QED
    BY <1>1, <1>3, <2>2, <2>3 DEF ClTypes, clGhosts
<1>5. ClPhase' /\ LoopWakesInTime' /\ ClQueue'
  BY <1>1, <1>2 DEF ClPhase, LoopWakesInTime, ClQueue, ClTypes, LoopTypeOK, clGhosts
<1>6. ClTimers'
  BY <1>1, <1>3 DEF ClTimers, ClTypes, clGhosts
<1> QED
  BY <1>4, <1>5, <1>6

\* CancelTimer, from any thread.
LEMMA ClCancelPreserves ==
    ASSUME ClInv, NEW id \in DOMAIN clTimers, LoopCancelTimer(id)
    PROVE  ClInv'
<1> USE DEF ClInv
<1>1. /\ clFlags' = clFlags /\ DOMAIN clTimers' = DOMAIN clTimers \ {id}
      /\ \A i \in DOMAIN clTimers' : clTimers'[i] = clTimers[i]
      /\ clCancelled' = clCancelled \cup {id} /\ ReadyIds' = ReadyIds
      /\ UNCHANGED <<clTasks, clNextTimer, clBatch, clReady, clJoining, clNow, clPosted, clRan, clEnd, clDone>>
  BY DEF LoopCancelTimer, ReadyIds
<1>2. clThread' # "asleep" /\ (clThread' = clThread \/ (clThread = "asleep" /\ clThread' = "top"))
  BY DEF LoopCancelTimer, Notify
<1>3. ClTypes'
  <2>1. LoopTypeOK'
    BY <1>1, <1>2 DEF ClTypes, LoopTypeOK
  <2>2. id \in 1 .. (clNextTimer - 1)
    BY DEF ClTypes, LoopTypeOK
  <2> QED
    BY <1>1, <2>1, <2>2 DEF ClTypes
<1>4. ClPhase' /\ LoopWakesInTime' /\ ClQueue'
  BY <1>1, <1>2 DEF ClPhase, LoopWakesInTime, ClQueue, ClTypes, LoopTypeOK
<1>5. ClTimers'
  BY <1>1 DEF ClTimers
<1> QED
  BY <1>3, <1>4, <1>5

\* Steps of the loop thread that only move it: asleep, awake, out of the loop,
\* on to the next task or timer; and the clock.
LEMMA ClMovePreserves ==
    ASSUME ClInv, LoopSleep \/ LoopWake \/ LoopBreak \/ LoopRun \/ LoopTick
    PROVE  ClInv'
<1> USE DEF ClInv
<1>1. /\ UNCHANGED <<clFlags, clTasks, clTimers, clNextTimer, clBatch, clReady, clJoining, clGhosts>>
      /\ ReadyIds' = ReadyIds /\ clNow' \in {clNow, clNow + 1} /\ clNow \in Nat
  <2>1. clNow' \in {clNow, clNow + 1}
    BY DEF LoopSleep, LoopWake, LoopBreak, LoopRun, LoopTick
  <2> QED
    BY <2>1 DEF LoopSleep, LoopWake, LoopBreak, LoopRun, LoopTick, ReadyIds, ClTypes
<1>2. /\ clThread' \in {"none", "top", "asleep", "work", "task", "firing", "ended"}
      /\ clThread' \notin {"work", "task", "firing"} => clBatch = <<>> /\ clReady = <<>>
  BY DEF LoopSleep, LoopWake, LoopBreak, LoopRun, LoopTick, ClTypes, LoopTypeOK
<1>3. ClTypes'
  BY <1>1, <1>2 DEF ClTypes, LoopTypeOK, clGhosts
<1>4. ClQueue'
  BY <1>1 DEF ClQueue, clGhosts
<1>5. ClTimers'
  <2>1. ASSUME NEW k \in DOMAIN clReady PROVE clReady[k].deadline \in Nat
    <3>1. clReady \in Seq([id : Nat, deadline : Nat, interval : Nat])
      BY DEF ClTypes
    <3>2. clReady[k] \in [id : Nat, deadline : Nat, interval : Nat]
      BY <3>1, LenProperties, ElementOfSeq
    <3> QED
      BY <3>2
  <2>2. \A k \in DOMAIN clReady' : clReady'[k].deadline <= clNow'
    BY <1>1, <2>1 DEF ClTimers
  <2> QED
    BY <1>1, <2>2 DEF ClTimers, clGhosts
<1>6. ClPhase'
  BY <1>1 DEF ClPhase, LoopSleep, LoopWake, LoopBreak, LoopRun, LoopTick, MustBreak, clGhosts, ClTypes, LoopTypeOK
<1>7. LoopWakesInTime'
  <2>1. CASE LoopSleep
    <3>1. Deadlines \subseteq Nat
      BY DEF Deadlines, ClTypes
    <3>2. \A i \in DOMAIN clTimers : NextTimerDeadline # 0 - 1 /\ NextTimerDeadline <= clTimers[i].deadline
      <4>1. CASE DOMAIN clTimers = {}
        BY <4>1
      <4>2. CASE DOMAIN clTimers # {}
        <5>1. Deadlines # {}
          BY <4>2 DEF Deadlines
        <5>2. \E d \in Deadlines : \A e \in Deadlines : d <= e
          BY <3>1, <5>1, LeastNatural
        <5>3. NextTimerDeadline \in Deadlines /\ \A e \in Deadlines : NextTimerDeadline <= e
          BY <5>1, <5>2 DEF NextTimerDeadline
        <5> QED
          BY <3>1, <5>3 DEF Deadlines
      <4> QED
        BY <4>1, <4>2
    <3> QED
      BY <1>1, <2>1, <3>2 DEF LoopSleep, IsWorkReady, LoopWakesInTime
  <2>2. CASE LoopWake \/ LoopBreak \/ LoopRun
    BY <2>2 DEF LoopWake, LoopBreak, LoopRun, LoopWakesInTime
  <2>3. CASE LoopTick
    BY <2>3 DEF LoopTick, LoopWakesInTime
  <2> QED
    BY <2>1, <2>2, <2>3
<1> QED
  BY <1>3, <1>4, <1>5, <1>6, <1>7

\* Run() takes the whole queue and the timers that are due.
LEMMA ClTakePreserves == ASSUME ClInv, LoopTake PROVE ClInv'
<1> USE DEF ClInv
<1> DEFINE n == Cardinality(DueTimers)
<1>1. IsFiniteSet(DueTimers) /\ DueTimers \subseteq Nat /\ DueTimers \subseteq DOMAIN clTimers /\ n \in Nat
  <2>1. IsFiniteSet(1 .. (clNextTimer - 1))
    BY FS_Interval DEF ClTypes
  <2>2. DueTimers \subseteq DOMAIN clTimers /\ DOMAIN clTimers \subseteq 1 .. (clNextTimer - 1)
    BY DEF DueTimers, ClTypes, LoopTypeOK
  <2>3. IsFiniteSet(DueTimers)
    BY <2>1, <2>2, FS_Subset
  <2>4. DueTimers \subseteq Nat
    BY <2>2 DEF ClTypes
  <2> QED
    BY <2>2, <2>3, <2>4, FS_CardinalityType
<1>2. PICK order \in [1 .. n -> DueTimers] :
          /\ \A j, k \in DOMAIN order : j < k => order[j] < order[k]
          /\ clReady' = [k \in DOMAIN order |-> [id |-> order[k], deadline |-> clTimers[order[k]].deadline,
                                                interval |-> clTimers[order[k]].interval]]
  BY DEF LoopTake, TakeAny
<1>3. /\ {order[k] : k \in DOMAIN order} = DueTimers
      /\ \A j, k \in DOMAIN order : order[j] = order[k] => j = k
  <2> HIDE DEF n
  <2>1. n = Cardinality(DueTimers)
    BY DEF n
  <2> QED
    BY <1>1, <1>2, <2>1, OrderCovers
<1> HIDE DEF n
<1>4. DOMAIN clReady' = 1 .. n /\ DOMAIN order = 1 .. n
      /\ \A k \in 1 .. n : /\ clReady'[k] = [id |-> order[k], deadline |-> clTimers[order[k]].deadline,
                                             interval |-> clTimers[order[k]].interval]
                           /\ order[k] \in DueTimers
  BY <1>2
<1>5. ReadyIds' = DueTimers
  BY <1>3, <1>4 DEF ReadyIds
<1>6. \A k \in 1 .. n : /\ clReady'[k] \in [id : Nat, deadline : Nat, interval : Nat]
                        /\ clReady'[k].deadline <= clNow /\ clReady'[k].id = order[k]
  BY <1>1, <1>4 DEF DueTimers, ClTypes
<1>7. clReady' \in Seq([id : Nat, deadline : Nat, interval : Nat])
  <2> DEFINE Ready == [id : Nat, deadline : Nat, interval : Nat]
  <2>1. clReady' = [k \in 1 .. n |-> clReady'[k]]
    BY <1>2, <1>4
  <2>2. \A k \in 1 .. n : clReady'[k] \in Ready
    BY <1>6
  <2> HIDE DEF Ready
  <2>3. [k \in 1 .. n |-> clReady'[k]] \in Seq(Ready)
    BY <1>1, <2>2, IsASeq
  <2>4. clReady' \in Seq(Ready)
    BY <2>1, <2>3
  <2> QED
    BY <2>4 DEF Ready
<1>8. /\ clThread = "top" /\ clThread' = "work" /\ clBatch = <<>> /\ clReady = <<>> /\ ReadyIds = {}
      /\ clBatch' = clTasks /\ clTasks' = <<>>
      /\ DOMAIN clTimers' = DOMAIN clTimers \ DueTimers
      /\ \A i \in DOMAIN clTimers' : clTimers'[i] = clTimers[i]
      /\ UNCHANGED <<clFlags, clNextTimer, clJoining, clNow, clGhosts>>
  BY DEF LoopTake, TakeAny, ClTypes, LoopTypeOK, ReadyIds
<1>9. ClTypes'
  <2>1. clTasks' \in Seq(Nat) /\ Len(clTasks') <= LoopCapacity
    BY <1>8, LoopAssumption
  <2>2. LoopTypeOK'
    BY <1>8, <2>1 DEF ClTypes, LoopTypeOK
  <2>3. ReadyIds' \subseteq 1 .. (clNextTimer - 1)
    BY <1>1, <1>5 DEF ClTypes, LoopTypeOK
  <2> QED
    BY <1>7, <1>8, <2>1, <2>2, <2>3 DEF ClTypes, clGhosts
<1>10. ClPhase' /\ LoopWakesInTime'
  BY <1>8 DEF ClPhase, LoopWakesInTime, clGhosts
<1>11. ClQueue'
  <2>1. clRan \o <<>> \o clTasks = clRan \o clTasks /\ clRan \o clTasks \o <<>> = clRan \o clTasks
    BY ConcatEmptySeq, ConcatProperties DEF ClTypes
  <2> QED
    BY <1>8, <2>1 DEF ClQueue, clGhosts
<1>12. ClTimers'
  <2>1. \A j, k \in DOMAIN clReady' : clReady'[j].id = clReady'[k].id => j = k
    BY <1>3, <1>4, <1>6
  <2>2. \A k \in DOMAIN clReady' : clReady'[k].deadline <= clNow'
    BY <1>4, <1>6, <1>8
  <2> QED
    BY <1>1, <1>5, <1>8, <2>1, <2>2 DEF ClTimers, clGhosts
<1> QED
  BY <1>9, <1>10, <1>11, <1>12

\* A task returns.
LEMMA ClTaskDonePreserves == ASSUME ClInv, LoopTaskDone PROVE ClInv'
<1> USE DEF ClInv
<1>1. /\ clBatch # <<>> /\ clThread = "task" /\ clThread' = "work" /\ ReadyIds' = ReadyIds
      /\ clRan' = Append(clRan, Head(clBatch)) /\ clBatch' = Tail(clBatch)
      /\ UNCHANGED <<clFlags, clTasks, clTimers, clNextTimer, clReady, clJoining, clNow, clPosted, clEnd,
                     clCancelled, clDone>>
  BY DEF LoopTaskDone, ClPhase, ReadyIds
<1>2. clRan' \in Seq(Nat) /\ clBatch' \in Seq(Nat)
  BY <1>1 DEF ClTypes
<1>3. ClTypes'
  BY <1>1, <1>2 DEF ClTypes, LoopTypeOK
<1>4. ClPhase' /\ LoopWakesInTime' /\ ClTimers'
  BY <1>1 DEF ClPhase, LoopWakesInTime, ClTimers
<1>5. ClQueue'
  BY <1>1, MoveHead DEF ClQueue, ClTypes
<1> QED
  BY <1>3, <1>4, <1>5

\* A periodic timer goes back into the table unless the loop is stopping.
LEMMA ClTimerDonePreserves == ASSUME ClInv, LoopTimerDone PROVE ClInv'
<1> USE DEF ClInv
<1> DEFINE t == Head(clReady)
           Ready == [id : Nat, deadline : Nat, interval : Nat]
<1>1. /\ clReady # <<>> /\ clThread = "firing" /\ clThread' = "work" /\ clReady' = Tail(clReady)
      /\ UNCHANGED <<clFlags, clTasks, clNextTimer, clBatch, clJoining, clNow, clPosted, clRan, clEnd, clCancelled>>
      /\ clDone' = IF t.interval = 0 THEN clDone \cup {t.id} ELSE clDone
  BY DEF LoopTimerDone, ClPhase
<1>2. /\ clReady \in Seq(Ready) /\ clReady' \in Seq(Ready) /\ t \in Ready /\ t = clReady[1]
      /\ 1 \in DOMAIN clReady
      /\ (\A k \in DOMAIN clReady' : k + 1 \in DOMAIN clReady /\ clReady'[k] = clReady[k + 1] /\ k \in Nat \ {0})
      /\ (\A j \in DOMAIN clReady : j = 1 \/ (j - 1 \in DOMAIN clReady' /\ clReady'[j - 1] = clReady[j]))
  <2>1. clReady \in Seq(Ready) /\ clReady # <<>>
    BY <1>1 DEF ClTypes
  <2>2. /\ Head(clReady) \in Ready /\ Tail(clReady) \in Seq(Ready) /\ Len(Tail(clReady)) = Len(clReady) - 1
        /\ \A i \in 1 .. Len(Tail(clReady)) : Tail(clReady)[i] = clReady[i + 1]
    BY <2>1, HeadTailProperties
  <2>3. /\ Len(clReady) \in Nat \ {0} /\ DOMAIN clReady = 1 .. Len(clReady)
        /\ DOMAIN Tail(clReady) = 1 .. (Len(clReady) - 1)
    BY <2>1, <2>2, LenProperties, EmptySeq
  <2>4. Head(clReady) = clReady[1]
    BY <2>1
  <2>5. ASSUME NEW k \in DOMAIN clReady'
        PROVE  k + 1 \in DOMAIN clReady /\ clReady'[k] = clReady[k + 1] /\ k \in Nat \ {0}
    <3> DEFINE n == Len(clReady)
    <3>1. n \in Nat \ {0} /\ k \in 1 .. (n - 1)
      BY <1>1, <2>3
    <3> HIDE DEF n
    <3>2. k + 1 \in 1 .. n /\ k \in Nat \ {0}
      BY <3>1
    <3>3. Tail(clReady)[k] = clReady[k + 1]
      BY <2>2, <3>1 DEF n
    <3>4. clReady' = Tail(clReady)
      BY <1>1
    <3> QED BY <2>3, <3>2, <3>3, <3>4 DEF n
  <2>6. ASSUME NEW j \in DOMAIN clReady, j # 1
        PROVE  j - 1 \in DOMAIN clReady' /\ clReady'[j - 1] = clReady[j]
    <3>1. j - 1 \in 1 .. (Len(clReady) - 1) /\ (j - 1) + 1 = j
      BY <2>3, <2>6
    <3> QED
      BY <1>1, <2>2, <2>3, <3>1
  <2> QED
    BY <1>1, <2>1, <2>2, <2>3, <2>4, <2>5, <2>6
<1>8. /\ 1 \in DOMAIN clReady /\ t = clReady[1]
      /\ (\A k \in DOMAIN clReady' : k + 1 \in DOMAIN clReady /\ clReady'[k] = clReady[k + 1] /\ k \in Nat \ {0})
      /\ (\A j \in DOMAIN clReady : j = 1 \/ (j - 1 \in DOMAIN clReady' /\ clReady'[j - 1] = clReady[j]))
  BY <1>2
<1>9. t.id \in Nat /\ t.deadline \in Nat /\ t.interval \in Nat
  BY <1>2
<1> HIDE DEF t, Ready
<1>3. ReadyIds = ReadyIds' \cup {t.id}
  <2>1. ASSUME NEW k \in DOMAIN clReady' PROVE clReady'[k].id \in ReadyIds
    BY <1>8, <2>1 DEF ReadyIds
  <2>2. ASSUME NEW j \in DOMAIN clReady PROVE clReady[j].id \in ReadyIds' \cup {t.id}
    BY <1>8, <2>2 DEF ReadyIds
  <2>3. t.id \in ReadyIds
    BY <1>8 DEF ReadyIds
  <2> QED
    BY <2>1, <2>2, <2>3 DEF ReadyIds
<1>4. t.id \notin ReadyIds'
  <2> SUFFICES ASSUME NEW k \in DOMAIN clReady', clReady'[k].id = t.id PROVE FALSE
    BY DEF ReadyIds
  <2>1. k + 1 \in DOMAIN clReady /\ clReady[k + 1].id = clReady[1].id /\ k + 1 # 1
    BY <1>8
  <2> QED
    BY <1>8, <2>1 DEF ClTimers
<1>5. t.id \in 1 .. (clNextTimer - 1) /\ t.id \notin DOMAIN clTimers /\ t.id \notin clCancelled
  BY <1>3 DEF ClTypes, ClTimers
<1>6. CASE ~clFlags.stop /\ t.interval # 0
  <2>1. /\ DOMAIN clTimers' = DOMAIN clTimers \cup {t.id}
        /\ clTimers'[t.id] = [deadline |-> clNow + t.interval, interval |-> t.interval]
        /\ \A i \in DOMAIN clTimers : clTimers'[i] = clTimers[i]
    BY <1>5, <1>6 DEF LoopTimerDone, PutBack, t
  <2>2. \A i \in DOMAIN clTimers' : clTimers'[i] \in [deadline : Nat, interval : Nat]
    BY <1>9, <2>1 DEF ClTypes
  <2>3. LoopTypeOK'
    BY <1>1, <1>5, <2>1 DEF ClTypes, LoopTypeOK
  <2>4. ClTypes'
    BY <1>1, <1>2, <1>3, <2>2, <2>3 DEF ClTypes, Ready
  <2>5. clFlags.run
    BY <1>1, <1>6 DEF ClPhase
  <2>6. ClPhase' /\ LoopWakesInTime' /\ ClQueue'
    BY <1>1, <2>5 DEF ClPhase, LoopWakesInTime, ClQueue
  <2>7. ClTimers'
    <3>1. ASSUME NEW j \in DOMAIN clReady', NEW k \in DOMAIN clReady', clReady'[j].id = clReady'[k].id
          PROVE  j = k
      <4>1. j + 1 = k + 1
        BY <1>8, <3>1 DEF ClTimers
      <4> QED
        BY <1>8, <4>1
    <3>2. \A k \in DOMAIN clReady' : clReady'[k].deadline <= clNow'
      BY <1>1, <1>8 DEF ClTimers
    <3> QED
      BY <1>1, <1>3, <1>4, <1>5, <1>6, <2>1, <3>1, <3>2 DEF ClTimers
  <2> QED
    BY <2>4, <2>6, <2>7
<1>7. CASE clFlags.stop \/ t.interval = 0
  <2>1. clTimers' = clTimers
    BY <1>7 DEF LoopTimerDone, t
  <2>2. LoopTypeOK'
    BY <1>1, <2>1 DEF ClTypes, LoopTypeOK
  <2>3. ClTypes'
    BY <1>1, <1>2, <1>3, <1>5, <2>1, <2>2 DEF ClTypes, Ready
  <2>4. ClPhase' /\ LoopWakesInTime' /\ ClQueue'
    BY <1>1, <2>1 DEF ClPhase, LoopWakesInTime, ClQueue
  <2>5. ClTimers'
    <3>1. ASSUME NEW j \in DOMAIN clReady', NEW k \in DOMAIN clReady', clReady'[j].id = clReady'[k].id
          PROVE  j = k
      <4>1. j + 1 = k + 1
        BY <1>8, <3>1 DEF ClTimers
      <4> QED
        BY <1>8, <4>1
    <3>2. \A k \in DOMAIN clReady' : clReady'[k].deadline <= clNow'
      BY <1>1, <1>8 DEF ClTimers
    <3>3. clFlags.run => t.interval = 0
      BY <1>7 DEF ClPhase
    <3> QED
      BY <1>1, <1>3, <2>1, <3>1, <3>2, <3>3 DEF ClTimers
  <2> QED
    BY <2>3, <2>4, <2>5
<1> QED
  BY <1>6, <1>7

\* For any capacity, delays and numbers of tasks and timers: the loop runs every
\* accepted task once and in order, also while Stop(kDrain) waits for it, keeps
\* its timers, fires none that was cancelled and never sleeps past work.
THEOREM ControlLoopFaithfulHolds == LoopSpec => []ControlLoopFaithful
<1>1. ClInv /\ [LoopNext]_clVars => ClInv'
  <2> SUFFICES ASSUME ClInv, [LoopNext]_clVars PROVE ClInv'
    OBVIOUS
  <2>1. CASE UNCHANGED clVars
    <3> USE <2>1 DEF clVars
    <3>1. ClTypes'
      BY SMTT(30) DEF ClInv, ClTypes, LoopTypeOK, ReadyIds
    <3>2. ClPhase'
      BY DEF ClInv, ClPhase
    <3>3. ClQueue'
      BY DEF ClInv, ClQueue
    <3>4. ClTimers'
      BY DEF ClInv, ClTimers, ReadyIds
    <3>5. LoopWakesInTime'
      BY DEF ClInv, LoopWakesInTime
    <3> QED BY <3>1, <3>2, <3>3, <3>4, <3>5 DEF ClInv
  <2>2. ASSUME NEW d \in LoopDelays, RunAfter(d) \/ RunEvery(d) PROVE ClInv'
    BY <2>2, ClAddTimerPreserves, LoopAssumption DEF RunAfter, RunEvery
  <2> QED
    BY <2>1, <2>2, ClStartPreserves, ClStopPreserves, ClStopEndPreserves, ClPostPreserves, ClCancelPreserves,
       ClMovePreserves, ClTakePreserves, ClTaskDonePreserves, ClTimerDonePreserves DEF LoopNext
<1>2. ClInv => ControlLoopFaithful
  <2> SUFFICES ASSUME ClInv PROVE ControlLoopFaithful
    OBVIOUS
  <2>1. TasksInOrder
    BY DEF ClInv, ClPhase, ClQueue, TasksInOrder
  <2>2. DrainRunsAll
    <3> SUFFICES ASSUME clThread = "none", clEnd = "drain" PROVE clRan = Upto(clPosted)
      BY DEF DrainRunsAll
    <3>1. clBatch = <<>> /\ clTasks = <<>>
      BY DEF ClInv, ClTypes, LoopTypeOK, ClPhase
    <3>2. clRan \o <<>> \o <<>> = clRan
      BY ConcatEmptySeq DEF ClInv, ClTypes
    <3> QED
      BY <3>1, <3>2 DEF ClInv, ClQueue
  <2>3. CancelledNeverFires
    <3> SUFFICES ASSUME NEW k \in DOMAIN clReady
                 PROVE  clReady[k].id \notin clCancelled /\ clReady[k].deadline <= clNow
      BY DEF CancelledNeverFires
    <3>1. clReady[k].id \in ReadyIds
      BY DEF ReadyIds
    <3> QED
      BY <3>1 DEF ClInv, ClTimers
  <2>4. TimersKept
    <3> SUFFICES ASSUME clFlags.run
                 PROVE  1 .. (clNextTimer - 1) = DOMAIN clTimers \cup ReadyIds \cup clCancelled \cup clDone
      BY DEF TimersKept, ReadyIds
    <3>1. DOMAIN clTimers \cup ReadyIds \cup clCancelled \cup clDone \subseteq 1 .. (clNextTimer - 1)
      BY DEF ClInv, ClTypes, LoopTypeOK
    <3> QED
      BY <3>1 DEF ClInv, ClTimers
  <2> QED
    BY <2>1, <2>2, <2>3, <2>4 DEF ClInv, ClTypes, ControlLoopFaithful
<1> QED
  BY <1>1, <1>2, ClInitEstablishes, PTL DEF LoopSpec

-----------------------------------------------------------------------------
(***************************************************************************)
(* The event centre.                                                       *)
(***************************************************************************)

\* The shapes of the variables.
EcShape ==
    /\ ecListeners \in [TypeSet -> SUBSET [id : Nat \ {0}, tag : EventOwners]]
    /\ ecNext \in Nat \ {0}
    /\ ecTokens \in [DOMAIN ecTokens -> TypeSet]
    /\ ecOwner \in [EventOwners -> [at : 0 .. Len(EventTypes), held : SUBSET Nat]]
    /\ ecPublish \in [Publishers -> [rest : SUBSET Nat, due : SUBSET Nat, got : SUBSET Nat]]

\* A token names the bucket its listener is in and no other, and tokens are
\* numbered below next_token_id_, so that a new listener is in no snapshot.
EcTokens ==
    /\ DOMAIN ecTokens \subseteq 1 .. (ecNext - 1)
    /\ \A t \in TypeSet : \A l \in ecListeners[t] : l.id \in DOMAIN ecTokens /\ ecTokens[l.id] = t
    /\ \A i \in DOMAIN ecTokens : \E l \in ecListeners[ecTokens[i]] : l.id = i

EcInv ==
    /\ EcShape /\ EcTokens /\ NoOrphanListener /\ SubscribedIsCalled
    /\ Cardinality(DOMAIN ecTokens) <= MaxSubscriptions

\* The token table is finite.
LEMMA TokensFinite == ASSUME EcShape, EcTokens PROVE IsFiniteSet(DOMAIN ecTokens)
<1>1. IsFiniteSet(1 .. (ecNext - 1))
  BY FS_Interval DEF EcShape
<1> QED
  BY <1>1, FS_Subset DEF EcTokens

\* An empty event centre satisfies the invariant.
LEMMA EcInitEstablishes == CenterInit => EcInv
<1> SUFFICES ASSUME CenterInit PROVE EcInv
  OBVIOUS
<1>1. EcShape
  <2>1. Len(EventTypes) \in Nat
    BY EventCenterAssumption
  <2> QED
    BY <2>1 DEF CenterInit, EcShape, NoPublish
<1>2. EcTokens
  BY DEF CenterInit, EcTokens
<1>3. NoOrphanListener /\ SubscribedIsCalled
  BY DEF CenterInit, NoOrphanListener, SubscribedIsCalled, NoPublish
<1>4. Cardinality(DOMAIN ecTokens) <= MaxSubscriptions
  <2>1. DOMAIN ecTokens = {}
    BY DEF CenterInit
  <2> QED
    BY <2>1, FS_EmptySet, EventCenterAssumption
<1> QED
  BY <1>1, <1>2, <1>3, <1>4 DEF EcInv

\* Listeners that leave leave no token behind, whatever their ids.
LEMMA RemovePreserves ==
    ASSUME EcInv, NEW ids, RemoveListeners(ids), UNCHANGED ecNext,
           ecOwner' \in [EventOwners -> [at : 0 .. Len(EventTypes), held : SUBSET Nat]],
           \A o \in EventOwners : ecOwner[o].held \ ids \subseteq ecOwner'[o].held
    PROVE  EcInv'
<1> USE DEF EcInv
<1>1. EcShape'
  BY DEF EcShape, RemoveListeners
<1>2. EcTokens'
  BY DEF EcShape, EcTokens, RemoveListeners
<1>3. NoOrphanListener'
  <2> SUFFICES ASSUME NEW t \in TypeSet, NEW l \in ecListeners'[t]
               PROVE  l.id \in ecOwner'[l.tag].held
    BY DEF NoOrphanListener
  <2>1. l \in ecListeners[t] /\ l.id \notin ids
    BY DEF RemoveListeners
  <2>2. l.tag \in EventOwners
    BY <2>1 DEF EcShape
  <2> QED
    BY <2>1, <2>2 DEF NoOrphanListener
<1>4. SubscribedIsCalled'
  BY ZenonT(60) DEF EcShape, SubscribedIsCalled, RemoveListeners
<1>5. (Cardinality(DOMAIN ecTokens) <= MaxSubscriptions)'
  <2>1. DOMAIN ecTokens' \subseteq DOMAIN ecTokens
    BY DEF RemoveListeners
  <2>2. IsFiniteSet(DOMAIN ecTokens)
    BY TokensFinite
  <2>3. /\ Cardinality(DOMAIN ecTokens') <= Cardinality(DOMAIN ecTokens)
        /\ Cardinality(DOMAIN ecTokens') \in Nat /\ Cardinality(DOMAIN ecTokens) \in Nat
    BY <2>1, <2>2, FS_Subset, FS_CardinalityType
  <2> QED
    BY <2>3, EventCenterAssumption
<1> QED
  BY <1>1, <1>2, <1>3, <1>4, <1>5

\* Subscribe appends a listener under a fresh token.
LEMMA EcSubscribePreserves == ASSUME EcInv, NEW o \in EventOwners, Subscribe(o) PROVE EcInv'
<1> USE DEF EcInv
<1> DEFINE at == ecOwner[o].at
           t == EventTypes[at]
           new == [id |-> ecNext, tag |-> o]
<1>1. at \in 1 .. Len(EventTypes) /\ Len(EventTypes) \in Nat \ {0} /\ DOMAIN EventTypes = 1 .. Len(EventTypes)
  BY EventCenterAssumption DEF Subscribe, EcShape
<1>2. t \in TypeSet
  BY <1>1 DEF TypeSet
<1>3. (at + 1) % (Len(EventTypes) + 1) \in 0 .. Len(EventTypes)
  BY <1>1
<1>4. /\ ecListeners' = [ecListeners EXCEPT ![t] = @ \union {new}]
      /\ ecTokens' = [i \in DOMAIN ecTokens \union {ecNext} |-> IF i = ecNext THEN t ELSE ecTokens[i]]
      /\ ecNext' = ecNext + 1 /\ ecPublish' = ecPublish
      /\ ecOwner' = [ecOwner EXCEPT ![o] = [at |-> (ecOwner[o].at + 1) % (Len(EventTypes) + 1),
                                            held |-> ecOwner[o].held \union {ecNext}]]
      /\ EventTableHasRoom
  BY DEF Subscribe
<1> HIDE DEF at, t
<1>5. EcShape'
  <2>1. new \in [id : Nat \ {0}, tag : EventOwners]
    BY DEF EcShape
  <2>2. ecListeners' \in [TypeSet -> SUBSET [id : Nat \ {0}, tag : EventOwners]]
    <3> HIDE DEF new
    <3> QED
      BY <1>2, <1>4, <2>1 DEF EcShape
  <2>3. ecTokens' \in [DOMAIN ecTokens' -> TypeSet] /\ ecNext' \in Nat \ {0}
    BY <1>2, <1>4 DEF EcShape
  <2>4. ecOwner' \in [EventOwners -> [at : 0 .. Len(EventTypes), held : SUBSET Nat]]
    BY <1>3, <1>4 DEF EcShape, at
  <2> QED
    BY <1>4, <2>2, <2>3, <2>4 DEF EcShape
<1>6. ecNext \notin DOMAIN ecTokens
  BY DEF EcTokens, EcShape
<1>7. EcTokens'
  <2>1. (DOMAIN ecTokens \subseteq 1 .. (ecNext - 1))'
    BY <1>4 DEF EcTokens, EcShape
  <2>2. ASSUME NEW u \in TypeSet, NEW l \in ecListeners'[u]
        PROVE  l.id \in DOMAIN ecTokens' /\ ecTokens'[l.id] = u
    <3>1. l \in ecListeners[u] \/ (u = t /\ l = new)
      <4> HIDE DEF new
      <4> QED
        BY <1>2, <1>4, <2>2 DEF EcShape
    <3>2. CASE l \in ecListeners[u]
      BY <1>4, <1>6, <3>2 DEF EcTokens
    <3>3. CASE u = t /\ l = new
      BY <1>4, <3>3
    <3> QED
      BY <3>1, <3>2, <3>3
  <2>3. ASSUME NEW i \in DOMAIN ecTokens'
        PROVE  \E l \in ecListeners'[ecTokens'[i]] : l.id = i
    <3>1. CASE i = ecNext
      <4>1. ecTokens'[i] = t /\ new \in ecListeners'[t] /\ new.id = i
        BY <1>2, <1>4, <3>1 DEF EcShape
      <4> QED
        BY <4>1
    <3>2. CASE i # ecNext
      <4>1. i \in DOMAIN ecTokens /\ ecTokens'[i] = ecTokens[i] /\ ecTokens[i] \in TypeSet
        BY <1>4, <2>3, <3>2 DEF EcShape
      <4>2. ecListeners[ecTokens[i]] \subseteq ecListeners'[ecTokens[i]]
        BY <1>2, <1>4, <4>1 DEF EcShape
      <4> QED
        BY <4>1, <4>2 DEF EcTokens
    <3> QED
      BY <3>1, <3>2
  <2> QED
    BY <2>1, <2>2, <2>3 DEF EcTokens
<1>8. NoOrphanListener'
  <2> SUFFICES ASSUME NEW u \in TypeSet, NEW l \in ecListeners'[u]
               PROVE  l.id \in ecOwner'[l.tag].held
    BY DEF NoOrphanListener
  <2>1. l \in ecListeners[u] \/ l = new
    <3> HIDE DEF new
    <3> QED
      BY <1>2, <1>4 DEF EcShape
  <2>2. \A x \in EventOwners : ecOwner[x].held \subseteq ecOwner'[x].held
    BY <1>4 DEF EcShape
  <2>3. ecNext \in ecOwner'[o].held
    BY <1>4 DEF EcShape
  <2>4. CASE l \in ecListeners[u]
    BY <2>2, <2>4 DEF NoOrphanListener, EcShape
  <2>5. CASE l = new
    BY <2>3, <2>5
  <2> QED
    BY <2>1, <2>4, <2>5
<1>9. SubscribedIsCalled'
  BY <1>4 DEF SubscribedIsCalled
<1>10. (Cardinality(DOMAIN ecTokens) <= MaxSubscriptions)'
  <2>1. IsFiniteSet(DOMAIN ecTokens)
    BY TokensFinite
  <2>2. DOMAIN ecTokens' = DOMAIN ecTokens \union {ecNext}
    BY <1>4
  <2>3. Cardinality(DOMAIN ecTokens') = Cardinality(DOMAIN ecTokens) + 1
    BY <1>6, <2>1, <2>2, FS_AddElement
  <2>4. Cardinality(DOMAIN ecTokens) \in Nat
    BY <2>1, FS_CardinalityType
  <2> QED
    BY <1>4, <2>3, <2>4, EventCenterAssumption DEF EventTableHasRoom
<1> QED
  BY <1>5, <1>7, <1>8, <1>9, <1>10

\* The listeners of one tag have tokens of their own.
LEMMA EcOwnerStepPreserves ==
    ASSUME EcInv, NEW o \in EventOwners,
           \/ SubscribeEvents(o) \/ SubscribeRefused(o)
           \/ \E id \in ecOwner[o].held : CancelToken(o, id)
           \/ \E types \in {TypeSet} \union {{t} : t \in TypeSet} : Unsubscribe(o, types)
    PROVE  EcInv'
<1>0. Len(EventTypes) \in Nat \ {0} /\ EcShape
  BY EventCenterAssumption DEF EcInv
<1>1. CASE SubscribeEvents(o)
  <2>1. ecOwner' \in [EventOwners -> [at : 0 .. Len(EventTypes), held : SUBSET Nat]]
    BY <1>0, <1>1 DEF SubscribeEvents, EcShape
  <2>2. \A x \in EventOwners : ecOwner'[x].held = ecOwner[x].held
    BY <1>0, <1>1 DEF SubscribeEvents, EcShape
  <2> QED
    BY <1>1, <2>1, <2>2 DEF SubscribeEvents, EcInv, EcShape, EcTokens, NoOrphanListener, SubscribedIsCalled
<1>2. CASE SubscribeRefused(o)
  <2>1. ecOwner' \in [EventOwners -> [at : 0 .. Len(EventTypes), held : SUBSET Nat]]
    BY <1>0, <1>2 DEF SubscribeRefused, EcShape
  <2>2. \A x \in EventOwners : ecOwner[x].held \ ecOwner[o].held \subseteq ecOwner'[x].held
    BY <1>0, <1>2 DEF SubscribeRefused, EcShape
  <2> QED
    BY <1>2, <2>1, <2>2, RemovePreserves DEF SubscribeRefused
<1>3. ASSUME NEW id \in ecOwner[o].held, CancelToken(o, id) PROVE EcInv'
  <2>1. ecOwner' \in [EventOwners -> [at : 0 .. Len(EventTypes), held : SUBSET Nat]]
    BY <1>0, <1>3 DEF CancelToken, EcShape
  <2>2. \A x \in EventOwners : ecOwner[x].held \ {id} \subseteq ecOwner'[x].held
    BY <1>0, <1>3 DEF CancelToken, EcShape
  <2> QED
    BY <1>3, <2>1, <2>2, RemovePreserves DEF CancelToken
<1>4. ASSUME NEW types, Unsubscribe(o, types) PROVE EcInv'
  <2> DEFINE ids == UNION {TagIds(t, o) : t \in types}
  <2>1. RemoveListeners(ids) /\ ecNext' = ecNext /\ ecOwner' = ecOwner
    BY <1>4 DEF Unsubscribe
  <2> HIDE DEF ids
  <2> QED
    BY <1>0, <2>1, RemovePreserves DEF EcShape
<1> QED
  BY <1>1, <1>2, <1>3, <1>4

\* Publish takes its snapshot of a bucket.
LEMMA EcPublishPreserves ==
    ASSUME EcInv, NEW p \in Publishers,
           CallHandler(p) \/ \E t \in TypeSet : PublishBegin(p, t)
    PROVE  EcInv'
<1>1. ASSUME ecPublish' \in [Publishers -> [rest : SUBSET Nat, due : SUBSET Nat, got : SUBSET Nat]],
             SubscribedIsCalled', UNCHANGED <<ecListeners, ecTokens, ecNext, ecOwner>>
      PROVE  EcInv'
  BY <1>1 DEF EcInv, EcShape, EcTokens, NoOrphanListener
<1>2. CASE CallHandler(p)
  <2> DEFINE pub == ecPublish[p]
             f == EarliestOf(pub.rest)
  <2>1. pub.rest # {} /\ pub.rest \subseteq Nat /\ pub.got \subseteq Nat
    BY <1>2 DEF CallHandler, EcInv, EcShape
  <2>2. f \in pub.rest
    BY <2>1, LeastNatural DEF EarliestOf
  <2>3. \A q \in Publishers :
            /\ ecPublish'[q].rest = IF q = p THEN pub.rest \ {f} ELSE ecPublish[q].rest
            /\ ecPublish'[q].got = IF q = p THEN pub.got \union {f} ELSE ecPublish[q].got
            /\ ecPublish'[q].due = ecPublish[q].due
    BY <1>2 DEF CallHandler, EcInv, EcShape
  <2>4. SubscribedIsCalled'
    <3> HIDE DEF f
    <3> QED
      BY <2>2, <2>3 DEF SubscribedIsCalled, EcInv
  <2>5. ecPublish' \in [Publishers -> [rest : SUBSET Nat, due : SUBSET Nat, got : SUBSET Nat]]
    BY <1>2, <2>1, <2>2, ZenonT(60) DEF CallHandler, EcInv, EcShape
  <2> QED
    BY <1>1, <1>2, <2>4, <2>5 DEF CallHandler
<1>3. ASSUME NEW t \in TypeSet, PublishBegin(p, t) PROVE EcInv'
  <2> DEFINE ids == IdsOf(ecListeners[t])
  <2>1. ids \subseteq Nat
    BY DEF EcInv, EcShape, IdsOf
  <2> HIDE DEF ids
  <2>2. ecPublish' = [ecPublish EXCEPT ![p] = [rest |-> ids, due |-> ids, got |-> {}]]
    BY <1>3 DEF PublishBegin, ids
  <2>3. ecPublish' \in [Publishers -> [rest : SUBSET Nat, due : SUBSET Nat, got : SUBSET Nat]]
    BY <2>1, <2>2 DEF EcInv, EcShape
  <2>4. SubscribedIsCalled'
    BY <2>2 DEF SubscribedIsCalled, EcInv, EcShape
  <2> QED
    BY <1>1, <1>3, <2>3, <2>4 DEF PublishBegin
<1> QED
  BY <1>2, <1>3

\* For any event types, owners, publishing threads and limits: tokens and
\* listeners agree through failing subscriptions, cancels and removals by tag,
\* and a listener that stays subscribed is called by every publication.
THEOREM ListenersExactHolds == CenterSpec => []ListenersExact
<1>1. EcInv /\ [CenterNext]_ecVars => EcInv'
  <2> SUFFICES ASSUME EcInv, [CenterNext]_ecVars PROVE EcInv'
    OBVIOUS
  <2>1. CASE UNCHANGED ecVars
    BY <2>1 DEF ecVars, EcInv, EcShape, EcTokens, NoOrphanListener, SubscribedIsCalled
  <2>2. CASE CenterNext
    BY <2>2, EcSubscribePreserves, EcOwnerStepPreserves, EcPublishPreserves DEF CenterNext
  <2> QED
    BY <2>1, <2>2
<1>2. EcInv => ListenersExact
  <2> SUFFICES ASSUME EcInv PROVE ListenersExact
    OBVIOUS
  <2>1. CenterTypeOK
    BY DEF EcInv, EcShape, EcTokens, CenterTypeOK
  <2>2. TokensMatchListeners
    <3>1. ASSUME NEW i \in DOMAIN ecTokens PROVE i \in UNION {IdsOf(ecListeners[t]) : t \in TypeSet}
      <4>1. ecTokens[i] \in TypeSet /\ i \in IdsOf(ecListeners[ecTokens[i]])
        BY DEF EcInv, EcShape, EcTokens, IdsOf
      <4> QED
        BY <4>1
    <3>2. \A t \in TypeSet : \A i \in IdsOf(ecListeners[t]) : i \in DOMAIN ecTokens /\ ecTokens[i] = t
      BY DEF EcInv, EcTokens, IdsOf
    <3> QED
      BY <3>1, <3>2 DEF TokensMatchListeners
  <2> QED
    BY <2>1, <2>2 DEF EcInv, ListenersExact
<1> QED
  BY <1>1, <1>2, EcInitEstablishes, PTL DEF CenterSpec

-----------------------------------------------------------------------------
(***************************************************************************)
(* Network settings.                                                       *)
(***************************************************************************)

\* Configurations of some of the interfaces.
IsTableOf(f) == f \in [DOMAIN f -> IfConfigs] /\ DOMAIN f \subseteq IfSet
PlatStates == [up : BOOLEAN, dhcp : BOOLEAN, addr : NetAddresses \union {0}]

\* suppress_config_apply_ is only set inside PersistConfig(), so that a new value
\* of the scope is always applied: without this part a value could reach the
\* store and not the interfaces.
NwInv ==
    /\ nwOn \in BOOLEAN /\ nwSuppress = FALSE
    /\ nwOn => DOMAIN nwConfigs # {}
    /\ IsTableOf(nwConfigs) /\ IsTableOf(nwStore) /\ IsTableOf(nwDisk)
    /\ nwPlat \in [IfSet -> PlatStates]
    /\ nwBroken \subseteq IfSet
    /\ InterfacesAsConfigured /\ NetworkStoreAgrees

\* The default configuration of an interface is valid.
LEMMA DefaultTyped == DefaultIfConfig \in IfConfigs
BY DEF DefaultIfConfig, IfConfigs

\* LoadConfigs returns a table of valid configurations.
LEMMA LoadTyped ==
    ASSUME NEW f, IsTableOf(f)
    PROVE  IsTableOf(LoadConfigs(f)) /\ DOMAIN LoadConfigs(f) # {}
<1>1. NetIfs[1] \in IfSet
  BY NetworkAssumption DEF IfSet
<1> QED
  BY <1>1, DefaultTyped DEF IsTableOf, LoadConfigs, FirstIfOnly

\* Loading a table that is not empty is the identity.
LEMMA LoadIdentity == ASSUME NEW f, DOMAIN f # {} PROVE LoadConfigs(f) = f
BY DEF LoadConfigs

\* The fields of an interface configuration.
LEMMA ConfigFields ==
    ASSUME NEW c \in IfConfigs
    PROVE  c.up \in BOOLEAN /\ c.dhcp \in BOOLEAN /\ c \in PlatStates
BY DEF IfConfigs, PlatStates

\* A platform call leaves an interface in some state, and one that succeeds
\* leaves it as configured, whatever it ran with before.
LEMMA ApplyTyped ==
    ASSUME NEW have \in PlatStates, NEW c \in IfConfigs, NEW fault \in PlatformFaults
    PROVE  /\ ApplyToPlatform(have, c, fault) \in PlatStates
           /\ Applies(c, fault) => Realises(ApplyToPlatform(have, c, fault), c)
<1>1. c.up \in BOOLEAN /\ c.dhcp \in BOOLEAN /\ c \in PlatStates
  BY ConfigFields
<1>2. CASE fault = "link"
  BY <1>2 DEF ApplyToPlatform, Applies
<1>3. CASE fault # "link" /\ ~c.up
  <2>1. ApplyToPlatform(have, c, fault) = [have EXCEPT !.up = FALSE, !.dhcp = FALSE]
    BY <1>3 DEF ApplyToPlatform
  <2>2. [have EXCEPT !.up = FALSE, !.dhcp = FALSE] \in PlatStates /\ [have EXCEPT !.up = FALSE, !.dhcp = FALSE].up = FALSE
    BY DEF PlatStates
  <2> QED
    BY <1>1, <1>3, <2>1, <2>2 DEF Realises
<1>4. CASE fault = "address" /\ c.up
  <2>1. ApplyToPlatform(have, c, fault) = [up |-> TRUE, dhcp |-> c.dhcp /\ have.dhcp, addr |-> 0]
    BY <1>4 DEF ApplyToPlatform
  <2>2. ~Applies(c, fault)
    BY <1>4 DEF Applies
  <2> QED
    BY <2>1, <2>2 DEF PlatStates
<1>5. CASE fault \in {"none", "route"} /\ c.up
  <2>1. ApplyToPlatform(have, c, fault) = c
    BY <1>5 DEF ApplyToPlatform
  <2> QED
    BY <1>1, <2>1 DEF Realises
<1> QED
  BY <1>1, <1>2, <1>3, <1>4, <1>5 DEF PlatformFaults

\* Without a fault a configuration is applied.
LEMMA AppliesNone == ASSUME NEW c PROVE Applies(c, "none")
BY DEF Applies

\* What an interface has after a roll-back.
LEMMA RolledBackTyped ==
    ASSUME NEW have \in PlatStates, NEW c \in IfConfigs, NEW fault \in PlatformFaults,
           NEW old \in IfConfigs, NEW back \in PlatformFaults
    PROVE  /\ RolledBack(have, c, fault, old, back) \in PlatStates
           /\ Applies(old, back) => Realises(RolledBack(have, c, fault, old, back), old)
<1>1. ApplyToPlatform(have, c, fault) \in PlatStates
  BY ApplyTyped
<1> QED
  BY <1>1, ApplyTyped DEF RolledBack

\* The previous configuration of an interface is a valid one.
LEMMA PreviousTyped ==
    ASSUME NwInv, NEW i
    PROVE  PreviousOf(i) \in IfConfigs /\ (i \in DOMAIN nwConfigs => PreviousOf(i) = nwConfigs[i])
BY DefaultTyped DEF PreviousOf, NwInv, IsTableOf

\* The network service before Start satisfies the invariant.
LEMMA NwInitEstablishes == NetworkInit => NwInv
<1> SUFFICES ASSUME NetworkInit PROVE NwInv
  OBVIOUS
<1>1. NetIfs[1] \in IfSet
  BY NetworkAssumption DEF IfSet
<1>2. IsTableOf(FirstIfOnly) /\ IsTableOf(NoConfigs)
  BY <1>1, DefaultTyped DEF IsTableOf, FirstIfOnly, NoConfigs
<1>3. nwPlat \in [IfSet -> PlatStates]
  BY DEF NetworkInit, PlatStates
<1> QED
  BY <1>2, <1>3 DEF NetworkInit, NwInv, InterfacesAsConfigured, NetworkStoreAgrees

\* Start applies the stored table up to the first failure.
LEMMA NwStartPreserves ==
    ASSUME NwInv, NEW bad \in IfSet, NEW fault \in PlatformFaults, NetworkStart(bad, fault)
    PROVE  NwInv'
<1> DEFINE loaded == LoadConfigs(nwStore)
           stops == bad \in DOMAIN loaded /\ ~Applies(loaded[bad], fault)
           done == {i \in DOMAIN loaded : stops => Before(i, bad)}
<1>1. IsTableOf(loaded) /\ DOMAIN loaded # {}
  BY LoadTyped DEF NwInv
<1>2. /\ nwConfigs' = loaded /\ nwOn' = ~stops /\ nwSuppress' = nwSuppress /\ nwStore' = nwStore /\ nwDisk' = nwDisk
      /\ nwPlat' = [i \in IfSet |->
             CASE i \in done -> ApplyToPlatform(nwPlat[i], loaded[i], "none")
               [] i \notin done /\ stops /\ i = bad -> ApplyToPlatform(nwPlat[i], loaded[i], fault)
               [] OTHER -> nwPlat[i]]
      /\ nwBroken' = IF stops THEN DOMAIN loaded ELSE {}
  BY DEF NetworkStart
<1>3. ~stops => done = DOMAIN loaded
  OBVIOUS
<1>a. done \subseteq DOMAIN loaded /\ (stops => bad \in DOMAIN loaded)
  OBVIOUS
<1>b. LoadConfigs(nwStore) = loaded
  OBVIOUS
<1>c. stops \in BOOLEAN
  OBVIOUS
<1> HIDE DEF loaded, done, stops
<1>4. ASSUME NEW i \in IfSet
      PROVE  /\ nwPlat'[i] \in PlatStates
             /\ i \in done => Realises(nwPlat'[i], loaded[i])
  <2>1. nwPlat[i] \in PlatStates /\ (i \in DOMAIN loaded => loaded[i] \in IfConfigs)
    BY <1>1 DEF NwInv, IsTableOf
  <2>2. CASE i \in done
    <3>1. nwPlat'[i] = ApplyToPlatform(nwPlat[i], loaded[i], "none")
      BY <1>2, <2>2
    <3> QED
      BY <1>a, <2>1, <2>2, <3>1, ApplyTyped, AppliesNone DEF PlatformFaults
  <2>3. CASE i \notin done /\ stops /\ i = bad
    <3>1. nwPlat'[i] = ApplyToPlatform(nwPlat[i], loaded[i], fault)
      BY <1>2, <2>3
    <3> QED
      BY <1>a, <2>1, <2>3, <3>1, ApplyTyped
  <2>4. CASE i \notin done /\ ~(stops /\ i = bad)
    BY <1>2, <2>1, <2>4
  <2> QED
    BY <2>2, <2>3, <2>4
<1>5. nwPlat' \in [IfSet -> PlatStates]
  BY <1>2, <1>4
<1>6. InterfacesAsConfigured'
  BY <1>1, <1>2, <1>3, <1>4 DEF InterfacesAsConfigured, IsTableOf
<1>7. nwBroken' \subseteq IfSet
  BY <1>1, <1>2 DEF IsTableOf
<1>8. IsTableOf(nwConfigs') /\ IsTableOf(nwStore') /\ IsTableOf(nwDisk')
  BY <1>1, <1>2 DEF NwInv
<1>9. NetworkStoreAgrees'
  BY <1>2, <1>b DEF NetworkStoreAgrees
<1> QED
  BY <1>1, <1>2, <1>5, <1>6, <1>7, <1>8, <1>9, <1>c DEF NwInv, IsTableOf

\* Undoing a change of interface i leaves the others alone.
LEMMA UndoPreserves ==
    ASSUME NwInv, NEW i \in IfSet, NEW c \in IfConfigs, NEW fault \in PlatformFaults,
           NEW back \in PlatformFaults, Undo(i, c, fault, back),
           nwOn' = nwOn, nwSuppress' = FALSE, nwConfigs' = nwConfigs,
           IsTableOf(nwStore'), IsTableOf(nwDisk'), NetworkStoreAgrees'
    PROVE  NwInv'
<1> DEFINE old == PreviousOf(i)
<1>1. old \in IfConfigs /\ (i \in DOMAIN nwConfigs => old = nwConfigs[i])
  BY PreviousTyped
<1>2. nwPlat[i] \in PlatStates
  BY DEF NwInv
<1> DEFINE now == RolledBack(nwPlat[i], c, fault, old, back)
<1>3. now \in PlatStates /\ (Applies(old, back) => Realises(now, old))
  BY <1>1, <1>2, RolledBackTyped
<1>4. nwPlat' = [nwPlat EXCEPT ![i] = now] /\ nwBroken' = BrokenAfter(nwBroken, i, old, back)
  BY DEF Undo
<1> HIDE DEF now, old
<1>5. nwPlat' \in [IfSet -> PlatStates] /\ nwBroken' \subseteq IfSet
  BY <1>3, <1>4 DEF NwInv, BrokenAfter
<1>6. ASSUME nwOn, NEW j \in DOMAIN nwConfigs \ nwBroken' PROVE Realises(nwPlat'[j], nwConfigs[j])
  <2>0. j \in IfSet
    BY <1>6 DEF NwInv, IsTableOf
  <2>1. CASE j = i
    <3>1. Applies(old, back)
      BY <1>4, <1>6, <2>1 DEF BrokenAfter
    <3> QED
      BY <1>1, <1>3, <1>4, <2>0, <2>1, <3>1 DEF NwInv
  <2>2. CASE j # i
    <3>1. j \notin nwBroken /\ nwPlat'[j] = nwPlat[j]
      BY <1>4, <1>6, <2>0, <2>2 DEF BrokenAfter, NwInv
    <3> QED
      BY <1>6, <3>1 DEF NwInv, InterfacesAsConfigured
  <2> QED
    BY <2>1, <2>2
<1> QED
  BY <1>5, <1>6 DEF NwInv, InterfacesAsConfigured

\* ApplyInterfaceConfig: apply, persist, roll back.
LEMMA NwApplyPreserves ==
    ASSUME NwInv, NEW i \in IfSet, NEW c \in IfConfigs, NEW fault \in PlatformFaults,
           NEW back \in PlatformFaults, NEW saved \in BOOLEAN,
           ApplyInterfaceConfig(i, c, fault, saved, back)
    PROVE  NwInv'
<1> DEFINE next == [j \in DOMAIN nwConfigs \union {i} |-> IF j = i THEN c ELSE nwConfigs[j]]
<1>1. IsTableOf(next) /\ DOMAIN next # {} /\ DOMAIN next = DOMAIN nwConfigs \union {i}
  BY DEF NwInv, IsTableOf
<1>2. nwOn /\ nwOn' = nwOn
  BY DEF ApplyInterfaceConfig
<1>3. CASE ~Applies(c, fault)
  <2>1. Undo(i, c, fault, back) /\ UNCHANGED <<nwConfigs, nwSuppress, nwStore, nwDisk, nwRefused>>
    BY <1>3 DEF ApplyInterfaceConfig
  <2> QED
    BY <1>2, <2>1, UndoPreserves DEF NwInv, NetworkStoreAgrees
<1>4. CASE Applies(c, fault)
  <2>1. /\ PersistConfig(next, saved)
        /\ IF saved \/ nwStore = next
           THEN /\ nwConfigs' = next /\ nwPlat' = [nwPlat EXCEPT ![i] = ApplyToPlatform(@, c, "none")]
                /\ nwBroken' = nwBroken \ {i} /\ nwRefused' = FALSE
           ELSE Undo(i, c, "none", back) /\ nwRefused' = TRUE /\ UNCHANGED nwConfigs
    BY <1>4 DEF ApplyInterfaceConfig
  <2>a. \A j \in DOMAIN next : next[j] = IF j = i THEN c ELSE nwConfigs[j]
    OBVIOUS
  <2> HIDE DEF next
  <2>2. nwSuppress' = FALSE /\ nwStore' = next /\ IsTableOf(nwStore') /\ IsTableOf(nwDisk')
    BY <1>1, <2>1 DEF PersistConfig, StoreTakes, NwInv
  <2>3. CASE saved \/ nwStore = next
    <3>1. ApplyToPlatform(nwPlat[i], c, "none") \in PlatStates /\ Realises(ApplyToPlatform(nwPlat[i], c, "none"), c)
      BY ApplyTyped, AppliesNone DEF NwInv, PlatformFaults
    <3> DEFINE now == ApplyToPlatform(nwPlat[i], c, "none")
    <3>2. nwPlat' = [nwPlat EXCEPT ![i] = now] /\ nwConfigs' = next /\ nwBroken' = nwBroken \ {i}
      BY <2>1, <2>3
    <3> HIDE DEF now
    <3>3. nwPlat' \in [IfSet -> PlatStates] /\ now \in PlatStates /\ Realises(now, c)
      BY <3>1, <3>2 DEF NwInv, now
    <3>4. InterfacesAsConfigured'
      <4> SUFFICES ASSUME NEW j \in DOMAIN next \ (nwBroken \ {i}) PROVE Realises(nwPlat'[j], next[j])
        BY <3>2 DEF InterfacesAsConfigured
      <4>1. CASE j = i
        BY <1>1, <2>a, <3>2, <3>3, <4>1 DEF NwInv
      <4>2. CASE j # i
        <5>1. j \in DOMAIN nwConfigs \ nwBroken /\ next[j] = nwConfigs[j]
          BY <1>1, <2>a, <4>2
        <5>2. nwPlat'[j] = nwPlat[j]
          BY <3>2, <4>2, <5>1 DEF NwInv, IsTableOf
        <5> QED
          BY <1>2, <5>1, <5>2 DEF NwInv, InterfacesAsConfigured
      <4> QED
        BY <4>1, <4>2
    <3>5. NetworkStoreAgrees'
      BY <1>1, <2>2, <3>2, LoadIdentity DEF NetworkStoreAgrees
    <3> QED
      BY <1>1, <1>2, <2>2, <3>2, <3>3, <3>4, <3>5 DEF NwInv
  <2>4. CASE ~(saved \/ nwStore = next)
    <3>1. Undo(i, c, "none", back) /\ nwRefused' = TRUE /\ nwConfigs' = nwConfigs
      BY <2>1, <2>4
    <3>2. NetworkStoreAgrees'
      BY <3>1 DEF NetworkStoreAgrees
    <3>3. "none" \in PlatformFaults
      BY DEF PlatformFaults
    <3> QED
      BY <1>2, <2>2, <3>1, <3>2, <3>3, UndoPreserves
  <2> QED
    BY <2>3, <2>4
<1> QED
  BY <1>3, <1>4

\* A change that fails at interface bad and is rolled back.
LEMMA NwFailPreserves ==
    ASSUME NwInv, NEW next, IsTableOf(next), NEW bad \in ChangedIfs(next), NEW fault \in PlatformFaults,
           NEW back \in PlatformFaults, FailAt(next, bad, fault, back),
           UNCHANGED <<nwOn, nwSuppress, nwConfigs, nwStore, nwDisk, nwRefused>>
    PROVE  NwInv'
<1> DEFINE earlier == {i \in ChangedIfs(next) : Before(i, bad)}
           tried == earlier \union {bad}
<1>1. /\ nwPlat' = [i \in IfSet |->
              CASE i = bad -> RolledBack(nwPlat[i], next[i], fault, PreviousOf(i), back)
                [] i # bad /\ i \in earlier \intersect DOMAIN nwConfigs ->
                     RolledBack(nwPlat[i], next[i], "none", nwConfigs[i], back)
                [] i # bad /\ i \in earlier \ DOMAIN nwConfigs -> ApplyToPlatform(nwPlat[i], next[i], "none")
                [] OTHER -> nwPlat[i]]
      /\ nwBroken' = (nwBroken \ tried) \union {i \in tried : ~Applies(PreviousOf(i), back)}
  BY DEF FailAt
<1>2. earlier \subseteq DOMAIN next /\ bad \in DOMAIN next /\ DOMAIN next \subseteq IfSet
  BY DEF ChangedIfs, IsTableOf
<1>3. "none" \in PlatformFaults
  BY DEF PlatformFaults
<1> HIDE DEF earlier
<1>4. ASSUME NEW i \in IfSet
      PROVE  /\ nwPlat'[i] \in PlatStates
             /\ i \in tried /\ i \in DOMAIN nwConfigs /\ Applies(PreviousOf(i), back) => Realises(nwPlat'[i], nwConfigs[i])
             /\ i \notin tried => nwPlat'[i] = nwPlat[i]
  <2>1. /\ nwPlat[i] \in PlatStates /\ (i \in DOMAIN next => next[i] \in IfConfigs)
        /\ PreviousOf(i) \in IfConfigs /\ (i \in DOMAIN nwConfigs => PreviousOf(i) = nwConfigs[i])
    BY PreviousTyped DEF NwInv, IsTableOf
  <2>2. CASE i = bad
    <3>1. nwPlat'[i] = RolledBack(nwPlat[i], next[i], fault, PreviousOf(i), back)
      BY <1>1, <2>2
    <3> QED
      BY <1>2, <2>1, <2>2, <3>1, RolledBackTyped
  <2>3. CASE i # bad /\ i \in earlier \intersect DOMAIN nwConfigs
    <3>1. nwPlat'[i] = RolledBack(nwPlat[i], next[i], "none", nwConfigs[i], back)
      BY <1>1, <2>3
    <3> QED
      BY <1>2, <1>3, <2>1, <2>3, <3>1, RolledBackTyped
  <2>4. CASE i # bad /\ i \in earlier \ DOMAIN nwConfigs
    <3>1. nwPlat'[i] = ApplyToPlatform(nwPlat[i], next[i], "none")
      BY <1>1, <2>4
    <3> QED
      BY <1>2, <1>3, <2>1, <2>4, <3>1, ApplyTyped
  <2>5. CASE i # bad /\ i \notin earlier
    BY <1>1, <2>1, <2>5
  <2> QED
    BY <2>2, <2>3, <2>4, <2>5
<1>5. nwPlat' \in [IfSet -> PlatStates] /\ nwBroken' \subseteq IfSet
  BY <1>1, <1>2, <1>4 DEF NwInv
<1>6. InterfacesAsConfigured'
  <2> SUFFICES ASSUME nwOn, NEW j \in DOMAIN nwConfigs \ nwBroken' PROVE Realises(nwPlat'[j], nwConfigs[j])
    BY DEF InterfacesAsConfigured
  <2>0. j \in IfSet
    BY DEF NwInv, IsTableOf
  <2>1. CASE j \in tried
    BY <1>1, <1>4, <2>0, <2>1
  <2>2. CASE j \notin tried
    <3>1. j \notin nwBroken /\ nwPlat'[j] = nwPlat[j]
      BY <1>1, <1>4, <2>0, <2>2
    <3> QED
      BY <3>1 DEF NwInv, InterfacesAsConfigured
  <2> QED
    BY <2>1, <2>2
<1> QED
  BY <1>5, <1>6 DEF NwInv, NetworkStoreAgrees

\* A change through the configuration store, rolled back when an interface fails.
LEMMA NwSetPreserves ==
    ASSUME NwInv, NEW next \in NetTables, NEW bad \in IfSet, NEW fault \in PlatformFaults,
           NEW back \in PlatformFaults, NEW saved \in BOOLEAN,
           SetNetworkScope(next, bad, fault, saved, back)
    PROVE  NwInv'
<1> DEFINE parsed == LoadConfigs(next)
           fails == bad \in ChangedIfs(parsed) /\ ~Applies(parsed[bad], fault)
<1>1. IsTableOf(next)
  BY DEF NetTables, IsTableOf
<1>2. IsTableOf(parsed) /\ DOMAIN parsed # {}
  BY <1>1, LoadTyped
<1>3. nwOn /\ nwOn' = nwOn /\ nwSuppress' = FALSE /\ nwSuppress = FALSE
  BY DEF SetNetworkScope, NwInv
<1>4. CASE next = nwStore
  <2>1. UNCHANGED <<nwPlat, nwBroken, nwConfigs, nwStore, nwDisk, nwRefused>>
    BY <1>4 DEF SetNetworkScope
  <2> QED
    BY <1>3, <2>1 DEF NwInv, InterfacesAsConfigured, NetworkStoreAgrees
<1>5. CASE next # nwStore /\ fails
  <2>1. FailAt(parsed, bad, fault, back) /\ UNCHANGED <<nwConfigs, nwStore, nwDisk, nwRefused>>
    BY <1>3, <1>5 DEF SetNetworkScope
  <2> QED
    BY <1>2, <1>3, <1>5, <2>1, NwFailPreserves
<1>6. CASE next # nwStore /\ ~fails
  <2>1. /\ nwPlat' = [i \in IfSet |-> IF i \in ChangedIfs(parsed)
                                      THEN ApplyToPlatform(nwPlat[i], parsed[i], "none")
                                      ELSE nwPlat[i]]
        /\ nwBroken' = nwBroken \ ChangedIfs(parsed)
        /\ nwConfigs' = parsed /\ StoreTakes(next, saved)
    BY <1>3, <1>6 DEF SetNetworkScope
  <2>2. IsTableOf(nwStore') /\ IsTableOf(nwDisk') /\ nwStore' = next
    BY <1>1, <2>1 DEF StoreTakes, NwInv
  <2>3. NetworkStoreAgrees'
    BY <2>1, <2>2 DEF NetworkStoreAgrees
  <2> HIDE DEF parsed
  <2>4. ASSUME NEW i \in IfSet
        PROVE  /\ nwPlat'[i] \in PlatStates
               /\ i \in ChangedIfs(parsed) => Realises(nwPlat'[i], parsed[i])
               /\ i \notin ChangedIfs(parsed) => nwPlat'[i] = nwPlat[i]
    <3>1. CASE i \in ChangedIfs(parsed)
      <4>1. i \in DOMAIN parsed /\ parsed[i] \in IfConfigs
        BY <1>2, <3>1 DEF ChangedIfs, IsTableOf
      <4>2. nwPlat'[i] = ApplyToPlatform(nwPlat[i], parsed[i], "none")
        BY <2>1, <3>1
      <4> QED
        BY <3>1, <4>1, <4>2, ApplyTyped, AppliesNone DEF PlatformFaults, NwInv
    <3>2. CASE i \notin ChangedIfs(parsed)
      BY <2>1, <3>2 DEF NwInv
    <3> QED
      BY <3>1, <3>2
  <2>5. nwPlat' \in [IfSet -> PlatStates] /\ nwBroken' \subseteq IfSet
    BY <2>1, <2>4 DEF NwInv
  <2>6. InterfacesAsConfigured'
    <3> SUFFICES ASSUME NEW j \in DOMAIN parsed \ nwBroken' PROVE Realises(nwPlat'[j], parsed[j])
      BY <2>1 DEF InterfacesAsConfigured
    <3>1. j \in IfSet
      BY <1>2 DEF IsTableOf
    <3>2. CASE j \in ChangedIfs(parsed)
      BY <2>4, <3>1, <3>2
    <3>3. CASE j \notin ChangedIfs(parsed)
      <4>1. j \in DOMAIN nwConfigs /\ nwConfigs[j] = parsed[j] /\ j \notin nwBroken
        BY <2>1, <3>3 DEF ChangedIfs
      <4> QED
        BY <1>3, <2>4, <3>1, <3>3, <4>1 DEF NwInv, InterfacesAsConfigured
    <3> QED
      BY <3>2, <3>3
  <2> QED
    BY <1>2, <1>3, <2>1, <2>2, <2>3, <2>5, <2>6 DEF NwInv
<1> QED
  BY <1>4, <1>5, <1>6

\* The application stops or is killed: the interfaces stay as they are.
LEMMA NwStopPreserves == ASSUME NwInv, NEW saved \in BOOLEAN, NetworkStop(saved) PROVE NwInv'
<1>1. IsTableOf(NoConfigs)
  BY DEF IsTableOf, NoConfigs
<1>2. IsTableOf(nwStore') /\ IsTableOf(nwDisk')
  BY DEF NwInv, NetworkStop
<1> QED
  BY <1>1, <1>2 DEF NwInv, NetworkStop, InterfacesAsConfigured, NetworkStoreAgrees

\* For any interfaces and addresses, whichever platform calls and saves fail:
\* an interface runs as configured unless undoing a change failed too, and the
\* store has what the service runs with unless it refused the change.
THEOREM NetworkAsConfiguredHolds == NetworkSpec => []NetworkAsConfigured
<1>1. NwInv /\ [NetworkNext]_nwVars => NwInv'
  <2> SUFFICES ASSUME NwInv, [NetworkNext]_nwVars PROVE NwInv'
    OBVIOUS
  <2>1. CASE UNCHANGED nwVars
    BY <2>1 DEF nwVars, NwInv, InterfacesAsConfigured, NetworkStoreAgrees
  <2>2. CASE NetworkNext
    BY <2>2, NwStartPreserves, NwApplyPreserves, NwSetPreserves, NwStopPreserves DEF NetworkNext
  <2> QED
    BY <2>1, <2>2
<1>2. NwInv => NetworkAsConfigured
  <2> SUFFICES ASSUME NwInv PROVE NetworkTypeOK
    BY DEF NwInv, NetworkAsConfigured
  <2>1. \A f : IsTableOf(f) => \A i \in DOMAIN f : i \in IfSet /\ f[i] \in IfConfigs
    BY DEF IsTableOf
  <2> QED
    BY <2>1 DEF NwInv, NetworkTypeOK
<1> QED
  BY <1>1, <1>2, NwInitEstablishes, PTL DEF NetworkSpec

-----------------------------------------------------------------------------
(***************************************************************************)
(* The configuration store.                                                *)
(***************************************************************************)

(* The inductive invariant. *)

\* What the file and the .tmp file can hold.
FileTyped(f) == f = <<"missing">> \/ f = <<"torn">> \/ \E c \in Content : f = <<"file", c>>

\* The holder of write_mutex_ works on a scope and a value that exist.
JobTyped ==
    /\ job.scope \in Nat
    /\ pc \in {"verify", "apply", "commit"} => job.scope \in Scopes /\ job.now \in Values
    /\ todo \in Seq(Scopes)

\* Nobody but the holder of write_mutex_ assigns current_ between the snapshot
\* of SaveCurrentFile() and the end of the save.
SaveInProgress ==
    /\ pc \in {"write", "rename"} => changed /\ snap = current
    /\ pc = "rename" => tmp = <<"file", snap>>
    /\ pc = "saved" => disk = <<"file", current>>

\* Between apply and the assignment of current_ the owner already runs with the
\* new value, if it is attached.
AppliedAhead ==
    pc = "commit" /\ job.scope \in attached => runtime[job.scope] = job.now

StoreInv ==
    /\ TypeOK /\ FileTyped(disk) /\ FileTyped(tmp) /\ JobTyped
    /\ DiskNeverTorn /\ SavedIsCurrent /\ SaveInProgress
    /\ AppliedIsCurrent /\ AppliedAhead

-----------------------------------------------------------------------------
\* A file that is not missing or torn holds values, and the merged ones are
\* complete (MergeMissingFields()).
LEMMA LoadedTyped ==
    ASSUME FileTyped(disk), Readable \/ disk[1] = "missing"
    PROVE  Loaded \in [Scopes -> Values] /\ Loaded \in Content
<1>1. CASE Readable
  <2>1. PICK c \in Content : disk = <<"file", c>>
    BY <1>1 DEF FileTyped, Readable
  <2>2. disk[2] = c
    BY <2>1
  <2> QED
    BY <1>1, <2>2, ConfigAssumption DEF Loaded, MergeMissing, Content
<1>2. CASE ~Readable
  BY <1>2, ConfigAssumption DEF Loaded, Defaults, Content
<1> QED
  BY <1>1, <1>2

\* A typed file is a file.
LEMMA FileTypedIsFile ==
    ASSUME NEW f, FileTyped(f)
    PROVE  IsFile(f)
BY DEF FileTyped, IsFile

\* The store before Start satisfies the invariant.
LEMMA StoreInitEstablishes == Init => StoreInv
<1> SUFFICES ASSUME Init PROVE StoreInv
  OBVIOUS
<1>1. FileTyped(disk) /\ FileTyped(tmp) /\ DiskNeverTorn
  BY DEF Init, FileTyped, DiskNeverTorn
<1>2. TypeOK
  BY <1>1, FileTypedIsFile, ConfigAssumption DEF Init, TypeOK
<1>3. JobTyped
  BY DEF Init, JobTyped, NoJob
<1> QED
  BY <1>1, <1>2, <1>3 DEF Init, StoreInv, SavedIsCurrent, SaveInProgress, AppliedIsCurrent, AppliedAhead

-----------------------------------------------------------------------------
\* The order ResetAll() goes through is a sequence of scopes.
LEMMA OrderIsSeq ==
    ASSUME NEW order \in [1..Cardinality(Scopes) -> Scopes]
    PROVE  order \in Seq(Scopes)
<1>1. Cardinality(Scopes) \in Nat
  BY ConfigAssumption, FS_CardinalityType
<1> QED
  BY <1>1

\* SetLocked(), first section, keeps the invariant for any scope and value.
LEMMA StoreSetBeginPreserves ==
    ASSUME StoreInv, NEW op, NEW s \in Scopes, NEW now \in Values, SetBegin(op, s, now),
           todo' \in Seq(Scopes)
    PROVE  StoreInv'
<1> USE ConfigAssumption DEF StoreInv, SetBegin, Idle
<1>1. TypeOK' /\ FileTyped(disk)' /\ FileTyped(tmp)'
  BY DEF TypeOK, FileTyped, IsFile
<1>2. JobTyped'
  BY DEF JobTyped
<1>3. DiskNeverTorn' /\ SavedIsCurrent' /\ SaveInProgress'
  BY DEF DiskNeverTorn, SavedIsCurrent, SaveInProgress
<1>4. AppliedIsCurrent' /\ AppliedAhead'
  BY DEF AppliedIsCurrent, AppliedAhead
<1> QED
  BY <1>1, <1>2, <1>3, <1>4

\* Every step of a writer, of another thread or of the process keeps the invariant.
LEMMA StoreStepPreserves == StoreInv /\ [Next]_vars => StoreInv'
<1> SUFFICES ASSUME StoreInv, [Next]_vars PROVE StoreInv'
  OBVIOUS
<1> USE ConfigAssumption DEF StoreInv, TypeOK, JobTyped, DiskNeverTorn, SavedIsCurrent, SaveInProgress,
        AppliedIsCurrent, AppliedAhead, IsFile
<1>1. CASE Prepare
  <2>1. Loaded \in [Scopes -> Values] /\ Loaded \in Content
    BY <1>1, LoadedTyped DEF Prepare
  <2>2. FileTyped(disk)' /\ FileTyped(tmp)'
    BY <1>1, <2>1 DEF Prepare, FileTyped
  <2>3. attached = {}
    BY <1>1 DEF Prepare
  <2> QED
    BY <1>1, <2>1, <2>2, <2>3 DEF Prepare
<1>2. CASE PrepareFails
  <2>1. Defaults \in Content
    BY DEF Defaults, Content
  <2>2. FileTyped(disk)' /\ FileTyped(tmp)' /\ disk'[1] # "torn"
    <3>1. CASE UNCHANGED <<disk, tmp>>
      BY <3>1 DEF FileTyped
    <3>2. CASE /\ Readable \/ disk[1] = "missing"
               /\ disk' \in IF Readable THEN {disk} ELSE {disk, <<"file", Defaults>>}
               /\ tmp' \in {<<"torn">>, <<"file", Loaded>>}
      <4>1. Loaded \in Content
        BY <3>2, LoadedTyped
      <4>2. disk' = disk \/ disk' = <<"file", Defaults>>
        BY <3>2
      <4> QED
        BY <2>1, <3>2, <4>1, <4>2 DEF FileTyped
    <3> QED
      BY <1>2, <3>1, <3>2 DEF PrepareFails
  <2>3. IsFile(disk)' /\ IsFile(tmp)'
    BY <2>2, FileTypedIsFile
  <2> QED
    BY <1>2, <2>2, <2>3 DEF PrepareFails
<1>3. CASE Start
  BY <1>3 DEF Start
<1>4. ASSUME NEW s \in Scopes, AddScope(s) \/ RemoveScope(s)
      PROVE  StoreInv'
  <2>1. CASE AddScope(s)
    BY <2>1 DEF AddScope, FileTyped
  <2>2. CASE RemoveScope(s)
    BY <2>2 DEF RemoveScope, FileTyped
  <2> QED
    BY <1>4, <2>1, <2>2
<1>5. ASSUME NEW s \in Scopes, NEW now \in Values, Set(s, now)
      PROVE  StoreInv'
  <2>1. SetBegin("set", s, now) /\ todo' \in Seq(Scopes)
    BY <1>5 DEF Set
  <2> QED
    BY <2>1, StoreSetBeginPreserves
<1>6. CASE Verify
  BY <1>6 DEF Verify, Fail
<1>7. CASE Apply
  BY <1>7, ZenonT(60) DEF Apply, Fail
<1>8. CASE Commit
  BY <1>8 DEF Commit
<1>9. CASE SaveBegin
  BY <1>9 DEF SaveBegin, FileTyped
<1>10. CASE SaveFails
  BY <1>10 DEF SaveFails
<1>11. CASE SaveWrite
  <2>1. snap \in Content
    BY <1>11 DEF SaveWrite, Content
  <2>2. FileTyped(tmp)'
    BY <1>11, <2>1 DEF SaveWrite, FileTyped
  <2> QED
    BY <1>11, <2>2, FileTypedIsFile DEF SaveWrite
<1>12. CASE SaveRename
  <2>1. tmp = <<"file", current>>
    BY <1>12 DEF SaveRename
  <2>2. disk' = <<"file", current>> /\ disk'[1] # "torn" /\ FileTyped(disk)' /\ FileTyped(tmp)'
    BY <1>12, <2>1 DEF SaveRename, FileTyped
  <2>3. IsFile(disk)' /\ IsFile(tmp)'
    BY <2>2, FileTypedIsFile
  <2> QED
    BY <1>12, <2>1, <2>2, <2>3 DEF SaveRename
<1>13. CASE Saved
  BY <1>13 DEF Saved
<1>14. CASE Finish
  BY <1>14 DEF Finish
<1>15. CASE Return
  BY <1>15 DEF Return
<1>16. CASE ResetAllBegin
  <2>1. todo' \in Seq(Scopes)
    BY <1>16, OrderIsSeq DEF ResetAllBegin
  <2> QED
    BY <1>16, <2>1 DEF ResetAllBegin
<1>17. CASE ResetNext
  <2>1. Head(todo) \in Scopes /\ Tail(todo) \in Seq(Scopes)
    BY <1>17 DEF ResetNext
  <2>2. CASE SetBegin("reset", Head(todo), Default) /\ todo' = Tail(todo)
    BY <2>1, <2>2, StoreSetBeginPreserves
  <2>3. CASE ~(initialized /\ started)
    <3>1. todo' = <<>> /\ UNCHANGED <<initialized, started, changed, current, attached,
                           runtime, disk, tmp, pc, job, snap, code>>
      BY <1>17, <2>3 DEF ResetNext
    <3>2. todo' \in Seq(Scopes)
      BY <3>1
    <3> QED
      BY <3>1, <3>2
  <2> QED
    BY <1>17, <2>2, <2>3 DEF ResetNext
<1>18. ASSUME NEW op \in {"stop", "release"}, StopOrRelease(op)
       PROVE  StoreInv'
  BY <1>18 DEF StopOrRelease, Idle, NoJob
<1>19. CASE Crash
  <2>1. todo' \in Seq(Scopes) /\ runtime' \in [Scopes -> Values \cup {Absent}]
    BY <1>19 DEF Crash
  <2>2. /\ job'.scope = 0 /\ pc' = "idle" /\ attached' = {} /\ code' = "kOk"
        /\ initialized' = FALSE /\ started' = FALSE /\ changed' = FALSE
        /\ disk' = disk /\ tmp' = tmp
    BY <1>19 DEF Crash, NoJob
  <2>3. FileTyped(disk)' /\ FileTyped(tmp)' /\ IsFile(disk)' /\ IsFile(tmp)'
    BY <2>2 DEF FileTyped
  <2>4. TypeOK'
    BY <2>1, <2>2, <2>3
  <2>5. JobTyped' /\ DiskNeverTorn'
    BY <2>1, <2>2
  <2>6. SavedIsCurrent' /\ SaveInProgress' /\ AppliedIsCurrent' /\ AppliedAhead'
    BY <2>2
  <2> QED
    BY <2>3, <2>4, <2>5, <2>6
<1>20. CASE UNCHANGED vars
  BY <1>20 DEF vars
<1> QED
  BY <1>1, <1>2, <1>3, <1>4, <1>5, <1>6, <1>7, <1>8, <1>9, <1>10, <1>11, <1>12, <1>13, <1>14,
     <1>15, <1>16, <1>17, <1>18, <1>19, <1>20 DEF Next

\* Whichever of verify, apply and save fails and wherever the process is killed,
\* the file can be loaded, no due save is skipped and modules run with what
\* Get() returns (Set(), Reset(), SaveCurrentFile(), AtomicWriteJson()).
THEOREM StoreConsistentHolds == Spec => []StoreConsistent
<1>1. StoreInv => StoreConsistent
  BY DEF StoreInv, StoreConsistent
<1> QED
  BY <1>1, StoreInitEstablishes, StoreStepPreserves, PTL DEF Spec

-----------------------------------------------------------------------------
(***************************************************************************)
(* Alarms: events balance the states, held back and spaced as configured.  *)
(***************************************************************************)

\* An event, and the state of a source.
AlarmEvent == [source : AlarmSources, type : {"on", "off"}]
AlarmStateType == [waiting : BOOLEAN, since : Nat, active : BOOLEAN, last : Nat]

AlarmShape ==
    /\ amRule \in [AlarmSources -> [on : BOOLEAN, min : Nat, repeat : Nat, manual : BOOLEAN]]
    /\ amState \in [AlarmSources -> AlarmStateType]
    /\ amMono \in Nat /\ amWall \in Nat /\ amWall > 0 /\ amSet \in [AlarmSources -> Int]
    /\ amOut \in [AlarmThreads -> SUBSET AlarmEvent]
    /\ amSeen \in [AlarmSources -> Int]
    /\ amHeld \in [AlarmSources -> Int] /\ amRaised \in [AlarmSources -> Int]

\* Of one source a thread publishes one event.
AlarmOneEach ==
    \A t \in AlarmThreads, s \in AlarmSources :
        ~([source |-> s, type |-> "on"] \in amOut[t] /\ [source |-> s, type |-> "off"] \in amOut[t])

\* A source waits since its input became active or later.
AlarmWaits ==
    \A s \in AlarmSources : /\ 0 - 1 <= amHeld[s] /\ amHeld[s] <= amMono
                            /\ amState[s].waiting => amHeld[s] >= 0 /\ amHeld[s] <= amState[s].since

\* Since the last alarm of a source the system clock has moved by the time that has
\* passed and by what it was set.
AlarmClocks ==
    \A s \in AlarmSources : amRaised[s] >= 0 =>
        amState[s].last > 0 /\ amWall - amState[s].last = amMono - amRaised[s] + amSet[s]

AlarmInv == AlarmShape /\ AlarmOneEach /\ EventsBalanced /\ DisabledIsQuiet /\ AlarmWaits /\ AlarmClocks

\* What a call of the HTTP thread does: it clears sources and queues the ends of their alarms.
LEMMA AlarmCleared ==
    ASSUME AlarmInv, NEW srcs \in SUBSET AlarmSources,
           ClearSources(srcs), Queue("http", OffEvents(srcs)),
           amRule' \in [AlarmSources -> [on : BOOLEAN, min : Nat, repeat : Nat, manual : BOOLEAN]],
           \A s \in AlarmSources : ~amRule'[s].on => s \in srcs \/ ~amRule[s].on,
           UNCHANGED <<amMono, amWall, amSet, amSeen, amHeld, amRaised>>
    PROVE  AlarmInv' /\ \A s \in AlarmSources : amState'[s].active => amState[s].active
<1>1. /\ \A s \in srcs : amState'[s] = Cleared(amState[s])
      /\ \A s \in AlarmSources : s \notin srcs => amState'[s] = amState[s]
      /\ DOMAIN amState' = AlarmSources /\ amState' = [s \in AlarmSources |-> amState'[s]]
  BY DEF ClearSources
<1>2. \A s \in AlarmSources : amState[s] \in AlarmStateType
  BY DEF AlarmInv, AlarmShape
<1>3. \A s \in AlarmSources :
         /\ amState'[s] \in AlarmStateType /\ amState'[s].last = amState[s].last
         /\ s \in srcs => ~amState'[s].active /\ ~amState'[s].waiting
         /\ s \notin srcs => amState'[s] = amState[s]
  <2>1. \A st \in AlarmStateType : /\ Cleared(st) \in AlarmStateType /\ Cleared(st).last = st.last
                                   /\ ~Cleared(st).active /\ ~Cleared(st).waiting
    BY DEF Cleared, AlarmStateType
  <2>2. \A s \in srcs : /\ amState'[s] \in AlarmStateType /\ amState'[s].last = amState[s].last
                        /\ ~amState'[s].active /\ ~amState'[s].waiting
    BY <1>1, <1>2, <2>1
  <2> QED BY <1>1, <1>2, <2>2
<1>4. amOut \in [AlarmThreads -> SUBSET AlarmEvent] /\ "ai" \in AlarmThreads /\ "http" \in AlarmThreads
  BY DEF AlarmInv, AlarmShape, AlarmThreads
<1>5. amOut["http"] = {} /\ amOut'["http"] = OffEvents(srcs) /\ amOut'["ai"] = amOut["ai"]
  BY <1>4 DEF Queue
<1>6. \A s \in AlarmSources :
         /\ [source |-> s, type |-> "on"] \notin OffEvents(srcs)
         /\ [source |-> s, type |-> "off"] \in OffEvents(srcs) <=> s \in srcs /\ amState[s].active
  <2> TAKE s \in AlarmSources
  <2>1. \A x : [source |-> x, type |-> "off"] # [source |-> s, type |-> "on"]
    <3> TAKE x
    <3>1. [source |-> x, type |-> "off"].type # [source |-> s, type |-> "on"].type
      OBVIOUS
    <3> QED BY <3>1
  <2>2. \A x : [source |-> x, type |-> "off"] = [source |-> s, type |-> "off"] => x = s
    <3> TAKE x
    <3>1. [source |-> x, type |-> "off"].source = x /\ [source |-> s, type |-> "off"].source = s
      OBVIOUS
    <3> QED BY <3>1
  <2> QED BY <2>1, <2>2, Zenon DEF OffEvents
<1>7. OffEvents(srcs) \subseteq AlarmEvent
  BY DEF OffEvents, AlarmEvent
<1>8. AlarmShape'
  <2>1. amOut' \in [AlarmThreads -> SUBSET AlarmEvent]
    BY <1>4, <1>7 DEF Queue
  <2>2. amState' \in [AlarmSources -> AlarmStateType]
    BY <1>1, <1>3
  <2> QED BY <2>1, <2>2 DEF AlarmInv, AlarmShape
<1>9. AlarmOneEach'
  BY <1>5, <1>6 DEF AlarmInv, AlarmOneEach, AlarmThreads
<1>10. EventsBalanced'
  <2> SUFFICES ASSUME NEW s \in AlarmSources
               PROVE  amSeen'[s] + Yet("ai", s)' + Yet("http", s)' = IF amState'[s].active THEN 1 ELSE 0
    BY DEF EventsBalanced
  <2>1. amSeen[s] \in Int /\ amSeen'[s] = amSeen[s]
    BY DEF AlarmInv, AlarmShape
  <2>2. Yet("ai", s)' = Yet("ai", s) /\ Yet("ai", s) \in Int
    BY <1>5 DEF Yet
  <2>3. Yet("http", s) = 0 /\ Yet("http", s)' = IF s \in srcs /\ amState[s].active THEN 0 - 1 ELSE 0
    BY <1>5, <1>6 DEF Yet
  <2>4. amSeen[s] + Yet("ai", s) + Yet("http", s) = IF amState[s].active THEN 1 ELSE 0
    BY DEF AlarmInv, EventsBalanced
  <2>5. amState[s].active \in BOOLEAN /\ amState'[s].active \in BOOLEAN
    BY <1>2, <1>3 DEF AlarmStateType
  <2>6. CASE s \in srcs
    BY <1>3, <2>1, <2>2, <2>3, <2>4, <2>5, <2>6
  <2>7. CASE s \notin srcs
    <3>1. amState'[s].active = amState[s].active
      BY <1>3, <2>7
    <3> QED BY <2>1, <2>2, <2>3, <2>4, <2>7, <3>1
  <2> QED BY <2>6, <2>7
<1>11. DisabledIsQuiet'
  BY <1>3 DEF AlarmInv, DisabledIsQuiet
<1>12. AlarmWaits'
  BY <1>3 DEF AlarmInv, AlarmWaits
<1>13. AlarmClocks'
  BY <1>3 DEF AlarmInv, AlarmClocks
<1>14. \A s \in AlarmSources : amState'[s].active => amState[s].active
  BY <1>3
<1> QED
  BY <1>8, <1>9, <1>10, <1>11, <1>12, <1>13, <1>14 DEF AlarmInv

\* SetRules: new rules for some sources.
LEMMA AlarmRulesSet ==
    ASSUME AlarmInv, NEW new, DOMAIN new \subseteq AlarmSources,
           \A s \in DOMAIN new : new[s] \in [on : BOOLEAN, min : Nat, repeat : Nat, manual : BOOLEAN],
           SetRules(new), UNCHANGED <<amMono, amWall, amSet, amSeen, amHeld, amRaised>>
    PROVE  AlarmInv' /\ \A s \in AlarmSources : amState'[s].active => amState[s].active
<1> DEFINE off == {s \in DOMAIN new : ~new[s].on}
<1>1. /\ amRule' = [s \in AlarmSources |-> IF s \in DOMAIN new THEN new[s] ELSE amRule[s]]
      /\ ClearSources(off) /\ Queue("http", OffEvents(off))
  BY DEF SetRules
<1>2. amRule \in [AlarmSources -> [on : BOOLEAN, min : Nat, repeat : Nat, manual : BOOLEAN]]
  BY DEF AlarmInv, AlarmShape
<1>3. amRule' \in [AlarmSources -> [on : BOOLEAN, min : Nat, repeat : Nat, manual : BOOLEAN]]
  BY <1>1, <1>2
<1>4. \A s \in AlarmSources : ~amRule'[s].on => s \in off \/ ~amRule[s].on
  BY <1>1
<1>5. off \in SUBSET AlarmSources
  OBVIOUS
<1> HIDE DEF off
<1> QED
  BY <1>1, <1>3, <1>4, <1>5, AlarmCleared

\* A default rule is a rule.
LEMMA AlarmDefaultRule == DefaultRule \in [on : BOOLEAN, min : Nat, repeat : Nat, manual : BOOLEAN]
BY DEF DefaultRule

\* The state of a source after an input: when it is raised and what it keeps.
LEMMA AlarmInput ==
    ASSUME NEW st \in AlarmStateType, NEW rule \in [on : BOOLEAN, min : Nat, repeat : Nat, manual : BOOLEAN],
           NEW active \in BOOLEAN, amMono \in Nat, amWall \in Nat, st.active => rule.on
    PROVE  LET next == IF ~rule.on THEN Cleared(st)
                       ELSE IF active THEN InputActive(st, rule) ELSE InputInactive(st, rule)
           IN  /\ next \in AlarmStateType
               /\ next.active => rule.on
               /\ next.waiting => active /\ (next.since = amMono \/ (st.waiting /\ next.since = st.since))
               /\ next.active /\ ~st.active =>
                     /\ active /\ next.last = amWall
                     /\ st.waiting => amMono - st.since >= rule.min
                     /\ ~st.waiting => 0 >= rule.min
                     /\ st.last > 0 => amWall - st.last >= rule.repeat
               /\ ~(next.active /\ ~st.active) => next.last = st.last
<1> DEFINE next == IF ~rule.on THEN Cleared(st)
                   ELSE IF active THEN InputActive(st, rule) ELSE InputInactive(st, rule)
<1>1. Cleared(st) \in AlarmStateType /\ Cleared(st).last = st.last /\ ~Cleared(st).active /\ ~Cleared(st).waiting
  BY DEF Cleared, AlarmStateType
<1>2. CASE ~rule.on
  BY <1>1, <1>2
<1>3. CASE rule.on /\ ~active
  <2>1. next = InputInactive(st, rule)
    BY <1>3
  <2>2. CASE st.active /\ ~rule.manual
    BY <1>1, <1>3, <2>1, <2>2 DEF InputInactive
  <2>3. CASE ~(st.active /\ ~rule.manual)
    <3>1. next = [st EXCEPT !.waiting = FALSE, !.since = 0]
      BY <2>1, <2>3 DEF InputInactive
    <3> HIDE DEF next
    <3>2. next \in AlarmStateType /\ next.waiting = FALSE /\ next.active = st.active /\ next.last = st.last
      BY <3>1 DEF AlarmStateType
    <3> QED BY <1>3, <3>2 DEF next
  <2> QED BY <2>2, <2>3
<1>4. CASE rule.on /\ active
  <2> DEFINE w == Waiting(st)
  <2>1. /\ w \in AlarmStateType /\ w.waiting /\ w.active = st.active /\ w.last = st.last
        /\ st.waiting => w.since = st.since
        /\ ~st.waiting => w.since = amMono
    <3>1. CASE st.waiting
      BY <3>1 DEF Waiting, AlarmStateType
    <3>2. CASE ~st.waiting
      BY <3>2 DEF Waiting, AlarmStateType
    <3> QED BY <3>1, <3>2
  <2>2. next = IF amMono - w.since < rule.min \/ w.active \/ TooSoon(w, rule) THEN w
               ELSE [w EXCEPT !.waiting = FALSE, !.since = 0, !.active = TRUE, !.last = amWall]
    BY <1>4 DEF InputActive
  <2> HIDE DEF w, next
  <2>3. CASE amMono - w.since < rule.min \/ w.active \/ TooSoon(w, rule)
    <3>1. next = w
      BY <2>2, <2>3
    <3> QED BY <1>4, <2>1, <3>1 DEF next
  <2>4. CASE ~(amMono - w.since < rule.min \/ w.active \/ TooSoon(w, rule))
    <3>1. next = [w EXCEPT !.waiting = FALSE, !.since = 0, !.active = TRUE, !.last = amWall]
      BY <2>2, <2>4
    <3>2. next \in AlarmStateType /\ ~next.waiting /\ next.active /\ next.last = amWall
      BY <2>1, <3>1 DEF AlarmStateType
    <3>3. w.since \in Nat /\ w.last \in Nat /\ rule.min \in Nat /\ rule.repeat \in Nat /\ st.since \in Nat /\ st.last \in Nat
      BY <2>1 DEF AlarmStateType
    <3>4. amMono - w.since >= rule.min
      BY <2>4, <3>3
    <3>5. st.waiting => amMono - st.since >= rule.min
      BY <2>1, <3>4
    <3>6. ~st.waiting => 0 >= rule.min
      BY <2>1, <3>3, <3>4
    <3>7. st.last > 0 => amWall - st.last >= rule.repeat
      <4>1. w.last > 0 => ~(amWall - w.last < rule.repeat)
        BY <2>4 DEF TooSoon
      <4> QED BY <2>1, <3>3, <4>1
    <3>8. ~st.active
      BY <2>1, <2>4
    <3> QED BY <1>4, <3>2, <3>5, <3>6, <3>7, <3>8 DEF next
  <2> QED BY <2>3, <2>4
<1> QED
  BY <1>2, <1>3, <1>4

\* InjectAlarmInput by the AI thread.
LEMMA AlarmInputPreserves ==
    ASSUME AlarmInv, NEW s \in AlarmSources, NEW active \in BOOLEAN, InjectAlarmInput(s, active)
    PROVE  /\ AlarmInv'
           /\ \A x \in AlarmSources : amState'[x].active /\ ~amState[x].active =>
                 /\ amHeld'[x] >= 0 /\ amMono - amHeld'[x] >= amRule[x].min
                 /\ amRaised[x] >= 0 => amMono - amRaised[x] + amSet[x] >= amRule[x].repeat
<1> DEFINE st == amState[s]
           rule == amRule[s]
           next == IF ~rule.on THEN Cleared(st)
                   ELSE IF active THEN InputActive(st, rule) ELSE InputInactive(st, rule)
           raised == next.active /\ ~st.active
           events == IF raised THEN {[source |-> s, type |-> "on"]}
                     ELSE IF st.active /\ ~next.active THEN {[source |-> s, type |-> "off"]} ELSE {}
<1>1. /\ amState' = [amState EXCEPT ![s] = next] /\ Queue("ai", events)
      /\ amHeld' = [amHeld EXCEPT ![s] = IF ~active THEN 0 - 1 ELSE IF @ = 0 - 1 THEN amMono ELSE @]
      /\ amRaised' = [amRaised EXCEPT ![s] = IF raised THEN amMono ELSE @]
      /\ amSet' = [amSet EXCEPT ![s] = IF raised THEN 0 ELSE @]
      /\ UNCHANGED <<amOn, amRule, amMono, amWall, amSeen>>
  BY DEF InjectAlarmInput
<1>2. /\ amRule \in [AlarmSources -> [on : BOOLEAN, min : Nat, repeat : Nat, manual : BOOLEAN]]
      /\ amState \in [AlarmSources -> AlarmStateType] /\ amMono \in Nat /\ amWall \in Nat
      /\ amOut \in [AlarmThreads -> SUBSET AlarmEvent] /\ amSeen \in [AlarmSources -> Int]
      /\ amHeld \in [AlarmSources -> Int] /\ amRaised \in [AlarmSources -> Int]
      /\ amSet \in [AlarmSources -> Int] /\ amWall > 0
  BY DEF AlarmInv, AlarmShape
<1>3. st \in AlarmStateType /\ rule \in [on : BOOLEAN, min : Nat, repeat : Nat, manual : BOOLEAN] /\ (st.active => rule.on)
  BY <1>2 DEF AlarmInv, DisabledIsQuiet
<1>4. /\ next \in AlarmStateType
      /\ next.active => rule.on
      /\ next.waiting => active /\ (next.since = amMono \/ (st.waiting /\ next.since = st.since))
      /\ next.active /\ ~st.active =>
            /\ active /\ next.last = amWall
            /\ st.waiting => amMono - st.since >= rule.min
            /\ ~st.waiting => 0 >= rule.min
            /\ st.last > 0 => amWall - st.last >= rule.repeat
      /\ ~(next.active /\ ~st.active) => next.last = st.last
  <2> HIDE DEF st, rule, next
  <2> QED BY <1>2, <1>3, AlarmInput DEF next
<1> HIDE DEF next
<1>5. /\ amState'[s] = next /\ \A x \in AlarmSources : x # s => amState'[x] = amState[x]
      /\ amState' \in [AlarmSources -> AlarmStateType]
  BY <1>1, <1>2, <1>4
<1>6. /\ amHeld'[s] = IF ~active THEN 0 - 1 ELSE IF amHeld[s] = 0 - 1 THEN amMono ELSE amHeld[s]
      /\ \A x \in AlarmSources : x # s => amHeld'[x] = amHeld[x]
      /\ amHeld' \in [AlarmSources -> Int]
  BY <1>1, <1>2
<1>7. /\ amRaised'[s] = IF raised THEN amMono ELSE amRaised[s]
      /\ \A x \in AlarmSources : x # s => amRaised'[x] = amRaised[x]
      /\ amRaised' \in [AlarmSources -> Int]
      /\ amSet'[s] = IF raised THEN 0 ELSE amSet[s]
      /\ \A x \in AlarmSources : x # s => amSet'[x] = amSet[x]
      /\ amSet' \in [AlarmSources -> Int]
  BY <1>1, <1>2
<1>8. "ai" \in AlarmThreads /\ "http" \in AlarmThreads
  BY DEF AlarmThreads
<1>9. amOut["ai"] = {} /\ amOut'["ai"] = events /\ amOut'["http"] = amOut["http"]
  BY <1>1, <1>2, <1>8 DEF Queue
<1>10. /\ [source |-> s, type |-> "on"] \in AlarmEvent /\ [source |-> s, type |-> "off"] \in AlarmEvent
       /\ [source |-> s, type |-> "on"] # [source |-> s, type |-> "off"]
  <2>1. [source |-> s, type |-> "on"].type # [source |-> s, type |-> "off"].type
    OBVIOUS
  <2> QED BY <2>1 DEF AlarmEvent
<1>11. \A x \in AlarmSources : x # s => [source |-> x, type |-> "on"] \notin events /\ [source |-> x, type |-> "off"] \notin events
  <2> TAKE x \in AlarmSources
  <2> HAVE x # s
  <2>1. \A a, b \in {"on", "off"} : [source |-> x, type |-> a] # [source |-> s, type |-> b]
    <3> TAKE a, b \in {"on", "off"}
    <3>1. [source |-> x, type |-> a].source # [source |-> s, type |-> b].source
      OBVIOUS
    <3> QED BY <3>1
  <2> HIDE DEF raised
  <2> QED BY <2>1
<1>12. AlarmShape'
  <2>1. amOut' \in [AlarmThreads -> SUBSET AlarmEvent]
    <3>1. events \subseteq AlarmEvent
      BY <1>10
    <3> HIDE DEF events
    <3> QED BY <1>1, <1>2, <1>8, <3>1 DEF Queue
  <2> QED BY <1>1, <1>2, <1>5, <1>6, <1>7, <2>1 DEF AlarmShape
<1>13. AlarmOneEach'
  <2>1. ~([source |-> s, type |-> "on"] \in events /\ [source |-> s, type |-> "off"] \in events)
    BY <1>10
  <2> HIDE DEF events
  <2>2. \A x \in AlarmSources : ~([source |-> x, type |-> "on"] \in events /\ [source |-> x, type |-> "off"] \in events)
    BY <1>11, <2>1
  <2> QED BY <1>9, <2>2 DEF AlarmInv, AlarmOneEach, AlarmThreads
<1>14. EventsBalanced'
  <2> SUFFICES ASSUME NEW x \in AlarmSources
               PROVE  amSeen'[x] + Yet("ai", x)' + Yet("http", x)' = IF amState'[x].active THEN 1 ELSE 0
    BY DEF EventsBalanced
  <2>1. amSeen[x] \in Int /\ amSeen'[x] = amSeen[x]
    BY <1>1, <1>2
  <2>2. Yet("http", x)' = Yet("http", x) /\ Yet("http", x) \in Int
    BY <1>9 DEF Yet
  <2>3. amSeen[x] + Yet("ai", x) + Yet("http", x) = IF amState[x].active THEN 1 ELSE 0
    BY DEF AlarmInv, EventsBalanced
  <2>4. Yet("ai", x) = 0
    BY <1>9 DEF Yet
  <2>5. CASE x # s
    <3>1. Yet("ai", x)' = 0
      BY <1>9, <1>11, <2>5 DEF Yet
    <3>2. amState'[x].active = amState[x].active
      BY <1>5, <2>5
    <3> QED BY <2>1, <2>2, <2>3, <2>4, <3>1, <3>2
  <2>6. CASE x = s
    <3>1. Yet("ai", s)' = IF raised THEN 1 ELSE IF st.active /\ ~next.active THEN 0 - 1 ELSE 0
      <4>1. Yet("ai", s)' = CASE [source |-> s, type |-> "on"] \in events -> 1
                              [] [source |-> s, type |-> "off"] \in events -> 0 - 1
                              [] OTHER -> 0
        BY <1>9 DEF Yet
      <4>2. CASE raised
        BY <1>10, <4>1, <4>2
      <4>3. CASE ~raised /\ st.active /\ ~next.active
        <5>1. events = {[source |-> s, type |-> "off"]}
          BY <4>3
        <5> QED BY <1>10, <4>1, <4>3, <5>1
      <4>4. CASE ~raised /\ ~(st.active /\ ~next.active)
        <5>1. events = {}
          BY <4>4
        <5> QED BY <4>1, <4>4, <5>1
      <4> QED BY <4>2, <4>3, <4>4
    <3>2. st.active \in BOOLEAN /\ next.active \in BOOLEAN
      BY <1>3, <1>4 DEF AlarmStateType
    <3>3. amSeen[s] + Yet("http", s) = IF st.active THEN 1 ELSE 0
      BY <2>1, <2>2, <2>3, <2>4, <2>6
    <3>4. amState'[s].active = next.active
      BY <1>5
    <3>5. amSeen[s] \in Int /\ Yet("http", s) \in Int
      BY <2>1, <2>2, <2>6
    <3>6. amSeen[s] + Yet("ai", s)' + Yet("http", s) = IF next.active THEN 1 ELSE 0
      <4> DEFINE y == Yet("ai", s)'
                 a == amSeen[s]
                 b == Yet("http", s)
      <4>1. y = IF raised THEN 1 ELSE IF st.active /\ ~next.active THEN 0 - 1 ELSE 0
        BY <3>1
      <4>2. a + b = IF st.active THEN 1 ELSE 0
        BY <3>3
      <4>3. a \in Int /\ b \in Int
        BY <3>5
      <4> HIDE DEF y, a, b
      <4>4. a + y + b = IF next.active THEN 1 ELSE 0
        BY <3>2, <4>1, <4>2, <4>3 DEF raised
      <4> QED BY <4>4 DEF y, a, b
    <3> QED BY <2>1, <2>2, <2>6, <3>4, <3>6
  <2> QED BY <2>5, <2>6
<1>15. DisabledIsQuiet'
  BY <1>1, <1>4, <1>5 DEF AlarmInv, DisabledIsQuiet
<1>16. /\ amHeld[s] \in Int /\ 0 - 1 <= amHeld[s] /\ amHeld[s] <= amMono
       /\ st.waiting => amHeld[s] >= 0 /\ amHeld[s] <= st.since
  BY <1>2 DEF AlarmInv, AlarmWaits
<1>17. st.since \in Nat /\ next.since \in Nat /\ st.last \in Nat /\ rule.min \in Nat /\ rule.repeat \in Nat
  BY <1>3, <1>4 DEF AlarmStateType
<1>18. AlarmWaits'
  <2>1. \A x \in AlarmSources : x # s => /\ 0 - 1 <= amHeld'[x] /\ amHeld'[x] <= amMono
                                         /\ amState'[x].waiting => amHeld'[x] >= 0 /\ amHeld'[x] <= amState'[x].since
    BY <1>5, <1>6 DEF AlarmInv, AlarmWaits
  <2>2. 0 - 1 <= amHeld'[s] /\ amHeld'[s] <= amMono
    BY <1>2, <1>6, <1>16
  <2>3. next.waiting => amHeld'[s] >= 0 /\ amHeld'[s] <= next.since
    <3> HIDE DEF st
    <3> QED BY <1>2, <1>4, <1>6, <1>16, <1>17
  <2> QED BY <1>1, <1>5, <2>1, <2>2, <2>3 DEF AlarmWaits
<1>19. \A x \in AlarmSources : amRaised[x] >= 0 =>
          amState[x].last > 0 /\ amWall - amState[x].last = amMono - amRaised[x] + amSet[x]
  BY DEF AlarmInv, AlarmClocks
<1>20. AlarmClocks'
  <2>1. \A x \in AlarmSources : x # s /\ amRaised'[x] >= 0 =>
           amState'[x].last > 0 /\ amWall - amState'[x].last = amMono - amRaised'[x] + amSet'[x]
    BY <1>5, <1>7, <1>19
  <2>2. amRaised'[s] >= 0 => next.last > 0 /\ amWall - next.last = amMono - amRaised'[s] + amSet'[s]
    <3>1. CASE raised
      <4>1. next.last = amWall /\ amRaised'[s] = amMono /\ amSet'[s] = 0
        BY <1>4, <1>7, <3>1
      <4> QED BY <1>2, <4>1
    <3>2. CASE ~raised
      <4>1. next.last = st.last /\ amRaised'[s] = amRaised[s] /\ amSet'[s] = amSet[s]
        BY <1>4, <1>7, <3>2
      <4> QED BY <1>19, <4>1
    <3> QED BY <3>1, <3>2
  <2> QED BY <1>1, <1>5, <2>1, <2>2 DEF AlarmClocks
<1>21. ASSUME next.active, ~st.active
       PROVE  /\ amHeld'[s] >= 0 /\ amMono - amHeld'[s] >= rule.min
              /\ amRaised[s] >= 0 => amMono - amRaised[s] + amSet[s] >= rule.repeat
  <2>1. /\ active
        /\ st.waiting => amMono - st.since >= rule.min
        /\ ~st.waiting => 0 >= rule.min
        /\ st.last > 0 => amWall - st.last >= rule.repeat
    BY <1>4, <1>21
  <2>2. amHeld'[s] = IF amHeld[s] = 0 - 1 THEN amMono ELSE amHeld[s]
    BY <1>6, <2>1
  <2>3. amRaised[s] \in Int
    BY <1>2
  <2> DEFINE h == amHeld[s]
             r == amRaised[s]
             g == amHeld'[s]
  <2> HIDE DEF st, rule
  <2>4. amHeld'[s] >= 0 /\ amMono - amHeld'[s] >= rule.min
    BY <1>2, <1>16, <1>17, <2>1, <2>2
  <2>5. r >= 0 => amMono - r + amSet[s] >= rule.repeat
    <3> SUFFICES ASSUME r >= 0 PROVE amMono - r + amSet[s] >= rule.repeat
      OBVIOUS
    <3>1. st.last > 0 /\ amWall - st.last = amMono - r + amSet[s]
      BY <1>19 DEF st
    <3>2. amWall - st.last >= rule.repeat
      BY <2>1, <3>1
    <3> QED BY <3>1, <3>2
  <2> QED BY <2>4, <2>5
<1>22. \A x \in AlarmSources : amState'[x].active /\ ~amState[x].active => x = s
  BY <1>5
<1> QED
  BY <1>5, <1>12, <1>13, <1>14, <1>15, <1>18, <1>20, <1>21, <1>22 DEF AlarmInv

\* PublishEvent moves an event from the thread to the subscribers.
LEMMA AlarmPublishPreserves ==
    ASSUME AlarmInv, NEW t \in AlarmThreads, NEW event \in amOut[t], PublishEvent(t, event)
    PROVE  AlarmInv'
<1> DEFINE s == event.source
<1>1. /\ amOut' = [amOut EXCEPT ![t] = @ \ {event}]
      /\ amSeen' = [amSeen EXCEPT ![s] = @ + Worth(event)]
      /\ UNCHANGED <<amOn, amRule, amState, amMono, amWall, amSet, amHeld, amRaised>>
  BY DEF PublishEvent
<1>2. amOut \in [AlarmThreads -> SUBSET AlarmEvent] /\ amSeen \in [AlarmSources -> Int]
  BY DEF AlarmInv, AlarmShape
<1>3. /\ s \in AlarmSources
      /\ \/ event = [source |-> s, type |-> "on"] /\ Worth(event) = 1
         \/ event = [source |-> s, type |-> "off"] /\ Worth(event) = 0 - 1
  <2>1. event \in AlarmEvent
    BY <1>2
  <2>2. event = [source |-> event.source, type |-> event.type] /\ event.source \in AlarmSources /\ event.type \in {"on", "off"}
    BY <2>1 DEF AlarmEvent
  <2>3. CASE event.type = "on"
    BY <2>2, <2>3 DEF Worth
  <2>4. CASE event.type = "off"
    BY <2>2, <2>4 DEF Worth
  <2> QED BY <2>2, <2>3, <2>4
<1> HIDE DEF s
<1>4. /\ amOut' \in [AlarmThreads -> SUBSET AlarmEvent] /\ amSeen' \in [AlarmSources -> Int]
      /\ amOut'[t] = amOut[t] \ {event} /\ \A u \in AlarmThreads : u # t => amOut'[u] = amOut[u]
      /\ amSeen'[s] = amSeen[s] + Worth(event) /\ \A x \in AlarmSources : x # s => amSeen'[x] = amSeen[x]
      /\ amSeen[s] \in Int
  BY <1>1, <1>2, <1>3
<1>5. AlarmShape'
  BY <1>1, <1>4 DEF AlarmInv, AlarmShape
<1>6. AlarmOneEach'
  <2>1. \A u \in AlarmThreads : amOut'[u] \subseteq amOut[u]
    BY <1>4
  <2> QED BY <2>1 DEF AlarmInv, AlarmOneEach
<1>7. \A x \in AlarmSources : x # s => /\ [source |-> x, type |-> "on"] # event
                                       /\ [source |-> x, type |-> "off"] # event
  <2> TAKE x \in AlarmSources
  <2>1. [source |-> x, type |-> "on"].source = x /\ [source |-> x, type |-> "off"].source = x
    OBVIOUS
  <2> QED BY <2>1 DEF s
<1>8. [source |-> s, type |-> "on"] # [source |-> s, type |-> "off"]
  <2>1. [source |-> s, type |-> "on"].type # [source |-> s, type |-> "off"].type
    OBVIOUS
  <2> QED BY <2>1
<1>9. /\ \A u \in AlarmThreads, x \in AlarmSources : Yet(u, x) \in Int /\ (u # t \/ x # s => Yet(u, x)' = Yet(u, x))
      /\ Yet(t, s)' = Yet(t, s) - Worth(event)
  <2>1. \A u \in AlarmThreads, x \in AlarmSources : Yet(u, x) \in Int
    BY DEF Yet
  <2>2. ASSUME NEW u \in AlarmThreads, NEW x \in AlarmSources, u # t \/ x # s PROVE Yet(u, x)' = Yet(u, x)
    <3>1. /\ [source |-> x, type |-> "on"] \in amOut'[u] <=> [source |-> x, type |-> "on"] \in amOut[u]
          /\ [source |-> x, type |-> "off"] \in amOut'[u] <=> [source |-> x, type |-> "off"] \in amOut[u]
      BY <1>4, <1>7, <2>2
    <3> QED BY <3>1 DEF Yet
  <2>3. Yet(t, s) = Worth(event) /\ Yet(t, s)' = 0
    <3>1. ~([source |-> s, type |-> "on"] \in amOut[t] /\ [source |-> s, type |-> "off"] \in amOut[t])
      BY <1>3 DEF AlarmInv, AlarmOneEach
    <3>2. CASE event = [source |-> s, type |-> "on"] /\ Worth(event) = 1
      <4>1. /\ [source |-> s, type |-> "on"] \in amOut[t] /\ [source |-> s, type |-> "on"] \notin amOut'[t]
            /\ [source |-> s, type |-> "off"] \notin amOut'[t] /\ [source |-> s, type |-> "off"] \notin amOut[t]
        BY <1>4, <3>1, <3>2
      <4> QED BY <3>2, <4>1 DEF Yet
    <3>3. CASE event = [source |-> s, type |-> "off"] /\ Worth(event) = 0 - 1
      <4>1. /\ [source |-> s, type |-> "off"] \in amOut[t] /\ [source |-> s, type |-> "off"] \notin amOut'[t]
            /\ [source |-> s, type |-> "on"] \notin amOut'[t] /\ [source |-> s, type |-> "on"] \notin amOut[t]
        BY <1>4, <3>1, <3>3
      <4> QED BY <3>3, <4>1 DEF Yet
    <3> QED BY <1>3, <3>2, <3>3
  <2>4. Yet(t, s)' = Yet(t, s) - Worth(event)
    BY <1>3, <2>3
  <2> QED BY <2>1, <2>2, <2>4
<1>10. EventsBalanced'
  <2> SUFFICES ASSUME NEW x \in AlarmSources
               PROVE  amSeen'[x] + Yet("ai", x)' + Yet("http", x)' = IF amState'[x].active THEN 1 ELSE 0
    BY DEF EventsBalanced
  <2>1. amSeen[x] + Yet("ai", x) + Yet("http", x) = IF amState[x].active THEN 1 ELSE 0
    BY DEF AlarmInv, EventsBalanced
  <2>2. amSeen[x] \in Int /\ amState'[x].active = amState[x].active /\ Worth(event) \in Int
    BY <1>1, <1>2, <1>3
  <2>3. Yet("ai", x) \in Int /\ Yet("http", x) \in Int
    BY <1>9 DEF AlarmThreads
  <2>4. CASE x # s
    <3>1. amSeen'[x] = amSeen[x] /\ Yet("ai", x)' = Yet("ai", x) /\ Yet("http", x)' = Yet("http", x)
      BY <1>4, <1>9, <2>4 DEF AlarmThreads
    <3> QED BY <2>1, <2>2, <3>1
  <2>5. CASE x = s /\ t = "ai"
    <3>1. amSeen'[x] = amSeen[x] + Worth(event) /\ Yet("ai", x)' = Yet("ai", x) - Worth(event) /\ Yet("http", x)' = Yet("http", x)
      BY <1>4, <1>9, <2>5 DEF AlarmThreads
    <3> QED BY <2>1, <2>2, <2>3, <3>1
  <2>6. CASE x = s /\ t = "http"
    <3>1. amSeen'[x] = amSeen[x] + Worth(event) /\ Yet("http", x)' = Yet("http", x) - Worth(event) /\ Yet("ai", x)' = Yet("ai", x)
      BY <1>4, <1>9, <2>6 DEF AlarmThreads
    <3> QED BY <2>1, <2>2, <2>3, <3>1
  <2> QED BY <2>4, <2>5, <2>6 DEF AlarmThreads
<1>11. DisabledIsQuiet' /\ AlarmWaits' /\ AlarmClocks'
  BY <1>1 DEF AlarmInv, DisabledIsQuiet, AlarmWaits, AlarmClocks
<1> QED
  BY <1>5, <1>6, <1>10, <1>11 DEF AlarmInv

\* The clocks: Pass and SetSystemTime.
LEMMA AlarmClockPreserves ==
    ASSUME AlarmInv, Pass \/ (\E w \in SystemTimes : SetSystemTime(w))
    PROVE  AlarmInv' /\ amState' = amState
<1>1. UNCHANGED <<amOn, amRule, amState, amOut, amSeen, amHeld, amRaised>>
  BY DEF Pass, SetSystemTime
<1>2. amMono \in Nat /\ amWall \in Nat /\ amHeld \in [AlarmSources -> Int]
  BY DEF AlarmInv, AlarmShape
<1>3. \/ amMono' = amMono + 1 /\ amWall' = amWall + 1 /\ amSet' = amSet
      \/ /\ amMono' = amMono /\ amWall' \in Nat /\ amWall' > 0
         /\ amSet' = [s \in AlarmSources |-> IF amRaised[s] = 0 - 1 THEN 0 ELSE amSet[s] + (amWall' - amWall)]
  BY AlarmRulesAssumption DEF Pass, SetSystemTime
<1>4. AlarmShape'
  <2>1. amSet \in [AlarmSources -> Int] /\ amWall > 0
    BY DEF AlarmInv, AlarmShape
  <2>2. amMono' \in Nat /\ amWall' \in Nat /\ amWall' > 0
    BY <1>2, <1>3, <2>1
  <2>3. amSet' \in [AlarmSources -> Int]
    BY <1>2, <1>3, <2>1, <2>2
  <2> QED BY <1>1, <2>2, <2>3 DEF AlarmInv, AlarmShape
<1>5. AlarmOneEach' /\ DisabledIsQuiet'
  BY <1>1 DEF AlarmInv, AlarmOneEach, DisabledIsQuiet
<1>6. EventsBalanced'
  BY <1>1 DEF AlarmInv, EventsBalanced, Yet
<1>7. AlarmWaits'
  <2>1. \A s \in AlarmSources : amHeld[s] \in Int /\ amHeld[s] <= amMono'
    BY <1>2, <1>3 DEF AlarmInv, AlarmWaits
  <2> QED BY <1>1, <2>1 DEF AlarmInv, AlarmWaits
<1>8. AlarmClocks'
  <2> SUFFICES ASSUME NEW s \in AlarmSources, amRaised[s] >= 0
               PROVE  amState[s].last > 0 /\ amWall' - amState[s].last = amMono' - amRaised[s] + amSet'[s]
    BY <1>1 DEF AlarmClocks
  <2>1. amState[s].last > 0 /\ amWall - amState[s].last = amMono - amRaised[s] + amSet[s]
    BY DEF AlarmInv, AlarmClocks
  <2>2. amState[s].last \in Nat /\ amRaised[s] \in Int /\ amSet[s] \in Int /\ amRaised[s] # 0 - 1
    BY DEF AlarmInv, AlarmShape, AlarmStateType
  <2>3. \/ amMono' = amMono + 1 /\ amWall' = amWall + 1 /\ amSet'[s] = amSet[s]
        \/ amMono' = amMono /\ amWall' \in Nat /\ amSet'[s] = amSet[s] + (amWall' - amWall)
    BY <1>3, <2>2
  <2> QED BY <1>2, <2>1, <2>2, <2>3
<1> QED
  BY <1>1, <1>4, <1>5, <1>6, <1>7, <1>8 DEF AlarmInv

\* Every source starts disabled and quiet.
LEMMA AlarmInitially == AlarmInit => AlarmInv
<1> SUFFICES ASSUME AlarmInit PROVE AlarmInv
  OBVIOUS
<1>1. AlarmShape
  <2>1. DefaultSourceState \in AlarmStateType
    BY DEF AlarmStateType, DefaultSourceState
  <2>2. amMono \in Nat /\ amWall \in Nat /\ amWall > 0 /\ amSet \in [AlarmSources -> Int]
    BY DEF AlarmInit
  <2>3. amOut \in [AlarmThreads -> SUBSET AlarmEvent]
    BY DEF AlarmInit
  <2>4. amRule \in [AlarmSources -> [on : BOOLEAN, min : Nat, repeat : Nat, manual : BOOLEAN]]
    BY AlarmDefaultRule DEF AlarmInit
  <2>5. amState \in [AlarmSources -> AlarmStateType]
    BY <2>1 DEF AlarmInit
  <2>6. amSeen \in [AlarmSources -> Int] /\ amHeld \in [AlarmSources -> Int] /\ amRaised \in [AlarmSources -> Int]
    BY DEF AlarmInit
  <2> QED BY <2>2, <2>3, <2>4, <2>5, <2>6 DEF AlarmShape
<1>2. AlarmOneEach /\ DisabledIsQuiet /\ AlarmWaits /\ AlarmClocks
  BY DEF AlarmInit, AlarmOneEach, DisabledIsQuiet, AlarmWaits, AlarmClocks, DefaultSourceState
<1>3. EventsBalanced
  <2>1. amOut["ai"] = {} /\ amOut["http"] = {}
    BY DEF AlarmInit, AlarmThreads
  <2>2. \A s \in AlarmSources : Yet("ai", s) = 0 /\ Yet("http", s) = 0
    BY <2>1 DEF Yet
  <2>3. \A s \in AlarmSources : amSeen[s] = 0 /\ amState[s].active = FALSE
    BY DEF AlarmInit, DefaultSourceState
  <2>4. ASSUME NEW s \in AlarmSources PROVE amSeen[s] + Yet("ai", s) + Yet("http", s) = IF amState[s].active THEN 1 ELSE 0
    <3>1. amSeen[s] = 0 /\ Yet("ai", s) = 0 /\ Yet("http", s) = 0 /\ amState[s].active = FALSE
      BY <2>2, <2>3
    <3> QED BY <3>1
  <2> QED BY <2>4 DEF EventsBalanced
<1> QED
  BY <1>1, <1>2, <1>3 DEF AlarmInv

\* AlarmsSound (alarm.cpp: ApplyAlarmInputLocked, SetRuleLocked, ClearSourceLocked and
\* PublishEvents) for any sources, rules and settings of the system clock.
THEOREM AlarmsSoundHolds == AlarmSpec => AlarmsSound
<1> DEFINE Rule == [on : BOOLEAN, min : Nat, repeat : Nat, manual : BOOLEAN]
           Held == \A s \in AlarmSources : amState'[s].active /\ ~amState[s].active =>
                      amHeld'[s] >= 0 /\ amMono - amHeld'[s] >= amRule[s].min
           Spaced == \A s \in AlarmSources : amState'[s].active /\ ~amState[s].active /\ amRaised[s] >= 0 =>
                        amMono - amRaised[s] + amSet[s] >= amRule[s].repeat
           Calm == \A s \in AlarmSources : amState'[s].active => amState[s].active
<1>1. AlarmInit => AlarmInv
  BY AlarmInitially
<1>2. AlarmInv /\ [AlarmNext]_amVars => AlarmInv' /\ [Held]_amVars /\ [Spaced]_amVars
  <2> SUFFICES ASSUME AlarmInv, [AlarmNext]_amVars PROVE AlarmInv' /\ [Held]_amVars /\ [Spaced]_amVars
    OBVIOUS
  <2>1. Calm => [Held]_amVars /\ [Spaced]_amVars
    OBVIOUS
  <2>2. amState' = amState => Calm
    OBVIOUS
  <2>3. AlarmRules \subseteq Rule /\ DefaultRule \in Rule
    BY AlarmRulesAssumption, AlarmDefaultRule
  <2>4. CASE \E r \in AlarmRules : StartAlarm([s \in AlarmSources |-> r]) \/ ApplyAlarmConfig([s \in AlarmSources |-> r])
    <3>1. PICK r \in AlarmRules : StartAlarm([s \in AlarmSources |-> r]) \/ ApplyAlarmConfig([s \in AlarmSources |-> r])
      BY <2>4
    <3> DEFINE new == [s \in AlarmSources |-> r]
    <3>2. SetRules(new) /\ UNCHANGED <<amMono, amWall, amSet, amSeen, amHeld, amRaised>>
      BY <3>1 DEF StartAlarm, ApplyAlarmConfig
    <3>3. DOMAIN new \subseteq AlarmSources /\ \A s \in DOMAIN new : new[s] \in Rule
      BY <2>3
    <3> HIDE DEF new
    <3>4. AlarmInv' /\ Calm
      BY <3>2, <3>3, AlarmRulesSet
    <3> QED BY <2>1, <3>4
  <2>5. CASE \E named \in SUBSET AlarmSources, r \in AlarmRules : UpdateRules([s \in named |-> r])
    <3>1. PICK named \in SUBSET AlarmSources, r \in AlarmRules : UpdateRules([s \in named |-> r])
      BY <2>5
    <3> DEFINE given == [s \in named |-> r]
               new == [s \in AlarmSources |-> IF s \in DOMAIN given THEN given[s] ELSE DefaultRule]
    <3>2. SetRules(new) /\ UNCHANGED <<amMono, amWall, amSet, amSeen, amHeld, amRaised>>
      BY <3>1 DEF UpdateRules
    <3>3. DOMAIN new \subseteq AlarmSources /\ \A s \in DOMAIN new : new[s] \in Rule
      BY <2>3
    <3> HIDE DEF new
    <3>4. AlarmInv' /\ Calm
      BY <3>2, <3>3, AlarmRulesSet
    <3> QED BY <2>1, <3>4
  <2>6. CASE \E s \in AlarmSources, b \in BOOLEAN : EnableRule(s, b) \/ InjectAlarmInput(s, b)
    <3>1. PICK s \in AlarmSources, b \in BOOLEAN : EnableRule(s, b) \/ InjectAlarmInput(s, b)
      BY <2>6
    <3>2. CASE EnableRule(s, b)
      <4> DEFINE new == [x \in {s} |-> [amRule[s] EXCEPT !.on = b]]
      <4>1. SetRules(new) /\ UNCHANGED <<amMono, amWall, amSet, amSeen, amHeld, amRaised>>
        BY <3>2 DEF EnableRule
      <4>2. amRule[s] \in Rule
        BY DEF AlarmInv, AlarmShape
      <4>3. [amRule[s] EXCEPT !.on = b] \in Rule
        BY <4>2
      <4>4. DOMAIN new \subseteq AlarmSources /\ \A x \in DOMAIN new : new[x] \in Rule
        BY <4>3
      <4> HIDE DEF new
      <4>5. AlarmInv' /\ Calm
        BY <4>1, <4>4, AlarmRulesSet
      <4> QED BY <2>1, <4>5
    <3>3. CASE InjectAlarmInput(s, b)
      <4>1. /\ AlarmInv'
            /\ \A x \in AlarmSources : amState'[x].active /\ ~amState[x].active =>
                  /\ amHeld'[x] >= 0 /\ amMono - amHeld'[x] >= amRule[x].min
                  /\ amRaised[x] >= 0 => amMono - amRaised[x] + amSet[x] >= amRule[x].repeat
        BY <3>3, AlarmInputPreserves
      <4> QED BY <4>1
    <3> QED BY <3>1, <3>2, <3>3
  <2>7. CASE ClearAlarm
    <3>1. ClearSources(AlarmSources) /\ Queue("http", OffEvents(AlarmSources))
          /\ UNCHANGED <<amOn, amRule, amMono, amWall, amSet, amSeen, amHeld, amRaised>>
      BY <2>7 DEF ClearAlarm
    <3>2. amRule' \in [AlarmSources -> Rule]
      BY <3>1 DEF AlarmInv, AlarmShape
    <3>3. \A s \in AlarmSources : ~amRule'[s].on => s \in AlarmSources \/ ~amRule[s].on
      OBVIOUS
    <3>4. AlarmInv' /\ Calm
      BY <3>1, <3>2, <3>3, AlarmCleared
    <3> QED BY <2>1, <3>4
  <2>8. CASE StopAlarm \/ UNCHANGED amVars
    <3>1. UNCHANGED <<amRule, amState, amMono, amWall, amSet, amOut, amSeen, amHeld, amRaised>>
      BY <2>8 DEF StopAlarm, amVars
    <3>2. AlarmInv'
      BY <3>1 DEF AlarmInv, AlarmShape, AlarmOneEach, EventsBalanced, Yet, DisabledIsQuiet, AlarmWaits, AlarmClocks
    <3> QED BY <2>1, <2>2, <3>1, <3>2
  <2>9. CASE Pass \/ (\E w \in SystemTimes : SetSystemTime(w))
    BY <2>1, <2>2, <2>9, AlarmClockPreserves
  <2>10. CASE \E t \in AlarmThreads : \E event \in amOut[t] : PublishEvent(t, event)
    <3>1. PICK t \in AlarmThreads : \E event \in amOut[t] : PublishEvent(t, event)
      BY <2>10
    <3>2. PICK event \in amOut[t] : PublishEvent(t, event)
      BY <3>1
    <3>3. amState' = amState
      BY <3>2 DEF PublishEvent
    <3> QED BY <2>1, <2>2, <3>2, <3>3, AlarmPublishPreserves
  <2> QED BY <2>4, <2>5, <2>6, <2>7, <2>8, <2>9, <2>10 DEF AlarmNext
<1>3. AlarmInv => AlarmTypeOK /\ EventsBalanced /\ DisabledIsQuiet
  BY DEF AlarmInv, AlarmShape, AlarmStateType, AlarmTypeOK
<1> QED
  BY <1>1, <1>2, <1>3, PTL DEF AlarmSpec, AlarmsSound, HeldLongEnough, RepeatSpaced

-----------------------------------------------------------------------------
(***************************************************************************)
(* The operation log: what was acknowledged can be queried, newest first.  *)
(***************************************************************************)

\* A step of Append().
OlStepType == [pc : {"idle", "shift", "write"}, i : 0 .. MaxRotate]

\* The record being appended has its number already.
OlBusy == IF olStep.pc = "idle" THEN 0 ELSE 1

OlShape ==
    /\ olOpen \in BOOLEAN /\ olFaulty \in BOOLEAN /\ olNext \in Nat /\ olNext > OlBusy
    /\ olFiles \in [0 .. MaxRotate -> Seq(Int)] /\ olStep \in OlStepType
    /\ \A i \in 0 .. MaxRotate : Len(olFiles[i]) <= MaxLines
    /\ olStep.pc = "write" => Len(olFiles[0]) < MaxLines
    /\ olStep.pc = "shift" => /\ olStep.i \in 1 .. MaxRotate /\ olFiles[olStep.i] = <<>>
                              /\ Len(olFiles[0]) = MaxLines
    /\ olAcked \subseteq Nat

\* Every line after a record took a number of its own: a records a of lines f,
\* followed by ahead lines, are that much older than next.
OlAged(f, ahead, next) == \A p \in 1 .. Len(f) : f[p] > 0 => f[p] + (Len(f) - p) + ahead < next

\* The lines written after those of file j: the files below it were full when
\* they were moved, unless a rotation was interrupted.
OlAhead(j) ==
    IF j = 0 THEN 0
    ELSE IF olFaulty THEN Len(olFiles[0])
    ELSE IF olStep.pc = "shift" /\ j > olStep.i THEN MaxLines * (j - 1)
    ELSE MaxLines * (j - 1) + Len(olFiles[0])

OlAges == \A j \in 0 .. MaxRotate : OlAged(olFiles[j], OlAhead(j), olNext - OlBusy)

\* Records rise within a file, and those of a lower file are newer.
OlRising(f) == \A p, q \in 1 .. Len(f) : p < q /\ f[p] > 0 /\ f[q] > 0 => f[p] < f[q]
OlNewer(f, g) == \A p \in 1 .. Len(f), q \in 1 .. Len(g) : f[p] > 0 /\ g[q] > 0 => f[p] > g[q]
OlOrder == /\ \A i \in 0 .. MaxRotate : OlRising(olFiles[i])
           /\ \A i, j \in 0 .. MaxRotate : i < j => OlNewer(olFiles[i], olFiles[j])

\* A record that was acknowledged is in a file, or the files after it were full.
OlHolds(f, r) == \E p \in 1 .. Len(f) : f[p] = r
OlWindow(faulty) == IF faulty THEN MaxLines ELSE MaxLines * MaxRotate
OlKept ==
    \A r \in olAcked \ olMerged :
        r > 0 /\ ((\E j \in 0 .. MaxRotate : OlHolds(olFiles[j], r)) \/ r + OlWindow(olFaulty) < olNext)

OlInv == OlShape /\ OlAges /\ OlOrder /\ OlKept

\* Products of the limits.
LEMMA OlProducts ==
    /\ \A j \in Nat : MaxLines * j \in Nat /\ MaxLines * (j + 1) = MaxLines * j + MaxLines
    /\ \A j \in Nat \ {0} : MaxLines * j >= MaxLines
    /\ MaxLines * 0 = 0
<1>1. \A m \in Nat, j \in Nat : m * j \in Nat /\ m * (j + 1) = m * j + m
  BY SMT
<1>2. \A m \in Nat : m * 0 = 0
  BY SMT
<1>3. ASSUME NEW j \in Nat \ {0} PROVE MaxLines * j >= MaxLines
  <2>1. j - 1 \in Nat /\ (j - 1) + 1 = j
    OBVIOUS
  <2>2. MaxLines * (j - 1) \in Nat /\ MaxLines * ((j - 1) + 1) = MaxLines * (j - 1) + MaxLines
    BY <1>1, <2>1, OperationLogAssumption
  <2>3. MaxLines * j = MaxLines * (j - 1) + MaxLines
    BY <2>1, <2>2
  <2> DEFINE a == MaxLines * (j - 1)
  <2>4. a \in Nat /\ MaxLines * j = a + MaxLines /\ MaxLines \in Nat
    BY <2>2, <2>3, OperationLogAssumption
  <2> HIDE DEF a
  <2> QED BY <2>4
<1> QED
  BY <1>1, <1>2, <1>3, OperationLogAssumption

\* A file ages as others grow more slowly than the numbers.
LEMMA OlAgedMore ==
    ASSUME NEW f \in Seq(Int), NEW a \in Nat, NEW b \in Nat, NEW n \in Int, NEW m \in Int,
           OlAged(f, a, n), b - a <= m - n
    PROVE  OlAged(f, b, m)
<1> SUFFICES ASSUME NEW p \in 1 .. Len(f), f[p] > 0 PROVE f[p] + (Len(f) - p) + b < m
  BY DEF OlAged
<1>1. f[p] + (Len(f) - p) + a < n /\ f[p] \in Int /\ Len(f) \in Nat
  BY DEF OlAged
<1> DEFINE v == f[p]
           l == Len(f)
<1> HIDE DEF v, l
<1> QED
  BY <1>1 DEF v, l

\* What WithLine does to a file.
LEMMA OlWithLine ==
    ASSUME NEW f \in Seq(Int), NEW line \in Int, line > 0 \/ line = Partial
    PROVE  LET g == WithLine(f, line)
           IN  /\ g \in Seq(Int) /\ Len(f) <= Len(g) /\ Len(g) <= Len(f) + 1
               /\ \A p \in 1 .. Len(g) : g[p] > 0 =>
                     \/ p <= Len(f) /\ g[p] = f[p]
                     \/ p = Len(g) /\ Len(g) = Len(f) + 1 /\ g[p] = line
               /\ \A p \in 1 .. Len(f) : f[p] > 0 => g[p] = f[p]
               /\ ~EndsPartial(f) => Len(g) = Len(f) + 1 /\ g[Len(g)] = line
<1> DEFINE g == WithLine(f, line)
<1>1. CASE EndsPartial(f)
  <2> DEFINE x == IF line = Partial THEN Partial ELSE Garbage
  <2>1. x \in Int /\ ~(x > 0)
    BY DEF Partial, Garbage
  <2> HIDE DEF x
  <2>2. g = [f EXCEPT ![Len(f)] = x]
    BY <1>1 DEF WithLine, x
  <2> HIDE DEF g
  <2>3. f # <<>> /\ f[Len(f)] = Partial
    BY <1>1 DEF EndsPartial
  <2>4. Len(f) \in Nat /\ Len(f) \in 1 .. Len(f) /\ DOMAIN f = 1 .. Len(f)
    BY <2>3
  <2>5. g \in Seq(Int) /\ Len(g) = Len(f) /\ DOMAIN g = 1 .. Len(f)
    BY <2>1, <2>2, <2>4
  <2>6. g[Len(f)] = x /\ \A p \in 1 .. Len(f) : p # Len(f) => g[p] = f[p]
    BY <2>2, <2>4
  <2>7. ~(Partial > 0)
    BY DEF Partial
  <2>8. \A p \in 1 .. Len(f) : (g[p] > 0 => g[p] = f[p]) /\ (f[p] > 0 => g[p] = f[p])
    BY <2>1, <2>3, <2>6, <2>7
  <2>9. /\ g \in Seq(Int) /\ Len(f) <= Len(g) /\ Len(g) <= Len(f) + 1
        /\ \A p \in 1 .. Len(g) : g[p] > 0 => p <= Len(f) /\ g[p] = f[p]
        /\ \A p \in 1 .. Len(f) : f[p] > 0 => g[p] = f[p]
    <3>1. Len(f) <= Len(g) /\ Len(g) <= Len(f) + 1
      BY <2>4, <2>5
    <3>2. \A p \in 1 .. Len(f) : p <= Len(f)
      BY <2>4
    <3>3. 1 .. Len(g) = 1 .. Len(f)
      BY <2>5
    <3> QED BY <2>5, <2>8, <3>1, <3>2, <3>3, Zenon
  <2> QED BY <1>1, <2>9 DEF g
<1>2. CASE ~EndsPartial(f)
  <2>1. g = Append(f, line)
    BY <1>2 DEF WithLine
  <2> HIDE DEF g
  <2>2. /\ g \in Seq(Int) /\ Len(g) = Len(f) + 1 /\ Len(f) \in Nat /\ g[Len(f) + 1] = line
        /\ \A p \in 1 .. Len(f) : g[p] = f[p]
    BY <2>1
  <2>3. \A p \in 1 .. Len(g) : p <= Len(f) \/ p = Len(f) + 1
    BY <2>2
  <2>4. \A p \in 1 .. Len(g) : p <= Len(f) => p \in 1 .. Len(f)
    BY <2>2
  <2> QED BY <2>2, <2>3, <2>4 DEF g
<1> QED
  BY <1>1, <1>2

\* A line at the end of the current file: it is the newest.
LEMMA OlLineAdded ==
    ASSUME OlInv, olStep.pc = "write", NEW line \in Int, line = olNext - 1 \/ line = Partial,
           olFiles' = [olFiles EXCEPT ![0] = WithLine(@, line)],
           olStep' = NoAppend, UNCHANGED <<olNext, olFaulty>>
    PROVE  /\ olFiles' \in [0 .. MaxRotate -> Seq(Int)] /\ \A i \in 0 .. MaxRotate : Len(olFiles'[i]) <= MaxLines
           /\ OlAges' /\ OlOrder'
           /\ \A r \in Nat \ {0} : (\E j \in 0 .. MaxRotate : OlHolds(olFiles[j], r)) =>
                                   (\E j \in 0 .. MaxRotate : OlHolds(olFiles'[j], r))
           /\ ~EndsPartial(olFiles[0]) => OlHolds(olFiles'[0], line)
<1> DEFINE f == olFiles[0]
           g == olFiles'[0]
           n == olNext
<1>1. /\ olFiles \in [0 .. MaxRotate -> Seq(Int)] /\ n \in Nat /\ n > 1 /\ 0 \in 0 .. MaxRotate
      /\ \A i \in 0 .. MaxRotate : Len(olFiles[i]) <= MaxLines
      /\ Len(f) < MaxLines /\ f \in Seq(Int) /\ MaxLines \in Nat
  BY OperationLogAssumption DEF OlInv, OlShape, OlBusy
<1>2. g = WithLine(f, line) /\ \A i \in 0 .. MaxRotate : i # 0 => olFiles'[i] = olFiles[i]
  BY <1>1
<1>3. line > 0 \/ line = Partial
  BY <1>1
<1>4. /\ g \in Seq(Int) /\ Len(f) <= Len(g) /\ Len(g) <= Len(f) + 1
      /\ \A p \in 1 .. Len(g) : g[p] > 0 =>
            \/ p <= Len(f) /\ g[p] = f[p]
            \/ p = Len(g) /\ Len(g) = Len(f) + 1 /\ g[p] = line
      /\ \A p \in 1 .. Len(f) : f[p] > 0 => g[p] = f[p]
      /\ ~EndsPartial(f) => Len(g) = Len(f) + 1 /\ g[Len(g)] = line
  <2> HIDE DEF f, g
  <2> QED BY <1>1, <1>2, <1>3, OlWithLine
<1>5. olFiles' \in [0 .. MaxRotate -> Seq(Int)]
  BY <1>1, <1>2, <1>4
<1> HIDE DEF f, g
<1>6. Len(f) \in Nat /\ Len(g) \in Nat /\ Len(g) <= MaxLines
  BY <1>1, <1>4
<1>7. \A i \in 0 .. MaxRotate : Len(olFiles'[i]) <= MaxLines
  BY <1>1, <1>2, <1>6 DEF g
<1>8. OlBusy = 1 /\ OlBusy' = 0
  BY DEF OlBusy, NoAppend
\* Every record of f is older than the new line.
<1>9. \A p \in 1 .. Len(f) : f[p] \in Int /\ (f[p] > 0 => f[p] + (Len(f) - p) < n - 1 /\ f[p] < n - 1)
  <2>1. OlAged(f, OlAhead(0), n - 1)
    BY <1>1, <1>8 DEF OlInv, OlAges, f
  <2>2. OlAhead(0) = 0
    BY DEF OlAhead
  <2> SUFFICES ASSUME NEW p \in 1 .. Len(f)
               PROVE  f[p] \in Int /\ (f[p] > 0 => f[p] + (Len(f) - p) < n - 1 /\ f[p] < n - 1)
    OBVIOUS
  <2>3. f[p] \in Int /\ (f[p] > 0 => f[p] + (Len(f) - p) + 0 < n - 1)
    BY <1>1, <2>1, <2>2 DEF OlAged
  <2> QED BY <1>1, <1>6, <2>3
<1>10. OlAged(g, 0, n)
  <2> SUFFICES ASSUME NEW p \in 1 .. Len(g), g[p] > 0 PROVE g[p] + (Len(g) - p) + 0 < n
    BY DEF OlAged
  <2>1. CASE p <= Len(f) /\ g[p] = f[p]
    <3>1. p \in 1 .. Len(f)
      BY <1>6, <2>1
    <3>2. f[p] \in Int /\ f[p] + (Len(f) - p) < n - 1
      BY <1>9, <2>1, <3>1
    <3>3. \A v, l, k, m \in Int : \A x \in Int : v + (l - x) < m - 1 /\ k <= l + 1 => v + (k - x) + 0 < m
      OBVIOUS
    <3>4. n \in Int /\ Len(f) \in Int /\ Len(g) \in Int /\ p \in Int /\ Len(g) <= Len(f) + 1
      BY <1>1, <1>4, <1>6
    <3>5. f[p] + (Len(g) - p) + 0 < n
      BY ONLY <3>2, <3>3, <3>4
    <3> QED BY ONLY <2>1, <3>5
  <2>2. CASE p = Len(g) /\ g[p] = line
    <3>1. line = n - 1
      BY <2>2 DEF Partial
    <3> QED BY <1>1, <1>6, <2>2, <3>1
  <2> QED BY <1>4, <2>1, <2>2
<1>11. OlAges'
  <2> SUFFICES ASSUME NEW j \in 0 .. MaxRotate PROVE OlAged(olFiles'[j], OlAhead(j)', n)
    BY <1>1, <1>8 DEF OlAges
  <2>1. CASE j = 0
    BY <1>10, <2>1 DEF OlAhead, g
  <2>2. CASE j # 0
    <3>1. OlAged(olFiles[j], OlAhead(j), n - 1) /\ olFiles[j] \in Seq(Int) /\ olFiles'[j] = olFiles[j]
      BY <1>1, <1>2, <1>8, <2>2 DEF OlInv, OlAges
    <3>2. MaxLines * (j - 1) \in Nat
      <4>1. j - 1 \in Nat
        BY <2>2, OperationLogAssumption
      <4> QED BY <4>1, OlProducts
    <3>3. OlAhead(j) \in Nat /\ OlAhead(j)' \in Nat /\ OlAhead(j)' <= OlAhead(j) + 1
      <4> DEFINE w == MaxLines * (j - 1)
      <4>1. olStep.pc # "shift" /\ olStep'.pc # "shift"
        BY DEF NoAppend
      <4>2. OlAhead(j) = IF olFaulty THEN Len(f) ELSE w + Len(f)
        BY <2>2, <4>1 DEF OlAhead, f
      <4>3. OlAhead(j)' = IF olFaulty THEN Len(g) ELSE w + Len(g)
        BY <2>2, <4>1 DEF OlAhead, g
      <4>4. w \in Nat
        BY <3>2
      <4> HIDE DEF w
      <4>5. CASE olFaulty
        BY <1>4, <1>6, <4>2, <4>3, <4>5
      <4>6. CASE ~olFaulty
        BY <1>4, <1>6, <4>2, <4>3, <4>4, <4>6
      <4> QED BY <4>5, <4>6
    <3>4. OlAhead(j)' - OlAhead(j) <= n - (n - 1)
      BY <1>1, <3>3
    <3>5. n \in Int /\ n - 1 \in Int
      BY <1>1
    <3> DEFINE a == OlAhead(j)
               b == OlAhead(j)'
    <3>6. a \in Nat /\ b \in Nat /\ b - a <= n - (n - 1) /\ OlAged(olFiles[j], a, n - 1)
      BY <3>1, <3>3, <3>4
    <3> HIDE DEF a, b
    <3>7. OlAged(olFiles[j], b, n)
      BY <3>1, <3>5, <3>6, OlAgedMore
    <3> QED BY <3>1, <3>7 DEF b
  <2> QED BY <2>1, <2>2
<1>12. OlOrder'
  <2>1. OlRising(f) /\ \A j \in 0 .. MaxRotate : 0 < j => OlNewer(f, olFiles[j])
    BY <1>1 DEF OlInv, OlOrder, f
  <2>2. OlRising(g)
    <3> SUFFICES ASSUME NEW p \in 1 .. Len(g), NEW q \in 1 .. Len(g), p < q, g[p] > 0, g[q] > 0 PROVE g[p] < g[q]
      BY DEF OlRising
    <3>1. p <= Len(f) /\ g[p] = f[p] /\ p \in 1 .. Len(f)
      BY <1>4, <1>6
    <3>2. CASE q <= Len(f) /\ g[q] = f[q]
      <4>1. q \in 1 .. Len(f)
        BY <1>6, <3>2
      <4> QED BY <2>1, <3>1, <3>2, <4>1 DEF OlRising
    <3>3. CASE g[q] = line
      <4>1. line = n - 1
        BY <3>3 DEF Partial
      <4> QED BY <1>9, <3>1, <3>3, <4>1
    <3> QED BY <1>4, <3>2, <3>3
  <2>3. ASSUME NEW j \in 0 .. MaxRotate, 0 < j PROVE OlNewer(g, olFiles'[j])
    <3> DEFINE h == olFiles[j]
    <3>1. olFiles'[j] = h /\ OlNewer(f, h) /\ h \in Seq(Int)
      BY <1>1, <1>2, <2>1, <2>3
    <3>2. \A q \in 1 .. Len(h) : h[q] > 0 => h[q] < n - 1
      <4>1. OlAged(h, OlAhead(j), n - 1)
        BY <1>1, <1>8 DEF OlInv, OlAges
      <4>2. OlAhead(j) \in Nat
        <5>1. j - 1 \in Nat
          BY <2>3, OperationLogAssumption
        <5>2. MaxLines * (j - 1) \in Nat
          BY <5>1, OlProducts
        <5> QED BY <1>6, <2>3, <5>2 DEF OlAhead, f
      <4> HIDE DEF h
      <4> SUFFICES ASSUME NEW q \in 1 .. Len(h), h[q] > 0 PROVE h[q] < n - 1
        OBVIOUS
      <4> DEFINE a == OlAhead(j)
      <4>3. h[q] + (Len(h) - q) + a < n - 1 /\ h[q] \in Int /\ Len(h) \in Nat /\ a \in Nat
        BY <3>1, <4>1, <4>2 DEF OlAged
      <4> HIDE DEF a
      <4> QED BY <1>1, <4>3
    <3> HIDE DEF h
    <3> SUFFICES ASSUME NEW p \in 1 .. Len(g), NEW q \in 1 .. Len(h), g[p] > 0, h[q] > 0 PROVE g[p] > h[q]
      BY <3>1 DEF OlNewer
    <3>3. CASE p <= Len(f) /\ g[p] = f[p]
      <4>1. p \in 1 .. Len(f)
        BY <1>6, <3>3
      <4> QED BY <3>1, <3>3, <4>1 DEF OlNewer
    <3>4. CASE g[p] = line
      <4>1. line = n - 1
        BY <3>4 DEF Partial
      <4>2. h[q] \in Int
        BY <3>1
      <4> QED BY <1>1, <3>2, <3>4, <4>1, <4>2
    <3> QED BY <1>4, <3>3, <3>4
  <2>4. \A i \in 0 .. MaxRotate : OlRising(olFiles'[i])
    BY <1>2, <2>2 DEF OlInv, OlOrder, g
  <2>5. ASSUME NEW i \in 0 .. MaxRotate, NEW j \in 0 .. MaxRotate, i < j PROVE OlNewer(olFiles'[i], olFiles'[j])
    <3>1. CASE i = 0
      BY <2>3, <2>5, <3>1 DEF g
    <3>2. CASE i # 0
      <4>1. j # 0
        BY <2>5, <3>2
      <4> QED BY <1>2, <2>5, <3>2, <4>1 DEF OlInv, OlOrder
    <3> QED BY <3>1, <3>2
  <2> QED BY <2>4, <2>5 DEF OlOrder
<1>13. ASSUME NEW r \in Nat \ {0}, NEW j \in 0 .. MaxRotate, OlHolds(olFiles[j], r)
       PROVE  OlHolds(olFiles'[j], r)
  <2>1. CASE j # 0
    BY <1>2, <1>13, <2>1
  <2>2. CASE j = 0
    <3>1. PICK p \in 1 .. Len(f) : f[p] = r
      BY <1>13, <2>2 DEF OlHolds, f
    <3>2. g[p] = r /\ p \in 1 .. Len(g)
      BY <1>4, <1>6, <3>1
    <3> QED BY <2>2, <3>2 DEF OlHolds, g
  <2> QED BY <2>1, <2>2
<1>14. ~EndsPartial(f) => OlHolds(g, line)
  <2>1. Len(g) = Len(f) + 1 => Len(g) \in 1 .. Len(g)
    BY <1>6
  <2> QED BY <1>4, <2>1 DEF OlHolds
<1> QED
  BY <1>5, <1>7, <1>11, <1>12, <1>13, <1>14 DEF f, g

\* What lies ahead of a file is a number of lines.
LEMMA OlAheadNat ==
    ASSUME OlInv
    PROVE  /\ \A j \in 0 .. MaxRotate : OlAhead(j) \in Nat /\ OlAged(olFiles[j], OlAhead(j), olNext - OlBusy)
           /\ \A j \in 0 .. MaxRotate : olFiles[j] \in Seq(Int) /\ Len(olFiles[j]) \in Nat
           /\ \A j \in 1 .. MaxRotate : MaxLines * (j - 1) \in Nat
           /\ 0 \in 0 .. MaxRotate
<1>1. \A j \in 0 .. MaxRotate : olFiles[j] \in Seq(Int) /\ Len(olFiles[j]) \in Nat
  BY DEF OlInv, OlShape
<1>2. 0 \in 0 .. MaxRotate
  BY OperationLogAssumption
<1>3. \A j \in 1 .. MaxRotate : MaxLines * (j - 1) \in Nat
  <2>1. \A j \in 1 .. MaxRotate : j - 1 \in Nat
    BY OperationLogAssumption
  <2> QED BY <2>1, OlProducts
<1>4. ASSUME NEW j \in 0 .. MaxRotate PROVE OlAhead(j) \in Nat
  <2>1. CASE j = 0
    BY <2>1 DEF OlAhead
  <2>2. CASE j # 0
    <3>1. MaxLines * (j - 1) \in Nat /\ Len(olFiles[0]) \in Nat
      BY <1>1, <1>2, <1>3, <2>2, OperationLogAssumption
    <3> DEFINE w == MaxLines * (j - 1)
               l == Len(olFiles[0])
    <3>2. OlAhead(j) = IF olFaulty THEN l ELSE IF olStep.pc = "shift" /\ j > olStep.i THEN w ELSE w + l
      BY <2>2 DEF OlAhead
    <3>3. w \in Nat /\ l \in Nat
      BY <3>1
    <3> HIDE DEF w, l
    <3> QED BY <3>2, <3>3
  <2> QED BY <2>1, <2>2
<1>5. \A j \in 0 .. MaxRotate : OlAged(olFiles[j], OlAhead(j), olNext - OlBusy)
  BY DEF OlInv, OlAges
<1> QED
  BY <1>1, <1>2, <1>3, <1>4, <1>5

\* An append that gives up: what was ahead of a file still is, also after an
\* interrupted rotation.
LEMMA OlIdleAges ==
    ASSUME OlInv, UNCHANGED <<olFiles, olNext>>, olStep'.pc = "idle", olFaulty' \in BOOLEAN,
           olFaulty \/ olStep.pc = "shift" => olFaulty', olFaulty' => olFaulty \/ olStep.pc = "shift"
    PROVE  OlAges'
<1>1. OlBusy \in Nat /\ OlBusy' = 0 /\ olNext \in Nat
  BY DEF OlInv, OlShape, OlBusy
<1> SUFFICES ASSUME NEW j \in 0 .. MaxRotate PROVE OlAged(olFiles[j], OlAhead(j)', olNext)
  BY <1>1 DEF OlAges
<1>2. /\ OlAhead(j) \in Nat /\ OlAged(olFiles[j], OlAhead(j), olNext - OlBusy)
      /\ olFiles[j] \in Seq(Int) /\ Len(olFiles[0]) \in Nat
  BY OlAheadNat
<1>3. OlAhead(j)' \in Nat /\ OlAhead(j)' <= OlAhead(j)
  <2>1. CASE j = 0
    BY <1>2, <2>1 DEF OlAhead
  <2>2. CASE j # 0
    <3> DEFINE w == MaxLines * (j - 1)
               l == Len(olFiles[0])
    <3>1. w \in Nat /\ l \in Nat
      BY <1>2, <2>2, OlAheadNat, OperationLogAssumption
    <3>2. OlAhead(j) = IF olFaulty THEN l ELSE IF olStep.pc = "shift" /\ j > olStep.i THEN w ELSE w + l
      BY <2>2 DEF OlAhead
    <3>3. OlAhead(j)' = IF olFaulty' THEN l ELSE w + l
      BY <2>2 DEF OlAhead
    <3>4. olStep.pc = "shift" /\ j > olStep.i => w >= l
      <4> SUFFICES ASSUME olStep.pc = "shift", j > olStep.i PROVE w >= l
        OBVIOUS
      <4>1. l = MaxLines /\ olStep.i \in 1 .. MaxRotate
        BY DEF OlInv, OlShape
      <4>2. j - 1 \in Nat \ {0}
        BY <4>1, OperationLogAssumption
      <4> QED BY <4>1, <4>2, OlProducts
    <3> HIDE DEF w, l
    <3>5. CASE olFaulty
      BY <3>1, <3>2, <3>3, <3>5
    <3>6. CASE ~olFaulty /\ olStep.pc = "shift"
      BY <3>1, <3>2, <3>3, <3>4, <3>6
    <3>7. CASE ~olFaulty /\ olStep.pc # "shift"
      BY <3>1, <3>2, <3>3, <3>7
    <3> QED BY <3>5, <3>6, <3>7
  <2> QED BY <2>1, <2>2
<1> DEFINE a == OlAhead(j)
           b == OlAhead(j)'
           n == olNext - OlBusy
           m == olNext
<1>4. a \in Nat /\ b \in Nat /\ b <= a /\ n \in Int /\ m \in Int /\ n <= m /\ OlAged(olFiles[j], a, n)
  BY <1>1, <1>2, <1>3
<1> HIDE DEF a, b, n, m
<1>5. b - a <= m - n
  BY <1>4
<1>6. OlAged(olFiles[j], b, m)
  BY <1>2, <1>4, <1>5, OlAgedMore
<1> QED
  BY <1>6 DEF b, m

\* WriteLog, and KillLogger while a record is written.
LEMMA OlWritePreserves ==
    ASSUME OlInv, NEW ok \in BOOLEAN, WriteLog(ok)
    PROVE  OlInv'
<1>1. olStep.pc = "write" /\ olStep' = NoAppend /\ UNCHANGED <<olOpen, olNext, olFaulty>>
  BY DEF WriteLog
<1>2. /\ olOpen \in BOOLEAN /\ olFaulty \in BOOLEAN /\ olNext \in Nat /\ olNext > 1 /\ olAcked \subseteq Nat
      /\ olFiles \in [0 .. MaxRotate -> Seq(Int)] /\ \A i \in 0 .. MaxRotate : Len(olFiles[i]) <= MaxLines
  BY <1>1 DEF OlInv, OlShape, OlBusy
<1>3. olStep' \in OlStepType /\ olStep'.pc = "idle" /\ OlBusy' = 0
  BY <1>1, OperationLogAssumption DEF NoAppend, OlStepType, OlBusy
<1>4. ASSUME NEW line \in Int, line = olNext - 1 \/ line = Partial,
             olFiles' = [olFiles EXCEPT ![0] = WithLine(@, line)]
      PROVE  /\ olFiles' \in [0 .. MaxRotate -> Seq(Int)] /\ \A i \in 0 .. MaxRotate : Len(olFiles'[i]) <= MaxLines
             /\ OlAges' /\ OlOrder'
             /\ \A r \in Nat \ {0} : (\E j \in 0 .. MaxRotate : OlHolds(olFiles[j], r)) =>
                                     (\E j \in 0 .. MaxRotate : OlHolds(olFiles'[j], r))
             /\ ~EndsPartial(olFiles[0]) => OlHolds(olFiles'[0], line)
  BY <1>1, <1>4, OlLineAdded
<1>5. CASE ok
  <2> DEFINE record == olNext - 1
  <2>1. /\ olFiles' = [olFiles EXCEPT ![0] = WithLine(@, record)]
        /\ olAcked' = olAcked \union {record}
        /\ olMerged' = IF EndsPartial(olFiles[0]) THEN olMerged \union {record} ELSE olMerged
    BY <1>5 DEF WriteLog
  <2>2. record \in Int /\ record \in Nat \ {0}
    BY <1>2
  <2>3. /\ olFiles' \in [0 .. MaxRotate -> Seq(Int)] /\ \A i \in 0 .. MaxRotate : Len(olFiles'[i]) <= MaxLines
        /\ OlAges' /\ OlOrder'
        /\ \A r \in Nat \ {0} : (\E j \in 0 .. MaxRotate : OlHolds(olFiles[j], r)) =>
                                (\E j \in 0 .. MaxRotate : OlHolds(olFiles'[j], r))
        /\ ~EndsPartial(olFiles[0]) => OlHolds(olFiles'[0], record)
    BY <1>4, <2>1, <2>2
  <2> HIDE DEF record
  <2>4. OlShape'
    BY <1>1, <1>2, <1>3, <2>1, <2>2, <2>3 DEF OlShape
  <2>5. OlKept'
    <3> SUFFICES ASSUME NEW r \in olAcked' \ olMerged'
                 PROVE  r > 0 /\ ((\E j \in 0 .. MaxRotate : OlHolds(olFiles'[j], r)) \/ r + OlWindow(olFaulty) < olNext)
      BY <1>1 DEF OlKept
    <3>1. CASE r = record
      <4>1. ~EndsPartial(olFiles[0])
        BY <2>1, <3>1
      <4>2. 0 \in 0 .. MaxRotate /\ OlHolds(olFiles'[0], r) /\ r > 0
        BY <2>2, <2>3, <3>1, <4>1, OperationLogAssumption
      <4> QED BY <4>2
    <3>2. CASE r # record
      <4>1. r \in olAcked \ olMerged
        BY <2>1, <3>2
      <4>2. r > 0 /\ ((\E j \in 0 .. MaxRotate : OlHolds(olFiles[j], r)) \/ r + OlWindow(olFaulty) < olNext)
        BY <4>1 DEF OlInv, OlKept
      <4>3. r \in Nat \ {0}
        BY <1>2, <4>1, <4>2
      <4> QED BY <2>3, <4>2, <4>3
    <3> QED BY <3>1, <3>2
  <2> QED BY <2>3, <2>4, <2>5 DEF OlInv
<1>6. CASE ~ok
  <2>1. UNCHANGED <<olAcked, olMerged>>
        /\ (olFiles' = [olFiles EXCEPT ![0] = WithLine(@, Partial)] \/ UNCHANGED olFiles)
    BY <1>6 DEF WriteLog
  <2>2. CASE olFiles' = [olFiles EXCEPT ![0] = WithLine(@, Partial)]
    <3>1. Partial \in Int
      BY DEF Partial
    <3>2. /\ olFiles' \in [0 .. MaxRotate -> Seq(Int)] /\ \A i \in 0 .. MaxRotate : Len(olFiles'[i]) <= MaxLines
          /\ OlAges' /\ OlOrder'
          /\ \A r \in Nat \ {0} : (\E j \in 0 .. MaxRotate : OlHolds(olFiles[j], r)) =>
                                  (\E j \in 0 .. MaxRotate : OlHolds(olFiles'[j], r))
      BY <1>4, <2>2, <3>1
    <3>3. OlShape'
      BY <1>1, <1>2, <1>3, <2>1, <3>2 DEF OlShape
    <3>4. OlKept'
      <4> SUFFICES ASSUME NEW r \in olAcked \ olMerged
                   PROVE  r > 0 /\ ((\E j \in 0 .. MaxRotate : OlHolds(olFiles'[j], r)) \/ r + OlWindow(olFaulty) < olNext)
        BY <1>1, <2>1 DEF OlKept
      <4>2. r > 0 /\ ((\E j \in 0 .. MaxRotate : OlHolds(olFiles[j], r)) \/ r + OlWindow(olFaulty) < olNext)
        BY DEF OlInv, OlKept
      <4>3. r \in Nat \ {0}
        BY <1>2, <4>2
      <4> QED BY <3>2, <4>2, <4>3
    <3> QED BY <3>2, <3>3, <3>4 DEF OlInv
  <2>3. CASE UNCHANGED olFiles
    <3>1. OlShape'
      BY <1>1, <1>2, <1>3, <2>1, <2>3 DEF OlShape
    <3>2. OlOrder' /\ OlKept'
      BY <1>1, <2>1, <2>3 DEF OlInv, OlOrder, OlKept
    <3>3. OlAges'
      <4>1. olStep'.pc = "idle" /\ olFaulty' \in BOOLEAN /\ olStep.pc # "shift" /\ UNCHANGED <<olFiles, olNext>>
        BY <1>1, <1>2, <1>3, <2>3
      <4>2. olFaulty' <=> olFaulty
        BY <1>1
      <4> QED BY <4>1, <4>2, OlIdleAges
    <3> QED BY <3>1, <3>2, <3>3 DEF OlInv
  <2> QED BY <2>1, <2>2, <2>3
<1> QED
  BY <1>5, <1>6

\* An append that ends without a line: the files stay as they are.
LEMMA OlGiveUp ==
    ASSUME OlInv, UNCHANGED <<olFiles, olNext, olAcked, olMerged>>, olStep' = NoAppend,
           olOpen' \in BOOLEAN, olFaulty' \in BOOLEAN,
           olFaulty \/ olStep.pc = "shift" => olFaulty', olFaulty' => olFaulty \/ olStep.pc = "shift"
    PROVE  OlInv'
<1>1. olStep' \in OlStepType /\ olStep'.pc = "idle" /\ OlBusy' = 0
  BY OperationLogAssumption DEF NoAppend, OlStepType, OlBusy
<1>2. OlShape'
  <2>1. /\ olNext \in Nat /\ olNext > 0 /\ olAcked \subseteq Nat
        /\ olFiles \in [0 .. MaxRotate -> Seq(Int)] /\ \A i \in 0 .. MaxRotate : Len(olFiles[i]) <= MaxLines
    BY DEF OlInv, OlShape, OlBusy
  <2> QED BY <1>1, <2>1 DEF OlShape
<1>3. OlAges'
  BY <1>1, OlIdleAges
<1>4. OlOrder'
  BY DEF OlInv, OlOrder
<1>5. OlKept'
  <2> SUFFICES ASSUME NEW r \in olAcked \ olMerged
               PROVE  r > 0 /\ ((\E j \in 0 .. MaxRotate : OlHolds(olFiles[j], r)) \/ r + OlWindow(olFaulty') < olNext)
    BY DEF OlKept
  <2>1. r > 0 /\ ((\E j \in 0 .. MaxRotate : OlHolds(olFiles[j], r)) \/ r + OlWindow(olFaulty) < olNext)
    BY DEF OlInv, OlKept
  <2>2. r \in Nat /\ olNext \in Nat
    BY DEF OlInv, OlShape
  <2>3. MaxLines \in Nat /\ MaxLines * MaxRotate \in Nat /\ MaxLines <= MaxLines * MaxRotate
    <3>1. MaxLines * MaxRotate \in Nat /\ MaxLines * MaxRotate >= MaxLines
      BY OlProducts, OperationLogAssumption
    <3> DEFINE a == MaxLines * MaxRotate
    <3>2. a \in Nat /\ a >= MaxLines /\ MaxLines \in Nat
      BY <3>1, OperationLogAssumption
    <3> HIDE DEF a
    <3>3. MaxLines <= a
      BY <3>2
    <3> QED BY <3>2, <3>3 DEF a
  <2>4. OlWindow(olFaulty) \in Nat /\ OlWindow(olFaulty') \in Nat /\ OlWindow(olFaulty') <= OlWindow(olFaulty)
    <3> DEFINE a == MaxLines * MaxRotate
    <3>1. OlWindow(olFaulty) = IF olFaulty THEN MaxLines ELSE a
      BY DEF OlWindow
    <3>2. OlWindow(olFaulty') = IF olFaulty' THEN MaxLines ELSE a
      BY DEF OlWindow
    <3>3. a \in Nat /\ MaxLines \in Nat /\ MaxLines <= a
      BY <2>3
    <3> HIDE DEF a
    <3>4. CASE olFaulty'
      BY <3>1, <3>2, <3>3, <3>4
    <3>5. CASE ~olFaulty'
      BY <3>1, <3>2, <3>3, <3>5
    <3> QED BY <3>4, <3>5
  <2> DEFINE v == OlWindow(olFaulty)
             w == OlWindow(olFaulty')
  <2>5. v \in Nat /\ w \in Nat /\ w <= v
    BY <2>4
  <2>6. r + v < olNext => r + w < olNext
    <3> HIDE DEF v, w
    <3> QED BY <2>2, <2>5
  <2> QED BY <2>1, <2>6
<1> QED
  BY <1>2, <1>3, <1>4, <1>5 DEF OlInv

\* Append() starts: the current file has room, or the oldest one goes.
LEMMA OlAppendPreserves ==
    ASSUME OlInv, AppendRecord
    PROVE  OlInv'
<1>1. /\ olStep = NoAppend /\ olNext' = olNext + 1 /\ UNCHANGED <<olOpen, olAcked, olMerged, olFaulty>>
      /\ \/ HasRoom /\ olStep' = [pc |-> "write", i |-> 0] /\ UNCHANGED olFiles
         \/ ~HasRoom /\ olStep' = [pc |-> "shift", i |-> MaxRotate] /\ olFiles' = WithoutOldest
  BY DEF AppendRecord
<1>2. /\ olOpen \in BOOLEAN /\ olFaulty \in BOOLEAN /\ olNext \in Nat /\ olNext > 0 /\ olAcked \subseteq Nat
      /\ olFiles \in [0 .. MaxRotate -> Seq(Int)] /\ \A i \in 0 .. MaxRotate : Len(olFiles[i]) <= MaxLines
      /\ OlBusy = 0 /\ MaxLines \in Nat \ {0} /\ MaxRotate \in 1 .. MaxRotate /\ 0 \in 0 .. MaxRotate
      /\ MaxRotate \in 0 .. MaxRotate /\ olStep.pc = "idle"
  BY <1>1, OperationLogAssumption DEF OlInv, OlShape, OlBusy, NoAppend
<1>3. OlBusy' = 1 /\ olStep' \in OlStepType /\ olNext' - OlBusy' = olNext - OlBusy /\ olNext' \in Nat /\ olNext' > 1
      /\ (olStep'.pc = "write" \/ (olStep'.pc = "shift" /\ olStep'.i = MaxRotate))
  BY <1>1, <1>2 DEF OlBusy, OlStepType
<1>4. CASE HasRoom /\ olStep' = [pc |-> "write", i |-> 0] /\ UNCHANGED olFiles
  <2>1. Len(olFiles[0]) < MaxLines
    BY <1>4 DEF HasRoom
  <2>2. OlShape'
    BY <1>1, <1>2, <1>3, <1>4, <2>1 DEF OlShape
  <2>3. OlOrder'
    BY <1>4 DEF OlInv, OlOrder
  <2>4. OlAges'
    <3>1. \A j \in 0 .. MaxRotate : OlAhead(j)' = OlAhead(j)
      BY <1>1, <1>2, <1>4 DEF OlAhead
    <3> QED BY <1>3, <1>4, <3>1 DEF OlInv, OlAges
  <2>5. OlKept'
    <3> SUFFICES ASSUME NEW r \in olAcked \ olMerged
                 PROVE  r > 0 /\ ((\E j \in 0 .. MaxRotate : OlHolds(olFiles[j], r)) \/ r + OlWindow(olFaulty) < olNext + 1)
      BY <1>1, <1>4 DEF OlKept
    <3>1. r > 0 /\ ((\E j \in 0 .. MaxRotate : OlHolds(olFiles[j], r)) \/ r + OlWindow(olFaulty) < olNext)
      BY DEF OlInv, OlKept
    <3>2. OlWindow(olFaulty) \in Nat
      BY <1>2, OlProducts, OperationLogAssumption DEF OlWindow
    <3> DEFINE w == OlWindow(olFaulty)
    <3>3. w \in Nat /\ r \in Nat
      BY <1>2, <3>2
    <3>4. r + w < olNext => r + w < olNext + 1
      <4> HIDE DEF w
      <4> QED BY <1>2, <3>3
    <3> QED BY <3>1, <3>4
  <2> QED BY <2>2, <2>3, <2>4, <2>5 DEF OlInv
<1>5. CASE ~HasRoom /\ olStep' = [pc |-> "shift", i |-> MaxRotate] /\ olFiles' = WithoutOldest
  <2> DEFINE f == olFiles
             g == olFiles'
             m == MaxRotate
  <2>1. Len(f[0]) = MaxLines
    <3>1. Len(f[0]) \in Nat /\ Len(f[0]) <= MaxLines /\ ~(Len(f[0]) < MaxLines)
      BY <1>2, <1>5 DEF HasRoom
    <3> QED BY <1>2, <3>1
  <2>2. /\ g[m] = <<>> /\ \A j \in 0 .. MaxRotate : j # m => g[j] = f[j]
        /\ g \in [0 .. MaxRotate -> Seq(Int)]
    BY <1>2, <1>5 DEF WithoutOldest
  <2>3. m # 0 /\ g[0] = f[0] /\ Len(<<>>) = 0
    BY <1>2, <2>2
  <2> HIDE DEF f, g
  <2>4. OlShape'
    <3>1. \A i \in 0 .. MaxRotate : Len(g[i]) <= MaxLines
      BY <1>2, <2>2, <2>3 DEF f
    <3>2. olStep'.i \in 1 .. MaxRotate /\ g[olStep'.i] = <<>> /\ Len(g[0]) = MaxLines
      BY <1>2, <1>5, <2>1, <2>2, <2>3
    <3> QED BY <1>1, <1>2, <1>3, <1>5, <2>2, <3>1, <3>2 DEF OlShape, g
  <2>5. OlOrder'
    <3>1. \A i \in 0 .. MaxRotate : OlRising(f[i])
      BY DEF OlInv, OlOrder, f
    <3>2. \A i, j \in 0 .. MaxRotate : i < j => OlNewer(f[i], f[j])
      BY DEF OlInv, OlOrder, f
    <3>3. OlRising(<<>>) /\ \A h : OlNewer(h, <<>>) /\ OlNewer(<<>>, h)
      BY DEF OlRising, OlNewer
    <3>4. \A i \in 0 .. MaxRotate : OlRising(g[i])
      BY <2>2, <3>1, <3>3
    <3>5. ASSUME NEW i \in 0 .. MaxRotate, NEW j \in 0 .. MaxRotate, i < j PROVE OlNewer(g[i], g[j])
      <4>1. CASE i = m \/ j = m
        BY <2>2, <3>3, <4>1
      <4>2. CASE i # m /\ j # m
        BY <2>2, <3>2, <3>5, <4>2
      <4> QED BY <4>1, <4>2
    <3> QED BY <3>4, <3>5 DEF OlOrder, g
  <2>6. OlAges'
    <3> SUFFICES ASSUME NEW j \in 0 .. MaxRotate PROVE OlAged(g[j], OlAhead(j)', olNext - OlBusy)
      BY <1>3 DEF OlAges, g
    <3>1. CASE j = m
      <4>1. Len(g[j]) = 0
        BY <2>2, <2>3, <3>1
      <4> QED BY <4>1 DEF OlAged
    <3>2. CASE j # m
      <4>1. OlAhead(j)' = OlAhead(j)
        <5>1. ~(j > olStep'.i) /\ olStep.pc # "shift" /\ Len(olFiles'[0]) = Len(olFiles[0]) /\ olFaulty' = olFaulty
          BY <1>1, <1>2, <1>5, <2>3, OperationLogAssumption DEF f, g
        <5> QED BY <5>1 DEF OlAhead
      <4>2. g[j] = f[j]
        BY <2>2, <3>2
      <4> QED BY <4>1, <4>2 DEF OlInv, OlAges, f
    <3> QED BY <3>1, <3>2
  <2>7. OlKept'
    <3> SUFFICES ASSUME NEW r \in olAcked \ olMerged
                 PROVE  r > 0 /\ ((\E j \in 0 .. MaxRotate : OlHolds(g[j], r)) \/ r + OlWindow(olFaulty) < olNext + 1)
      BY <1>1 DEF OlKept, g
    <3>1. r > 0 /\ ((\E j \in 0 .. MaxRotate : OlHolds(f[j], r)) \/ r + OlWindow(olFaulty) < olNext)
      BY DEF OlInv, OlKept, f
    <3> DEFINE w == OlWindow(olFaulty)
    <3>2. w \in Nat /\ r \in Nat
      BY <1>2, OlProducts, OperationLogAssumption DEF OlWindow
    <3>3. r + w < olNext => r + w < olNext + 1
      <4> HIDE DEF w
      <4> QED BY <1>2, <3>2
    <3>4. ASSUME NEW j \in 0 .. MaxRotate, OlHolds(f[j], r), j = m PROVE r + w < olNext
      <4>1. PICK p \in 1 .. Len(f[m]) : f[m][p] = r
        BY <3>4 DEF OlHolds
      <4>2. OlAged(f[m], OlAhead(m), olNext)
        <5>1. OlAged(f[m], OlAhead(m), olNext - OlBusy)
          BY <1>2 DEF OlInv, OlAges, f
        <5>2. olNext - OlBusy = olNext
          BY <1>2
        <5> QED BY <5>1, <5>2
      <4>3. r + (Len(f[m]) - p) + OlAhead(m) < olNext
        BY <3>1, <4>1, <4>2 DEF OlAged
      <4>4. OlAhead(m) = w
        <5>1. OlAhead(m) = IF olFaulty THEN MaxLines ELSE MaxLines * (m - 1) + MaxLines
          BY <1>2, <2>1, <2>3 DEF OlAhead, f
        <5>2. MaxLines * (m - 1) + MaxLines = MaxLines * m
          <6>1. m - 1 \in Nat /\ (m - 1) + 1 = m
            BY OperationLogAssumption
          <6>2. MaxLines * ((m - 1) + 1) = MaxLines * (m - 1) + MaxLines
            BY <6>1, OlProducts
          <6> QED BY <6>1, <6>2
        <5> QED BY <5>1, <5>2 DEF OlWindow
      <4>5. Len(f[m]) \in Nat /\ p \in Nat /\ p <= Len(f[m])
        BY <1>2, <4>1 DEF f
      <4> HIDE DEF w
      <4>6. \A l, q, x, y, n \in Int : q <= l /\ x + (l - q) + y < n => x + y < n
        OBVIOUS
      <4>7. r \in Int /\ w \in Int /\ olNext \in Int /\ Len(f[m]) \in Int /\ p \in Int
        BY <1>2, <3>2, <4>5
      <4>8. r + (Len(f[m]) - p) + w < olNext
        BY <4>3, <4>4
      <4> QED BY ONLY <4>5, <4>6, <4>7, <4>8
    <3>5. CASE \E j \in 0 .. MaxRotate : OlHolds(f[j], r)
      <4>1. PICK j \in 0 .. MaxRotate : OlHolds(f[j], r)
        BY <3>5
      <4>2. CASE j = m
        BY <3>1, <3>3, <3>4, <4>1, <4>2
      <4>3. CASE j # m
        BY <2>2, <3>1, <4>1, <4>3
      <4> QED BY <4>2, <4>3
    <3> QED BY <3>1, <3>3, <3>5
  <2> QED BY <2>4, <2>5, <2>6, <2>7 DEF OlInv
<1> QED
  BY <1>1, <1>4, <1>5

\* A step of a rotation: file i - 1 becomes file i.
LEMMA OlShiftPreserves ==
    ASSUME OlInv, NEW ok \in BOOLEAN, ShiftLog(ok)
    PROVE  OlInv'
<1> DEFINE i == olStep.i
           f == olFiles
           g == olFiles'
<1>1. olStep.pc = "shift" /\ UNCHANGED <<olOpen, olNext, olAcked, olMerged>>
  BY DEF ShiftLog
<1>2. /\ olOpen \in BOOLEAN /\ olFaulty \in BOOLEAN /\ olNext \in Nat /\ olNext > 1 /\ olAcked \subseteq Nat
      /\ f \in [0 .. MaxRotate -> Seq(Int)] /\ \A j \in 0 .. MaxRotate : Len(f[j]) <= MaxLines
      /\ OlBusy = 1 /\ i \in 1 .. MaxRotate /\ f[i] = <<>> /\ Len(f[0]) = MaxLines
      /\ MaxLines \in Nat \ {0} /\ MaxRotate \in Nat \ {0} /\ olStep \in OlStepType
  BY <1>1, OperationLogAssumption DEF OlInv, OlShape, OlBusy
<1>3. i \in Int /\ i - 1 \in 0 .. MaxRotate /\ i \in 0 .. MaxRotate /\ i # 0 /\ i - 1 # i /\ 0 \in 0 .. MaxRotate
  <2>1. i \in 1 .. MaxRotate /\ MaxRotate \in Nat
    BY <1>2
  <2> HIDE DEF i
  <2> QED BY <2>1
<1>4. CASE olStep' = NoAppend /\ olFaulty' = TRUE /\ UNCHANGED olFiles
  BY <1>1, <1>2, <1>4, OlGiveUp
<1>5. CASE /\ olFiles' = IF f[i - 1] # <<>> THEN Shifted(i) ELSE olFiles
           /\ olStep' = IF i = 1 THEN [pc |-> "write", i |-> 0] ELSE [olStep EXCEPT !.i = i - 1]
           /\ UNCHANGED olFaulty
  <2>1. /\ g[i] = f[i - 1] /\ g[i - 1] = <<>> /\ \A j \in 0 .. MaxRotate : j # i /\ j # i - 1 => g[j] = f[j]
        /\ g \in [0 .. MaxRotate -> Seq(Int)]
    <3>1. CASE f[i - 1] # <<>>
      <4>1. g = [f EXCEPT ![i] = f[i - 1], ![i - 1] = <<>>]
        BY <1>5, <3>1 DEF Shifted
      <4>2. f[i - 1] \in Seq(Int) /\ <<>> \in Seq(Int)
        BY <1>2, <1>3
      <4> HIDE DEF i, f, g
      <4> QED BY <1>2, <1>3, <4>1, <4>2
    <3>2. CASE f[i - 1] = <<>>
      <4>1. g = f
        BY <1>5, <3>2
      <4> QED BY <1>2, <3>2, <4>1
    <3> QED BY <3>1, <3>2
  <2>2. /\ i = 1 => olStep'.pc = "write"
        /\ i # 1 => olStep'.pc = "shift" /\ olStep'.i = i - 1
        /\ olStep' \in OlStepType /\ OlBusy' = 1
    <3>1. CASE i = 1
      <4>1. olStep' = [pc |-> "write", i |-> 0]
        BY <1>5, <3>1
      <4> QED BY <1>3, <3>1, <4>1 DEF OlStepType, OlBusy
    <3>2. CASE i # 1
      <4>1. olStep' = [olStep EXCEPT !.i = i - 1]
        BY <1>5, <3>2
      <4>2. olStep'.pc = "shift" /\ olStep'.i = i - 1 /\ olStep' \in OlStepType
        BY <1>1, <1>2, <1>3, <4>1 DEF OlStepType
      <4> QED BY <3>2, <4>2 DEF OlBusy
    <3> QED BY <3>1, <3>2
  <2>3. Len(<<>>) = 0 /\ olFaulty' = olFaulty
    BY <1>5
  <2> HIDE DEF f, g, i
  <2>4. i = 1 => g[0] = <<>>
    BY <1>2, <2>1
  <2>5. i # 1 => g[0] = f[0]
    BY <1>2, <1>3, <2>1
  <2>6. OlShape'
    <3>1. \A j \in 0 .. MaxRotate : Len(g[j]) <= MaxLines
      BY <1>2, <1>3, <2>1, <2>3
    <3>2. olStep'.pc = "write" => Len(g[0]) < MaxLines
      <4>1. 0 < MaxLines
        BY <1>2
      <4> QED BY <2>2, <2>3, <2>4, <4>1
    <3>3. olStep'.pc = "shift" => /\ olStep'.i \in 1 .. MaxRotate /\ g[olStep'.i] = <<>> /\ Len(g[0]) = MaxLines
      <4>1. olStep'.pc = "shift" => i # 1 /\ olStep'.i = i - 1
        BY <2>2
      <4>2. i # 1 => i - 1 \in 1 .. MaxRotate
        BY <1>2
      <4> QED BY <1>2, <2>1, <2>5, <4>1, <4>2
    <3> QED BY <1>1, <1>2, <2>1, <2>2, <2>3, <3>1, <3>2, <3>3 DEF OlShape, g
  <2>7. OlOrder'
    <3>1. \A j \in 0 .. MaxRotate : OlRising(f[j])
      BY DEF OlInv, OlOrder, f
    <3>2. \A j, k \in 0 .. MaxRotate : j < k => OlNewer(f[j], f[k])
      BY DEF OlInv, OlOrder, f
    <3>3. OlRising(<<>>) /\ \A h : OlNewer(h, <<>>) /\ OlNewer(<<>>, h)
      BY DEF OlRising, OlNewer
    <3>4. \A j \in 0 .. MaxRotate : OlRising(g[j])
      BY <1>3, <2>1, <3>1, <3>3
    <3>5. ASSUME NEW j \in 0 .. MaxRotate, NEW k \in 0 .. MaxRotate, j < k PROVE OlNewer(g[j], g[k])
      <4>1. CASE j = i - 1 \/ k = i - 1
        BY <2>1, <3>3, <4>1
      <4>2. CASE j # i - 1 /\ k # i - 1 /\ j = i
        <5>1. g[j] = f[i - 1] /\ g[k] = f[k] /\ i - 1 < k
          BY <1>3, <2>1, <3>5, <4>2
        <5> QED BY <1>3, <3>2, <5>1
      <4>3. CASE j # i - 1 /\ k # i - 1 /\ k = i
        <5>1. g[k] = f[i - 1] /\ g[j] = f[j] /\ j < i - 1
          BY <1>3, <2>1, <3>5, <4>3
        <5> QED BY <1>3, <3>2, <5>1
      <4>4. CASE j # i - 1 /\ k # i - 1 /\ j # i /\ k # i
        BY <2>1, <3>2, <3>5, <4>4
      <4> QED BY <4>1, <4>2, <4>3, <4>4
    <3> QED BY <3>4, <3>5 DEF OlOrder, g
  <2>8. OlKept'
    <3> SUFFICES ASSUME NEW r \in olAcked \ olMerged
                 PROVE  r > 0 /\ ((\E j \in 0 .. MaxRotate : OlHolds(g[j], r)) \/ r + OlWindow(olFaulty) < olNext)
      BY <1>1, <2>3 DEF OlKept, g
    <3>1. r > 0 /\ ((\E j \in 0 .. MaxRotate : OlHolds(f[j], r)) \/ r + OlWindow(olFaulty) < olNext)
      BY DEF OlInv, OlKept, f
    <3>2. ASSUME NEW j \in 0 .. MaxRotate, OlHolds(f[j], r) PROVE \E k \in 0 .. MaxRotate : OlHolds(g[k], r)
      <4>1. CASE j = i
        <5>1. f[j] = <<>>
          BY <1>2, <4>1
        <5> QED BY <2>3, <3>2, <5>1 DEF OlHolds
      <4>2. CASE j = i - 1
        BY <1>3, <2>1, <3>2, <4>2
      <4>3. CASE j # i /\ j # i - 1
        BY <2>1, <3>2, <4>3
      <4> QED BY <4>1, <4>2, <4>3
    <3> QED BY <3>1, <3>2
  <2>9. OlAges'
    <3> SUFFICES ASSUME NEW j \in 0 .. MaxRotate PROVE OlAged(g[j], OlAhead(j)', olNext - 1)
      BY <1>1, <2>2 DEF OlAges, g
    <3>0. \A k \in 0 .. MaxRotate : OlAhead(k) \in Nat /\ OlAged(f[k], OlAhead(k), olNext - 1)
      BY <1>2, OlAheadNat DEF f
    <3>1. CASE j = i - 1
      <4>1. Len(g[j]) = 0
        BY <2>1, <2>3, <3>1
      <4> QED BY <4>1 DEF OlAged
    <3>2. CASE j = i
      <4>1. OlAhead(j)' = OlAhead(i - 1)
        <5>1. CASE i = 1
          <6>1. OlAhead(i - 1) = 0
            BY <5>1 DEF OlAhead
          <6>2. Len(olFiles'[0]) = 0 /\ MaxLines * (j - 1) = 0 /\ j # 0
            BY <2>3, <2>4, <3>2, <5>1, OlProducts DEF g
          <6>3. OlAhead(j)' = IF olFaulty THEN 0 ELSE 0 + 0
            BY <2>2, <2>3, <5>1, <6>2 DEF OlAhead
          <6> QED BY <6>1, <6>3
        <5>2. CASE i # 1
          <6>1. i - 2 \in Nat /\ (i - 2) + 1 = i - 1 /\ (i - 1) - 1 = i - 2 /\ i - 1 # 0 /\ ~(i - 1 > i) /\ i > i - 1
            BY <1>2, <5>2
          <6>2. MaxLines * (i - 1) = MaxLines * (i - 2) + MaxLines
            BY <6>1, OlProducts
          <6>3. OlAhead(i - 1) = IF olFaulty THEN MaxLines ELSE MaxLines * (i - 2) + MaxLines
            <7>1. ~(i - 1 > olStep.i) /\ Len(olFiles[0]) = MaxLines
              BY <1>2, <6>1 DEF i, f
            <7> QED BY <6>1, <7>1 DEF OlAhead
          <6>4. OlAhead(j)' = IF olFaulty THEN MaxLines ELSE MaxLines * (i - 1)
            <7>1. olStep'.pc = "shift" /\ olStep'.i = i - 1 /\ Len(olFiles'[0]) = MaxLines
              BY <1>2, <2>2, <2>5, <5>2 DEF g
            <7>2. j # 0 /\ j > olStep'.i
              BY <1>3, <3>2, <6>1, <7>1
            <7>3. OlAhead(j)' = IF olFaulty' THEN MaxLines ELSE MaxLines * (j - 1)
              BY <7>1, <7>2 DEF OlAhead
            <7> QED BY <2>3, <3>2, <7>3
          <6> QED BY <6>2, <6>3, <6>4
        <5> QED BY <5>1, <5>2
      <4>2. g[j] = f[i - 1]
        BY <2>1, <3>2
      <4> QED BY <1>3, <3>0, <4>1, <4>2
    <3>3. CASE j # i /\ j # i - 1
      <4>1. g[j] = f[j]
        BY <2>1, <3>3
      <4>2. OlAhead(j)' \in Nat /\ OlAhead(j)' <= OlAhead(j)
        <5>1. CASE j = 0
          BY <5>1 DEF OlAhead
        <5>2. CASE j # 0 /\ i = 1
          <6>1. Len(olFiles'[0]) = 0 /\ olStep'.pc = "write" /\ j > i /\ j > olStep.i /\ j \in 1 .. MaxRotate
            BY <1>2, <2>2, <2>3, <2>4, <3>3, <5>2 DEF g, i
          <6> DEFINE w == MaxLines * (j - 1)
          <6>2. w \in Nat
            BY <6>1, OlAheadNat
          <6>3. OlAhead(j)' = IF olFaulty THEN 0 ELSE w + 0
            BY <2>3, <5>2, <6>1 DEF OlAhead
          <6>4. OlAhead(j) = IF olFaulty THEN MaxLines ELSE w
            BY <1>1, <1>2, <5>2, <6>1 DEF OlAhead, f
          <6> HIDE DEF w
          <6>5. CASE olFaulty
            BY <1>2, <6>3, <6>4, <6>5
          <6>6. CASE ~olFaulty
            BY <6>2, <6>3, <6>4, <6>6
          <6> QED BY <6>5, <6>6
        <5>3. CASE j # 0 /\ i # 1
          <6>1. Len(olFiles'[0]) = Len(olFiles[0]) /\ olStep'.pc = "shift" /\ olStep'.i = i - 1
            BY <2>2, <2>5, <5>3 DEF g, f
          <6>2. j > i <=> j > i - 1
            BY <1>2, <3>3
          <6>3. OlAhead(j)' = OlAhead(j)
            BY <1>1, <2>3, <6>1, <6>2 DEF OlAhead, i
          <6>4. \A x \in Nat : x <= x
            OBVIOUS
          <6> QED BY <3>0, <6>3, <6>4
        <5> QED BY <5>1, <5>2, <5>3
      <4> DEFINE a == OlAhead(j)
                 b == OlAhead(j)'
                 n == olNext - 1
      <4>3. a \in Nat /\ b \in Nat /\ n \in Int /\ b <= a /\ OlAged(f[j], a, n) /\ f[j] \in Seq(Int)
        BY <1>2, <3>0, <4>2
      <4> HIDE DEF a, b, n
      <4>4. b - a <= n - n
        BY <4>3
      <4>5. OlAged(f[j], b, n)
        BY <4>3, <4>4, OlAgedMore
      <4> QED BY <4>1, <4>5 DEF b, n
    <3> QED BY <3>1, <3>2, <3>3
  <2> QED BY <2>6, <2>7, <2>8, <2>9 DEF OlInv
<1>6. \/ olStep' = NoAppend /\ olFaulty' = TRUE /\ UNCHANGED olFiles
      \/ /\ olFiles' = IF f[i - 1] # <<>> THEN Shifted(i) ELSE olFiles
         /\ olStep' = IF i = 1 THEN [pc |-> "write", i |-> 0] ELSE [olStep EXCEPT !.i = i - 1]
         /\ UNCHANGED olFaulty
  BY DEF ShiftLog
<1> QED
  BY <1>4, <1>5, <1>6

\* OpenLog, CloseLog and KillLogger.
LEMMA OlProcessPreserves ==
    ASSUME OlInv, OpenLog \/ CloseLog \/ KillLogger
    PROVE  OlInv'
<1>1. CASE OpenLog \/ CloseLog
  <2>1. UNCHANGED <<olFiles, olStep, olNext, olAcked, olMerged, olFaulty>> /\ olOpen' \in BOOLEAN
    BY <1>1 DEF OpenLog, CloseLog
  <2>2. OlShape'
    BY <2>1 DEF OlInv, OlShape, OlBusy
  <2>3. OlAges' /\ OlOrder' /\ OlKept'
    BY <2>1 DEF OlInv, OlAges, OlAhead, OlBusy, OlOrder, OlKept
  <2> QED BY <2>2, <2>3 DEF OlInv
<1>2. CASE KillLogger
  <2>1. /\ olOpen' = FALSE /\ olStep' = NoAppend /\ UNCHANGED <<olNext, olAcked, olMerged>>
        /\ olFaulty' = (olFaulty \/ olStep.pc = "shift")
        /\ \/ UNCHANGED olFiles
           \/ olStep.pc = "write" /\ olFiles' = [olFiles EXCEPT ![0] = WithLine(@, Partial)]
    BY <1>2 DEF KillLogger
  <2>2. /\ olFaulty' \in BOOLEAN /\ olFaulty \in BOOLEAN /\ (olFaulty \/ olStep.pc = "shift" => olFaulty')
        /\ (olFaulty' => olFaulty \/ olStep.pc = "shift")
    BY <2>1, Zenon DEF OlInv, OlShape
  <2>3. CASE UNCHANGED olFiles
    BY <2>1, <2>2, <2>3, OlGiveUp
  <2>4. CASE olStep.pc = "write" /\ olFiles' = [olFiles EXCEPT ![0] = WithLine(@, Partial)]
    <3>1. olFaulty' = olFaulty
      <4>1. olStep.pc # "shift"
        BY <2>4
      <4> QED BY <2>2, <4>1
    <3>2. Partial \in Int
      BY DEF Partial
    <3>3. /\ olFiles' \in [0 .. MaxRotate -> Seq(Int)] /\ \A i \in 0 .. MaxRotate : Len(olFiles'[i]) <= MaxLines
          /\ OlAges' /\ OlOrder'
          /\ \A r \in Nat \ {0} : (\E j \in 0 .. MaxRotate : OlHolds(olFiles[j], r)) =>
                                  (\E j \in 0 .. MaxRotate : OlHolds(olFiles'[j], r))
      BY <2>1, <2>4, <3>1, <3>2, OlLineAdded
    <3>4. olStep' \in OlStepType /\ olStep'.pc = "idle" /\ OlBusy' = 0
      BY <2>1, OperationLogAssumption DEF NoAppend, OlStepType, OlBusy
    <3>5. olNext \in Nat /\ olNext > 0 /\ olAcked \subseteq Nat
      BY <2>4 DEF OlInv, OlShape, OlBusy
    <3>6. OlShape'
      BY <2>1, <2>2, <3>3, <3>4, <3>5 DEF OlShape
    <3>7. OlKept'
      <4> SUFFICES ASSUME NEW r \in olAcked \ olMerged
                   PROVE  r > 0 /\ ((\E j \in 0 .. MaxRotate : OlHolds(olFiles'[j], r)) \/ r + OlWindow(olFaulty) < olNext)
        BY <2>1, <3>1 DEF OlKept
      <4>1. r > 0 /\ ((\E j \in 0 .. MaxRotate : OlHolds(olFiles[j], r)) \/ r + OlWindow(olFaulty) < olNext)
        BY DEF OlInv, OlKept
      <4>2. r \in Nat \ {0}
        BY <3>5, <4>1
      <4> QED BY <3>3, <4>1, <4>2
    <3> QED BY <3>3, <3>6, <3>7 DEF OlInv
  <2> QED BY <2>1, <2>3, <2>4
<1> QED
  BY <1>1, <1>2

\* The log starts empty.
LEMMA OlInitially == OperationLogInit => OlInv
<1> SUFFICES ASSUME OperationLogInit PROVE OlInv
  OBVIOUS
<1>1. /\ \A i \in 0 .. MaxRotate : olFiles[i] = <<>> /\ Len(olFiles[i]) = 0
      /\ olFiles \in [0 .. MaxRotate -> Seq(Int)] /\ olStep = NoAppend /\ olNext = 1 /\ olAcked = {}
      /\ olOpen = FALSE /\ olFaulty = FALSE
  BY DEF OperationLogInit
<1>2. OlShape
  <2>1. olStep \in OlStepType /\ olStep.pc = "idle" /\ OlBusy = 0
    BY <1>1, OperationLogAssumption DEF OlBusy, OlStepType, NoAppend
  <2>2. \A i \in 0 .. MaxRotate : Len(olFiles[i]) <= MaxLines
    BY <1>1, OperationLogAssumption
  <2>3. olNext \in Nat /\ olNext > 0
    BY <1>1
  <2> QED BY <1>1, <2>1, <2>2, <2>3 DEF OlShape
<1>3. OlAges /\ OlOrder
  BY <1>1 DEF OlAges, OlOrder, OlAged, OlRising, OlNewer
<1>4. OlKept
  BY <1>1 DEF OlKept
<1> QED
  BY <1>2, <1>3, <1>4 DEF OlInv

\* LogKeepsRecent (OperationLogFile: Append, RotateIfNeededLocked and Query) for any
\* size and number of files.
THEOREM LogKeepsRecentHolds == OperationLogSpec => []LogKeepsRecent
<1>1. OperationLogInit => OlInv
  BY OlInitially
<1>2. OlInv /\ [OperationLogNext]_olVars => OlInv'
  <2> SUFFICES ASSUME OlInv, [OperationLogNext]_olVars PROVE OlInv'
    OBVIOUS
  <2>1. CASE OpenLog \/ CloseLog \/ KillLogger
    BY <2>1, OlProcessPreserves
  <2>2. CASE AppendRecord
    BY <2>2, OlAppendPreserves
  <2>3. CASE \E ok \in BOOLEAN : ShiftLog(ok) \/ WriteLog(ok)
    BY <2>3, OlShiftPreserves, OlWritePreserves
  <2>4. CASE UNCHANGED olVars
    <3>1. OlShape'
      BY <2>4 DEF OlInv, OlShape, OlBusy, olVars
    <3>2. OlAges' /\ OlOrder' /\ OlKept'
      BY <2>4 DEF OlInv, OlAges, OlAhead, OlBusy, OlOrder, OlKept, olVars
    <3> QED BY <3>1, <3>2 DEF OlInv
  <2> QED BY <2>1, <2>2, <2>3, <2>4 DEF OperationLogNext
<1>3. OlInv => LogKeepsRecent
  <2> SUFFICES ASSUME OlInv PROVE LogKeepsRecent
    OBVIOUS
  <2>1. OperationLogTypeOK
    BY DEF OlInv, OlShape, OlStepType, OperationLogTypeOK
  <2>2. \A j \in 0 .. MaxRotate : olFiles[j] \in Seq(Int) /\ Len(olFiles[j]) \in Nat /\ Len(olFiles[j]) <= MaxLines
    BY DEF OlInv, OlShape
  <2>3. QueryNewestFirst
    <3> SUFFICES ASSUME NEW x \in QueryLog, NEW y \in QueryLog, ReadBefore(x, y) PROVE Record(x) > Record(y)
      BY DEF QueryNewestFirst
    <3> DEFINE i == x[1]
               p == x[2]
               j == y[1]
               q == y[2]
    <3>1. /\ i \in 0 .. MaxRotate /\ p \in 1 .. Len(olFiles[i]) /\ olFiles[i][p] > 0
          /\ j \in 0 .. MaxRotate /\ q \in 1 .. Len(olFiles[j]) /\ olFiles[j][q] > 0
      BY <2>2 DEF QueryLog
    <3>2. i < j \/ (i = j /\ q < p)
      <4>1. i < j \/ (i = j /\ p > q)
        BY DEF ReadBefore
      <4>2. p \in Int /\ q \in Int
        BY <3>1
      <4> HIDE DEF p, q
      <4> QED BY <4>1, <4>2
    <3> HIDE DEF i, j, p, q
    <3>3. olFiles[i][p] \in Int /\ olFiles[j][q] \in Int
      BY <2>2, <3>1
    <3>4. CASE i < j
      BY <3>1, <3>4 DEF OlInv, OlOrder, OlNewer, Record, i, j, p, q
    <3>5. CASE i = j /\ q < p
      <4>1. olFiles[i][q] < olFiles[i][p]
        BY <3>1, <3>5 DEF OlInv, OlOrder, OlRising
      <4>2. olFiles[i][p] > olFiles[j][q]
        BY <3>3, <3>5, <4>1
      <4> QED BY <4>2 DEF Record, i, j, p, q
    <3> QED BY <3>2, <3>4, <3>5
  <2>4. RecentRecordsKept
    <3> SUFFICES ASSUME NEW r \in olAcked \ olMerged, r + OlWindow(olFaulty) >= olNext
                 PROVE  \E x \in QueryLog : Record(x) = r
      BY DEF RecentRecordsKept, OlWindow
    <3>1. r > 0 /\ ((\E j \in 0 .. MaxRotate : OlHolds(olFiles[j], r)) \/ r + OlWindow(olFaulty) < olNext)
      BY DEF OlInv, OlKept
    <3>2. r \in Nat /\ olNext \in Nat /\ OlWindow(olFaulty) \in Nat
      BY OlProducts, OperationLogAssumption DEF OlInv, OlShape, OlWindow
    <3>3. ~(r + OlWindow(olFaulty) < olNext)
      <4> DEFINE w == OlWindow(olFaulty)
      <4>1. w \in Nat /\ r + w >= olNext
        BY <3>2
      <4> HIDE DEF w
      <4>2. ~(r + w < olNext)
        BY <3>2, <4>1
      <4> QED BY <4>2 DEF w
    <3>4. PICK j \in 0 .. MaxRotate : OlHolds(olFiles[j], r)
      BY <3>1, <3>3
    <3>5. PICK p \in 1 .. Len(olFiles[j]) : olFiles[j][p] = r
      BY <3>4 DEF OlHolds
    <3>6. p \in 1 .. MaxLines /\ p <= Len(olFiles[j])
      BY <2>2, OperationLogAssumption
    <3>7. <<j, p>> \in QueryLog /\ Record(<<j, p>>) = r
      BY <3>1, <3>5, <3>6 DEF QueryLog, Record
    <3> QED BY <3>7
  <2> QED BY <2>1, <2>3, <2>4 DEF LogKeepsRecent
<1> QED
  BY <1>1, <1>2, <1>3, PTL DEF OperationLogSpec
=============================================================================
