------------------------------ MODULE Executor ------------------------------
(***************************************************************************)
(* libs/event Executor: worker threads and a ring of queued tasks.  HTTP   *)
(* requests, AI and upgrade jobs are posted to it.                         *)
(***************************************************************************)
EXTENDS Integers, Sequences, FiniteSets

CONSTANTS ExWorkers,      \* the worker threads
          RingCapacity,   \* queue_capacity
          MaxExPosted, MaxExStarts   \* bounds

ASSUME ExecutorAssumption == ExWorkers # {} /\ IsFiniteSet(ExWorkers) /\ RingCapacity \in Nat \ {0}

VARIABLES
    exFlags,     \* [run, stop, discard]: running_, stopping_, discard_
    exRing,      \* tasks_: slot |-> task, 0 when the slot is reset
    exHead, exTail, exSize, exRunning,   \* head_, tail_, size_, running_size_
    exWorker,    \* worker |-> "none", "wait", "awake", "busy" or "ended"
    exTask,      \* worker |-> the task it runs
    exJoining,   \* a thread is in Stop()
    exPosted,    \* tasks accepted since the start
    exTaken,     \* tasks in the order workers took them
    exEnd,       \* "no", "drain" or "discard"
    exStarts

exVars == <<exFlags, exRing, exHead, exTail, exSize, exRunning, exWorker, exTask, exJoining,
            exPosted, exTaken, exEnd, exStarts>>
exIndex == <<exHead, exTail, exSize>>

RingSlots == 0 .. (RingCapacity - 1)
EmptyRing == [i \in RingSlots |-> 0]

NextSlot(i) == (i + 1) % RingCapacity

ExecutorInit ==
    /\ exFlags = [run |-> FALSE, stop |-> FALSE, discard |-> FALSE]
    /\ exRing = EmptyRing /\ exHead = 0 /\ exTail = 0 /\ exSize = 0 /\ exRunning = 0
    /\ exWorker = [w \in ExWorkers |-> "none"] /\ exTask = [w \in ExWorkers |-> 0]
    /\ exJoining = FALSE
    /\ exPosted = 0 /\ exTaken = <<>> /\ exEnd = "no" /\ exStarts = 0

-----------------------------------------------------------------------------
ExecutorStart ==
    /\ ~exFlags.run /\ ~exJoining /\ \A w \in ExWorkers : exWorker[w] = "none"
    /\ exStarts < MaxExStarts
    /\ exFlags' = [run |-> TRUE, stop |-> FALSE, discard |-> FALSE]
    /\ exRing' = EmptyRing /\ exHead' = 0 /\ exTail' = 0 /\ exSize' = 0 /\ exRunning' = 0
    /\ exWorker' = [w \in ExWorkers |-> "awake"]
    /\ exPosted' = 0 /\ exTaken' = <<>> /\ exEnd' = "no" /\ exStarts' = exStarts + 1
    /\ UNCHANGED <<exTask, exJoining>>

(* ClearQueueLocked() *)
ClearQueue ==
    /\ exRing' = [i \in RingSlots |-> IF \E k \in 0 .. (exSize - 1) : i = (exHead + k) % RingCapacity THEN 0 ELSE exRing[i]]
    /\ exHead' = 0 /\ exTail' = 0 /\ exSize' = 0

NotifyAll == exWorker' = [w \in ExWorkers |-> IF exWorker[w] = "wait" THEN "awake" ELSE exWorker[w]]

ExecutorStopBegin(mode) ==
    /\ exFlags.run /\ ~exJoining
    /\ exFlags' = [run |-> FALSE, stop |-> TRUE, discard |-> mode = "discard"]
    /\ IF mode = "discard" THEN ClearQueue ELSE UNCHANGED <<exRing, exIndex>>
    /\ NotifyAll /\ exJoining' = TRUE /\ exEnd' = mode
    /\ UNCHANGED <<exRunning, exTask, exPosted, exTaken, exStarts>>

(* Every worker has been joined. *)
ExecutorStopEnd ==
    /\ exJoining /\ \A w \in ExWorkers : exWorker[w] = "ended"
    /\ exWorker' = [w \in ExWorkers |-> "none"] /\ exJoining' = FALSE
    /\ ClearQueue /\ exRunning' = 0
    /\ UNCHANGED <<exFlags, exTask, exPosted, exTaken, exEnd, exStarts>>

NotifyNone == UNCHANGED exWorker

(* notify_one() wakes some waiting worker, when there is one. *)
NotifyOne ==
    \/ \E w \in ExWorkers : exWorker[w] = "wait" /\ exWorker' = [exWorker EXCEPT ![w] = "awake"]
    \/ (\A w \in ExWorkers : exWorker[w] # "wait") /\ UNCHANGED exWorker

RingHasRoom == exSize < RingCapacity

ExecutorPost ==
    /\ exFlags.run /\ ~exFlags.stop /\ RingHasRoom /\ exPosted < MaxExPosted
    /\ exRing' = [exRing EXCEPT ![exTail] = exPosted + 1]
    /\ exTail' = NextSlot(exTail) /\ exSize' = exSize + 1
    /\ exPosted' = exPosted + 1
    /\ NotifyOne
    /\ UNCHANGED <<exFlags, exHead, exRunning, exTask, exJoining, exTaken, exEnd, exStarts>>

-----------------------------------------------------------------------------
(* A worker looks at the queue under the mutex: WorkerLoop(). *)
WorkerWait(w) ==
    /\ exWorker[w] = "awake" /\ ~exFlags.stop /\ exSize = 0
    /\ exWorker' = [exWorker EXCEPT ![w] = "wait"]
    /\ UNCHANGED <<exFlags, exRing, exIndex, exRunning, exTask, exJoining, exPosted, exTaken, exEnd, exStarts>>

WorkerMustEnd == \/ exFlags.stop /\ (exFlags.discard \/ exSize = 0)
                 \/ ~exFlags.run /\ exSize = 0

WorkerEnd(w) ==
    /\ exWorker[w] = "awake" /\ (exFlags.stop \/ exSize > 0) /\ WorkerMustEnd
    /\ exWorker' = [exWorker EXCEPT ![w] = "ended"]
    /\ UNCHANGED <<exFlags, exRing, exIndex, exRunning, exTask, exJoining, exPosted, exTaken, exEnd, exStarts>>

WorkerTake(w) ==
    /\ exWorker[w] = "awake" /\ (exFlags.stop \/ exSize > 0) /\ ~WorkerMustEnd
    /\ exTask' = [exTask EXCEPT ![w] = exRing[exHead]]
    /\ exTaken' = Append(exTaken, exRing[exHead])
    /\ exRing' = [exRing EXCEPT ![exHead] = 0]
    /\ exHead' = NextSlot(exHead) /\ exSize' = exSize - 1
    /\ exRunning' = exRunning + 1
    /\ exWorker' = [exWorker EXCEPT ![w] = "busy"]
    /\ UNCHANGED <<exFlags, exTail, exJoining, exPosted, exEnd, exStarts>>

(* The task has run. *)
WorkerDone(w) ==
    /\ exWorker[w] = "busy"
    /\ exTask' = [exTask EXCEPT ![w] = 0] /\ exRunning' = exRunning - 1
    /\ exWorker' = [v \in ExWorkers |->
                      IF v = w \/ (exWorker[v] = "wait" /\ exFlags.stop /\ exSize = 0) THEN "awake" ELSE exWorker[v]]
    /\ UNCHANGED <<exFlags, exRing, exIndex, exJoining, exPosted, exTaken, exEnd, exStarts>>

ExecutorNext ==
    \/ ExecutorStart \/ ExecutorStopEnd \/ ExecutorPost
    \/ \E mode \in {"drain", "discard"} : ExecutorStopBegin(mode)
    \/ \E w \in ExWorkers : WorkerWait(w) \/ WorkerEnd(w) \/ WorkerTake(w) \/ WorkerDone(w)

ExecutorSpec == ExecutorInit /\ [][ExecutorNext]_exVars

-----------------------------------------------------------------------------
(* Types of the state; running_size_ counts the busy workers. *)
ExecutorTypeOK ==
    /\ exHead \in RingSlots /\ exTail \in RingSlots /\ exSize \in 0 .. RingCapacity
    /\ exWorker \in [ExWorkers -> {"none", "wait", "awake", "busy", "ended"}]
    /\ exRunning = Cardinality({w \in ExWorkers : exWorker[w] = "busy"})

(* While the executor runs, the tasks workers took and then the ring read   *)
(* from head_ are the accepted tasks in the order they were posted: no task *)
(* is lost, overwritten or taken twice.                                     *)
RingIsQueue ==
    exFlags.run =>
        exTaken \o [k \in 1 .. exSize |-> exRing[(exHead + k - 1) % RingCapacity]] = [i \in 1 .. exPosted |-> i]

(* Stop(kDrain) returns after every accepted task was run; after any Stop() *)
(* no task is running.                                                      *)
StopDrains ==
    (exEnd # "no" /\ ~exJoining) =>
        /\ \A w \in ExWorkers : exTask[w] = 0
        /\ exEnd = "drain" => Len(exTaken) = exPosted

(* No worker sleeps while a task waits that no awake worker is on its way   *)
(* to take: one notification per task is enough.                            *)
NoIdleWorker ==
    (\E w \in ExWorkers : exWorker[w] = "wait") =>
        exSize <= Cardinality({w \in ExWorkers : exWorker[w] = "awake"})

\* The ring is a queue for any number of workers: no task is lost or run twice, a
\* draining stop leaves none behind, and no worker sleeps while a task waits.
ExecutorDrains ==
    /\ ExecutorTypeOK /\ RingIsQueue /\ StopDrains /\ NoIdleWorker
=============================================================================
