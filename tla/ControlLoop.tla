----------------------------- MODULE ControlLoop -----------------------------
(***************************************************************************)
(* libs/event Loop: one thread that runs posted tasks and timers.  Socket  *)
(* callbacks, EventBus and protocol code post to it from other threads,    *)
(* and a running task may itself post, add and cancel timers or stop the   *)
(* loop.  A task or a timer runs outside mutex_, so every call may happen  *)
(* while one runs.                                                         *)
(***************************************************************************)
EXTENDS Integers, Sequences, FiniteSets

CONSTANTS LoopCapacity,   \* queue_capacity
          LoopDelays,     \* delays and intervals given to timers
          MaxPosted, MaxTimerId, MaxLoopNow, MaxLoopStarts   \* bounds

ASSUME LoopAssumption == LoopCapacity \in Nat \ {0} /\ LoopDelays \subseteq Nat

VARIABLES
    clFlags,      \* running_, stopping_, discard_: [run, stop, discard]
    clTasks,      \* tasks_, numbered in the order they were accepted
    clTimers,     \* timers_: id |-> [deadline, interval]
    clNextTimer,  \* next_timer_id_
    clThread,     \* "none" (not joinable), "top", "asleep", "work", "task", "firing", "ended"
    clWake,       \* asleep: until when; -1 until notified
    clBatch,      \* tasks taken from tasks_
    clReady,      \* ready_timers: [id, deadline, interval]
    clJoining,    \* a thread waits in Stop() for the loop thread
    clNow,        \* the monotonic clock
    clPosted,     \* tasks accepted since the start
    clRan,        \* tasks run since the start
    clEnd,        \* how the loop was stopped: "no", "drain", "discard", "self"
    clCancelled,  \* timers for which CancelTimer() returned true
    clDone,       \* one-shot timers that have fired
    clStarts

clVars == <<clFlags, clTasks, clTimers, clNextTimer, clThread, clWake, clBatch, clReady, clJoining,
            clNow, clPosted, clRan, clEnd, clCancelled, clDone, clStarts>>
clGhosts == <<clPosted, clRan, clEnd, clCancelled, clDone>>

Upto(n) == [i \in 1 .. n |-> i]

LoopInit ==
    /\ clFlags = [run |-> FALSE, stop |-> FALSE, discard |-> FALSE]
    /\ clTasks = <<>> /\ clTimers = <<>> /\ clNextTimer = 1
    /\ clThread = "none" /\ clWake = 0 - 1 /\ clBatch = <<>> /\ clReady = <<>>
    /\ clJoining = FALSE /\ clNow = 0
    /\ clPosted = 0 /\ clRan = <<>> /\ clEnd = "no" /\ clCancelled = {} /\ clDone = {}
    /\ clStarts = 0

-----------------------------------------------------------------------------
(* Start() after Stop() has joined.  A second Start() of a running loop     *)
(* returns at once.                                                         *)
LoopStart ==
    /\ ~clFlags.run /\ clThread = "none" /\ ~clJoining /\ clStarts < MaxLoopStarts
    /\ clFlags' = [run |-> TRUE, stop |-> FALSE, discard |-> FALSE]
    /\ clTasks' = <<>> /\ clTimers' = <<>> /\ clNextTimer' = 1
    /\ clThread' = "top" /\ clBatch' = <<>> /\ clReady' = <<>>
    /\ clPosted' = 0 /\ clRan' = <<>> /\ clEnd' = "no" /\ clCancelled' = {} /\ clDone' = {}
    /\ clStarts' = clStarts + 1
    /\ UNCHANGED <<clWake, clJoining, clNow>>

Notify == clThread' = IF clThread = "asleep" THEN "top" ELSE clThread

(* Stop(): the flags, and what is queued. *)
StopFlags(mode) ==
    /\ clFlags' = [run |-> FALSE, stop |-> TRUE, discard |-> mode = "discard"]
    /\ clTimers' = <<>>
    /\ UNCHANGED <<clNextTimer, clWake, clBatch, clReady, clNow, clPosted, clRan, clCancelled, clDone, clStarts>>

LoopStopBegin(mode) ==
    /\ clFlags.run \/ clThread # "none"
    /\ ~clJoining
    /\ StopFlags(mode)
    /\ clTasks' = IF mode = "discard" THEN <<>> ELSE clTasks
    /\ clEnd' = IF clEnd = "no" THEN mode ELSE clEnd
    /\ clJoining' = TRUE /\ Notify

(* thread_.join() has returned. *)
LoopStopEnd ==
    /\ clJoining /\ clThread = "ended"
    /\ clJoining' = FALSE /\ clThread' = "none"
    /\ clTasks' = <<>> /\ clTimers' = <<>>
    /\ UNCHANGED <<clFlags, clNextTimer, clWake, clBatch, clReady, clNow, clGhosts, clStarts>>

(* Stop() from a task or a timer: there is nothing to join, so what is still *)
(* queued is dropped at once, in either mode.                                *)
LoopSelfStop(mode) ==
    /\ clFlags.run /\ clThread \in {"task", "firing"}
    /\ StopFlags(mode)
    /\ clTasks' = <<>> /\ clEnd' = "self"
    /\ UNCHANGED <<clThread, clJoining>>

LoopHasRoom == Len(clTasks) < LoopCapacity

LoopPost ==
    /\ clFlags.run /\ ~clFlags.stop
    /\ LoopHasRoom /\ clPosted < MaxPosted
    /\ clTasks' = Append(clTasks, clPosted + 1) /\ clPosted' = clPosted + 1
    /\ Notify
    /\ UNCHANGED <<clFlags, clTimers, clNextTimer, clWake, clBatch, clReady, clJoining, clNow,
                   clRan, clEnd, clCancelled, clDone, clStarts>>

(* AddTimer() for RunAfter() (no interval) and RunEvery(). *)
AddTimer(delay, interval) ==
    /\ clFlags.run /\ ~clFlags.stop
    /\ clNextTimer <= MaxTimerId
    /\ clTimers' = [i \in DOMAIN clTimers \union {clNextTimer} |->
                      IF i = clNextTimer THEN [deadline |-> clNow + delay, interval |-> interval] ELSE clTimers[i]]
    /\ clNextTimer' = clNextTimer + 1
    /\ Notify
    /\ UNCHANGED <<clFlags, clTasks, clWake, clBatch, clReady, clJoining, clNow, clGhosts, clStarts>>

RunAfter(delay) == AddTimer(delay, 0)
RunEvery(interval) == interval # 0 /\ AddTimer(interval, interval)

(* CancelTimer() of a timer that is in the table; for one that is being run *)
(* it returns false and changes nothing.                                    *)
LoopCancelTimer(id) ==
    /\ id \in DOMAIN clTimers
    /\ clTimers' = [i \in DOMAIN clTimers \ {id} |-> clTimers[i]]
    /\ clCancelled' = clCancelled \union {id}
    /\ Notify
    /\ UNCHANGED <<clFlags, clTasks, clNextTimer, clWake, clBatch, clReady, clJoining, clNow,
                   clPosted, clRan, clEnd, clDone, clStarts>>

-----------------------------------------------------------------------------
(* The loop thread: Run(). *)
DueTimers == {i \in DOMAIN clTimers : clTimers[i].deadline <= clNow}
IsWorkReady == clTasks # <<>> \/ DueTimers # {}
MustBreak == clFlags.stop /\ (clFlags.discard \/ clTasks = <<>>) /\ DOMAIN clTimers = {}

Deadlines == {clTimers[i].deadline : i \in DOMAIN clTimers}
NextTimerDeadline == IF Deadlines = {} THEN 0 - 1
                     ELSE CHOOSE d \in Deadlines : \A e \in Deadlines : d <= e

LoopSleep ==
    /\ clThread = "top" /\ ~clFlags.stop /\ ~IsWorkReady
    /\ clThread' = "asleep" /\ clWake' = NextTimerDeadline
    /\ UNCHANGED <<clFlags, clTasks, clTimers, clNextTimer, clBatch, clReady, clJoining, clNow, clGhosts, clStarts>>

LoopWake ==
    /\ clThread = "asleep" /\ clWake # 0 - 1 /\ clWake <= clNow
    /\ clThread' = "top"
    /\ UNCHANGED <<clFlags, clTasks, clTimers, clNextTimer, clWake, clBatch, clReady, clJoining, clNow, clGhosts, clStarts>>

LoopBreak ==
    /\ clThread = "top" /\ MustBreak
    /\ clThread' = "ended"
    /\ UNCHANGED <<clFlags, clTasks, clTimers, clNextTimer, clWake, clBatch, clReady, clJoining, clNow, clGhosts, clStarts>>

TakeAny(due) ==
    /\ clThread = "top" /\ ~MustBreak /\ (clFlags.stop \/ IsWorkReady)
    /\ clThread' = "work"
    /\ clBatch' = clTasks /\ clTasks' = <<>>
    /\ \E order \in [1 .. Cardinality(due) -> due] :   \* in the order of their ids
          /\ \A j, k \in DOMAIN order : j < k => order[j] < order[k]
          /\ clReady' = [k \in DOMAIN order |-> [id |-> order[k], deadline |-> clTimers[order[k]].deadline,
                                                interval |-> clTimers[order[k]].interval]]
    /\ clTimers' = [i \in DOMAIN clTimers \ due |-> clTimers[i]]
    /\ UNCHANGED <<clFlags, clNextTimer, clWake, clJoining, clNow, clGhosts, clStarts>>

LoopTakeEarly == TakeAny({i \in DOMAIN clTimers : clTimers[i].deadline <= clNow + 1})

LoopTake == TakeAny(DueTimers)

(* One task or timer runs; other threads go on meanwhile. *)
LoopRun ==
    /\ clThread = "work"
    /\ clThread' = CASE clBatch # <<>> -> "task" [] clBatch = <<>> /\ clReady # <<>> -> "firing" [] OTHER -> "top"
    /\ UNCHANGED <<clFlags, clTasks, clTimers, clNextTimer, clWake, clBatch, clReady, clJoining, clNow, clGhosts, clStarts>>

LoopTaskDone ==
    /\ clThread = "task"
    /\ clRan' = Append(clRan, Head(clBatch)) /\ clBatch' = Tail(clBatch)
    /\ clThread' = "work"
    /\ UNCHANGED <<clFlags, clTasks, clTimers, clNextTimer, clWake, clReady, clJoining, clNow,
                   clPosted, clEnd, clCancelled, clDone, clStarts>>

(* A periodic timer goes back into the table unless the loop is stopping. *)
PutBack(t) ==
    clTimers' = [i \in DOMAIN clTimers \union {t.id} |->
                   IF i = t.id THEN [deadline |-> clNow + t.interval, interval |-> t.interval] ELSE clTimers[i]]

LoopTimerDone ==
    /\ clThread = "firing"
    /\ LET t == Head(clReady)
       IN /\ IF ~clFlags.stop /\ t.interval # 0 THEN PutBack(t) ELSE UNCHANGED clTimers
          /\ clDone' = IF t.interval = 0 THEN clDone \union {t.id} ELSE clDone
    /\ clReady' = Tail(clReady) /\ clThread' = "work"
    /\ UNCHANGED <<clFlags, clTasks, clNextTimer, clWake, clBatch, clJoining, clNow,
                   clPosted, clRan, clEnd, clCancelled, clStarts>>

LoopTick ==
    /\ clNow < MaxLoopNow /\ clNow' = clNow + 1
    /\ UNCHANGED <<clFlags, clTasks, clTimers, clNextTimer, clThread, clWake, clBatch, clReady, clJoining, clGhosts, clStarts>>

LoopNext ==
    \/ LoopStart \/ LoopStopEnd \/ LoopPost \/ LoopTick
    \/ \E mode \in {"drain", "discard"} : LoopStopBegin(mode) \/ LoopSelfStop(mode)
    \/ \E d \in LoopDelays : RunAfter(d) \/ RunEvery(d)
    \/ \E id \in DOMAIN clTimers : LoopCancelTimer(id)
    \/ LoopSleep \/ LoopWake \/ LoopBreak \/ LoopTake \/ LoopRun \/ LoopTaskDone \/ LoopTimerDone

LoopSpec == LoopInit /\ [][LoopNext]_clVars

-----------------------------------------------------------------------------
(* Types of the state; a batch exists only while the thread works on it. *)
LoopTypeOK ==
    /\ clFlags \in [run : BOOLEAN, stop : BOOLEAN, discard : BOOLEAN]
    /\ clThread \in {"none", "top", "asleep", "work", "task", "firing", "ended"}
    /\ Len(clTasks) <= LoopCapacity
    /\ DOMAIN clTimers \subseteq 1 .. (clNextTimer - 1)
    /\ clThread \notin {"work", "task", "firing"} => clBatch = <<>> /\ clReady = <<>>

(* A running loop runs the tasks it accepted in the order they were posted, *)
(* each once: what ran, what was taken and what waits are all of them.      *)
TasksInOrder == clFlags.run => clRan \o clBatch \o clTasks = Upto(clPosted)

(* Stop(kDrain) from another thread returns after every accepted task ran.  *)
DrainRunsAll == clThread = "none" /\ clEnd = "drain" => clRan = Upto(clPosted)

(* A timer whose CancelTimer() returned true is neither in the table nor on *)
(* its way to run, and no timer runs before its time.                       *)
CancelledNeverFires ==
    \A k \in DOMAIN clReady : clReady[k].id \notin clCancelled /\ clReady[k].deadline <= clNow

(* While the loop runs no timer is lost: it waits, is about to run, was     *)
(* cancelled, or was a one-shot timer and has fired.                        *)
TimersKept ==
    clFlags.run =>
        1 .. (clNextTimer - 1) =
            DOMAIN clTimers \union {clReady[k].id : k \in DOMAIN clReady} \union clCancelled \union clDone

(* The thread never sleeps past work: there is no task, and no timer is due *)
(* before the time it will wake at.                                         *)
LoopWakesInTime ==
    clThread = "asleep" =>
        /\ clTasks = <<>> /\ ~clFlags.stop
        /\ \A i \in DOMAIN clTimers : clWake # 0 - 1 /\ clWake <= clTimers[i].deadline

\* The loop runs every accepted task once and in order, also while it drains at a
\* stop, keeps its timers, never fires a cancelled one, and never sleeps past work.
ControlLoopFaithful ==
    /\ LoopTypeOK /\ TasksInOrder /\ DrainRunsAll /\ CancelledNeverFires
    /\ TimersKept /\ LoopWakesInTime
=============================================================================
