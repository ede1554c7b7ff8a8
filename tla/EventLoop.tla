----------------------------- MODULE EventLoop -----------------------------
(***************************************************************************)
(* The IO loop of libs/socket_io (event_loop.cpp): one thread that waits   *)
(* in epoll_wait, dispatches fd handlers, fires timers behind a timerfd    *)
(* and runs the tasks other threads Post().  HTTP, RTSP and WebRTC all     *)
(* bind their sessions to such a loop.                                     *)
(*                                                                         *)
(* mutex_ makes each locked section one step; what the code does between   *)
(* two sections (a callback, eventfd writes, join) is a step of its own.   *)
(* The API actions below may be taken by any thread at any moment, hence   *)
(* also by the callback the loop is running.  Start and Stop come from one *)
(* owner thread, or Stop from a callback.                                  *)
(*                                                                         *)
(* Abstracted: what callbacks do besides calling this API, the interest    *)
(* masks of fds, statistics, CPU affinity, and a failing Start (it changes *)
(* nothing a later Start does not set again).                              *)
(***************************************************************************)
EXTENDS Naturals, Sequences, FiniteSets

CONSTANTS
    Fds,           \* fd numbers of sessions and listeners
    TaskCapacity,  \* task_capacity_
    MaxEvents,     \* max_events_
    Delays,        \* timer delays and intervals
    MaxPosts,      \* bound: accepted Post() calls
    MaxTimers,     \* bound: timers created
    MaxRegs,       \* bound: AddFd calls
    MaxStarts,     \* bound: Start calls
    MaxTime        \* bound: the monotonic clock

ASSUME LoopAssumption ==
    /\ {"wakeup", "timerfd"} \cap Fds = {}
    /\ TaskCapacity \in Nat \ {0} /\ MaxEvents \in Nat \ {0}
    /\ Delays \subseteq Nat \ {0}
    /\ MaxPosts \in Nat /\ MaxTimers \in Nat /\ MaxRegs \in Nat
    /\ MaxStarts \in Nat /\ MaxTime \in Nat

VARIABLES
    running,      \* running_
    stopping,     \* stopping_
    thread,       \* thread_: "none", "alive" or "exited" (not yet joined)
    tasks,        \* tasks_
    wakeup,       \* the eventfd: "closed", "clear" or "set"
    timers,       \* timers_: id -> Timer
    timer_fd,     \* expiry the timerfd is armed for, 0 when disarmed
    handlers,     \* handlers_ and the epoll set: fd -> registration number
    pc,           \* where the loop thread is
    events,       \* events epoll_wait returned and not yet dispatched
    ready,        \* RunTimers(): ids collected and not yet visited
    scan,         \* RunTimers(): the time of the collection
    batch,        \* RunTasks(): tasks swapped out of tasks_
    last,         \* Run() has left its loop: this is the final RunTasks()
    cur,          \* callback being run: task, timer id or registration
    reported,     \* registration epoll reported when a handler is run
    notifying,    \* Post() calls between the push and the eventfd write
    stop,         \* the owner's Stop(): "idle", "notify", "join", "cleanup"
    self_stop,    \* a callback's Stop(): "idle", "notify", "cleanup"
    now,          \* infra::Time::MonotonicMillis()
    posted, timer_ids, regs, starts,  \* calls so far; ids come from these
    cancelled     \* history: ids for which CancelTimer() returned true

apiVars  == <<tasks, wakeup, timers, timer_fd, handlers>>
loopVars == <<pc, events, ready, scan, batch, last, cur, reported>>
ctlVars  == <<running, stopping, thread, stop, self_stop>>
cntVars  == <<now, posted, timer_ids, regs, starts, notifying, cancelled>>
vars == <<apiVars, loopVars, ctlVars, cntVars>>

Registered == DOMAIN handlers

Without(f, x) == [y \in DOMAIN f \ {x} |-> f[y]]

Extended(f, x, v) == [y \in DOMAIN f \cup {x} |-> IF y = x THEN v ELSE f[y]]

EmptyMap == [x \in {} |-> x]

Init ==
    /\ running = FALSE /\ stopping = FALSE /\ thread = "none"
    /\ tasks = <<>> /\ wakeup = "closed"
    /\ timers = EmptyMap /\ timer_fd = 0
    /\ handlers = EmptyMap
    /\ pc = "off" /\ events = {} /\ ready = {} /\ scan = 0
    /\ batch = <<>> /\ last = FALSE /\ cur = 0 /\ reported = 0
    /\ notifying = 0 /\ stop = "idle" /\ self_stop = "idle"
    /\ now = 0 /\ posted = 0 /\ timer_ids = 0 /\ regs = 0 /\ starts = 0
    /\ cancelled = {}

-----------------------------------------------------------------------------
(* The API, one locked section each. *)

Accepting == running /\ ~stopping

\* Start(): opens epoll, timerfd and eventfd and spawns the thread.  Assigning
\* over a thread_ that was never joined would terminate the process; the
\* owner stops the loop before it starts it again.
Start ==
    /\ starts < MaxStarts
    /\ ~running /\ stop = "idle" /\ self_stop = "idle" /\ thread = "none"
    /\ running' = TRUE /\ stopping' = FALSE /\ thread' = "alive"
    /\ wakeup' = "clear" /\ timer_fd' = 0
    /\ handlers' = [fd \in {"wakeup", "timerfd"} |-> 0]
    /\ pc' = "check" /\ last' = FALSE
    /\ starts' = starts + 1
    /\ UNCHANGED <<tasks, timers, events, ready, scan, batch, cur, reported,
                   notifying, stop, self_stop, now, posted, timer_ids, regs,
                   cancelled>>

\* Mutant: a posted task does not wake the loop.
PostSilently ==
    /\ Accepting
    /\ posted < MaxPosts /\ Len(tasks) < TaskCapacity
    /\ tasks' = Append(tasks, posted + 1)
    /\ posted' = posted + 1
    /\ UNCHANGED <<ctlVars, loopVars, wakeup, timers, timer_fd, handlers, now,
                   timer_ids, regs, starts, notifying, cancelled>>

\* Mutant: Post() also accepts while Stop() is in progress.
PostWhileStopping ==
    /\ running
    /\ posted < MaxPosts /\ Len(tasks) < TaskCapacity
    /\ tasks' = Append(tasks, posted + 1)
    /\ posted' = posted + 1
    /\ notifying' = notifying + 1
    /\ UNCHANGED <<ctlVars, loopVars, wakeup, timers, timer_fd, handlers, now,
                   timer_ids, regs, starts, cancelled>>

\* Post() up to the end of its locked section; kNotStarted and kQueueFull
\* change nothing.
Post ==
    /\ Accepting
    /\ posted < MaxPosts /\ Len(tasks) < TaskCapacity
    /\ tasks' = Append(tasks, posted + 1)
    /\ posted' = posted + 1
    /\ notifying' = notifying + 1
    /\ UNCHANGED <<ctlVars, loopVars, wakeup, timers, timer_fd, handlers, now,
                   timer_ids, regs, starts, cancelled>>

Notified == IF wakeup = "closed" THEN "closed" ELSE "set"

\* wakeup_.Notify() at the end of Post(), outside the lock.
PostNotify ==
    /\ notifying > 0
    /\ notifying' = notifying - 1
    /\ wakeup' = Notified
    /\ UNCHANGED <<ctlVars, loopVars, tasks, timers, timer_fd, handlers, now,
                   posted, timer_ids, regs, starts, cancelled>>

AddFd(fd) ==
    /\ Accepting
    /\ regs < MaxRegs /\ fd \notin Registered
    /\ handlers' = Extended(handlers, fd, regs + 1)
    /\ regs' = regs + 1
    /\ UNCHANGED <<ctlVars, loopVars, tasks, wakeup, timers, timer_fd, now,
                   posted, timer_ids, starts, notifying, cancelled>>

RemoveFd(fd) ==
    /\ fd \in Registered
    /\ handlers' = Without(handlers, fd)
    /\ UNCHANGED <<ctlVars, loopVars, tasks, wakeup, timers, timer_fd, cntVars>>

\* SetTimerFdNextWakeupLocked(): the earliest deadline, at least 1 ms ahead.
NextWakeup(ts) ==
    IF DOMAIN ts = {} THEN 0
    ELSE LET next == CHOOSE d \in {ts[id].deadline : id \in DOMAIN ts} :
                         \A id \in DOMAIN ts : d <= ts[id].deadline
         IN  IF next < now + 1 THEN now + 1 ELSE next

\* Mutant: the timerfd keeps the expiry it was armed for.
AddTimerKeepsWakeup(delay, periodic) ==
    /\ Accepting
    /\ timer_ids < MaxTimers
    /\ timers' = Extended(timers, timer_ids + 1,
                          [deadline |-> now + delay,
                           interval |-> IF periodic THEN delay ELSE 0,
                           cancelled |-> FALSE, executing |-> FALSE])
    /\ timer_fd' = IF timer_fd = 0 THEN NextWakeup(timers') ELSE timer_fd
    /\ timer_ids' = timer_ids + 1
    /\ UNCHANGED <<ctlVars, loopVars, tasks, wakeup, handlers, now, posted,
                   regs, starts, notifying, cancelled>>

\* RunAfter() (periodic FALSE) and RunEvery() (periodic TRUE).
AddTimer(delay, periodic) ==
    /\ Accepting
    /\ timer_ids < MaxTimers
    /\ timers' = Extended(timers, timer_ids + 1,
                          [deadline |-> now + delay,
                           interval |-> IF periodic THEN delay ELSE 0,
                           cancelled |-> FALSE, executing |-> FALSE])
    /\ timer_fd' = NextWakeup(timers')
    /\ timer_ids' = timer_ids + 1
    /\ UNCHANGED <<ctlVars, loopVars, tasks, wakeup, handlers, now, posted,
                   regs, starts, notifying, cancelled>>

CancelTimer(id) ==
    /\ id \in DOMAIN timers
    /\ timers' = IF timers[id].executing
                 THEN [timers EXCEPT ![id].cancelled = TRUE]
                 ELSE Without(timers, id)
    /\ cancelled' = cancelled \cup {id}
    /\ timer_fd' = NextWakeup(timers')
    /\ UNCHANGED <<ctlVars, loopVars, tasks, wakeup, handlers, now, posted,
                   timer_ids, regs, starts, notifying>>

Tick ==
    /\ now < MaxTime
    /\ now' = now + 1
    /\ UNCHANGED <<apiVars, loopVars, ctlVars, posted, timer_ids, regs, starts,
                   notifying, cancelled>>

-----------------------------------------------------------------------------
(* Stop(), by the owner and by a callback of the loop itself. *)

InCallback == pc \in {"handler", "timer", "task"}

CleanupLocked ==
    /\ running' = FALSE /\ stopping' = FALSE
    /\ tasks' = <<>> /\ timers' = EmptyMap /\ handlers' = EmptyMap
    /\ wakeup' = "closed" /\ timer_fd' = 0

StopBegin ==
    /\ stop = "idle"
    /\ running \/ thread # "none"
    /\ stopping' = TRUE /\ stop' = "notify"
    /\ UNCHANGED <<apiVars, loopVars, running, thread, self_stop, cntVars>>

\* Mutant: Stop() does not wake the loop.
StopNotifySilently ==
    /\ stop = "notify" /\ stop' = "join"
    /\ UNCHANGED <<running, stopping, thread, self_stop, apiVars, loopVars,
                   cntVars>>

StopNotify ==
    /\ stop = "notify"
    /\ wakeup' = Notified /\ stop' = "join"
    /\ UNCHANGED <<running, stopping, thread, self_stop, tasks, timers,
                   timer_fd, handlers, loopVars, cntVars>>

\* Mutant: the owner does not wait for the thread.
StopJoinDetached ==
    /\ stop = "join"
    /\ thread' = thread /\ stop' = "cleanup"
    /\ UNCHANGED <<running, stopping, self_stop, apiVars, loopVars, cntVars>>

StopJoin ==
    /\ stop = "join" /\ thread = "exited"
    /\ thread' = "none" /\ stop' = "cleanup"
    /\ UNCHANGED <<running, stopping, self_stop, apiVars, loopVars, cntVars>>

StopCleanup ==
    /\ stop = "cleanup" /\ stop' = "idle"
    /\ CleanupLocked
    /\ UNCHANGED <<thread, self_stop, loopVars, cntVars>>

\* A second Stop() by a callback would only clean up an empty loop again.
SelfStopBegin ==
    /\ InCallback /\ running /\ self_stop = "idle"
    /\ stopping' = TRUE /\ self_stop' = "notify"
    /\ UNCHANGED <<apiVars, loopVars, running, thread, stop, cntVars>>

SelfStopNotify ==
    /\ self_stop = "notify"
    /\ wakeup' = Notified /\ self_stop' = "cleanup"
    /\ UNCHANGED <<running, stopping, thread, stop, tasks, timers, timer_fd,
                   handlers, loopVars, cntVars>>

\* A thread cannot join itself: Stop() goes straight to the clean-up, and
\* Run() then leaves its loop because epoll_fd_ is closed.
SelfStopCleanup ==
    /\ self_stop = "cleanup" /\ self_stop' = "idle"
    /\ CleanupLocked
    /\ UNCHANGED <<thread, stop, loopVars, cntVars>>

-----------------------------------------------------------------------------
(* The loop thread: Run(). *)

\* while (!ShouldStop())
Check ==
    /\ pc = "check"
    /\ pc' = IF stopping THEN "tasks" ELSE "wait"
    /\ last' = stopping
    /\ UNCHANGED <<ctlVars, apiVars, cntVars, events, ready, scan, batch, cur,
                   reported>>

EpollClosed == Registered = {}

Expired == timer_fd # 0 /\ timer_fd <= now

\* What epoll may report: the eventfd and the timerfd when they are readable,
\* a session's fd whenever its socket is ready (the peer decides).
Reportable ==
    {[fd |-> fd, reg |-> handlers[fd]] :
        fd \in {f \in Registered :
                   /\ f = "wakeup" => wakeup = "set"
                   /\ f = "timerfd" => Expired}}

EpollWait ==
    /\ pc = "wait"
    /\ \/ \E E \in SUBSET Reportable :
            /\ E # {} /\ Cardinality(E) <= MaxEvents
            /\ events' = E
            /\ pc' = "dispatch" /\ UNCHANGED last
       \/ /\ EpollClosed               \* EBADF: break
          /\ pc' = "tasks" /\ last' = TRUE /\ UNCHANGED events
    /\ UNCHANGED <<ctlVars, apiVars, cntVars, ready, scan, batch, cur, reported>>

\* FindHandler() for the next event, and what the handler begins with.
Dispatch(e) ==
    /\ pc = "dispatch" /\ e \in events
    /\ events' = events \ {e}
    /\ \/ /\ e.fd \notin Registered /\ UNCHANGED <<pc, cur, reported, wakeup, timer_fd>>
       \/ /\ e.fd = "wakeup" /\ e.fd \in Registered
          /\ wakeup' = "clear" /\ UNCHANGED <<pc, cur, reported, timer_fd>>
       \/ /\ e.fd = "timerfd" /\ e.fd \in Registered
          /\ timer_fd' = IF Expired THEN 0 ELSE timer_fd
          /\ pc' = "collect" /\ UNCHANGED <<cur, reported, wakeup>>
       \/ /\ e.fd \in Fds /\ e.fd \in Registered
          /\ pc' = "handler" /\ cur' = handlers[e.fd] /\ reported' = e.reg
          /\ UNCHANGED <<wakeup, timer_fd>>
    /\ UNCHANGED <<ctlVars, tasks, timers, handlers, cntVars, ready, scan,
                   batch, last>>

Dispatched ==
    /\ pc = "dispatch" /\ events = {}
    /\ pc' = "tasks"
    /\ UNCHANGED <<ctlVars, apiVars, cntVars, events, ready, scan, batch, last,
                   cur, reported>>

HandlerReturns ==
    /\ pc = "handler" /\ self_stop = "idle"
    /\ pc' = "dispatch"
    /\ UNCHANGED <<ctlVars, apiVars, cntVars, events, ready, scan, batch, last,
                   cur, reported>>

\* RunTimers(), first section: copy the timers that are due.
CollectTimers ==
    /\ pc = "collect"
    /\ ready' = {id \in DOMAIN timers : timers[id].deadline <= now}
    /\ scan' = now
    /\ pc' = "timers"
    /\ UNCHANGED <<ctlVars, apiVars, cntVars, events, batch, last, cur, reported>>

Due(id) ==
    /\ id \in DOMAIN timers
    /\ timers[id].deadline <= scan /\ ~timers[id].cancelled

\* RunTimers(), before the callback, in the order of the ids.
VisitTimer(id) ==
    /\ pc = "timers" /\ id \in ready /\ \A other \in ready : id <= other
    /\ ready' = ready \ {id}
    /\ IF Due(id)
       THEN /\ timers' = [timers EXCEPT ![id].executing = TRUE]
            /\ pc' = "timer" /\ cur' = id
       ELSE UNCHANGED <<timers, pc, cur>>
    /\ UNCHANGED <<ctlVars, tasks, wakeup, timer_fd, handlers, cntVars, events,
                   scan, batch, last, reported>>

\* Mutant: cancelling a timer that is executing does not keep it from being armed again.
TimerReturnsRearms ==
    /\ pc = "timer" /\ self_stop = "idle"
    /\ pc' = "timers"
    /\ timers' =
          IF cur \notin DOMAIN timers THEN timers
          ELSE IF timers[cur].interval = 0 THEN Without(timers, cur)
          ELSE [timers EXCEPT ![cur].executing = FALSE, ![cur].cancelled = FALSE,
                              ![cur].deadline = now + timers[cur].interval]
    /\ UNCHANGED <<ctlVars, tasks, wakeup, timer_fd, handlers, cntVars, events,
                   ready, scan, batch, last, cur, reported>>

\* RunTimers(), after the callback.
TimerReturns ==
    /\ pc = "timer" /\ self_stop = "idle"
    /\ pc' = "timers"
    /\ timers' =
          IF cur \notin DOMAIN timers THEN timers
          ELSE IF timers[cur].cancelled \/ timers[cur].interval = 0
          THEN Without(timers, cur)
          ELSE [timers EXCEPT ![cur].executing = FALSE,
                              ![cur].deadline = now + timers[cur].interval]
    /\ UNCHANGED <<ctlVars, tasks, wakeup, timer_fd, handlers, cntVars, events,
                   ready, scan, batch, last, cur, reported>>

\* RunTimers(), last section; a closed timerfd is left alone.
TimersDone ==
    /\ pc = "timers" /\ ready = {}
    /\ timer_fd' = IF EpollClosed THEN 0 ELSE NextWakeup(timers)
    /\ pc' = "dispatch"
    /\ UNCHANGED <<ctlVars, tasks, wakeup, timers, handlers, cntVars, events,
                   ready, scan, batch, last, cur, reported>>

\* RunTasks(): swap the queue out, then run it task by task.
SwapTasks ==
    /\ pc = "tasks"
    /\ batch' = tasks /\ tasks' = <<>>
    /\ pc' = "run"
    /\ UNCHANGED <<ctlVars, wakeup, timers, timer_fd, handlers, cntVars, events,
                   ready, scan, last, cur, reported>>

TaskBegin ==
    /\ pc = "run" /\ batch # <<>>
    /\ cur' = Head(batch) /\ batch' = Tail(batch)
    /\ pc' = "task"
    /\ UNCHANGED <<ctlVars, apiVars, cntVars, events, ready, scan, last, reported>>

TaskReturns ==
    /\ pc = "task" /\ self_stop = "idle"
    /\ pc' = "run"
    /\ UNCHANGED <<ctlVars, apiVars, cntVars, events, ready, scan, batch, last,
                   cur, reported>>

TasksDone ==
    /\ pc = "run" /\ batch = <<>>
    /\ IF last THEN pc' = "off" /\ thread' = "exited"
               ELSE pc' = "check" /\ UNCHANGED thread
    /\ UNCHANGED <<running, stopping, stop, self_stop, apiVars, cntVars, events,
                   ready, scan, batch, last, cur, reported>>

-----------------------------------------------------------------------------
LoopStep ==
    \/ Check \/ EpollWait \/ (\E e \in events : Dispatch(e)) \/ Dispatched
    \/ HandlerReturns \/ CollectTimers \/ (\E id \in ready : VisitTimer(id))
    \/ TimerReturns \/ TimersDone \/ SwapTasks \/ TaskBegin \/ TaskReturns
    \/ TasksDone

StopStep ==
    \/ StopNotify \/ StopJoin \/ StopCleanup
    \/ SelfStopNotify \/ SelfStopCleanup

ApiStep ==
    \/ Start \/ Post \/ PostNotify \/ StopBegin \/ SelfStopBegin
    \/ \E fd \in Fds : AddFd(fd) \/ RemoveFd(fd)
    \/ \E delay \in Delays, periodic \in BOOLEAN : AddTimer(delay, periodic)
    \/ \E id \in DOMAIN timers : CancelTimer(id)

Next == LoopStep \/ StopStep \/ ApiStep \/ Tick

Spec == Init /\ [][Next]_vars

\* Threads are scheduled: the loop thread goes on when it can, a Stop() and the
\* Notify() of a Post() that have begun are carried to their end.
FairSpec == Spec /\ WF_vars(LoopStep) /\ WF_vars(StopStep) /\ WF_vars(PostNotify)

-----------------------------------------------------------------------------
(* Properties. *)

Timer == [deadline : Nat, interval : Nat, cancelled : BOOLEAN, executing : BOOLEAN]

\* Types of the loop's state; the queue respects task_capacity_ (Post()).
TypeOK ==
    /\ running \in BOOLEAN /\ stopping \in BOOLEAN
    /\ thread \in {"none", "alive", "exited"}
    /\ tasks \in Seq(1..posted) /\ Len(tasks) <= TaskCapacity
    /\ batch \in Seq(1..posted)
    /\ wakeup \in {"closed", "clear", "set"}
    /\ DOMAIN timers \subseteq 1..timer_ids
    /\ \A id \in DOMAIN timers : timers[id] \in Timer
    /\ timer_fd \in Nat /\ scan \in Nat /\ now \in Nat
    /\ Registered \subseteq {"wakeup", "timerfd"} \cup Fds
    /\ pc \in {"off", "check", "wait", "dispatch", "handler", "collect",
               "timers", "timer", "tasks", "run", "task"}
    /\ ready \subseteq 1..timer_ids /\ last \in BOOLEAN
    /\ cur \in Nat /\ reported \in Nat /\ notifying \in Nat
    /\ stop \in {"idle", "notify", "join", "cleanup"}
    /\ self_stop \in {"idle", "notify", "cleanup"}
    /\ posted \in Nat /\ timer_ids \in Nat /\ regs \in Nat /\ starts \in Nat

\* No lost wake-up: the loop never blocks in epoll_wait (nor is about to) with
\* a task queued or a stop requested unless the eventfd is readable, closed, or
\* a thread is still on its way to write it.  Post() and Stop() write the
\* eventfd after they have released the mutex, and the loop drains it before it
\* takes the queue; either order the other way round would lose a task.
NoLostWakeup ==
    /\ pc \in {"check", "wait"} /\ tasks # <<>> =>
          wakeup = "set" \/ notifying > 0 \/ stopping
    /\ pc = "wait" /\ stopping => wakeup = "set" \/ stop = "notify" \/ EpollClosed

\* No oversleep: outside RunTimers() the timerfd is armed no later than the
\* earliest deadline, or than the next millisecond when that deadline has
\* passed, whichever thread added or cancelled timers meanwhile.
NoOversleep ==
    pc \notin {"collect", "timers", "timer"} =>
        \A id \in DOMAIN timers :
            /\ timer_fd # 0
            /\ timer_fd <= timers[id].deadline \/ timer_fd <= now + 1

\* Once CancelTimer() has returned true the timer's callback is never begun
\* again, even when the timer was already collected by RunTimers() or was
\* executing at that moment (the promise in CancelTimer()'s comment).
CancelIsFinal ==
    [][pc # "timer" /\ pc' = "timer" => cur' \notin cancelled]_vars

\* When the owner's Stop() reaches its clean-up the thread has left Run() and
\* every task Post() accepted has been run: the clean-up discards nothing.
StopIsFinal ==
    stop = "cleanup" => pc = "off" /\ tasks = <<>> /\ batch = <<>>

\* The loop is a serial queue: accepted tasks run one at a time, in order, and
\* only a Stop() from inside a callback gives up the newest of them.
Abstract == INSTANCE LoopQueue
    WITH Tasks   <- 1..MaxPosts,
         open    <- Accepting,
         pending <- batch \o tasks,
         current <- IF pc = "task" THEN {cur} ELSE {}

ImplementsLoopQueue == Abstract!Spec

\* A task that Post() accepted is eventually begun, or dropped by a Stop() from
\* a callback; it is never left behind in a sleeping loop.
PostedRuns ==
    \A t \in 1..MaxPosts :
        (\E i \in DOMAIN tasks : tasks[i] = t) ~>
            ~(\E i \in DOMAIN (batch \o tasks) : (batch \o tasks)[i] = t)

\* Stop() returns: whatever the loop is doing and whatever is posted meanwhile,
\* the owner that waits in join() gets through.
StopReturns == (stop # "idle") ~> (stop = "idle")

\* What RemoveFd()'s comment says: after an fd was removed, an event epoll had
\* already returned for it finds no handler.  It fails when the fd number is
\* registered again before the event is dispatched.
NoStaleDelivery == pc = "handler" => reported = cur

\* The loop makes progress under the fairness of FairSpec: accepted tasks are begun,
\* or dropped by a Stop() from a callback, and Stop() returns.
LoopProgress ==
    /\ PostedRuns
    /\ StopReturns
=============================================================================
