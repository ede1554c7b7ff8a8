-------------------------- MODULE EventLoop_proof --------------------------
(***************************************************************************)
(* For any capacity, any number of tasks, timers and fds and any clock:    *)
(* the loop loses no wake-up, does not oversleep a timer, never begins a   *)
(* cancelled timer, discards nothing when its owner stops it, and is the   *)
(* serial queue of LoopQueue.                                              *)
(***************************************************************************)
EXTENDS EventLoop, Minimum, TLAPS

-----------------------------------------------------------------------------
(* The inductive invariant. *)

Types ==
    /\ tasks \in Seq(Nat) /\ batch \in Seq(Nat)
    /\ now \in Nat /\ notifying \in Nat /\ timer_ids \in Nat /\ posted \in Nat
    /\ scan \in Nat /\ timer_fd \in Nat
    /\ DOMAIN timers \subseteq 1..timer_ids
    /\ \A id \in DOMAIN timers : timers[id] \in Timer
    /\ cancelled \subseteq 1..timer_ids
    /\ running \in BOOLEAN /\ stopping \in BOOLEAN /\ last \in BOOLEAN

\* A loop that does not run is empty; one that runs has its own fds open.
Opened ==
    /\ running => /\ "wakeup" \in Registered /\ "timerfd" \in Registered
                  /\ wakeup # "closed"
    /\ ~running => /\ Registered = {} /\ wakeup = "closed" /\ tasks = <<>>
                   /\ DOMAIN timers = {}

\* Where the thread can be, and what its final RunTasks() leaves.
ThreadPhase ==
    /\ thread \in {"none", "alive", "exited"}
    /\ thread = "alive" <=> pc # "off"
    /\ pc \notin {"run", "task"} => batch = <<>>
    /\ self_stop # "idle" => InCallback
    /\ stop = "cleanup" => thread = "none"
    /\ last => pc \in {"tasks", "run", "task", "off"}
    /\ last \/ pc = "off" => ~Accepting
    /\ last /\ pc # "tasks" => tasks = <<>>
    /\ pc = "off" => tasks = <<>>

\* From the swap of the queue until the next drain of the eventfd.
Woken ==
    /\ pc \in {"run", "task", "check", "wait"} /\ tasks # <<>> =>
          wakeup = "set" \/ notifying > 0 \/ stopping
    /\ pc = "wait" /\ stopping => wakeup = "set" \/ stop = "notify" \/ ~running

\* A cancelled timer that is still in timers_ carries its mark.
Marked == \A id \in cancelled \cap DOMAIN timers : timers[id].cancelled

IInv == Types /\ Opened /\ ThreadPhase /\ Woken /\ Marked /\ NoOversleep

\* The expiry computed for a set of timers is no later than it may be.
LEMMA NextWakeupBound ==
    ASSUME now \in Nat,
           NEW ts, \A id \in DOMAIN ts : ts[id].deadline \in Nat
    PROVE  /\ NextWakeup(ts) \in Nat
           /\ \A id \in DOMAIN ts :
                 /\ NextWakeup(ts) # 0
                 /\ NextWakeup(ts) <= ts[id].deadline \/ NextWakeup(ts) <= now + 1
<1>1. CASE DOMAIN ts = {}
  BY <1>1 DEF NextWakeup
<1>2. CASE DOMAIN ts # {}
  <2> DEFINE S == {ts[id].deadline : id \in DOMAIN ts}
  <2>1. S \in SUBSET Nat /\ S # {}
    BY <1>2
  <2>2. \E d \in S : \A m \in S : d <= m
    <3> HIDE DEF S
    <3> QED BY <2>1, LeastNatural
  <2>3. \E d \in S : \A id \in DOMAIN ts : d <= ts[id].deadline
    BY <2>2
  <2> DEFINE next == CHOOSE d \in S : \A id \in DOMAIN ts : d <= ts[id].deadline
  <2>4. next \in S /\ \A id \in DOMAIN ts : next <= ts[id].deadline
    BY <2>3
  <2>5. NextWakeup(ts) = IF next < now + 1 THEN now + 1 ELSE next
    BY <1>2 DEF NextWakeup
  <2>6. next \in Nat
    BY <2>1, <2>4
  <2> HIDE DEF next, S
  <2> QED BY <2>4, <2>5, <2>6
<1> QED BY <1>1, <1>2

\* A loop that was never started satisfies the invariant.
LEMMA InitEstablishes == Init => IInv
<1>1. <<>> \in Seq(Nat)
  OBVIOUS
<1>2. DOMAIN EmptyMap = {}
  BY DEF EmptyMap
<1> SUFFICES ASSUME Init PROVE IInv
  OBVIOUS
<1>3. Types
  BY <1>1, <1>2 DEF Init, Types
<1>4. Opened /\ ThreadPhase /\ Woken
  BY <1>2 DEF Init, Opened, ThreadPhase, Woken, Registered, Accepting, InCallback
<1>5. Marked /\ NoOversleep
  BY <1>2 DEF Init, Marked, NoOversleep
<1> QED BY <1>3, <1>4, <1>5 DEF IInv

\* Every critical section and system call of the loop, and every call of another
\* thread, keeps it.
LEMMA StepPreserves == IInv /\ [Next]_vars => IInv'
<1> SUFFICES ASSUME IInv, [Next]_vars PROVE IInv'
  OBVIOUS
<1> USE DEF IInv, apiVars, loopVars, ctlVars, cntVars
<1>1. CASE Start
  <2>1. Types'
    BY <1>1, LoopAssumption DEF Start, Types, EmptyMap
  <2>2. Opened'
    BY <1>1, LoopAssumption DEF Start, Opened, Registered, EmptyMap
  <2>3. ThreadPhase'
    BY <1>1, LoopAssumption DEF Start, ThreadPhase, Accepting, InCallback, Opened, EmptyMap
  <2>4. Woken'
    BY <1>1, LoopAssumption DEF Start, Woken, Opened, Registered, ThreadPhase, InCallback, Types, EmptyMap
  <2>5. Marked'
    BY <1>1, LoopAssumption DEF Start, Marked, Types, EmptyMap
  <2>6. NoOversleep'
    BY <1>1, LoopAssumption DEF Start, NoOversleep, Opened, Registered, Types, EmptyMap
  <2> QED BY <2>1, <2>2, <2>3, <2>4, <2>5, <2>6
<1>2. CASE Post
  <2>1. Types'
    BY <1>2, LoopAssumption DEF Post, Types
  <2>2. Opened'
    BY <1>2, LoopAssumption DEF Post, Opened, Registered, Accepting
  <2>3. ThreadPhase'
    BY <1>2, LoopAssumption DEF Post, ThreadPhase, Accepting, InCallback, Opened
  <2>4. Woken'
    BY <1>2, LoopAssumption DEF Post, Woken, Opened, Registered, ThreadPhase, InCallback, Types
  <2>5. Marked'
    BY <1>2, LoopAssumption DEF Post, Marked, Types
  <2>6. NoOversleep'
    BY <1>2, LoopAssumption DEF Post, NoOversleep, Opened, Registered, Types
  <2> QED BY <2>1, <2>2, <2>3, <2>4, <2>5, <2>6
<1>3. CASE PostNotify
  <2>1. Types'
    BY <1>3, LoopAssumption DEF PostNotify, Types, Notified
  <2>2. Opened'
    BY <1>3, LoopAssumption DEF PostNotify, Opened, Registered, Notified
  <2>3. ThreadPhase'
    BY <1>3, LoopAssumption DEF PostNotify, ThreadPhase, Accepting, InCallback, Opened, Notified
  <2>4. Woken'
    BY <1>3, LoopAssumption DEF PostNotify, Woken, Opened, Registered, ThreadPhase, InCallback, Types, Notified
  <2>5. Marked'
    BY <1>3, LoopAssumption DEF PostNotify, Marked, Types, Notified
  <2>6. NoOversleep'
    BY <1>3, LoopAssumption DEF PostNotify, NoOversleep, Opened, Registered, Types, Notified
  <2> QED BY <2>1, <2>2, <2>3, <2>4, <2>5, <2>6
<1>4. CASE StopBegin
  <2>1. Types'
    BY <1>4, LoopAssumption DEF StopBegin, Types
  <2>2. Opened'
    BY <1>4, LoopAssumption DEF StopBegin, Opened, Registered
  <2>3. ThreadPhase'
    BY <1>4, LoopAssumption DEF StopBegin, ThreadPhase, Accepting, InCallback, Opened
  <2>4. Woken'
    BY <1>4, LoopAssumption DEF StopBegin, Woken, Opened, Registered, ThreadPhase, InCallback, Types
  <2>5. Marked'
    BY <1>4, LoopAssumption DEF StopBegin, Marked, Types
  <2>6. NoOversleep'
    BY <1>4, LoopAssumption DEF StopBegin, NoOversleep, Opened, Registered, Types
  <2> QED BY <2>1, <2>2, <2>3, <2>4, <2>5, <2>6
<1>5. CASE SelfStopBegin
  <2>1. Types'
    BY <1>5, LoopAssumption DEF SelfStopBegin, Types, InCallback
  <2>2. Opened'
    BY <1>5, LoopAssumption DEF SelfStopBegin, Opened, Registered, InCallback
  <2>3. ThreadPhase'
    BY <1>5, LoopAssumption DEF SelfStopBegin, ThreadPhase, Accepting, InCallback, Opened, InCallback
  <2>4. Woken'
    BY <1>5, LoopAssumption DEF SelfStopBegin, Woken, Opened, Registered, ThreadPhase, InCallback, Types, InCallback
  <2>5. Marked'
    BY <1>5, LoopAssumption DEF SelfStopBegin, Marked, Types, InCallback
  <2>6. NoOversleep'
    BY <1>5, LoopAssumption DEF SelfStopBegin, NoOversleep, Opened, Registered, Types, InCallback
  <2> QED BY <2>1, <2>2, <2>3, <2>4, <2>5, <2>6
<1>6. ASSUME NEW fd \in Fds, AddFd(fd) PROVE IInv'
  <2>1. Types'
    BY <1>6, LoopAssumption DEF AddFd, Types, Extended
  <2>2. Opened'
    BY <1>6, LoopAssumption DEF AddFd, Opened, Registered, Accepting, Extended
  <2>3. ThreadPhase'
    BY <1>6, LoopAssumption DEF AddFd, ThreadPhase, Accepting, InCallback, Opened, Extended
  <2>4. Woken'
    BY <1>6, LoopAssumption DEF AddFd, Woken, Opened, Registered, ThreadPhase, InCallback, Types, Extended
  <2>5. Marked'
    BY <1>6, LoopAssumption DEF AddFd, Marked, Types, Extended
  <2>6. NoOversleep'
    BY <1>6, LoopAssumption DEF AddFd, NoOversleep, Opened, Registered, Types, Extended
  <2> QED BY <2>1, <2>2, <2>3, <2>4, <2>5, <2>6
<1>7. ASSUME NEW fd \in Fds, RemoveFd(fd) PROVE IInv'
  <2>1. Types'
    BY <1>7, LoopAssumption DEF RemoveFd, Types, Without
  <2>2. Opened'
    BY <1>7, LoopAssumption DEF RemoveFd, Opened, Registered, Without
  <2>3. ThreadPhase'
    BY <1>7, LoopAssumption DEF RemoveFd, ThreadPhase, Accepting, InCallback, Opened, Without
  <2>4. Woken'
    BY <1>7, LoopAssumption DEF RemoveFd, Woken, Opened, Registered, ThreadPhase, InCallback, Types, Without
  <2>5. Marked'
    BY <1>7, LoopAssumption DEF RemoveFd, Marked, Types, Without
  <2>6. NoOversleep'
    BY <1>7, LoopAssumption DEF RemoveFd, NoOversleep, Opened, Registered, Types, Without
  <2> QED BY <2>1, <2>2, <2>3, <2>4, <2>5, <2>6
<1>8. ASSUME NEW delay \in Delays, NEW periodic \in BOOLEAN,
             AddTimer(delay, periodic) PROVE IInv'
  <2>1. Types'
    <3> DEFINE t == [deadline |-> now + delay,
                     interval |-> IF periodic THEN delay ELSE 0,
                     cancelled |-> FALSE, executing |-> FALSE]
    <3>1. delay \in Nat /\ now + delay \in Nat
      BY LoopAssumption DEF Types
    <3>2. t \in Timer
      BY <3>1 DEF Timer
    <3>3. /\ timers' = Extended(timers, timer_ids + 1, t)
          /\ timer_ids' = timer_ids + 1
      BY <1>8 DEF AddTimer
    <3> HIDE DEF t
    <3>4. /\ DOMAIN timers' = DOMAIN timers \cup {timer_ids + 1}
          /\ \A id \in DOMAIN timers' : timers'[id] = IF id = timer_ids + 1
                                                    THEN t ELSE timers[id]
      BY <3>3 DEF Extended
    <3>5. \A id \in DOMAIN timers' : timers'[id] \in Timer
      BY <3>2, <3>4 DEF Types
    <3>6. DOMAIN timers' \subseteq 1..timer_ids'
      BY <3>3, <3>4 DEF Types
    <3>7. timer_fd' \in Nat
      <4>1. \A id \in DOMAIN timers' : timers'[id].deadline \in Nat
        BY <3>5 DEF Timer
      <4> QED BY <1>8, <4>1, NextWakeupBound DEF AddTimer, Types
    <3>8. cancelled' \subseteq 1..timer_ids'
      BY <1>8, <3>3 DEF AddTimer, Types
    <3>9. timer_ids' \in Nat
      BY <3>3 DEF Types
    <3> QED BY <1>8, <3>5, <3>6, <3>7, <3>8, <3>9 DEF AddTimer, Types
  <2>2. Opened'
    BY <1>8, LoopAssumption DEF AddTimer, Opened, Registered, Accepting, Extended, Timer
  <2>3. ThreadPhase'
    BY <1>8, LoopAssumption DEF AddTimer, ThreadPhase, Accepting, InCallback, Opened, Extended, Timer
  <2>4. Woken'
    BY <1>8, LoopAssumption DEF AddTimer, Woken, Opened, Registered, ThreadPhase, InCallback, Types, Extended, Timer
  <2>5. Marked'
    BY <1>8, LoopAssumption DEF AddTimer, Marked, Types, Extended, Timer
  <2>6. NoOversleep'
    <3>1. \A id \in DOMAIN timers' : timers'[id].deadline \in Nat
      BY <2>1 DEF Types, Timer
    <3>2. timer_fd' = NextWakeup(timers') /\ now' = now /\ now \in Nat
      BY <1>8 DEF AddTimer, Types
    <3> QED BY <3>1, <3>2, NextWakeupBound DEF NoOversleep
  <2> QED BY <2>1, <2>2, <2>3, <2>4, <2>5, <2>6
<1>9. ASSUME NEW id \in DOMAIN timers, CancelTimer(id) PROVE IInv'
  <2>1. Types'
    <3>1. timers[id] \in Timer
      BY DEF Types
    <3>2. /\ DOMAIN timers' \subseteq DOMAIN timers
          /\ \A i \in DOMAIN timers' :
                timers'[i] = timers[i]
                \/ timers'[i] = [timers[i] EXCEPT !.cancelled = TRUE]
      BY <1>9 DEF CancelTimer, Without
    <3>3. \A i \in DOMAIN timers' : timers'[i] \in Timer
      BY <3>2 DEF Types, Timer
    <3>4. timer_fd' \in Nat
      <4>1. \A i \in DOMAIN timers' : timers'[i].deadline \in Nat
        BY <3>3 DEF Timer
      <4> QED BY <1>9, <4>1, NextWakeupBound DEF CancelTimer, Types
    <3> QED BY <1>9, <3>2, <3>3, <3>4 DEF CancelTimer, Types
  <2>2. Opened'
    BY <1>9, LoopAssumption DEF CancelTimer, Opened, Registered, Without, Timer
  <2>3. ThreadPhase'
    BY <1>9, LoopAssumption DEF CancelTimer, ThreadPhase, Accepting, InCallback, Opened, Without, Timer
  <2>4. Woken'
    BY <1>9, LoopAssumption DEF CancelTimer, Woken, Opened, Registered, ThreadPhase, InCallback, Types, Without, Timer
  <2>5. Marked'
    BY <1>9, LoopAssumption DEF CancelTimer, Marked, Types, Without, Timer
  <2>6. NoOversleep'
    <3>1. \A i \in DOMAIN timers' : timers'[i].deadline \in Nat
      BY <2>1 DEF Types, Timer
    <3>2. timer_fd' = NextWakeup(timers') /\ now' = now /\ now \in Nat
      BY <1>9 DEF CancelTimer, Types
    <3> QED BY <3>1, <3>2, NextWakeupBound DEF NoOversleep
  <2> QED BY <2>1, <2>2, <2>3, <2>4, <2>5, <2>6
<1>10. CASE Tick
  <2>1. Types'
    BY <1>10, LoopAssumption DEF Tick, Types
  <2>2. Opened'
    BY <1>10, LoopAssumption DEF Tick, Opened, Registered
  <2>3. ThreadPhase'
    BY <1>10, LoopAssumption DEF Tick, ThreadPhase, Accepting, InCallback, Opened
  <2>4. Woken'
    BY <1>10, LoopAssumption DEF Tick, Woken, Opened, Registered, ThreadPhase, InCallback, Types
  <2>5. Marked'
    BY <1>10, LoopAssumption DEF Tick, Marked, Types
  <2>6. NoOversleep'
    BY <1>10, LoopAssumption DEF Tick, NoOversleep, Opened, Registered, Types
  <2> QED BY <2>1, <2>2, <2>3, <2>4, <2>5, <2>6
<1>11. CASE StopNotify
  <2>1. Types'
    BY <1>11, LoopAssumption DEF StopNotify, Types, Notified
  <2>2. Opened'
    BY <1>11, LoopAssumption DEF StopNotify, Opened, Registered, Notified
  <2>3. ThreadPhase'
    BY <1>11, LoopAssumption DEF StopNotify, ThreadPhase, Accepting, InCallback, Opened, Notified
  <2>4. Woken'
    BY <1>11, LoopAssumption DEF StopNotify, Woken, Opened, Registered, ThreadPhase, InCallback, Types, Notified
  <2>5. Marked'
    BY <1>11, LoopAssumption DEF StopNotify, Marked, Types, Notified
  <2>6. NoOversleep'
    BY <1>11, LoopAssumption DEF StopNotify, NoOversleep, Opened, Registered, Types, Notified
  <2> QED BY <2>1, <2>2, <2>3, <2>4, <2>5, <2>6
<1>12. CASE StopJoin
  <2>1. Types'
    BY <1>12, LoopAssumption DEF StopJoin, Types
  <2>2. Opened'
    BY <1>12, LoopAssumption DEF StopJoin, Opened, Registered
  <2>3. ThreadPhase'
    BY <1>12, LoopAssumption DEF StopJoin, ThreadPhase, Accepting, InCallback, Opened
  <2>4. Woken'
    BY <1>12, LoopAssumption DEF StopJoin, Woken, Opened, Registered, ThreadPhase, InCallback, Types
  <2>5. Marked'
    BY <1>12, LoopAssumption DEF StopJoin, Marked, Types
  <2>6. NoOversleep'
    BY <1>12, LoopAssumption DEF StopJoin, NoOversleep, Opened, Registered, Types
  <2> QED BY <2>1, <2>2, <2>3, <2>4, <2>5, <2>6
<1>13. CASE StopCleanup
  <2>1. Types'
    <3>1. <<>> \in Seq(Nat) /\ DOMAIN EmptyMap = {}
      BY DEF EmptyMap
    <3> QED BY <1>13, <3>1 DEF StopCleanup, Types, CleanupLocked
  <2>2. Opened'
    BY <1>13, LoopAssumption DEF StopCleanup, Opened, Registered, CleanupLocked, EmptyMap
  <2>3. ThreadPhase'
    BY <1>13, LoopAssumption DEF StopCleanup, ThreadPhase, Accepting, InCallback, Opened, CleanupLocked, EmptyMap
  <2>4. Woken'
    BY <1>13, LoopAssumption DEF StopCleanup, Woken, Opened, Registered, ThreadPhase, InCallback, Types, CleanupLocked, EmptyMap
  <2>5. Marked'
    BY <1>13, LoopAssumption DEF StopCleanup, Marked, Types, CleanupLocked, EmptyMap
  <2>6. NoOversleep'
    BY <1>13, LoopAssumption DEF StopCleanup, NoOversleep, Opened, Registered, Types, CleanupLocked, EmptyMap
  <2> QED BY <2>1, <2>2, <2>3, <2>4, <2>5, <2>6
<1>14. CASE SelfStopNotify
  <2>1. Types'
    BY <1>14, LoopAssumption DEF SelfStopNotify, Types, Notified
  <2>2. Opened'
    BY <1>14, LoopAssumption DEF SelfStopNotify, Opened, Registered, Notified
  <2>3. ThreadPhase'
    BY <1>14, LoopAssumption DEF SelfStopNotify, ThreadPhase, Accepting, InCallback, Opened, Notified
  <2>4. Woken'
    BY <1>14, LoopAssumption DEF SelfStopNotify, Woken, Opened, Registered, ThreadPhase, InCallback, Types, Notified
  <2>5. Marked'
    BY <1>14, LoopAssumption DEF SelfStopNotify, Marked, Types, Notified
  <2>6. NoOversleep'
    BY <1>14, LoopAssumption DEF SelfStopNotify, NoOversleep, Opened, Registered, Types, Notified
  <2> QED BY <2>1, <2>2, <2>3, <2>4, <2>5, <2>6
<1>15. CASE SelfStopCleanup
  <2>1. Types'
    <3>1. <<>> \in Seq(Nat) /\ DOMAIN EmptyMap = {}
      BY DEF EmptyMap
    <3> QED BY <1>15, <3>1 DEF SelfStopCleanup, Types, CleanupLocked
  <2>2. Opened'
    BY <1>15, LoopAssumption DEF SelfStopCleanup, Opened, Registered, CleanupLocked, EmptyMap
  <2>3. ThreadPhase'
    BY <1>15, LoopAssumption DEF SelfStopCleanup, ThreadPhase, Accepting, InCallback, Opened, CleanupLocked, EmptyMap
  <2>4. Woken'
    BY <1>15, LoopAssumption DEF SelfStopCleanup, Woken, Opened, Registered, ThreadPhase, InCallback, Types, CleanupLocked, EmptyMap
  <2>5. Marked'
    BY <1>15, LoopAssumption DEF SelfStopCleanup, Marked, Types, CleanupLocked, EmptyMap
  <2>6. NoOversleep'
    BY <1>15, LoopAssumption DEF SelfStopCleanup, NoOversleep, Opened, Registered, Types, CleanupLocked, EmptyMap
  <2> QED BY <2>1, <2>2, <2>3, <2>4, <2>5, <2>6
<1>16. CASE Check
  <2>1. Types'
    BY <1>16, LoopAssumption DEF Check, Types
  <2>2. Opened'
    BY <1>16, LoopAssumption DEF Check, Opened, Registered
  <2>3. ThreadPhase'
    BY <1>16, LoopAssumption DEF Check, ThreadPhase, Accepting, InCallback, Opened
  <2>4. Woken'
    BY <1>16, LoopAssumption DEF Check, Woken, Opened, Registered, ThreadPhase, InCallback, Types
  <2>5. Marked'
    BY <1>16, LoopAssumption DEF Check, Marked, Types
  <2>6. NoOversleep'
    BY <1>16, LoopAssumption DEF Check, NoOversleep, Opened, Registered, Types
  <2> QED BY <2>1, <2>2, <2>3, <2>4, <2>5, <2>6
<1>17. CASE EpollWait
  <2>1. Types'
    BY <1>17, LoopAssumption DEF EpollWait, Types, EpollClosed
  <2>2. Opened'
    BY <1>17, LoopAssumption DEF EpollWait, Opened, Registered, EpollClosed
  <2>3. ThreadPhase'
    BY <1>17, LoopAssumption DEF EpollWait, ThreadPhase, Accepting, InCallback, Opened, EpollClosed
  <2>4. Woken'
    BY <1>17, LoopAssumption DEF EpollWait, Woken, Opened, Registered, ThreadPhase, InCallback, Types, EpollClosed
  <2>5. Marked'
    BY <1>17, LoopAssumption DEF EpollWait, Marked, Types, EpollClosed
  <2>6. NoOversleep'
    BY <1>17, LoopAssumption DEF EpollWait, NoOversleep, Opened, Registered, Types, EpollClosed
  <2> QED BY <2>1, <2>2, <2>3, <2>4, <2>5, <2>6
<1>18. ASSUME NEW e \in events, Dispatch(e) PROVE IInv'
  <2>1. Types'
    BY <1>18, LoopAssumption DEF Dispatch, Types, Expired
  <2>2. Opened'
    BY <1>18, LoopAssumption DEF Dispatch, Opened, Registered, Expired
  <2>3. ThreadPhase'
    BY <1>18, LoopAssumption DEF Dispatch, ThreadPhase, Accepting, InCallback, Opened, Expired
  <2>4. Woken'
    BY <1>18, LoopAssumption DEF Dispatch, Woken, Opened, Registered, ThreadPhase, InCallback, Types, Expired
  <2>5. Marked'
    BY <1>18, LoopAssumption DEF Dispatch, Marked, Types, Expired
  <2>6. NoOversleep'
    BY <1>18, LoopAssumption DEF Dispatch, NoOversleep, Opened, Registered, Types, Expired
  <2> QED BY <2>1, <2>2, <2>3, <2>4, <2>5, <2>6
<1>19. CASE Dispatched
  <2>1. Types'
    BY <1>19, LoopAssumption DEF Dispatched, Types
  <2>2. Opened'
    BY <1>19, LoopAssumption DEF Dispatched, Opened, Registered
  <2>3. ThreadPhase'
    BY <1>19, LoopAssumption DEF Dispatched, ThreadPhase, Accepting, InCallback, Opened
  <2>4. Woken'
    BY <1>19, LoopAssumption DEF Dispatched, Woken, Opened, Registered, ThreadPhase, InCallback, Types
  <2>5. Marked'
    BY <1>19, LoopAssumption DEF Dispatched, Marked, Types
  <2>6. NoOversleep'
    BY <1>19, LoopAssumption DEF Dispatched, NoOversleep, Opened, Registered, Types
  <2> QED BY <2>1, <2>2, <2>3, <2>4, <2>5, <2>6
<1>20. CASE HandlerReturns
  <2>1. Types'
    BY <1>20, LoopAssumption DEF HandlerReturns, Types
  <2>2. Opened'
    BY <1>20, LoopAssumption DEF HandlerReturns, Opened, Registered
  <2>3. ThreadPhase'
    BY <1>20, LoopAssumption DEF HandlerReturns, ThreadPhase, Accepting, InCallback, Opened
  <2>4. Woken'
    BY <1>20, LoopAssumption DEF HandlerReturns, Woken, Opened, Registered, ThreadPhase, InCallback, Types
  <2>5. Marked'
    BY <1>20, LoopAssumption DEF HandlerReturns, Marked, Types
  <2>6. NoOversleep'
    BY <1>20, LoopAssumption DEF HandlerReturns, NoOversleep, Opened, Registered, Types
  <2> QED BY <2>1, <2>2, <2>3, <2>4, <2>5, <2>6
<1>21. CASE CollectTimers
  <2>1. Types'
    BY <1>21, LoopAssumption DEF CollectTimers, Types
  <2>2. Opened'
    BY <1>21, LoopAssumption DEF CollectTimers, Opened, Registered
  <2>3. ThreadPhase'
    BY <1>21, LoopAssumption DEF CollectTimers, ThreadPhase, Accepting, InCallback, Opened
  <2>4. Woken'
    BY <1>21, LoopAssumption DEF CollectTimers, Woken, Opened, Registered, ThreadPhase, InCallback, Types
  <2>5. Marked'
    BY <1>21, LoopAssumption DEF CollectTimers, Marked, Types
  <2>6. NoOversleep'
    BY <1>21, LoopAssumption DEF CollectTimers, NoOversleep, Opened, Registered, Types
  <2> QED BY <2>1, <2>2, <2>3, <2>4, <2>5, <2>6
<1>22. ASSUME NEW id \in ready, VisitTimer(id) PROVE IInv'
  <2>1. Types'
    <3>1. /\ DOMAIN timers' = DOMAIN timers
          /\ \A i \in DOMAIN timers :
                timers'[i] = timers[i]
                \/ timers'[i] = [timers[i] EXCEPT !.executing = TRUE]
      BY <1>22 DEF VisitTimer, Due
    <3>2. \A i \in DOMAIN timers' : timers'[i] \in Timer
      BY <3>1 DEF Types, Timer
    <3> QED BY <1>22, <3>1, <3>2 DEF VisitTimer, Types
  <2>2. Opened'
    BY <1>22, LoopAssumption DEF VisitTimer, Opened, Registered, Due, Timer
  <2>3. ThreadPhase'
    BY <1>22, LoopAssumption DEF VisitTimer, ThreadPhase, Accepting, InCallback, Opened, Due, Timer
  <2>4. Woken'
    BY <1>22, LoopAssumption DEF VisitTimer, Woken, Opened, Registered, ThreadPhase, InCallback, Types, Due, Timer
  <2>5. Marked'
    BY <1>22, LoopAssumption DEF VisitTimer, Marked, Types, Due, Timer
  <2>6. NoOversleep'
    BY <1>22, LoopAssumption DEF VisitTimer, NoOversleep, Opened, Registered, Types, Due, Timer
  <2> QED BY <2>1, <2>2, <2>3, <2>4, <2>5, <2>6
<1>23. CASE TimerReturns
  <2>1. Types'
    <3>1. /\ DOMAIN timers' \subseteq DOMAIN timers
          /\ \A i \in DOMAIN timers' :
                timers'[i] = timers[i]
                \/ timers'[i] = [timers[i] EXCEPT !.executing = FALSE,
                                   !.deadline = now + timers[i].interval]
      BY <1>23 DEF TimerReturns, Without
    <3>2. \A i \in DOMAIN timers : now + timers[i].interval \in Nat
      BY DEF Types, Timer
    <3>3. ASSUME NEW i \in DOMAIN timers' PROVE timers'[i] \in Timer
      <4>1. timers[i] \in Timer /\ now + timers[i].interval \in Nat
        BY <3>1, <3>2 DEF Types
      <4>2. [timers[i] EXCEPT !.executing = FALSE,
                              !.deadline = now + timers[i].interval] \in Timer
        BY <4>1 DEF Timer
      <4> QED BY <3>1, <4>1, <4>2
    <3> QED BY <1>23, <3>1, <3>3 DEF TimerReturns, Types
  <2>2. Opened'
    BY <1>23, LoopAssumption DEF TimerReturns, Opened, Registered, Without, Timer
  <2>3. ThreadPhase'
    BY <1>23, LoopAssumption DEF TimerReturns, ThreadPhase, Accepting, InCallback, Opened, Without, Timer
  <2>4. Woken'
    BY <1>23, LoopAssumption DEF TimerReturns, Woken, Opened, Registered, ThreadPhase, InCallback, Types, Without, Timer
  <2>5. Marked'
    BY <1>23, LoopAssumption DEF TimerReturns, Marked, Types, Without, Timer
  <2>6. NoOversleep'
    BY <1>23, LoopAssumption DEF TimerReturns, NoOversleep, Opened, Registered, Types, Without, Timer
  <2> QED BY <2>1, <2>2, <2>3, <2>4, <2>5, <2>6
<1>24. CASE TimersDone
  <2>1. Types'
    <3>1. \A i \in DOMAIN timers : timers[i].deadline \in Nat
      BY DEF Types, Timer
    <3>2. NextWakeup(timers) \in Nat
      BY <3>1, NextWakeupBound DEF Types
    <3> QED BY <1>24, <3>2 DEF TimersDone, Types
  <2>2. Opened'
    BY <1>24, LoopAssumption DEF TimersDone, Opened, Registered, EpollClosed
  <2>3. ThreadPhase'
    BY <1>24, LoopAssumption DEF TimersDone, ThreadPhase, Accepting, InCallback, Opened, EpollClosed
  <2>4. Woken'
    BY <1>24, LoopAssumption DEF TimersDone, Woken, Opened, Registered, ThreadPhase, InCallback, Types, EpollClosed
  <2>5. Marked'
    BY <1>24, LoopAssumption DEF TimersDone, Marked, Types, EpollClosed
  <2>6. NoOversleep'
    <3>1. CASE EpollClosed
      BY <1>24, <3>1 DEF TimersDone, NoOversleep, Opened, Registered, EpollClosed
    <3>2. CASE ~EpollClosed
      <4>1. \A i \in DOMAIN timers : timers[i].deadline \in Nat
        BY DEF Types, Timer
      <4>2. /\ timer_fd' = NextWakeup(timers) /\ now' = now /\ now \in Nat
            /\ timers' = timers
        BY <1>24, <3>2 DEF TimersDone, Types
      <4> QED BY <4>1, <4>2, NextWakeupBound DEF NoOversleep
    <3> QED BY <3>1, <3>2
  <2> QED BY <2>1, <2>2, <2>3, <2>4, <2>5, <2>6
<1>25. CASE SwapTasks
  <2>1. Types'
    BY <1>25, LoopAssumption DEF SwapTasks, Types
  <2>2. Opened'
    BY <1>25, LoopAssumption DEF SwapTasks, Opened, Registered
  <2>3. ThreadPhase'
    BY <1>25, LoopAssumption DEF SwapTasks, ThreadPhase, Accepting, InCallback, Opened
  <2>4. Woken'
    BY <1>25, LoopAssumption DEF SwapTasks, Woken, Opened, Registered, ThreadPhase, InCallback, Types
  <2>5. Marked'
    BY <1>25, LoopAssumption DEF SwapTasks, Marked, Types
  <2>6. NoOversleep'
    BY <1>25, LoopAssumption DEF SwapTasks, NoOversleep, Opened, Registered, Types
  <2> QED BY <2>1, <2>2, <2>3, <2>4, <2>5, <2>6
<1>26. CASE TaskBegin
  <2>1. Types'
    BY <1>26, LoopAssumption DEF TaskBegin, Types
  <2>2. Opened'
    BY <1>26, LoopAssumption DEF TaskBegin, Opened, Registered
  <2>3. ThreadPhase'
    BY <1>26, LoopAssumption DEF TaskBegin, ThreadPhase, Accepting, InCallback, Opened
  <2>4. Woken'
    BY <1>26, LoopAssumption DEF TaskBegin, Woken, Opened, Registered, ThreadPhase, InCallback, Types
  <2>5. Marked'
    BY <1>26, LoopAssumption DEF TaskBegin, Marked, Types
  <2>6. NoOversleep'
    BY <1>26, LoopAssumption DEF TaskBegin, NoOversleep, Opened, Registered, Types
  <2> QED BY <2>1, <2>2, <2>3, <2>4, <2>5, <2>6
<1>27. CASE TaskReturns
  <2>1. Types'
    BY <1>27, LoopAssumption DEF TaskReturns, Types
  <2>2. Opened'
    BY <1>27, LoopAssumption DEF TaskReturns, Opened, Registered
  <2>3. ThreadPhase'
    BY <1>27, LoopAssumption DEF TaskReturns, ThreadPhase, Accepting, InCallback, Opened
  <2>4. Woken'
    BY <1>27, LoopAssumption DEF TaskReturns, Woken, Opened, Registered, ThreadPhase, InCallback, Types
  <2>5. Marked'
    BY <1>27, LoopAssumption DEF TaskReturns, Marked, Types
  <2>6. NoOversleep'
    BY <1>27, LoopAssumption DEF TaskReturns, NoOversleep, Opened, Registered, Types
  <2> QED BY <2>1, <2>2, <2>3, <2>4, <2>5, <2>6
<1>28. CASE TasksDone
  <2>1. Types'
    BY <1>28, LoopAssumption DEF TasksDone, Types
  <2>2. Opened'
    BY <1>28, LoopAssumption DEF TasksDone, Opened, Registered
  <2>3. ThreadPhase'
    BY <1>28, LoopAssumption DEF TasksDone, ThreadPhase, Accepting, InCallback, Opened
  <2>4. Woken'
    BY <1>28, LoopAssumption DEF TasksDone, Woken, Opened, Registered, ThreadPhase, InCallback, Types
  <2>5. Marked'
    BY <1>28, LoopAssumption DEF TasksDone, Marked, Types
  <2>6. NoOversleep'
    BY <1>28, LoopAssumption DEF TasksDone, NoOversleep, Opened, Registered, Types
  <2> QED BY <2>1, <2>2, <2>3, <2>4, <2>5, <2>6
<1>29. CASE UNCHANGED vars
  BY <1>29 DEF vars, Types, Opened, ThreadPhase, Woken, Marked, NoOversleep,
     Registered, Accepting, InCallback
<1> QED
  BY <1>1, <1>2, <1>3, <1>4, <1>5, <1>6, <1>7, <1>8, <1>9, <1>10, <1>11, <1>12, <1>13, <1>14, <1>15, <1>16, <1>17, <1>18, <1>19, <1>20, <1>21, <1>22, <1>23, <1>24, <1>25, <1>26, <1>27, <1>28, <1>29
     DEF Next, LoopStep, StopStep, ApiStep

\* The inductive invariant holds of every behaviour of the loop (event_loop.cpp).
THEOREM Invariance == Spec => []IInv
<1>1. Init => IInv
  BY InitEstablishes
<1>2. IInv /\ [Next]_vars => IInv'
  BY StepPreserves
<1> QED BY <1>1, <1>2, PTL DEF Spec

-----------------------------------------------------------------------------
(* The theorems. *)

\* No task and no stop request is ever left behind in a loop that sleeps in
\* epoll_wait.
THEOREM NoLostWakeupHolds == Spec => []NoLostWakeup
<1>1. IInv => NoLostWakeup
  BY DEF IInv, Woken, Opened, NoLostWakeup, EpollClosed
<1> QED BY <1>1, Invariance, PTL

\* The timeout given to epoll_wait is never later than the earliest deadline,
\* also when AddTimer() runs while the loop already sleeps.
THEOREM NoOversleepHolds == Spec => []NoOversleep
<1>1. IInv => NoOversleep
  BY DEF IInv
<1> QED BY <1>1, Invariance, PTL

\* When the owner's Stop() cleans up, the thread has ended and every accepted
\* task has run.
THEOREM StopIsFinalHolds == Spec => []StopIsFinal
<1>1. IInv => StopIsFinal
  BY DEF IInv, ThreadPhase, StopIsFinal
<1> QED BY <1>1, Invariance, PTL

\* A timer for which CancelTimer() returned true is never begun again.
THEOREM CancelIsFinalHolds == Spec => CancelIsFinal
<1>1. IInv /\ [Next]_vars => [pc # "timer" /\ pc' = "timer" => cur' \notin cancelled]_vars
  <2> SUFFICES ASSUME IInv, Next, pc # "timer", pc' = "timer"
               PROVE  cur' \notin cancelled
    OBVIOUS
  <2>1. PICK id \in ready : VisitTimer(id)
    BY DEF Next, LoopStep, StopStep, ApiStep, Tick, Start, Post, PostNotify,
       StopBegin, SelfStopBegin, AddFd, RemoveFd, AddTimer, CancelTimer,
       StopNotify, StopJoin, StopCleanup, SelfStopNotify, SelfStopCleanup,
       Check, EpollWait, Dispatch, Dispatched, HandlerReturns, CollectTimers,
       TimerReturns, TimersDone, SwapTasks, TaskBegin, TaskReturns, TasksDone,
       loopVars
  <2>2. Due(id) /\ cur' = id
    BY <2>1 DEF VisitTimer
  <2> QED BY <2>2 DEF Due, IInv, Marked
<1> QED BY <1>1, Invariance, PTL DEF Spec, CancelIsFinal

-----------------------------------------------------------------------------
(* The loop is a serial queue. *)

\* Sequences: appending to the right of a concatenation, taking from its left.
LEMMA ConcatAppend ==
    ASSUME NEW a \in Seq(Nat), NEW b \in Seq(Nat), NEW t \in Nat
    PROVE  a \o Append(b, t) = Append(a \o b, t)
OBVIOUS

\* Taking the head of the batch is taking the head of what is pending.
LEMMA ConcatTail ==
    ASSUME NEW a \in Seq(Nat), NEW b \in Seq(Nat), a # <<>>
    PROVE  /\ a \o b # <<>>
           /\ Head(a \o b) = Head(a)
           /\ Tail(a \o b) = Tail(a) \o b
OBVIOUS

\* The batch is the beginning of what is pending.
LEMMA ConcatPrefix ==
    ASSUME NEW a \in Seq(Nat), NEW b \in Seq(Nat)
    PROVE  /\ Len(a) \in 0..Len(a \o b)
           /\ a \o <<>> = a /\ <<>> \o a = a
           /\ a = SubSeq(a \o b, 1, Len(a))
           /\ a \o b = SubSeq(a \o b, 1, Len(a \o b))
           /\ Len(a \o b) \in 0..Len(a \o b)
OBVIOUS

\* Steps that change neither the queue, nor what is being run, nor whether
\* Post() accepts.
LEMMA QuietStep ==
    ASSUME /\ batch' = batch /\ tasks' = tasks
           /\ running' = running /\ stopping' = stopping,
           \/ pc' = pc /\ cur' = cur
           \/ pc # "task" /\ pc' # "task"
    PROVE  UNCHANGED Abstract!queueVars
BY DEF Abstract!queueVars, Accepting

\* Every run of the loop is a run of the serial queue: accepted tasks are begun
\* one at a time, in the order Post() accepted them, none twice, and only a
\* closing loop drops any.
THEOREM RefinesLoopQueue == Spec => ImplementsLoopQueue
<1>1. Init => Abstract!Init
  BY DEF Init, Abstract!Init, Accepting
<1>2. IInv /\ [Next]_vars => [Abstract!Next]_(Abstract!queueVars)
  <2> SUFFICES ASSUME IInv, [Next]_vars
               PROVE  Abstract!Next \/ UNCHANGED Abstract!queueVars
    OBVIOUS
  <2> DEFINE pending == batch \o tasks
  <2>0. /\ tasks \in Seq(Nat) /\ batch \in Seq(Nat) /\ posted \in Nat
        /\ pc \notin {"run", "task"} => batch = <<>>
    BY DEF IInv, Types, ThreadPhase
  <2>1. CASE Start
    <3>1. pc # "task" /\ ~Accepting
      BY <2>1 DEF Start, IInv, ThreadPhase, Accepting
    <3>2. Abstract!Open
      BY <2>1, <3>1 DEF Start, Abstract!Open, Accepting
    <3> QED BY <3>2 DEF Abstract!Next
  <2>2. CASE Post
    <3>1. posted + 1 \in 1..MaxPosts /\ posted + 1 \in Nat
      BY <2>0, <2>2, LoopAssumption DEF Post
    <3>2. batch \o Append(tasks, posted + 1) = Append(batch \o tasks, posted + 1)
      BY <2>0, <3>1, ConcatAppend
    <3>3. Abstract!Accept(posted + 1)
      BY <2>2, <3>2 DEF Post, Abstract!Accept, Accepting, ctlVars, loopVars
    <3> QED BY <3>1, <3>3 DEF Abstract!Next
  <2>3. CASE SwapTasks
    <3>1. batch = <<>> /\ batch' = tasks /\ tasks' = <<>> /\ pc = "tasks" /\ pc' = "run"
      BY <2>0, <2>3 DEF SwapTasks
    <3>2. batch' \o tasks' = batch \o tasks
      BY <2>0, <3>1, ConcatPrefix
    <3> QED BY <2>3, <3>1, <3>2 DEF SwapTasks, Abstract!queueVars, Accepting, ctlVars
  <2>4. CASE TaskBegin
    <3>1. batch # <<>> /\ cur' = Head(batch) /\ batch' = Tail(batch) /\ tasks' = tasks
          /\ pc = "run" /\ pc' = "task"
      BY <2>4 DEF TaskBegin, apiVars
    <3>2. /\ batch \o tasks # <<>>
          /\ Head(batch \o tasks) = cur'
          /\ Tail(batch \o tasks) = batch' \o tasks'
      BY <2>0, <3>1, ConcatTail
    <3>3. Abstract!Begin
      BY <2>4, <3>1, <3>2 DEF TaskBegin, Abstract!Begin, Accepting, ctlVars
    <3> QED BY <3>3 DEF Abstract!Next
  <2>5. CASE TaskReturns
    <3>1. Abstract!End
      BY <2>5 DEF TaskReturns, Abstract!End, Accepting, ctlVars, apiVars
    <3> QED BY <3>1 DEF Abstract!Next
  <2>6. CASE StopBegin \/ SelfStopBegin
    <3>1. batch' = batch /\ tasks' = tasks /\ stopping' = TRUE /\ pc' = pc /\ cur' = cur
      BY <2>6 DEF StopBegin, SelfStopBegin, loopVars, apiVars
    <3>2. Abstract!Close(Len(batch \o tasks))
      BY <2>0, <3>1, ConcatPrefix DEF Abstract!Close, Accepting
    <3>3. Len(batch \o tasks) \in 0..Len(batch \o tasks)
      BY <2>0, ConcatPrefix
    <3> QED BY <3>2, <3>3 DEF Abstract!Next
  <2>7. CASE StopCleanup \/ SelfStopCleanup
    <3>1. batch' = batch /\ tasks' = <<>> /\ running' = FALSE /\ pc' = pc /\ cur' = cur
      BY <2>7 DEF StopCleanup, SelfStopCleanup, CleanupLocked, loopVars
    <3>2. Abstract!Close(Len(batch))
      BY <2>0, <3>1, ConcatPrefix DEF Abstract!Close, Accepting
    <3>3. Len(batch) \in 0..Len(batch \o tasks)
      BY <2>0, ConcatPrefix
    <3> QED BY <3>2, <3>3 DEF Abstract!Next
  <2>8. CASE \/ PostNotify \/ Tick \/ StopNotify \/ StopJoin \/ SelfStopNotify
             \/ \E fd \in Fds : AddFd(fd) \/ RemoveFd(fd)
             \/ \E delay \in Delays, periodic \in BOOLEAN : AddTimer(delay, periodic)
             \/ \E id \in DOMAIN timers : CancelTimer(id)
             \/ UNCHANGED vars
    <3>1. /\ batch' = batch /\ tasks' = tasks /\ running' = running
          /\ stopping' = stopping /\ pc' = pc /\ cur' = cur
      BY <2>8 DEF PostNotify, Tick, StopNotify, StopJoin, SelfStopNotify, AddFd,
         RemoveFd, AddTimer, CancelTimer, vars, apiVars, loopVars, ctlVars, cntVars
    <3> QED BY <3>1, QuietStep
  <2>9. CASE \/ Check \/ EpollWait \/ (\E e \in events : Dispatch(e)) \/ Dispatched
             \/ HandlerReturns \/ CollectTimers \/ (\E id \in ready : VisitTimer(id))
             \/ TimerReturns \/ TimersDone \/ TasksDone
    <3>1. /\ batch' = batch /\ tasks' = tasks /\ running' = running
          /\ stopping' = stopping /\ pc # "task" /\ pc' # "task"
      BY <2>9 DEF Check, EpollWait, Dispatch, Dispatched, HandlerReturns,
         CollectTimers, VisitTimer, TimerReturns, TimersDone, TasksDone, apiVars,
         ctlVars
    <3> QED BY <3>1, QuietStep
  <2> QED
    BY <2>1, <2>2, <2>3, <2>4, <2>5, <2>6, <2>7, <2>8, <2>9
    DEF Next, LoopStep, StopStep, ApiStep
<1> QED
  BY <1>1, <1>2, Invariance, PTL DEF Spec, ImplementsLoopQueue, Abstract!Spec
=============================================================================
