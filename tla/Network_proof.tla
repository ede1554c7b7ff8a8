---------------------------- MODULE Network_proof ----------------------------
(***************************************************************************)
(* The TCP sessions and the network statistics of socket_io, for any       *)
(* limits, thresholds and numbers of connections, buffers and tasks.       *)
(***************************************************************************)
EXTENDS TcpSessions, NetStat, Minimum, FiniteSetTheorems, SequenceTheorems, TLAPS

Buffers == 1 .. SendBufferLimit
Reasons == {"open", "flushed", "kNormal", "kRemoteClose", "kInternalError", "kReadTimeout",
            "kWriteTimeout", "kSendStall", "kQueueFull", "kPendingLimit"}
SessionRecords ==
    [queue : Seq(Buffers), pending_bytes : Nat, closed : BOOLEAN, close_after_send : BOOLEAN,
     epollout : BOOLEAN, started : BOOLEAN, reason : Reasons, asked : BOOLEAN,
     accepted : Nat, promised : Nat, written : Nat]
TaskRecords == [op : {"send", "close", "close_after"}, id : Nat, n : Nat]
CallbackRecords == [name : {"accept", "read", "close"}, id : Nat]

\* A session by itself: its byte count, its limits, and what it promised.
SessionOK(s) ==
    /\ s \in SessionRecords
    /\ s.pending_bytes = Total(s.queue)
    /\ s.pending_bytes <= SendBufferLimit
    /\ Len(s.queue) <= SendQueueCapacity
    /\ ~s.closed => s.reason = "open"
    /\ s.reason = "flushed" => s.promised <= s.written
    /\ s.promised <= s.accepted
    /\ s.close_after_send => s.asked
    /\ s.close_after_send /\ ~s.closed => s.promised <= s.written + s.pending_bytes

\* The shapes of the variables.
Shape ==
    /\ sessions \in Seq(SessionRecords)
    /\ delivered \in Seq(Seq({"accept", "read", "close"})) /\ Len(delivered) = Len(sessions)
    /\ next_id = Len(sessions) + 1
    /\ connections \subseteq Ids /\ IsFiniteSet(connections)
    /\ Cardinality(connections) <= MaxConnections
    /\ closing \subseteq Ids
    /\ callbacks \in Seq(CallbackRecords) /\ Len(callbacks) <= CallbackCapacity
    /\ \A i \in DOMAIN callbacks : callbacks[i].id \in Ids

\* Where the loop thread and StopInternal() are.
Control ==
    /\ at = Nothing \/ /\ at \in [in : {"accept", "started", "write"}, id : Ids]
                       /\ ~sessions[at.id].closed
                       /\ loop # "down"
    /\ at.in = "accept" => at.id \in connections /\ ~sessions[at.id].started
    /\ loop \in {"up", "stopping", "down"}
    /\ stop \in {"idle", "closing", "loops", "done"}
    /\ stop \in {"idle", "closing"} => loop = "up"
    /\ stop = "done" => loop = "down"

\* The bytes a posted task adds to the output of session id.
Adds(t, id) == IF t.op = "send" /\ t.id = id THEN t.n ELSE 0

\* w counts the bytes that will have been queued for id once the first i tasks of
\* q ran: everything accepted by the end of q, everything promised by each
\* CloseAfterSend().
Course(s, q, id, w) ==
    /\ w \in [0 .. Len(q) -> Nat]
    /\ w[0] = s.written + s.pending_bytes
    /\ \A i \in 1 .. Len(q) : w[i] = w[i - 1] + Adds(q[i], id)
    /\ s.accepted <= w[Len(q)]
    /\ \A i \in 1 .. Len(q) : q[i].op = "close_after" /\ q[i].id = id => s.promised <= w[i]

\* What session id owes its callers when q is what has been posted.
Owes(s, q, id) ==
    /\ \A i \in 1 .. Len(q) : q[i].op = "close_after" /\ q[i].id = id => s.asked
    /\ ~s.closed /\ ~s.close_after_send => \E w : Course(s, q, id, w)

\* The posted tasks and the sessions they are for.
Posted ==
    /\ tasks \in Seq(TaskRecords) /\ Len(tasks) <= TaskCapacity
    /\ \A i \in DOMAIN tasks : tasks[i].id \in Ids /\ (tasks[i].op = "send" => tasks[i].n \in Sizes)
    /\ \A id \in Ids : Owes(sessions[id], tasks, id)

\* A close callback is the last of its connection, posted or delivered.
Told ==
    /\ \A i \in DOMAIN callbacks : callbacks[i].name = "close" =>
          /\ sessions[callbacks[i].id].closed
          /\ \A j \in DOMAIN callbacks : j > i => callbacks[j].id # callbacks[i].id
    /\ \A id \in Ids : \A i \in DOMAIN delivered[id] : delivered[id][i] = "close" =>
          /\ i = Len(delivered[id]) /\ sessions[id].closed
          /\ \A j \in DOMAIN callbacks : callbacks[j].id # id

Tables ==
    /\ Shape /\ Control /\ WriteArmed /\ TableAgrees /\ Told
    /\ \A id \in Ids : SessionOK(sessions[id])

TcpInv == Tables /\ Posted

-----------------------------------------------------------------------------
(* Sessions by themselves *)

\* The limits are positive numbers.
LEMMA TcpNumbers ==
    /\ Sizes \subseteq Nat \ {0}
    /\ MaxConnections \in Nat \ {0} /\ SendQueueCapacity \in Nat \ {0}
    /\ SendBufferLimit \in Nat \ {0} /\ TaskCapacity \in Nat \ {0}
    /\ CallbackCapacity \in Nat \ {0}
BY TcpAssumption

\* A queue of buffers is a queue of numbers.
LEMMA QueueOfNumbers ==
    ASSUME NEW q \in Seq(Buffers)
    PROVE  q \in Seq(Nat) /\ Total(q) \in Nat /\ Total(<<>>) = 0
<1>1. Buffers \subseteq Nat
  BY TcpNumbers DEF Buffers
<1>2. q \in [1 .. Len(q) -> Nat] /\ Len(q) \in Nat
  BY <1>1, LenProperties
<1>3. q \in Seq(Nat)
  BY <1>2
<1> QED BY <1>3, TotalType

\* A new session has sent and promised nothing.
LEMMA NewSessionOK == SessionOK(NewSession)
<1>1. <<>> \in Seq(Buffers) /\ Len(<<>>) = 0
  OBVIOUS
<1>2. Total(<<>>) = 0
  BY <1>1, QueueOfNumbers
<1>3. NewSession \in SessionRecords
  BY <1>1 DEF NewSession, SessionRecords, Reasons
<1> QED BY <1>1, <1>2, <1>3, TcpNumbers DEF SessionOK, NewSession

\* Closing empties the queue; it is a flush when everything promised was written.
LEMMA ClosedOK ==
    ASSUME NEW s, NEW r \in Reasons, SessionOK(s), r = "flushed" => s.promised <= s.written
    PROVE  /\ SessionOK(Closed(s, r)) /\ Closed(s, r).closed
           /\ Closed(s, r).asked = s.asked /\ Closed(s, r).started = s.started
<1>1. <<>> \in Seq(Buffers) /\ Len(<<>>) = 0
  OBVIOUS
<1>2. Total(<<>>) = 0
  BY <1>1, QueueOfNumbers
<1> DEFINE c == Closed(s, r)
<1>3. s \in SessionRecords
  BY DEF SessionOK
<1>4. c \in SessionRecords
  BY <1>1, <1>3 DEF SessionRecords, Closed
<1>5. /\ c.queue = <<>> /\ c.pending_bytes = 0 /\ c.closed = TRUE /\ c.reason = r
      /\ c.close_after_send = s.close_after_send /\ c.asked = s.asked
      /\ c.accepted = s.accepted /\ c.promised = s.promised /\ c.written = s.written
      /\ c.started = s.started
  BY <1>3 DEF SessionRecords, Closed
<1> HIDE DEF c
<1>6. SessionOK(c)
  BY <1>1, <1>2, <1>4, <1>5, TcpNumbers DEF SessionOK
<1> QED BY <1>5, <1>6 DEF c

\* EPOLLOUT has no part in the byte counts.
LEMMA SetEpolloutOK ==
    ASSUME NEW s, NEW on \in BOOLEAN, s \in SessionRecords
    PROVE  LET e == SetEpollout(s, on)
           IN  /\ e \in SessionRecords
               /\ e.queue = s.queue /\ e.pending_bytes = s.pending_bytes /\ e.closed = s.closed
               /\ e.close_after_send = s.close_after_send /\ e.started = s.started
               /\ e.reason = s.reason /\ e.asked = s.asked /\ e.accepted = s.accepted
               /\ e.promised = s.promised /\ e.written = s.written
               /\ loop = "up" => e.epollout = on
BY Zenon DEF SetEpollout, SessionRecords

\* A short or a full write moves bytes from the queue to the kernel.
LEMMA KernelTookOK ==
    ASSUME NEW s, NEW n \in Nat, SessionOK(s), s.queue # <<>>, n <= Head(s.queue)
    PROVE  LET k == KernelTook(s, n)
           IN  /\ SessionOK(k)
               /\ k.closed = s.closed /\ k.close_after_send = s.close_after_send
               /\ k.started = s.started /\ k.asked = s.asked /\ k.accepted = s.accepted
               /\ k.promised = s.promised
               /\ k.written + k.pending_bytes = s.written + s.pending_bytes
<1> DEFINE q == s.queue
           left == Head(q) - n
           rest == IF left = 0 THEN Tail(q) ELSE <<left>> \o Tail(q)
           k == KernelTook(s, n)
<1>1. s \in SessionRecords /\ q \in Seq(Buffers) /\ q # <<>>
  BY DEF SessionOK, SessionRecords
<1>2. q \in Seq(Nat) /\ Head(q) \in Buffers /\ Tail(q) \in Seq(Buffers)
      /\ Len(Tail(q)) = Len(q) - 1 /\ Len(q) \in Nat /\ Len(q) >= 1
  <2> HIDE DEF q
  <2> QED BY <1>1, QueueOfNumbers
<1>3. Head(q) \in Nat /\ Tail(q) \in Seq(Nat) /\ Total(q) = Head(q) + Total(Tail(q))
      /\ Total(Tail(q)) \in Nat
  <2> HIDE DEF q
  <2> QED BY <1>1, <1>2, TotalTail, QueueOfNumbers
<1>4. left \in 0 .. Head(q)
  <2> HIDE DEF q
  <2> QED BY <1>3 DEF q
<1>5. left # 0 => left \in Buffers
  <2> HIDE DEF q, left
  <2> QED BY <1>2, <1>4, TcpNumbers DEF Buffers
<1>6. rest \in Seq(Buffers) /\ Len(rest) <= Len(q) /\ Total(rest) = left + Total(Tail(q))
  <2>1. CASE left = 0
    <3> HIDE DEF q, left
    <3> QED BY <1>2, <1>3, <2>1
  <2>2. CASE left # 0
    <3>1. left \in Nat
      <4> HIDE DEF left, q
      <4> QED BY <1>3, <1>4
    <3>2. Total(<<left>> \o Tail(q)) = left + Total(Tail(q))
      <4> HIDE DEF left, q
      <4> QED BY <1>3, <3>1, TotalCons
    <3>3. <<left>> \o Tail(q) \in Seq(Buffers) /\ Len(<<left>> \o Tail(q)) = Len(q)
      <4> HIDE DEF left, q
      <4> QED BY <1>2, <1>5, <2>2
    <3> HIDE DEF left, q
    <3> QED BY <1>2, <2>2, <3>2, <3>3
  <2> QED BY <2>1, <2>2
<1>7. s.pending_bytes = Total(q) /\ s.pending_bytes \in Nat /\ s.written \in Nat
      /\ s.promised \in Nat /\ s.accepted \in Nat
  BY <1>1 DEF SessionOK, SessionRecords
<1>8. s.pending_bytes - n = Total(rest) /\ s.pending_bytes - n \in Nat
  <2> HIDE DEF rest, q
  <2>1. left = Head(q) - n
    OBVIOUS
  <2>2. left \in Nat /\ Total(Tail(q)) \in Nat /\ Head(q) \in Nat
    BY <1>3, <1>4
  <2>3. Total(q) - n = left + Total(Tail(q))
    BY <1>3, <2>2
  <2> HIDE DEF left
  <2> QED BY <1>6, <1>7, <2>2, <2>3
<1>9. k = [s EXCEPT !.queue = rest, !.pending_bytes = @ - n, !.written = @ + n]
  BY DEF KernelTook
<1>10. /\ k.queue = rest /\ k.pending_bytes = s.pending_bytes - n
       /\ k.written = s.written + n
       /\ k.closed = s.closed /\ k.close_after_send = s.close_after_send
       /\ k.started = s.started /\ k.asked = s.asked /\ k.accepted = s.accepted
       /\ k.promised = s.promised /\ k.reason = s.reason
  <2> HIDE DEF k, rest
  <2> QED BY <1>1, <1>9 DEF SessionRecords
<1>11. k \in SessionRecords
  <2>1. s.written + n \in Nat
    BY <1>7
  <2> HIDE DEF k, rest
  <2> QED BY <1>1, <1>6, <1>8, <1>9, <2>1 DEF SessionRecords
<1> HIDE DEF k, rest
<1>12. k.written + k.pending_bytes = s.written + s.pending_bytes
  BY <1>7, <1>8, <1>10
<1>13. k.pending_bytes <= SendBufferLimit /\ Len(k.queue) <= SendQueueCapacity
  <2>1. s.pending_bytes <= SendBufferLimit /\ Len(q) <= SendQueueCapacity
    BY DEF SessionOK
  <2>2. Len(rest) \in Nat
    BY <1>6
  <2> HIDE DEF q
  <2> QED BY <1>2, <1>6, <1>7, <1>8, <1>10, <2>1, <2>2, TcpNumbers
<1>14. k.reason = "flushed" => k.promised <= k.written
  <2>1. s.reason = "flushed" => s.promised <= s.written
    BY DEF SessionOK
  <2> QED BY <1>7, <1>10, <2>1
<1>15. SessionOK(k)
  BY <1>8, <1>10, <1>11, <1>12, <1>13, <1>14 DEF SessionOK
<1> QED BY <1>10, <1>12, <1>15 DEF k

\* A buffer within the limits joins the queue.
LEMMA EnqueuedOK ==
    ASSUME NEW s, NEW n \in Sizes, SessionOK(s), OverLimit(s, n) = "none"
    PROVE  LET e == Enqueued(s, n)
           IN  /\ SessionOK(e)
               /\ e.closed = s.closed /\ e.close_after_send = s.close_after_send
               /\ e.started = s.started /\ e.asked = s.asked /\ e.accepted = s.accepted
               /\ e.promised = s.promised
               /\ e.written + e.pending_bytes = s.written + s.pending_bytes + n
<1> DEFINE b == SetEpollout(s, TRUE)
           e == Enqueued(s, n)
<1>1. s \in SessionRecords
  BY DEF SessionOK
<1>2. /\ b \in SessionRecords
      /\ b.queue = s.queue /\ b.pending_bytes = s.pending_bytes /\ b.closed = s.closed
      /\ b.close_after_send = s.close_after_send /\ b.started = s.started
      /\ b.reason = s.reason /\ b.asked = s.asked /\ b.accepted = s.accepted
      /\ b.promised = s.promised /\ b.written = s.written
  BY <1>1, SetEpolloutOK
<1>3. e = [b EXCEPT !.queue = Append(@, n), !.pending_bytes = @ + n]
  BY DEF Enqueued
<1> HIDE DEF b, e
<1>4. /\ s.queue \in Seq(Buffers) /\ s.pending_bytes \in Nat /\ s.written \in Nat
      /\ s.promised \in Nat /\ s.accepted \in Nat /\ n \in Nat \ {0}
  BY <1>1, TcpNumbers DEF SessionRecords
<1>5. /\ ~(Len(s.queue) >= SendQueueCapacity)
      /\ ~(s.pending_bytes >= SendBufferLimit \/ n > SendBufferLimit - s.pending_bytes)
  BY DEF OverLimit
<1>6. s.pending_bytes + n <= SendBufferLimit /\ n \in Buffers /\ s.pending_bytes + n \in Nat
  BY <1>4, <1>5, TcpNumbers DEF Buffers
<1>7. Append(s.queue, n) \in Seq(Buffers) /\ Len(Append(s.queue, n)) = Len(s.queue) + 1
      /\ Len(s.queue) \in Nat
  BY <1>4, <1>6
<1>8. Total(Append(s.queue, n)) = Total(s.queue) + n
  BY <1>4, QueueOfNumbers, TotalAppend
<1>9. e \in SessionRecords
  BY <1>2, <1>3, <1>6, <1>7 DEF SessionRecords
<1>10. /\ e.queue = Append(s.queue, n) /\ e.pending_bytes = s.pending_bytes + n
       /\ e.written = s.written /\ e.reason = s.reason
       /\ e.closed = s.closed /\ e.close_after_send = s.close_after_send
       /\ e.started = s.started /\ e.asked = s.asked /\ e.accepted = s.accepted
       /\ e.promised = s.promised
  BY <1>2, <1>3 DEF SessionRecords
<1>11. e.pending_bytes = Total(e.queue) /\ e.pending_bytes <= SendBufferLimit
       /\ Len(e.queue) <= SendQueueCapacity
  <2>1. s.pending_bytes = Total(s.queue)
    BY DEF SessionOK
  <2> QED BY <1>4, <1>5, <1>6, <1>7, <1>8, <1>10, <2>1, TcpNumbers
<1>12. e.written + e.pending_bytes = s.written + s.pending_bytes + n
  BY <1>4, <1>10
<1>13. e.close_after_send /\ ~e.closed => e.promised <= e.written + e.pending_bytes
  <2>1. s.close_after_send /\ ~s.closed => s.promised <= s.written + s.pending_bytes
    BY DEF SessionOK
  <2> QED BY <1>4, <1>10, <1>12, <2>1
<1>14. SessionOK(e)
  BY <1>9, <1>10, <1>11, <1>13 DEF SessionOK
<1> QED BY <1>10, <1>12, <1>14 DEF e

\* CloseAfterSend() with output waiting keeps everything promised in the queue.
LEMMA LingersOK ==
    ASSUME NEW s, SessionOK(s), s.asked, s.promised <= s.written + s.pending_bytes
    PROVE  LET g == Lingers(s)
           IN  /\ SessionOK(g)
               /\ g.closed = s.closed /\ g.close_after_send /\ g.started = s.started
               /\ g.asked = s.asked /\ g.queue = s.queue
               /\ loop = "up" => g.epollout
<1> DEFINE b == SetEpollout(s, TRUE)
           g == Lingers(s)
<1>1. s \in SessionRecords
  BY DEF SessionOK
<1>2. /\ b \in SessionRecords
      /\ b.queue = s.queue /\ b.pending_bytes = s.pending_bytes /\ b.closed = s.closed
      /\ b.started = s.started
      /\ b.reason = s.reason /\ b.asked = s.asked /\ b.accepted = s.accepted
      /\ b.promised = s.promised /\ b.written = s.written
      /\ loop = "up" => b.epollout = TRUE
  BY <1>1, SetEpolloutOK
<1>3. g = [b EXCEPT !.close_after_send = TRUE]
  BY DEF Lingers
<1> HIDE DEF b, g
<1>4. g \in SessionRecords
  BY <1>2, <1>3 DEF SessionRecords
<1>5. /\ g.queue = s.queue /\ g.pending_bytes = s.pending_bytes /\ g.closed = s.closed
      /\ g.close_after_send = TRUE /\ g.started = s.started
      /\ g.reason = s.reason /\ g.asked = s.asked /\ g.accepted = s.accepted
      /\ g.promised = s.promised /\ g.written = s.written
      /\ loop = "up" => g.epollout = TRUE
  BY <1>2, <1>3 DEF SessionRecords
<1>6. SessionOK(g)
  BY <1>4, <1>5 DEF SessionOK
<1> QED BY <1>5, <1>6 DEF g

\* An accepted call only adds to what is promised.
LEMMA PromisedOK ==
    ASSUME NEW s, NEW op \in {"send", "close", "close_after"}, NEW n \in Nat,
           SessionOK(s), ~s.closed
    PROVE  LET p == Promised(s, op, n)
           IN  /\ SessionOK(p)
               /\ p.closed = s.closed /\ p.close_after_send = s.close_after_send
               /\ p.started = s.started /\ p.queue = s.queue /\ p.epollout = s.epollout
               /\ p.written = s.written /\ p.pending_bytes = s.pending_bytes
               /\ p.asked = (s.asked \/ op = "close_after")
               /\ p.accepted = IF op = "send" THEN s.accepted + n ELSE s.accepted
               /\ p.promised = IF op = "close_after" /\ ~s.asked THEN s.accepted ELSE s.promised
<1> DEFINE p == Promised(s, op, n)
           a == IF op = "send" THEN s.accepted + n ELSE s.accepted
           r == IF op = "close_after" /\ ~s.asked THEN s.accepted ELSE s.promised
           k == s.asked \/ op = "close_after"
<1>1. s \in SessionRecords
  BY DEF SessionOK
<1>2. s.accepted \in Nat /\ s.promised \in Nat /\ s.written \in Nat /\ s.pending_bytes \in Nat
  BY <1>1 DEF SessionRecords
<1>3. p = [s EXCEPT !.accepted = a, !.asked = k, !.promised = r]
  BY <1>1 DEF Promised, SessionRecords
<1>4. a \in Nat /\ r \in Nat /\ k \in BOOLEAN /\ s.accepted <= a
  BY <1>2
<1>5. r <= a
  <2>1. s.promised <= s.accepted
    BY DEF SessionOK
  <2> QED BY <1>2, <2>1
<1>6. s.close_after_send => r = s.promised
  BY DEF SessionOK
<1>7. k = (s.asked \/ op = "close_after")
  OBVIOUS
<1> HIDE DEF a, r, k, p
<1>8. p \in SessionRecords
  BY <1>1, <1>3, <1>4 DEF SessionRecords
<1>9. /\ p.queue = s.queue /\ p.pending_bytes = s.pending_bytes /\ p.closed = s.closed
      /\ p.close_after_send = s.close_after_send /\ p.started = s.started
      /\ p.reason = s.reason /\ p.asked = k /\ p.accepted = a /\ p.epollout = s.epollout
      /\ p.promised = r /\ p.written = s.written
  BY <1>1, <1>3 DEF SessionRecords
<1>10. s.reason = "open"
  BY DEF SessionOK
<1>11. s.close_after_send => k
  BY <1>7 DEF SessionOK
<1>12. SessionOK(p)
  BY <1>5, <1>6, <1>8, <1>9, <1>10, <1>11 DEF SessionOK
<1> QED BY <1>9, <1>12 DEF p, a, r, k

-----------------------------------------------------------------------------
(* What is owed while tasks are posted and run *)

\* The bytes of a task are a number.
LEMMA AddsType ==
    ASSUME NEW t \in TaskRecords, NEW id
    PROVE  Adds(t, id) \in Nat
BY DEF Adds, TaskRecords

\* One task more at the end.
LEMMA CoursePosted ==
    ASSUME NEW s, NEW s2, NEW q \in Seq(TaskRecords), NEW t \in TaskRecords, NEW id, NEW w,
           Course(s, q, id, w), s.accepted \in Nat, s2.accepted \in Nat, s2.promised \in Nat,
           s2.written + s2.pending_bytes = s.written + s.pending_bytes,
           s2.accepted <= w[Len(q)] + Adds(t, id),
           \A i \in 1 .. Len(q) : q[i].op = "close_after" /\ q[i].id = id => s2.promised <= w[i],
           t.op = "close_after" /\ t.id = id => s2.promised <= w[Len(q)] + Adds(t, id)
    PROVE  \E w2 : Course(s2, Append(q, t), id, w2)
<1> DEFINE m == Len(q)
           longer == Append(q, t)
           a == Adds(t, id)
           w2 == [i \in 0 .. (m + 1) |-> IF i = m + 1 THEN w[m] + a ELSE w[i]]
<1>1. m \in Nat /\ Len(longer) = m + 1 /\ longer[m + 1] = t /\ \A i \in 1 .. m : longer[i] = q[i]
  OBVIOUS
<1>2. w \in [0 .. m -> Nat] /\ w[m] \in Nat /\ a \in Nat
  BY <1>1, AddsType DEF Course
<1> HIDE DEF m, longer, a
<1>3. w2 \in [0 .. (m + 1) -> Nat]
  <2> SUFFICES ASSUME NEW i \in 0 .. (m + 1)
               PROVE  (IF i = m + 1 THEN w[m] + a ELSE w[i]) \in Nat
    OBVIOUS
  <2>1. i = m + 1 \/ i \in 0 .. m
    BY <1>1
  <2> QED BY <1>2, <2>1
<1>4. w2[0] = w[0] /\ w2[m + 1] = w[m] + a /\ \A i \in 0 .. m : w2[i] = w[i]
  BY <1>1
<1> HIDE DEF w2
<1>5. w[0] = s.written + s.pending_bytes /\ \A i \in 1 .. m : w[i] = w[i - 1] + Adds(q[i], id)
  BY DEF Course, m
<1>6. ASSUME NEW i \in 1 .. (m + 1)
      PROVE  w2[i] = w2[i - 1] + Adds(longer[i], id)
  <2>1. CASE i = m + 1
    <3>1. i - 1 = m /\ m \in 0 .. m
      BY <1>1, <2>1
    <3> QED BY <1>1, <1>4, <2>1, <3>1 DEF a
  <2>2. CASE i # m + 1
    <3>1. i \in 1 .. m /\ i \in 0 .. m /\ i - 1 \in 0 .. m
      BY <1>1, <2>2
    <3> QED BY <1>1, <1>4, <1>5, <3>1
  <2> QED BY <2>1, <2>2
<1>7. ASSUME NEW i \in 1 .. (m + 1), longer[i].op = "close_after", longer[i].id = id
      PROVE  s2.promised <= w2[i]
  <2>1. CASE i = m + 1
    BY <1>1, <1>4, <1>7, <2>1 DEF a, m
  <2>2. CASE i # m + 1
    <3>1. i \in 1 .. m /\ i \in 0 .. m
      BY <1>1, <2>2
    <3> QED BY <1>1, <1>4, <1>7, <3>1 DEF m
  <2> QED BY <2>1, <2>2
<1>8. s2.accepted <= w2[m + 1]
  BY <1>4 DEF a, m
<1>9. Course(s2, longer, id, w2)
  BY <1>1, <1>3, <1>4, <1>5, <1>6, <1>7, <1>8 DEF Course
<1> QED BY <1>9 DEF longer

\* The first task runs: what it queues is queued now.
LEMMA CourseRun ==
    ASSUME NEW s, NEW s2, NEW q \in Seq(TaskRecords), NEW id, NEW w, q # <<>>,
           Course(s, q, id, w), s2.accepted = s.accepted, s2.promised = s.promised,
           s2.written + s2.pending_bytes = s.written + s.pending_bytes + Adds(Head(q), id)
    PROVE  \E w2 : Course(s2, Tail(q), id, w2)
<1> DEFINE m == Len(q)
           rest == Tail(q)
           w2 == [i \in 0 .. (m - 1) |-> w[i + 1]]
<1>1. m \in Nat /\ m >= 1 /\ Len(rest) = m - 1 /\ Head(q) = q[1]
      /\ \A i \in 1 .. (m - 1) : rest[i] = q[i + 1]
  OBVIOUS
<1> HIDE DEF rest
<1>2. w \in [0 .. m -> Nat] /\ w[0] = s.written + s.pending_bytes
      /\ (\A i \in 1 .. m : w[i] = w[i - 1] + Adds(q[i], id)) /\ s.accepted <= w[m]
      /\ \A i \in 1 .. m : q[i].op = "close_after" /\ q[i].id = id => s.promised <= w[i]
  BY DEF Course
<1> HIDE DEF m
<1>3. w2 \in [0 .. (m - 1) -> Nat]
  <2>1. ASSUME NEW i \in 0 .. (m - 1) PROVE w[i + 1] \in Nat
    <3>1. i + 1 \in 0 .. m
      BY <1>1
    <3> QED BY <1>2, <3>1
  <2> QED BY <2>1
<1>4. \A i \in 0 .. (m - 1) : w2[i] = w[i + 1]
  OBVIOUS
<1> HIDE DEF w2
<1>5. w2[0] = s2.written + s2.pending_bytes
  <2>1. 0 \in 0 .. (m - 1) /\ 1 \in 1 .. m /\ 1 - 1 = 0 /\ 0 + 1 = 1
    BY <1>1
  <2>2. w[1] = w[0] + Adds(q[1], id)
    BY <1>2, <2>1
  <2> QED BY <1>1, <1>2, <1>4, <2>1, <2>2
<1>6. ASSUME NEW i \in 1 .. (m - 1)
      PROVE  w2[i] = w2[i - 1] + Adds(rest[i], id)
  <2>1. i \in 0 .. (m - 1) /\ i - 1 \in 0 .. (m - 1) /\ (i - 1) + 1 = i /\ i + 1 \in 1 .. m
        /\ (i + 1) - 1 = i
    BY <1>1
  <2>2. w[i + 1] = w[i] + Adds(q[i + 1], id)
    BY <1>2, <2>1
  <2> QED BY <1>1, <1>4, <2>1, <2>2
<1>7. ASSUME NEW i \in 1 .. (m - 1), rest[i].op = "close_after", rest[i].id = id
      PROVE  s2.promised <= w2[i]
  <2>1. i \in 0 .. (m - 1) /\ i + 1 \in 1 .. m
    BY <1>1
  <2> QED BY <1>1, <1>2, <1>4, <1>7, <2>1
<1>8. s2.accepted <= w2[m - 1]
  <2>1. m - 1 \in 0 .. (m - 1) /\ (m - 1) + 1 = m
    BY <1>1
  <2> QED BY <1>2, <1>4, <2>1
<1>9. Course(s2, rest, id, w2)
  BY <1>1, <1>3, <1>5, <1>6, <1>7, <1>8 DEF Course
<1> QED BY <1>9 DEF rest

\* Bytes queued by the loop thread itself come before every task.
LEMMA CourseRaised ==
    ASSUME NEW s, NEW s2, NEW q \in Seq(TaskRecords), NEW id, NEW w, NEW n \in Nat,
           Course(s, q, id, w), s2.accepted = s.accepted, s2.promised = s.promised,
           s.accepted \in Nat, s.promised \in Nat,
           s2.written + s2.pending_bytes = s.written + s.pending_bytes + n
    PROVE  \E w2 : Course(s2, q, id, w2)
<1> DEFINE m == Len(q)
           w2 == [i \in 0 .. m |-> w[i] + n]
<1>1. m \in Nat /\ \A i \in 1 .. m : q[i] \in TaskRecords
  OBVIOUS
<1>2. w \in [0 .. m -> Nat] /\ w[0] = s.written + s.pending_bytes
      /\ (\A i \in 1 .. m : w[i] = w[i - 1] + Adds(q[i], id)) /\ s.accepted <= w[m]
      /\ \A i \in 1 .. m : q[i].op = "close_after" /\ q[i].id = id => s.promised <= w[i]
  BY DEF Course
<1>3. w2 \in [0 .. m -> Nat] /\ \A i \in 0 .. m : w2[i] = w[i] + n
  BY <1>2
<1>4. \A i \in 1 .. m : i \in 0 .. m /\ i - 1 \in 0 .. m /\ Adds(q[i], id) \in Nat
  BY <1>1, AddsType
<1> HIDE DEF w2, m
<1>5. 0 \in 0 .. m /\ m \in 0 .. m
  BY <1>1
<1>6. ASSUME NEW i \in 1 .. m PROVE w2[i] = w2[i - 1] + Adds(q[i], id)
  <2>1. w[i] = w[i - 1] + Adds(q[i], id) /\ w[i - 1] \in Nat /\ Adds(q[i], id) \in Nat
    BY <1>2, <1>4
  <2>2. w2[i] = w[i] + n /\ w2[i - 1] = w[i - 1] + n
    BY <1>3, <1>4
  <2> QED BY <2>1, <2>2
<1>7. ASSUME NEW i \in 1 .. m, q[i].op = "close_after", q[i].id = id
      PROVE  s2.promised <= w2[i]
  <2>1. w2[i] = w[i] + n /\ w[i] \in Nat /\ s.promised <= w[i]
    BY <1>2, <1>3, <1>4, <1>7
  <2> QED BY <2>1
<1>8. s2.accepted <= w2[m]
  <2>1. w2[m] = w[m] + n /\ w[m] \in Nat /\ s.accepted <= w[m]
    BY <1>2, <1>3, <1>5
  <2> QED BY <2>1
<1>9. w2[0] = s2.written + s2.pending_bytes
  BY <1>2, <1>3, <1>5
<1>10. Course(s2, q, id, w2)
  BY <1>3, <1>6, <1>7, <1>8, <1>9 DEF Course, m
<1> QED BY <1>10

\* A posted call is part of what the session owes.
LEMMA OwesPosted ==
    ASSUME NEW s, NEW q \in Seq(TaskRecords), NEW id \in Nat, NEW n \in Nat,
           NEW op \in {"send", "close", "close_after"},
           SessionOK(s), ~s.closed, Owes(s, q, id)
    PROVE  Owes(Promised(s, op, n), Append(q, [op |-> op, id |-> id, n |-> n]), id)
<1> DEFINE p == Promised(s, op, n)
           t == [op |-> op, id |-> id, n |-> n]
           longer == Append(q, t)
           m == Len(q)
<1>1. /\ SessionOK(p) /\ p.closed = s.closed /\ p.close_after_send = s.close_after_send
      /\ p.written = s.written /\ p.pending_bytes = s.pending_bytes
      /\ p.asked = (s.asked \/ op = "close_after")
      /\ p.accepted = IF op = "send" THEN s.accepted + n ELSE s.accepted
      /\ p.promised = IF op = "close_after" /\ ~s.asked THEN s.accepted ELSE s.promised
  BY PromisedOK
<1> HIDE DEF p
<1>2. /\ p.accepted \in Nat /\ p.promised \in Nat /\ s.accepted \in Nat /\ s.promised \in Nat
      /\ s.promised <= s.accepted
  BY <1>1 DEF SessionOK, SessionRecords
<1>3. t \in TaskRecords /\ t.op = op /\ t.id = id /\ t.n = n
  BY DEF TaskRecords
<1> HIDE DEF t
<1>4. m \in Nat /\ Len(longer) = m + 1 /\ longer[m + 1] = t /\ \A i \in 1 .. m : longer[i] = q[i]
  BY <1>3
<1>5. \A i \in 1 .. m : q[i].op = "close_after" /\ q[i].id = id => s.asked
  BY DEF Owes
<1> HIDE DEF longer, m
<1>6. ASSUME NEW i \in 1 .. Len(longer), longer[i].op = "close_after", longer[i].id = id
      PROVE  p.asked
  <2>1. i = m + 1 \/ i \in 1 .. m
    BY <1>4
  <2> QED BY <1>1, <1>3, <1>4, <1>5, <1>6, <2>1
<1>7. ASSUME ~p.closed, ~p.close_after_send PROVE \E w : Course(p, longer, id, w)
  <2>1. PICK w : Course(s, q, id, w)
    BY <1>1, <1>7 DEF Owes
  <2>2. /\ w[m] \in Nat /\ s.accepted <= w[m]
        /\ \A i \in 1 .. m : q[i].op = "close_after" /\ q[i].id = id => s.promised <= w[i]
    BY <1>4, <2>1 DEF Course, m
  <2>3. Adds(t, id) = IF op = "send" THEN n ELSE 0
    BY <1>3 DEF Adds
  <2>4. p.accepted <= w[m] + Adds(t, id)
    BY <1>1, <1>2, <2>2, <2>3
  <2>5. \A i \in 1 .. m : q[i].op = "close_after" /\ q[i].id = id => p.promised <= w[i]
    BY <1>1, <1>5, <2>2
  <2>6. t.op = "close_after" /\ t.id = id => p.promised <= w[m] + Adds(t, id)
    BY <1>1, <1>2, <1>3, <2>2, <2>3
  <2>7. p.written + p.pending_bytes = s.written + s.pending_bytes
    BY <1>1
  <2> QED BY <1>2, <1>3, <2>1, <2>4, <2>5, <2>6, <2>7, CoursePosted DEF m, longer
<1> QED BY <1>6, <1>7 DEF Owes, p, longer, t

\* A task of another session, or a Close(), leaves what is owed.
LEMMA OwesBehind ==
    ASSUME NEW s, NEW q \in Seq(TaskRecords), NEW t \in TaskRecords, NEW id,
           SessionOK(s), Owes(s, q, id), t.id # id \/ t.op = "close"
    PROVE  Owes(s, Append(q, t), id)
<1> DEFINE longer == Append(q, t)
           m == Len(q)
<1>1. m \in Nat /\ Len(longer) = m + 1 /\ longer[m + 1] = t /\ \A i \in 1 .. m : longer[i] = q[i]
  OBVIOUS
<1>2. s.accepted \in Nat /\ s.promised \in Nat
  BY DEF SessionOK, SessionRecords
<1>3. \A i \in 1 .. m : q[i].op = "close_after" /\ q[i].id = id => s.asked
  BY DEF Owes
<1>4. Adds(t, id) = 0
  BY DEF Adds
<1> HIDE DEF longer, m
<1>5. ASSUME NEW i \in 1 .. Len(longer), longer[i].op = "close_after", longer[i].id = id
      PROVE  s.asked
  <2>1. i = m + 1 \/ i \in 1 .. m
    BY <1>1
  <2> QED BY <1>1, <1>3, <1>5, <2>1
<1>6. ASSUME ~s.closed, ~s.close_after_send PROVE \E w : Course(s, longer, id, w)
  <2>1. PICK w : Course(s, q, id, w)
    BY <1>6 DEF Owes
  <2>2. /\ w[m] \in Nat /\ s.accepted <= w[m]
        /\ \A i \in 1 .. m : q[i].op = "close_after" /\ q[i].id = id => s.promised <= w[i]
    BY <1>1, <2>1 DEF Course, m
  <2>3. s.accepted <= w[m] + Adds(t, id)
    BY <1>2, <1>4, <2>2
  <2> QED BY <1>2, <2>1, <2>2, <2>3, CoursePosted DEF m, longer
<1> QED BY <1>5, <1>6 DEF Owes, longer

\* A task that ran and queued nothing leaves what is owed.
LEMMA OwesRun ==
    ASSUME NEW s, NEW q \in Seq(TaskRecords), NEW id, q # <<>>, SessionOK(s), Owes(s, q, id),
           Head(q).id # id \/ Head(q).op # "send" \/ s.closed \/ s.close_after_send
    PROVE  Owes(s, Tail(q), id)
<1> DEFINE rest == Tail(q)
           m == Len(q)
<1>1. m \in Nat /\ m >= 1 /\ Len(rest) = m - 1 /\ \A i \in 1 .. (m - 1) : rest[i] = q[i + 1]
  OBVIOUS
<1>2. \A i \in 1 .. m : q[i].op = "close_after" /\ q[i].id = id => s.asked
  BY DEF Owes
<1>3. s.written \in Nat /\ s.pending_bytes \in Nat
  BY DEF SessionOK, SessionRecords
<1> HIDE DEF rest, m
<1>4. ASSUME NEW i \in 1 .. Len(rest), rest[i].op = "close_after", rest[i].id = id
      PROVE  s.asked
  <2>1. i + 1 \in 1 .. m /\ i \in 1 .. (m - 1)
    BY <1>1
  <2> QED BY <1>1, <1>2, <1>4, <2>1
<1>5. ASSUME ~s.closed, ~s.close_after_send PROVE \E w : Course(s, rest, id, w)
  <2>1. PICK w : Course(s, q, id, w)
    BY <1>5 DEF Owes
  <2>2. Adds(Head(q), id) = 0
    BY <1>5 DEF Adds
  <2>3. s.written + s.pending_bytes = s.written + s.pending_bytes + Adds(Head(q), id)
    BY <1>3, <2>2
  <2> QED BY <2>1, <2>3, CourseRun DEF rest
<1> QED BY <1>4, <1>5 DEF Owes, rest

-----------------------------------------------------------------------------
(* The connection table, the loop thread and the callbacks *)

\* sessions2 is sessions with session id replaced by s2.
Replaced(sessions2, id, s2) ==
    /\ sessions2 \in Seq(SessionRecords) /\ Len(sessions2) = Len(sessions)
    /\ DOMAIN sessions2 = Ids
    /\ sessions2[id] = s2
    /\ \A j \in Ids : j # id => sessions2[j] = sessions[j]

\* A step on one session leaves the others.
LEMMA OneSession ==
    ASSUME sessions \in Seq(SessionRecords), NEW id \in Ids, NEW s2 \in SessionRecords,
           sessions' = [sessions EXCEPT ![id] = s2]
    PROVE  Replaced(sessions', id, s2)
<1>1. sessions \in [Ids -> SessionRecords] /\ Ids = 1 .. Len(sessions) /\ Len(sessions) \in Nat
  BY LenProperties DEF Ids
<1>2. sessions' \in [Ids -> SessionRecords]
  BY <1>1
<1>3. sessions' \in Seq(SessionRecords)
  BY <1>1, <1>2
<1>4. DOMAIN sessions' = 1 .. Len(sessions)
  BY <1>1, <1>2
<1>5. Len(sessions') = Len(sessions)
  BY <1>1, <1>3, <1>4
<1> QED BY <1>1, <1>2, <1>3, <1>5 DEF Replaced, Ids

\* Callbacks of an open connection, the close callback with its closing.
LEMMA ToldKept ==
    ASSUME Shape, Told, delivered' = delivered, Ids' = Ids,
           \A j \in Ids : sessions[j].closed => sessions'[j].closed,
           \/ callbacks' = callbacks
           \/ \E name \in {"accept", "read", "close"}, id \in Ids :
                 /\ callbacks' = Dispatch(callbacks, name, id)
                 /\ ~sessions[id].closed
                 /\ name = "close" => sessions'[id].closed
    PROVE  /\ Told'
           /\ callbacks' \in Seq(CallbackRecords) /\ Len(callbacks') <= CallbackCapacity
           /\ \A i \in DOMAIN callbacks' : callbacks'[i].id \in Ids
<1> DEFINE m == Len(callbacks)
<1>1. /\ callbacks \in Seq(CallbackRecords) /\ m <= CallbackCapacity
      /\ m \in Nat /\ DOMAIN callbacks = 1 .. m
      /\ \A i \in 1 .. m : callbacks[i].id \in Ids
  BY LenProperties DEF Shape
<1>2. CASE callbacks' = callbacks
  BY <1>1, <1>2 DEF Told, Ids
<1>3. ASSUME NEW name \in {"accept", "read", "close"}, NEW id \in Ids,
             callbacks' = Append(callbacks, [name |-> name, id |-> id]),
             m < CallbackCapacity, ~sessions[id].closed, name = "close" => sessions'[id].closed
      PROVE  /\ Told'
             /\ callbacks' \in Seq(CallbackRecords) /\ Len(callbacks') <= CallbackCapacity
             /\ \A i \in DOMAIN callbacks' : callbacks'[i].id \in Ids
  <2> DEFINE c == [name |-> name, id |-> id]
  <2>1. id \in Nat
    BY LenProperties DEF Shape, Ids
  <2>2. c \in CallbackRecords /\ c.name = name /\ c.id = id
    BY <2>1 DEF CallbackRecords
  <2>10. callbacks' = Append(callbacks, c)
    BY <1>3
  <2> HIDE DEF c
  <2>3. /\ callbacks' \in Seq(CallbackRecords) /\ Len(callbacks') = m + 1
        /\ DOMAIN callbacks' = 1 .. (m + 1) /\ callbacks'[m + 1] = c
        /\ \A i \in 1 .. m : callbacks'[i] = callbacks[i]
    <3> DEFINE longer == Append(callbacks, c)
    <3>1. /\ longer \in Seq(CallbackRecords) /\ Len(longer) = m + 1
          /\ longer[m + 1] = c /\ \A i \in 1 .. m : longer[i] = callbacks[i]
      BY <1>1, <2>2
    <3>2. DOMAIN longer = 1 .. (m + 1)
      BY <1>1, <2>2
    <3> HIDE DEF longer, m
    <3> QED BY <2>10, <3>1, <3>2 DEF longer
  <2>4. \A i \in 1 .. (m + 1) : i \in 1 .. m \/ i = m + 1
    BY <1>1
  <2>5. Len(callbacks') <= CallbackCapacity
    <3>1. m < CallbackCapacity /\ m \in Nat /\ CallbackCapacity \in Nat
      BY <1>1, <1>3, TcpNumbers
    <3> HIDE DEF m
    <3> QED BY <2>3, <3>1
  <2>6. \A i \in DOMAIN callbacks' : callbacks'[i].id \in Ids
    BY <1>1, <2>2, <2>3, <2>4
  <2>7. ASSUME NEW i \in 1 .. (m + 1), callbacks'[i].name = "close"
        PROVE  /\ sessions'[callbacks'[i].id].closed
               /\ \A j \in 1 .. (m + 1) : j > i => callbacks'[j].id # callbacks'[i].id
    <3>1. CASE i = m + 1
      <4>1. \A j \in 1 .. (m + 1) : ~(j > i)
        BY <1>1, <3>1
      <4> QED BY <1>3, <2>2, <2>3, <2>7, <3>1, <4>1
    <3>2. CASE i \in 1 .. m
      <4>1. /\ sessions[callbacks[i].id].closed
            /\ \A j \in 1 .. m : j > i => callbacks[j].id # callbacks[i].id
        BY <1>1, <2>3, <2>7, <3>2 DEF Told
      <4>2. callbacks[i].id # id
        BY <1>3, <4>1
      <4>3. sessions'[callbacks[i].id].closed
        BY <1>1, <3>2, <4>1
      <4> QED BY <2>2, <2>3, <2>4, <3>2, <4>1, <4>2, <4>3
    <3> QED BY <2>4, <3>1, <3>2
  <2>8. ASSUME NEW j \in Ids, NEW i \in DOMAIN delivered[j], delivered[j][i] = "close"
        PROVE  /\ i = Len(delivered[j]) /\ sessions'[j].closed
               /\ \A k \in 1 .. (m + 1) : callbacks'[k].id # j
    <3>1. /\ i = Len(delivered[j]) /\ sessions[j].closed
          /\ \A k \in 1 .. m : callbacks[k].id # j
      BY <1>1, <2>8 DEF Told
    <3> QED BY <1>3, <2>2, <2>3, <2>4, <3>1
  <2>9. Told'
    BY <2>3, <2>7, <2>8 DEF Told
  <2> QED BY <2>3, <2>5, <2>6, <2>9
<1>4. CASE callbacks' # callbacks
  <2>1. PICK name \in {"accept", "read", "close"}, id \in Ids :
            /\ callbacks' = Dispatch(callbacks, name, id)
            /\ ~sessions[id].closed
            /\ name = "close" => sessions'[id].closed
    BY <1>4
  <2>2. callbacks' = Append(callbacks, [name |-> name, id |-> id]) /\ m < CallbackCapacity
    BY <1>4, <2>1 DEF Dispatch
  <2> QED BY <1>3, <2>1, <2>2
<1> QED BY <1>2, <1>4

\* The loop thread changes an open session and leaves it open.
LEMMA TablesTouched ==
    ASSUME Tables, NEW id \in Ids, NEW s2, SessionOK(s2), ~sessions[id].closed, ~s2.closed,
           sessions' = [sessions EXCEPT ![id] = s2],
           UNCHANGED <<connections, next_id, loop, stop, closing, callbacks, delivered>>,
           s2.started => sessions[id].started \/ (at' # at /\ id \in connections),
           \/ at' = at
           \/ /\ at = Nothing \/ at.id = id
              /\ at' \in {Nothing, [in |-> "write", id |-> id], [in |-> "started", id |-> id]},
           loop = "up" /\ at' # [in |-> "write", id |-> id] =>
               (s2.epollout <=> s2.queue # <<>>),
           at' # Nothing => loop # "down"
    PROVE  Tables'
<1>1. Shape /\ Control /\ WriteArmed /\ TableAgrees /\ Told /\ \A j \in Ids : SessionOK(sessions[j])
  BY DEF Tables
<1>2. Replaced(sessions', id, s2)
  BY <1>1, OneSession DEF Shape, SessionOK
<1>3. Ids' = Ids
  BY <1>2 DEF Replaced, Ids
<1>4. /\ sessions'[id] = s2 /\ \A j \in Ids : j # id => sessions'[j] = sessions[j]
      /\ sessions' \in Seq(SessionRecords) /\ Len(sessions') = Len(sessions)
  BY <1>2 DEF Replaced
<1>5. \A j \in Ids : sessions'[j].closed = sessions[j].closed
  <2>1. s2.closed = sessions[id].closed
    BY <1>1 DEF SessionOK, SessionRecords
  <2> QED BY <1>4, <2>1
<1>6. Told'
  BY <1>1, <1>3, <1>5, ToldKept
<1>7. Shape'
  BY <1>1, <1>3, <1>4 DEF Shape
<1>8. Control'
  <2>1. at' = Nothing \/ at' = at \/ at' = [in |-> "write", id |-> id] \/ at' = [in |-> "started", id |-> id]
    OBVIOUS
  <2>2. CASE at' = at
    <3>1. \A j \in Ids : sessions'[j].started => sessions[j].started
      BY <1>4, <2>2
    <3>2. at.in = "accept" => at.id \in Ids
      BY <1>1 DEF Control, Nothing
    <3> QED BY <1>1, <1>3, <1>5, <2>2, <3>1, <3>2 DEF Control
  <2>3. CASE at' = Nothing
    BY <1>1, <2>3 DEF Control, Nothing
  <2>4. CASE at' = [in |-> "write", id |-> id] \/ at' = [in |-> "started", id |-> id]
    <3>1. at' \in [in : {"accept", "started", "write"}, id : Ids] /\ at'.id = id /\ at'.in # "accept"
          /\ at' # Nothing
      BY <2>4 DEF Nothing
    <3> QED BY <1>1, <1>3, <1>5, <3>1 DEF Control
  <2> QED BY <2>1, <2>2, <2>3, <2>4
<1>9. WriteArmed'
  <2> SUFFICES ASSUME NEW j \in Ids, ~sessions'[j].closed, at' # [in |-> "write", id |-> j],
                      loop = "up"
               PROVE  sessions'[j].epollout <=> sessions'[j].queue # <<>>
    BY <1>3 DEF WriteArmed, Writing
  <2>1. CASE j = id
    BY <1>4, <2>1
  <2>2. CASE j # id
    <3>1. at # [in |-> "write", id |-> j]
      BY <2>2 DEF Nothing
    <3> QED BY <1>1, <1>4, <1>5, <2>2, <3>1 DEF WriteArmed, Writing
  <2> QED BY <2>1, <2>2
<1>10. TableAgrees'
  <2>1. ASSUME NEW j \in Ids, sessions'[j].started, ~sessions'[j].closed, stop # "done"
        PROVE  j \in connections
    <3>1. CASE j = id
      BY <1>1, <1>4, <1>5, <2>1, <3>1 DEF TableAgrees
    <3>2. CASE j # id
      BY <1>1, <1>4, <2>1, <3>2 DEF TableAgrees
    <3> QED BY <3>1, <3>2
  <2>2. \A j \in connections : j \in Ids /\ ~sessions'[j].closed
    BY <1>1, <1>5 DEF TableAgrees, Shape
  <2> QED BY <1>3, <2>1, <2>2 DEF TableAgrees
<1>11. \A j \in Ids : SessionOK(sessions'[j])
  BY <1>1, <1>4
<1>12. (\A j \in Ids : SessionOK(sessions[j]))'
  <2> SUFFICES ASSUME NEW j \in Ids PROVE SessionOK(sessions[j])'
    BY <1>3
  <2> QED BY <1>11 DEF SessionOK, SessionRecords
<1> QED BY <1>6, <1>7, <1>8, <1>9, <1>10, <1>12 DEF Tables

\* The loop thread closes an open session.
LEMMA TablesClosed ==
    ASSUME Tables, NEW id \in Ids, NEW r \in Reasons, ~sessions[id].closed,
           CloseInLoop(id, r),
           r = "flushed" => sessions[id].promised <= sessions[id].written,
           UNCHANGED <<next_id, loop, stop, closing, delivered>>,
           at = Nothing \/ Writing(id), at' = Nothing
    PROVE  Tables'
<1> DEFINE c == Closed(sessions[id], r)
<1>1. Shape /\ Control /\ WriteArmed /\ TableAgrees /\ Told /\ \A j \in Ids : SessionOK(sessions[j])
  BY DEF Tables
<1>2. SessionOK(c) /\ c.closed
  BY <1>1, ClosedOK
<1>3. /\ sessions' = [sessions EXCEPT ![id] = c]
      /\ connections' = connections \ {id}
      /\ callbacks' = Dispatch(callbacks, "close", id)
  BY DEF CloseInLoop
<1> HIDE DEF c
<1>4. Replaced(sessions', id, c)
  BY <1>1, <1>2, <1>3, OneSession DEF Shape, SessionOK
<1>5. Ids' = Ids
  BY <1>4 DEF Replaced, Ids
<1>6. /\ sessions'[id] = c /\ \A j \in Ids : j # id => sessions'[j] = sessions[j]
      /\ sessions' \in Seq(SessionRecords) /\ Len(sessions') = Len(sessions)
  BY <1>4 DEF Replaced
<1>7. Told' /\ callbacks' \in Seq(CallbackRecords) /\ Len(callbacks') <= CallbackCapacity
      /\ \A i \in DOMAIN callbacks' : callbacks'[i].id \in Ids
  <2>1. \A j \in Ids : sessions[j].closed => sessions'[j].closed
    BY <1>2, <1>6
  <2>2. sessions'[id].closed
    BY <1>2, <1>6
  <2> QED BY <1>1, <1>3, <1>5, <2>1, <2>2, ToldKept
<1>8. connections' \subseteq Ids /\ IsFiniteSet(connections') /\ Cardinality(connections') <= MaxConnections
  <2>1. /\ connections \subseteq Ids /\ IsFiniteSet(connections) /\ Cardinality(connections) <= MaxConnections
        /\ Cardinality(connections) \in Nat
    BY <1>1, FS_CardinalityType DEF Shape
  <2>2. connections' \subseteq connections
    BY <1>3
  <2>3. IsFiniteSet(connections') /\ Cardinality(connections') <= Cardinality(connections)
        /\ Cardinality(connections') \in Nat
    BY <2>1, <2>2, FS_Subset, FS_CardinalityType
  <2> QED BY <2>1, <2>2, <2>3, TcpNumbers
<1>9. Shape'
  BY <1>1, <1>5, <1>6, <1>7, <1>8 DEF Shape
<1>10. Control'
  BY <1>1 DEF Control, Nothing
<1>11. WriteArmed'
  <2> SUFFICES ASSUME NEW j \in Ids, ~sessions'[j].closed, loop = "up"
               PROVE  sessions'[j].epollout <=> sessions'[j].queue # <<>>
    BY <1>5 DEF WriteArmed, Writing
  <2>1. j # id
    BY <1>2, <1>6
  <2>2. ~Writing(j)
    BY <2>1 DEF Writing, Nothing
  <2> QED BY <1>1, <1>6, <2>1, <2>2 DEF WriteArmed
<1>12. TableAgrees'
  <2>1. ASSUME NEW j \in Ids, sessions'[j].started, ~sessions'[j].closed, stop # "done"
        PROVE  j \in connections'
    <3>1. j # id
      BY <1>2, <1>6, <2>1
    <3> QED BY <1>1, <1>3, <1>6, <2>1, <3>1 DEF TableAgrees
  <2>2. \A j \in connections' : j \in Ids /\ ~sessions'[j].closed
    BY <1>1, <1>3, <1>6 DEF TableAgrees, Shape
  <2> QED BY <1>5, <2>1, <2>2 DEF TableAgrees
<1>13. (\A j \in Ids : SessionOK(sessions[j]))'
  <2> SUFFICES ASSUME NEW j \in Ids PROVE SessionOK(sessions[j])'
    BY <1>5
  <2>1. SessionOK(sessions'[j])
    BY <1>1, <1>2, <1>6
  <2> QED BY <2>1 DEF SessionOK, SessionRecords
<1> QED BY <1>7, <1>9, <1>10, <1>11, <1>12, <1>13 DEF Tables

\* A step that leaves the sessions alone.
LEMMA TablesQuiet ==
    ASSUME Tables, UNCHANGED <<sessions, next_id, delivered>>,
           \/ callbacks' = callbacks
           \/ \E name \in {"accept", "read"}, id \in Ids :
                 callbacks' = Dispatch(callbacks, name, id) /\ ~sessions[id].closed,
           connections' \subseteq connections, closing' \subseteq Ids,
           Control', TableAgrees', at' = at \/ at.in # "write", loop' = "up" => loop = "up"
    PROVE  Tables'
<1>1. Shape /\ Control /\ WriteArmed /\ TableAgrees /\ Told /\ \A j \in Ids : SessionOK(sessions[j])
  BY DEF Tables
<1>2. Ids' = Ids
  BY DEF Ids
<1>3. Told' /\ callbacks' \in Seq(CallbackRecords) /\ Len(callbacks') <= CallbackCapacity
      /\ \A i \in DOMAIN callbacks' : callbacks'[i].id \in Ids
  BY <1>1, <1>2, ToldKept
<1>4. connections' \subseteq Ids /\ IsFiniteSet(connections') /\ Cardinality(connections') <= MaxConnections
  <2>1. /\ connections \subseteq Ids /\ IsFiniteSet(connections) /\ Cardinality(connections) <= MaxConnections
        /\ Cardinality(connections) \in Nat
    BY <1>1, FS_CardinalityType DEF Shape
  <2>2. IsFiniteSet(connections') /\ Cardinality(connections') <= Cardinality(connections)
        /\ Cardinality(connections') \in Nat
    BY <2>1, FS_Subset, FS_CardinalityType
  <2> QED BY <2>1, <2>2, TcpNumbers
<1>5. Shape'
  BY <1>1, <1>2, <1>3, <1>4 DEF Shape
<1>6. WriteArmed'
  <2> SUFFICES ASSUME NEW j \in Ids, ~sessions[j].closed, at' # [in |-> "write", id |-> j],
                      loop = "up"
               PROVE  sessions[j].epollout <=> sessions[j].queue # <<>>
    BY <1>2 DEF WriteArmed, Writing
  <2>1. at # [in |-> "write", id |-> j]
    OBVIOUS
  <2> QED BY <1>1, <2>1 DEF WriteArmed, Writing
<1>7. (\A j \in Ids : SessionOK(sessions[j]))'
  <2> SUFFICES ASSUME NEW j \in Ids PROVE SessionOK(sessions[j])'
    BY <1>2
  <2>1. SessionOK(sessions'[j])
    BY <1>1
  <2> QED BY <2>1 DEF SessionOK, SessionRecords
<1> QED BY <1>3, <1>5, <1>6, <1>7 DEF Tables

-----------------------------------------------------------------------------
(* The posted tasks *)

\* The tasks stay and every session still owes them.
LEMMA PostedKept ==
    ASSUME Posted, tasks' = tasks, Ids' = Ids,
           \A j \in Ids : Owes(sessions'[j], tasks, j)
    PROVE  Posted'
<1>1. (\A j \in Ids : Owes(sessions[j], tasks, j))'
  <2> SUFFICES ASSUME NEW j \in Ids PROVE Owes(sessions[j], tasks, j)'
    OBVIOUS
  <2>1. Owes(sessions'[j], tasks', j)
    OBVIOUS
  <2> QED BY <2>1 DEF Owes, Course, Adds
<1> QED BY <1>1 DEF Posted

\* The first task has run.
LEMMA PostedRun ==
    ASSUME Posted, tasks # <<>>, tasks' = Tail(tasks), Ids' = Ids,
           \A j \in Ids : Owes(sessions'[j], Tail(tasks), j)
    PROVE  Posted'
<1>1. (\A j \in Ids : Owes(sessions[j], tasks, j))'
  <2> SUFFICES ASSUME NEW j \in Ids PROVE Owes(sessions[j], tasks, j)'
    OBVIOUS
  <2>1. Owes(sessions'[j], tasks', j)
    OBVIOUS
  <2> QED BY <2>1 DEF Owes, Course, Adds
<1> DEFINE q == tasks
           rest == Tail(q)
<1>2. q \in Seq(TaskRecords) /\ q # <<>> /\ Len(q) <= TaskCapacity
      /\ \A i \in DOMAIN q : q[i].id \in Ids /\ (q[i].op = "send" => q[i].n \in Sizes)
  BY DEF Posted
<1>3. /\ rest \in Seq(TaskRecords) /\ Len(rest) = Len(q) - 1 /\ Len(q) \in Nat
      /\ \A i \in DOMAIN rest : i + 1 \in DOMAIN q /\ rest[i] = q[i + 1]
  <2> HIDE DEF q
  <2> QED BY <1>2
<1>4. Len(rest) <= TaskCapacity
  <2> HIDE DEF q, rest
  <2> QED BY <1>2, <1>3, TcpNumbers
<1>5. \A i \in DOMAIN rest : rest[i].id \in Ids /\ (rest[i].op = "send" => rest[i].n \in Sizes)
  <2> HIDE DEF q, rest
  <2> QED BY <1>2, <1>3
<1>6. tasks' = rest
  OBVIOUS
<1> HIDE DEF rest
<1> QED BY <1>1, <1>3, <1>4, <1>5, <1>6 DEF Posted

\* One task more has been posted.
LEMMA PostedMore ==
    ASSUME Posted, NEW t \in TaskRecords, tasks' = Append(tasks, t), Len(tasks) < TaskCapacity,
           t.id \in Ids, t.op = "send" => t.n \in Sizes, Ids' = Ids,
           \A j \in Ids : Owes(sessions'[j], Append(tasks, t), j)
    PROVE  Posted'
<1>1. (\A j \in Ids : Owes(sessions[j], tasks, j))'
  <2> SUFFICES ASSUME NEW j \in Ids PROVE Owes(sessions[j], tasks, j)'
    OBVIOUS
  <2>1. Owes(sessions'[j], tasks', j)
    OBVIOUS
  <2> QED BY <2>1 DEF Owes, Course, Adds
<1> DEFINE q == tasks
           longer == Append(q, t)
           m == Len(q)
<1>2. q \in Seq(TaskRecords) /\ m \in Nat /\ m < TaskCapacity /\ DOMAIN q = 1 .. m
      /\ \A i \in DOMAIN q : q[i].id \in Ids /\ (q[i].op = "send" => q[i].n \in Sizes)
  BY DEF Posted
<1>3. /\ longer \in Seq(TaskRecords) /\ Len(longer) = m + 1 /\ DOMAIN longer = 1 .. (m + 1)
      /\ longer[m + 1] = t /\ \A i \in 1 .. m : longer[i] = q[i]
  <2> HIDE DEF q
  <2> QED BY <1>2
<1> HIDE DEF m
<1>4. Len(longer) <= TaskCapacity
  <2> HIDE DEF q, longer
  <2> QED BY <1>2, <1>3, TcpNumbers
<1>5. ASSUME NEW i \in DOMAIN longer
      PROVE  longer[i].id \in Ids /\ (longer[i].op = "send" => longer[i].n \in Sizes)
  <2> HIDE DEF q, longer
  <2>1. i = m + 1 \/ i \in 1 .. m
    BY <1>2, <1>3
  <2> QED BY <1>2, <1>3, <2>1
<1>6. tasks' = longer
  OBVIOUS
<1> HIDE DEF longer
<1> QED BY <1>1, <1>3, <1>4, <1>5, <1>6 DEF Posted

-----------------------------------------------------------------------------
(* The steps *)

\* No connections at first.
LEMMA TcpInit == Init => TcpInv
<1> SUFFICES ASSUME Init PROVE TcpInv
  OBVIOUS
<1> USE DEF Init
<1>1. /\ Ids = {} /\ DOMAIN callbacks = {} /\ DOMAIN tasks = {}
      /\ Len(sessions) = 0 /\ Len(delivered) = 0 /\ Len(tasks) = 0 /\ Len(callbacks) = 0
  BY DEF Ids
<1>2. IsFiniteSet(connections) /\ Cardinality(connections) = 0
  BY FS_EmptySet
<1>3. Shape
  BY <1>1, <1>2, TcpNumbers DEF Shape
<1>4. Control
  BY DEF Control, Nothing
<1>5. WriteArmed /\ TableAgrees /\ Told
  BY <1>1 DEF WriteArmed, TableAgrees, Told
<1>6. Posted
  BY <1>1, TcpNumbers DEF Posted
<1> QED BY <1>1, <1>3, <1>4, <1>5, <1>6 DEF TcpInv, Tables

\* Every posted task is a task of a session.
LEMMA HeadTask ==
    ASSUME Posted, tasks # <<>>
    PROVE  /\ tasks \in Seq(TaskRecords)
           /\ Head(tasks) \in TaskRecords /\ Head(tasks).id \in Ids
           /\ Head(tasks).op = "send" => Head(tasks).n \in Sizes
           /\ Head(tasks).op = "close_after" => sessions[Head(tasks).id].asked
<1> DEFINE q == tasks
           t == Head(q)
<1>1. q \in Seq(TaskRecords) /\ q # <<>>
      /\ \A i \in DOMAIN q : q[i].id \in Ids /\ (q[i].op = "send" => q[i].n \in Sizes)
  BY DEF Posted
<1>2. t \in TaskRecords /\ t = q[1] /\ 1 \in DOMAIN q /\ 1 \in 1 .. Len(q)
  <2> HIDE DEF q
  <2> QED BY <1>1
<1>3. t.id \in Ids /\ (t.op = "send" => t.n \in Sizes)
  <2> HIDE DEF q
  <2> QED BY <1>1, <1>2
<1>4. t.op = "close_after" => sessions[t.id].asked
  <2>1. Owes(sessions[t.id], q, t.id)
    BY <1>3 DEF Posted
  <2> HIDE DEF q
  <2> QED BY <1>2, <2>1 DEF Owes
<1> QED BY <1>1, <1>2, <1>3, <1>4

\* Whoever closed owes nothing.
LEMMA OwesClosed ==
    ASSUME NEW s, NEW r \in Reasons, NEW q, NEW id, SessionOK(s), Owes(s, q, id),
           r = "flushed" => s.promised <= s.written
    PROVE  Owes(Closed(s, r), q, id)
BY ClosedOK DEF Owes

\* Closing on an event or a failure, the tasks as they were.
LEMMA ClosedStep ==
    ASSUME TcpInv, NEW id \in Ids, NEW r \in Reasons, ~sessions[id].closed,
           CloseInLoop(id, r),
           r = "flushed" => sessions[id].promised <= sessions[id].written,
           UNCHANGED <<next_id, tasks, loop, stop, closing, delivered>>,
           at = Nothing \/ Writing(id), at' = Nothing
    PROVE  TcpInv'
<1>1. Tables /\ Posted
  BY DEF TcpInv
<1>2. Tables'
  BY <1>1, TablesClosed
<1> DEFINE c == Closed(sessions[id], r)
<1>3. SessionOK(sessions[id]) /\ SessionOK(c)
  BY <1>1, ClosedOK DEF Tables
<1>4. sessions' = [sessions EXCEPT ![id] = c]
  BY DEF CloseInLoop
<1>5. Replaced(sessions', id, c)
  <2> HIDE DEF c
  <2> QED BY <1>1, <1>3, <1>4, OneSession DEF Tables, Shape, SessionOK
<1>6. Owes(c, tasks, id)
  BY <1>1, <1>3, OwesClosed DEF Posted
<1> HIDE DEF c
<1>7. \A j \in Ids : Owes(sessions'[j], tasks, j)
  BY <1>1, <1>5, <1>6 DEF Posted, Replaced
<1>8. Posted'
  BY <1>1, <1>5, <1>7, PostedKept DEF Replaced, Ids
<1> QED BY <1>2, <1>8 DEF TcpInv

\* The loop thread changes an open session, the tasks as they were.
LEMMA TouchedStep ==
    ASSUME TcpInv, NEW id \in Ids, NEW s2, SessionOK(s2), ~sessions[id].closed, ~s2.closed,
           sessions' = [sessions EXCEPT ![id] = s2],
           UNCHANGED <<connections, next_id, tasks, loop, stop, closing, callbacks, delivered>>,
           s2.started => sessions[id].started \/ (at' # at /\ id \in connections),
           /\ at = Nothing \/ at.id = id
           /\ at' \in {at, Nothing, [in |-> "write", id |-> id], [in |-> "started", id |-> id]},
           loop = "up" /\ at' # [in |-> "write", id |-> id] =>
               (s2.epollout <=> s2.queue # <<>>),
           at' # Nothing => loop # "down",
           Owes(s2, tasks, id)
    PROVE  TcpInv'
<1>1. Tables /\ Posted
  BY DEF TcpInv
<1>2. Tables'
  BY <1>1, TablesTouched
<1>3. Replaced(sessions', id, s2)
  BY <1>1, OneSession DEF Tables, Shape, SessionOK
<1>4. \A j \in Ids : Owes(sessions'[j], tasks, j)
  BY <1>1, <1>3 DEF Posted, Replaced
<1>5. Posted'
  BY <1>1, <1>3, <1>4, PostedKept DEF Replaced, Ids
<1> QED BY <1>2, <1>5 DEF TcpInv

\* The same written and pending bytes, or more: what is owed stays owed.
LEMMA OwesSame ==
    ASSUME NEW s, NEW s2, NEW q \in Seq(TaskRecords), NEW id, NEW n \in Nat,
           SessionOK(s), SessionOK(s2), Owes(s, q, id),
           s2.closed = s.closed, s2.close_after_send = s.close_after_send, s2.asked = s.asked,
           s2.accepted = s.accepted, s2.promised = s.promised,
           s2.written + s2.pending_bytes = s.written + s.pending_bytes + n
    PROVE  Owes(s2, q, id)
<1>1. s.accepted \in Nat /\ s.promised \in Nat
  BY DEF SessionOK, SessionRecords
<1>2. ASSUME ~s2.closed, ~s2.close_after_send PROVE \E w : Course(s2, q, id, w)
  <2>1. PICK w : Course(s, q, id, w)
    BY <1>2 DEF Owes
  <2> QED BY <1>1, <2>1, CourseRaised
<1> QED BY <1>2 DEF Owes

\* TcpSession::Start() and its failure.
LEMMA StartStep ==
    ASSUME TcpInv, StartSession
    PROVE  TcpInv'
<1> USE DEF StartSession
<1>1. Tables /\ Posted /\ Control /\ TableAgrees /\ WriteArmed /\ Shape
  BY DEF TcpInv, Tables
<1> DEFINE id == at.id
           s == sessions[id]
           s2 == [s EXCEPT !.started = TRUE]
<1>2. /\ at # Nothing /\ id \in Ids /\ ~s.closed /\ id \in connections /\ ~s.started
      /\ at = [in |-> "accept", id |-> id] /\ SessionOK(s) /\ loop # "down"
  BY <1>1 DEF Control, Nothing, Tables
<1>3. CASE loop = "up"
  <2>1. sessions' = [sessions EXCEPT ![id] = s2]
    <3>1. sessions' = [sessions EXCEPT ![at.id].started = TRUE]
      BY <1>3
    <3> QED BY <1>2, <3>1
  <2>2. s \in SessionRecords
    BY <1>2 DEF SessionOK
  <2>3. /\ s2 \in SessionRecords /\ s2.queue = s.queue /\ s2.pending_bytes = s.pending_bytes
        /\ s2.closed = s.closed /\ s2.close_after_send = s.close_after_send
        /\ s2.epollout = s.epollout /\ s2.started = TRUE /\ s2.reason = s.reason
        /\ s2.asked = s.asked /\ s2.accepted = s.accepted /\ s2.promised = s.promised
        /\ s2.written = s.written
    <3> HIDE DEF s
    <3> QED BY <2>2 DEF SessionRecords
  <2>4. at' = [in |-> "started", id |-> id]
    BY <1>2, <1>3
  <2>5. s.epollout <=> s.queue # <<>>
    BY <1>1, <1>2, <1>3 DEF WriteArmed, Writing
  <2>6. Owes(s, tasks, id) /\ tasks \in Seq(TaskRecords)
    BY <1>1, <1>2 DEF Posted
  <2>7. s.written \in Nat /\ s.pending_bytes \in Nat
    BY <2>2 DEF SessionRecords
  <2> HIDE DEF s2, s, id
  <2>8. SessionOK(s2)
    BY <1>2, <2>3 DEF SessionOK
  <2>9. Owes(s2, tasks, id)
    <3>1. s2.written + s2.pending_bytes = s.written + s.pending_bytes + 0 /\ 0 \in Nat
      BY <2>3, <2>7
    <3> QED BY <1>2, <2>3, <2>6, <2>8, <3>1, OwesSame
  <2>10. at' # at /\ at.id = id
    BY <1>2, <2>4
  <2> QED BY <1>2, <1>3, <2>1, <2>3, <2>4, <2>5, <2>8, <2>9, <2>10, TouchedStep DEF s
<1>4. CASE loop # "up"
  <2>1. connections' = connections \ {id} /\ at' = Nothing /\ UNCHANGED sessions
    BY <1>4
  <2>2. Control'
    BY <1>1, <2>1 DEF Control, Nothing
  <2>3. TableAgrees'
    BY <1>1, <1>2, <2>1 DEF TableAgrees, Ids
  <2>4. closing' \subseteq Ids
    BY <1>1 DEF Shape
  <2>5. at.in # "write"
    BY <1>2
  <2>6. Tables'
    BY <1>1, <2>1, <2>2, <2>3, <2>4, <2>5, TablesQuiet
  <2>7. Posted'
    BY <1>1, <2>1, PostedKept DEF Posted, Ids
  <2> QED BY <2>6, <2>7 DEF TcpInv
<1> QED BY <1>3, <1>4

\* Live(id) is an idle loop and an open session.
LEMMA LiveFacts ==
    ASSUME TcpInv, NEW id \in Ids, Live(id)
    PROVE  /\ at = Nothing /\ loop # "down" /\ loop \in {"up", "stopping"}
           /\ ~sessions[id].closed /\ sessions[id].started
           /\ SessionOK(sessions[id]) /\ Owes(sessions[id], tasks, id) /\ tasks \in Seq(TaskRecords)
BY DEF TcpInv, Tables, Posted, Live, LoopIdle

\* Writing(id) too.
LEMMA WritingFacts ==
    ASSUME TcpInv, NEW id \in Ids, Writing(id)
    PROVE  /\ at.id = id /\ loop # "down" /\ ~sessions[id].closed
           /\ SessionOK(sessions[id]) /\ Owes(sessions[id], tasks, id) /\ tasks \in Seq(TaskRecords)
BY DEF TcpInv, Tables, Posted, Control, Writing, Nothing

\* The closing reasons are reasons.
LEMMA ReasonFacts ==
    /\ {"kRemoteClose", "kInternalError", "kReadTimeout", "kWriteTimeout", "kSendStall", "kNormal",
        "kQueueFull", "kPendingLimit", "flushed"} \subseteq Reasons
BY DEF Reasons

\* Epoll errors and timeouts close.
LEMMA EventStep ==
    ASSUME TcpInv, NEW id \in Ids, HandleError(id) \/ CheckTimeouts(id)
    PROVE  TcpInv'
<1>1. PICK r \in {"kRemoteClose", "kInternalError", "kReadTimeout", "kWriteTimeout", "kSendStall"} :
          CloseInLoop(id, r)
  BY DEF HandleError, CheckTimeouts
<1>2. Live(id) /\ UNCHANGED <<next_id, at, tasks, loop, stop, closing, delivered>>
  BY DEF HandleError, CheckTimeouts
<1>3. at = Nothing /\ ~sessions[id].closed
  BY <1>2, LiveFacts
<1> QED BY <1>1, <1>2, <1>3, ReasonFacts, ClosedStep

\* sendmsg() took some bytes.
LEMMA SendSomeStep ==
    ASSUME TcpInv, NEW id \in Ids, NEW n \in 1 .. SendBufferLimit, SendSome(id, n)
    PROVE  TcpInv'
<1> DEFINE s == sessions[id]
           k == KernelTook(s, n)
<1>1. Writing(id) /\ s.queue # <<>> /\ n <= Head(s.queue) /\ n \in Nat
  BY TcpNumbers DEF SendSome
<1>2. /\ at.id = id /\ loop # "down" /\ ~s.closed /\ SessionOK(s) /\ Owes(s, tasks, id)
      /\ tasks \in Seq(TaskRecords)
  BY <1>1, WritingFacts
<1>3. sessions' = [sessions EXCEPT ![id] = k]
      /\ UNCHANGED <<connections, next_id, at, tasks, loop, stop, closing, callbacks, delivered>>
  BY DEF SendSome
<1>4. at' = at /\ at' = [in |-> "write", id |-> id]
  BY <1>1, <1>3 DEF Writing
<1> HIDE DEF s
<1>5. /\ SessionOK(k)
      /\ k.closed = s.closed /\ k.close_after_send = s.close_after_send
      /\ k.started = s.started /\ k.asked = s.asked /\ k.accepted = s.accepted
      /\ k.promised = s.promised
      /\ k.written + k.pending_bytes = s.written + s.pending_bytes
  BY <1>1, <1>2, KernelTookOK
<1> HIDE DEF k
<1>6. Owes(k, tasks, id)
  <2>1. s.written \in Nat /\ s.pending_bytes \in Nat /\ 0 \in Nat
    BY <1>2 DEF SessionOK, SessionRecords
  <2>2. k.written + k.pending_bytes = s.written + s.pending_bytes + 0
    BY <1>5, <2>1
  <2> QED BY <1>2, <1>5, <2>1, <2>2, OwesSame
<1>7. ~k.closed
  BY <1>2, <1>5
<1> QED BY <1>2, <1>3, <1>4, <1>5, <1>6, <1>7, TouchedStep DEF s

\* EAGAIN, and the end of the queue without CloseAfterSend(): EPOLLOUT on or off.
LEMMA ArmStep ==
    ASSUME TcpInv, NEW id \in Ids, NEW on \in BOOLEAN, Writing(id),
           on <=> sessions[id].queue # <<>>,
           sessions' = [sessions EXCEPT ![id] = SetEpollout(@, on)], at' = Nothing,
           UNCHANGED <<connections, next_id, tasks, loop, stop, closing, callbacks, delivered>>
    PROVE  TcpInv'
<1> DEFINE s == sessions[id]
           e == SetEpollout(s, on)
<1>1. /\ at.id = id /\ loop # "down" /\ ~s.closed /\ SessionOK(s) /\ Owes(s, tasks, id)
      /\ tasks \in Seq(TaskRecords)
  BY WritingFacts
<1>2. sessions' = [sessions EXCEPT ![id] = e]
  OBVIOUS
<1>3. on <=> s.queue # <<>>
  OBVIOUS
<1> HIDE DEF s
<1>4. s \in SessionRecords /\ s.written \in Nat /\ s.pending_bytes \in Nat
  BY <1>1 DEF SessionOK, SessionRecords
<1>5. /\ e \in SessionRecords
      /\ e.queue = s.queue /\ e.pending_bytes = s.pending_bytes /\ e.closed = s.closed
      /\ e.close_after_send = s.close_after_send /\ e.started = s.started
      /\ e.reason = s.reason /\ e.asked = s.asked /\ e.accepted = s.accepted
      /\ e.promised = s.promised /\ e.written = s.written
      /\ loop = "up" => e.epollout = on
  BY <1>4, SetEpolloutOK
<1> HIDE DEF e
<1>6. SessionOK(e)
  BY <1>1, <1>5 DEF SessionOK
<1>7. Owes(e, tasks, id)
  <2>1. e.written + e.pending_bytes = s.written + s.pending_bytes + 0 /\ 0 \in Nat
    BY <1>4, <1>5
  <2> QED BY <1>1, <1>5, <1>6, <2>1, OwesSame
<1>8. loop = "up" => (e.epollout <=> e.queue # <<>>)
  BY <1>3, <1>5
<1>9. ~e.closed /\ (e.started => s.started)
  BY <1>1, <1>5
<1> QED BY <1>1, <1>2, <1>6, <1>7, <1>8, <1>9, TouchedStep DEF s

\* The other ends of HandleWrite().
LEMMA WriteEndStep ==
    ASSUME TcpInv, NEW id \in Ids, SendBlocks(id) \/ SendFails(id) \/ WriteDone(id)
    PROVE  TcpInv'
<1>1. CASE SendBlocks(id)
  <2>1. /\ Writing(id) /\ sessions[id].queue # <<>> /\ at' = Nothing
        /\ sessions' = [sessions EXCEPT ![id] = SetEpollout(@, TRUE)]
        /\ UNCHANGED <<connections, next_id, tasks, loop, stop, closing, callbacks, delivered>>
    BY <1>1 DEF SendBlocks
  <2> QED BY <2>1, ArmStep
<1>2. CASE SendFails(id)
  <2>1. /\ Writing(id) /\ CloseInLoop(id, "kInternalError") /\ at' = Nothing
        /\ UNCHANGED <<next_id, tasks, loop, stop, closing, delivered>>
    BY <1>2 DEF SendFails
  <2>2. ~sessions[id].closed
    BY <2>1, WritingFacts
  <2> QED BY <2>1, <2>2, ReasonFacts, ClosedStep
<1>3. CASE WriteDone(id)
  <2>1. /\ Writing(id) /\ sessions[id].queue = <<>> /\ at' = Nothing
        /\ UNCHANGED <<next_id, tasks, loop, stop, closing, delivered>>
    BY <1>3 DEF WriteDone
  <2>2. CASE sessions[id].close_after_send
    <3>1. CloseInLoop(id, "flushed")
      BY <1>3, <2>2 DEF WriteDone
    <3>2. SessionOK(sessions[id]) /\ ~sessions[id].closed
      BY <2>1, WritingFacts
    <3>3. sessions[id].promised <= sessions[id].written
      <4> DEFINE s == sessions[id]
      <4>1. /\ s.pending_bytes = Total(s.queue) /\ s.queue = <<>> /\ s.written \in Nat
            /\ s.promised <= s.written + s.pending_bytes /\ s.promised \in Nat
        BY <2>1, <2>2, <3>2 DEF SessionOK, SessionRecords
      <4>2. s.pending_bytes = 0
        BY <4>1, TotalType
      <4> HIDE DEF s
      <4>3. s.promised <= s.written
        BY <4>1, <4>2
      <4> QED BY <4>3 DEF s
    <3> QED BY <2>1, <3>1, <3>2, <3>3, ReasonFacts, ClosedStep
  <2>3. CASE ~sessions[id].close_after_send
    <3>1. /\ sessions' = [sessions EXCEPT ![id] = SetEpollout(@, FALSE)]
          /\ UNCHANGED <<connections, callbacks>>
      BY <1>3, <2>3 DEF WriteDone
    <3> QED BY <2>1, <3>1, ArmStep
  <2> QED BY <2>2, <2>3
<1> QED BY <1>1, <1>2, <1>3

\* What SendSlices() makes of session id.
EnqueueResult(id, n) ==
    LET s == sessions[id]
    IN  \/ (s.closed \/ s.close_after_send) /\ sessions' = sessions
        \/ ~s.closed /\ \E r \in Reasons \ {"flushed"} : Replaced(sessions', id, Closed(s, r))
        \/ /\ ~s.closed /\ ~s.close_after_send /\ OverLimit(s, n) = "none"
           /\ Replaced(sessions', id, Enqueued(s, n))

\* SendSlices() on the idle loop thread.
LEMMA EnqueueTables ==
    ASSUME Tables, NEW id \in Ids, NEW n \in Sizes, at = Nothing, loop # "down",
           EnqueueAndWrite(id, n), UNCHANGED <<next_id, loop, stop, closing, delivered>>
    PROVE  Tables' /\ EnqueueResult(id, n)
<1> DEFINE s == sessions[id]
           limit == OverLimit(s, n)
<1>1. Shape /\ Control /\ TableAgrees /\ SessionOK(s) /\ sessions \in Seq(SessionRecords)
  BY DEF Tables, Shape
<1>2. CASE s.closed \/ s.close_after_send
  <2>1. UNCHANGED <<sessions, connections, callbacks, at>>
    BY <1>2 DEF EnqueueAndWrite
  <2>2. Control' /\ TableAgrees' /\ closing' \subseteq Ids
    BY <1>1, <2>1 DEF Control, TableAgrees, Shape, Ids, Nothing
  <2>3. Tables'
    BY <2>1, <2>2, TablesQuiet
  <2> QED BY <1>2, <2>1, <2>3 DEF EnqueueResult
<1>3. CASE ~(s.closed \/ s.close_after_send) /\ limit # "none"
  <2>1. CloseInLoop(id, limit) /\ at' = at
    BY <1>3 DEF EnqueueAndWrite
  <2>2. limit \in Reasons \ {"flushed"}
    BY <1>3 DEF OverLimit, Reasons
  <2> HIDE DEF limit
  <2>3. Tables'
    BY <1>3, <2>1, <2>2, TablesClosed
  <2>4. sessions' = [sessions EXCEPT ![id] = Closed(s, limit)]
    BY <1>3, <2>1 DEF CloseInLoop
  <2>5. SessionOK(Closed(s, limit))
    BY <1>1, <2>2, ClosedOK
  <2>6. Replaced(sessions', id, Closed(s, limit))
    <3> DEFINE c == Closed(s, limit)
    <3> HIDE DEF c
    <3>1. c \in SessionRecords /\ sessions' = [sessions EXCEPT ![id] = c]
      BY <2>4, <2>5 DEF c, SessionOK
    <3> QED BY <1>1, <3>1, OneSession DEF c
  <2> QED BY <1>3, <2>2, <2>3, <2>6 DEF EnqueueResult
<1>4. CASE ~(s.closed \/ s.close_after_send) /\ limit = "none"
  <2> DEFINE e == Enqueued(s, n)
  <2>1. /\ sessions' = [sessions EXCEPT ![id] = e]
        /\ at' = [in |-> "write", id |-> id]
        /\ UNCHANGED <<connections, callbacks>>
    BY <1>4 DEF EnqueueAndWrite
  <2>2. SessionOK(e) /\ e.closed = s.closed /\ e.started = s.started
    BY <1>1, <1>4, EnqueuedOK
  <2>3. Replaced(sessions', id, e)
    <3> HIDE DEF e
    <3> QED BY <1>1, <2>1, <2>2, OneSession DEF SessionOK
  <2>4. EnqueueResult(id, n)
    BY <1>4, <2>3 DEF EnqueueResult
  <2> HIDE DEF e
  <2>5. Tables'
    BY <1>4, <2>1, <2>2, TablesTouched
  <2> QED BY <2>4, <2>5
<1> QED BY <1>2, <1>3, <1>4

\* Send() on the loop thread itself.
LEMMA SendInLoopStep ==
    ASSUME TcpInv, NEW id \in Ids, NEW n \in Sizes, SendInLoop(id, n)
    PROVE  TcpInv'
<1> DEFINE s == sessions[id]
<1>1. Tables /\ Posted
  BY DEF TcpInv
<1>2. Live(id) /\ EnqueueAndWrite(id, n)
      /\ UNCHANGED <<next_id, tasks, loop, stop, closing, delivered>>
  BY DEF SendInLoop
<1>3. /\ at = Nothing /\ loop # "down" /\ SessionOK(s) /\ Owes(s, tasks, id)
      /\ tasks \in Seq(TaskRecords)
  BY <1>2, LiveFacts
<1>4. Tables' /\ EnqueueResult(id, n)
  BY <1>1, <1>2, <1>3, EnqueueTables
<1>5. CASE sessions' = sessions
  BY <1>1, <1>2, <1>4, <1>5, PostedKept DEF Posted, TcpInv, Ids
<1>6. ASSUME NEW r \in Reasons \ {"flushed"}, Replaced(sessions', id, Closed(s, r))
      PROVE  Posted'
  <2>1. Owes(Closed(s, r), tasks, id)
    BY <1>3, OwesClosed
  <2>2. \A j \in Ids : Owes(sessions'[j], tasks, j)
    BY <1>1, <1>6, <2>1 DEF Posted, Replaced
  <2> QED BY <1>1, <1>2, <1>6, <2>2, PostedKept DEF Replaced, Ids
<1>7. ASSUME OverLimit(s, n) = "none", Replaced(sessions', id, Enqueued(s, n))
      PROVE  Posted'
  <2> DEFINE e == Enqueued(s, n)
  <2>1. /\ SessionOK(e)
        /\ e.closed = s.closed /\ e.close_after_send = s.close_after_send
        /\ e.started = s.started /\ e.asked = s.asked /\ e.accepted = s.accepted
        /\ e.promised = s.promised
        /\ e.written + e.pending_bytes = s.written + s.pending_bytes + n
    BY <1>3, <1>7, EnqueuedOK
  <2>2. Replaced(sessions', id, e) /\ n \in Nat
    BY <1>7, TcpNumbers
  <2> HIDE DEF e, s
  <2>3. Owes(e, tasks, id)
    BY <1>3, <2>1, <2>2, OwesSame
  <2>4. \A j \in Ids : Owes(sessions'[j], tasks, j)
    BY <1>1, <2>2, <2>3 DEF Posted, Replaced
  <2> QED BY <1>1, <1>2, <2>2, <2>4, PostedKept DEF Replaced, Ids
<1> QED BY <1>4, <1>5, <1>6, <1>7 DEF EnqueueResult, TcpInv

\* A Send() that was posted.
LEMMA RunSendStep ==
    ASSUME TcpInv, RunTask, Head(tasks).op = "send"
    PROVE  TcpInv'
<1> DEFINE q == tasks
           t == Head(q)
           id == t.id
           n == t.n
           s == sessions[id]
<1>1. Tables /\ Posted /\ q # <<>> /\ at = Nothing /\ loop # "down" /\ tasks' = Tail(q)
  BY DEF TcpInv, RunTask, LoopIdle
<1>2. /\ q \in Seq(TaskRecords) /\ t \in TaskRecords /\ id \in Ids /\ n \in Sizes
  BY <1>1, HeadTask
<1>3. EnqueueAndWrite(id, n) /\ UNCHANGED <<next_id, loop, stop, closing, delivered>>
  BY DEF RunTask
<1>4. \A j \in Ids : SessionOK(sessions[j]) /\ Owes(sessions[j], q, j)
  BY <1>1 DEF Tables, Posted
<1>5. SessionOK(s) /\ Owes(s, q, id)
  BY <1>2, <1>4
<1>6. t.id = id /\ t.n = n /\ t.op = "send"
  OBVIOUS
<1> HIDE DEF n, id, t
<1>7. Tables' /\ EnqueueResult(id, n)
  <2> HIDE DEF q, s
  <2> QED BY <1>1, <1>2, <1>3, EnqueueTables
<1> HIDE DEF q
<1>8. \A j \in Ids : j # id => Owes(sessions[j], Tail(q), j)
  BY <1>1, <1>2, <1>4, <1>6, OwesRun DEF t
<1>9. CASE (s.closed \/ s.close_after_send) /\ sessions' = sessions
  <2>1. Owes(s, Tail(q), id)
    BY <1>1, <1>2, <1>5, <1>9, OwesRun
  <2>2. \A j \in Ids : Owes(sessions'[j], Tail(q), j)
    BY <1>8, <1>9, <2>1
  <2>3. Posted'
    BY <1>1, <1>9, <2>2, PostedRun DEF Ids, q
  <2> QED BY <1>7, <2>3 DEF TcpInv
<1>10. ASSUME NEW r \in Reasons \ {"flushed"}, Replaced(sessions', id, Closed(s, r))
      PROVE  Posted'
  <2> DEFINE c == Closed(s, r)
  <2>1. Owes(c, q, id) /\ SessionOK(c) /\ c.closed
    BY <1>5, OwesClosed, ClosedOK
  <2>2. Replaced(sessions', id, c)
    BY <1>10
  <2> HIDE DEF c
  <2>3. Owes(c, Tail(q), id)
    BY <1>1, <1>2, <2>1, OwesRun
  <2>4. \A j \in Ids : Owes(sessions'[j], Tail(q), j)
    BY <1>8, <2>2, <2>3 DEF Replaced
  <2> QED BY <1>1, <2>2, <2>4, PostedRun DEF Replaced, Ids, q
<1>11. ASSUME ~s.closed, ~s.close_after_send, OverLimit(s, n) = "none",
              Replaced(sessions', id, Enqueued(s, n))
       PROVE  Posted'
  <2> DEFINE e == Enqueued(s, n)
  <2>1. /\ SessionOK(e)
        /\ e.closed = s.closed /\ e.close_after_send = s.close_after_send
        /\ e.started = s.started /\ e.asked = s.asked /\ e.accepted = s.accepted
        /\ e.promised = s.promised
        /\ e.written + e.pending_bytes = s.written + s.pending_bytes + n
    BY <1>2, <1>5, <1>11, EnqueuedOK
  <2>2. Replaced(sessions', id, e)
    BY <1>11
  <2> HIDE DEF e, s
  <2>3. Adds(Head(q), id) = n
    BY <1>6 DEF Adds, t
  <2>4. PICK w : Course(s, q, id, w)
    BY <1>5, <1>11 DEF Owes
  <2>5. \E w2 : Course(e, Tail(q), id, w2)
    BY <1>1, <1>2, <2>1, <2>3, <2>4, CourseRun
  <2>6. ASSUME NEW i \in 1 .. Len(Tail(q)), Tail(q)[i].op = "close_after", Tail(q)[i].id = id
        PROVE  e.asked
    <3>1. i + 1 \in 1 .. Len(q) /\ Tail(q)[i] = q[i + 1]
      BY <1>1, <1>2
    <3> QED BY <1>5, <2>1, <2>6, <3>1 DEF Owes
  <2>7. Owes(e, Tail(q), id)
    BY <2>5, <2>6 DEF Owes
  <2>8. \A j \in Ids : Owes(sessions'[j], Tail(q), j)
    BY <1>8, <2>2, <2>7 DEF Replaced
  <2> QED BY <1>1, <2>2, <2>8, PostedRun DEF Replaced, Ids, q
<1> QED BY <1>7, <1>9, <1>10, <1>11 DEF EnqueueResult, TcpInv

\* A posted task finds its session closed already, or closes it.
LEMMA RunCloseStep ==
    ASSUME TcpInv, tasks # <<>>, tasks' = Tail(tasks), at = Nothing, UNCHANGED at,
           NEW r \in Reasons, Head(tasks).op # "send", CloseInLoop(Head(tasks).id, r),
           r = "flushed" /\ ~sessions[Head(tasks).id].closed =>
               sessions[Head(tasks).id].promised <= sessions[Head(tasks).id].written,
           UNCHANGED <<next_id, loop, stop, closing, delivered>>
    PROVE  TcpInv'
<1> DEFINE q == tasks
           id == Head(q).id
           s == sessions[id]
           c == Closed(s, r)
<1>1. Tables /\ Posted /\ Control /\ TableAgrees /\ Shape
  BY DEF TcpInv, Tables
<1>2. q \in Seq(TaskRecords) /\ id \in Ids
  BY <1>1, HeadTask
<1>3. \A j \in Ids : SessionOK(sessions[j]) /\ Owes(sessions[j], q, j)
  BY <1>1 DEF Tables, Posted
<1>4. \A j \in Ids : Owes(sessions[j], Tail(q), j)
  BY <1>2, <1>3, OwesRun
<1>5. CASE s.closed
  <2>1. UNCHANGED <<sessions, connections, callbacks>>
    BY <1>5 DEF CloseInLoop
  <2>2. Control' /\ TableAgrees' /\ closing' \subseteq Ids
    BY <1>1, <2>1 DEF Control, TableAgrees, Shape, Ids
  <2>3. Tables'
    BY <1>1, <2>1, <2>2, TablesQuiet
  <2>4. Posted'
    BY <1>1, <1>4, <2>1, PostedRun DEF Ids
  <2> QED BY <2>3, <2>4 DEF TcpInv
<1>6. CASE ~s.closed
  <2>1. CloseInLoop(id, r) /\ (r = "flushed" => s.promised <= s.written)
    BY <1>6
  <2>2. sessions' = [sessions EXCEPT ![id] = c]
    BY <1>6, <2>1 DEF CloseInLoop
  <2> HIDE DEF id
  <2>3. Tables'
    BY <1>1, <1>2, <1>6, <2>1, TablesClosed
  <2>4. SessionOK(c) /\ c.closed /\ Owes(c, Tail(q), id)
    BY <1>2, <1>3, <1>4, <2>1, ClosedOK, OwesClosed
  <2>5. Replaced(sessions', id, c)
    <3> HIDE DEF c
    <3> QED BY <1>1, <1>2, <2>2, <2>4, OneSession DEF Shape, SessionOK
  <2> HIDE DEF c
  <2>6. \A j \in Ids : Owes(sessions'[j], Tail(q), j)
    BY <1>4, <2>4, <2>5 DEF Replaced
  <2>7. Posted'
    BY <1>1, <2>5, <2>6, PostedRun DEF Replaced, Ids
  <2> QED BY <2>3, <2>7 DEF TcpInv
<1> QED BY <1>5, <1>6

\* A posted CloseAfterSend().
LEMMA RunCloseAfterStep ==
    ASSUME TcpInv, RunTask, Head(tasks).op = "close_after"
    PROVE  TcpInv'
<1> DEFINE q == tasks
           t == Head(q)
           id == t.id
           s == sessions[id]
<1>1. /\ Tables /\ Posted /\ Control /\ TableAgrees /\ Shape /\ WriteArmed
      /\ q # <<>> /\ at = Nothing /\ loop # "down" /\ tasks' = Tail(q)
  BY DEF TcpInv, Tables, RunTask, LoopIdle
<1>2. CloseAfterSend(id) /\ UNCHANGED <<next_id, loop, stop, closing, delivered>> /\ at' = at
  BY DEF RunTask, CloseAfterSend
<1>3. q \in Seq(TaskRecords) /\ id \in Ids /\ s.asked
  BY <1>1, HeadTask
<1>4. \A j \in Ids : SessionOK(sessions[j]) /\ Owes(sessions[j], q, j)
  BY <1>1 DEF Tables, Posted
<1>5. \A j \in Ids : Owes(sessions[j], Tail(q), j)
  BY <1>1, <1>3, <1>4, OwesRun
<1>6. ~s.closed => s.promised <= s.written + s.pending_bytes
  <2>1. SessionOK(s) /\ Owes(s, q, id)
    BY <1>3, <1>4
  <2>2. CASE s.close_after_send
    BY <2>1, <2>2 DEF SessionOK
  <2>3. ASSUME ~s.close_after_send, ~s.closed
        PROVE  s.promised <= s.written + s.pending_bytes
    <3>1. PICK w : Course(s, q, id, w)
      BY <2>1, <2>3 DEF Owes
    <3>2. 1 \in 1 .. Len(q) /\ q[1] = t /\ 1 - 1 = 0
      BY <1>1, <1>3
    <3>3. Adds(t, id) = 0
      BY DEF Adds
    <3>4. s.written \in Nat /\ s.pending_bytes \in Nat
      BY <2>1 DEF SessionOK, SessionRecords
    <3>5. w[1] = w[0] + Adds(t, id) /\ w[0] = s.written + s.pending_bytes
      BY <3>1, <3>2 DEF Course
    <3>6. s.promised <= w[1]
      BY <3>1, <3>2 DEF Course
    <3> HIDE DEF s
    <3> QED BY <3>3, <3>4, <3>5, <3>6
  <2> QED BY <2>2, <2>3
<1>7. CASE s.closed
  <2>1. UNCHANGED <<sessions, connections, callbacks>>
    BY <1>2, <1>7 DEF CloseAfterSend
  <2>2. CloseInLoop(id, "kNormal")
    BY <1>7, <2>1 DEF CloseInLoop
  <2> QED BY <1>1, <1>2, <2>2, ReasonFacts, RunCloseStep
<1>8. CASE ~s.closed /\ s.queue = <<>>
  <2>1. CloseInLoop(id, "flushed")
    BY <1>2, <1>8 DEF CloseAfterSend
  <2>2. s.promised <= s.written
    <3>1. /\ s.pending_bytes = Total(s.queue) /\ s.written \in Nat /\ s.promised \in Nat
          /\ s.promised <= s.written + s.pending_bytes
      BY <1>3, <1>4, <1>6, <1>8 DEF SessionOK, SessionRecords
    <3>2. s.pending_bytes = 0
      BY <1>8, <3>1, TotalType
    <3> HIDE DEF s
    <3> QED BY <3>1, <3>2
  <2> QED BY <1>1, <1>2, <2>1, <2>2, ReasonFacts, RunCloseStep
<1>9. CASE ~s.closed /\ s.queue # <<>>
  <2> DEFINE g == Lingers(s)
  <2>1. sessions' = [sessions EXCEPT ![id] = g] /\ UNCHANGED <<connections, callbacks>>
    BY <1>2, <1>9 DEF CloseAfterSend
  <2>2. /\ SessionOK(g) /\ g.closed = s.closed /\ g.close_after_send /\ g.started = s.started
        /\ g.asked = s.asked /\ g.queue = s.queue /\ (loop = "up" => g.epollout)
    BY <1>3, <1>4, <1>6, <1>9, LingersOK
  <2> HIDE DEF g, id
  <2>3. Replaced(sessions', id, g)
    BY <1>1, <1>3, <2>1, <2>2, OneSession DEF Shape, SessionOK
  <2>4. Tables'
    <3>1. loop = "up" => (g.epollout <=> g.queue # <<>>)
      BY <1>9, <2>2
    <3>2. ~g.closed /\ (g.started => s.started)
      BY <1>9, <2>2
    <3> QED BY <1>1, <1>2, <1>3, <1>9, <2>1, <2>2, <3>1, <3>2, TablesTouched
  <2>5. Owes(g, Tail(q), id)
    <3>1. Owes(s, Tail(q), id)
      BY <1>3, <1>5
    <3> QED BY <2>2, <3>1 DEF Owes
  <2>6. \A j \in Ids : Owes(sessions'[j], Tail(q), j)
    BY <1>5, <2>3, <2>5 DEF Replaced
  <2>7. Posted'
    BY <1>1, <2>3, <2>6, PostedRun DEF Replaced, Ids
  <2> QED BY <2>4, <2>7 DEF TcpInv
<1> QED BY <1>7, <1>8, <1>9

\* The IO loop runs a task.
LEMMA RunTaskStep ==
    ASSUME TcpInv, RunTask
    PROVE  TcpInv'
<1>1. CASE Head(tasks).op = "close"
  <2>1. /\ tasks # <<>> /\ tasks' = Tail(tasks) /\ at = Nothing /\ UNCHANGED at
        /\ CloseInLoop(Head(tasks).id, "kNormal")
        /\ UNCHANGED <<next_id, loop, stop, closing, delivered>>
    BY <1>1 DEF RunTask, LoopIdle
  <2> QED BY <1>1, <2>1, ReasonFacts, RunCloseStep
<1>2. Head(tasks).op \in {"send", "close", "close_after"}
  BY DEF RunTask
<1> QED BY <1>1, <1>2, RunSendStep, RunCloseAfterStep

\* Send(), Close() and CloseAfterSend() by another thread.
LEMMA CallStep ==
    ASSUME TcpInv, NEW id \in Ids, NEW op \in {"send", "close", "close_after"}, NEW n \in Nat,
           op = "send" => n \in Sizes, Call(op, id, n)
    PROVE  TcpInv'
<1> DEFINE s == sessions[id]
           p == Promised(s, op, n)
           t == [op |-> op, id |-> id, n |-> n]
<1>1. Tables /\ Posted /\ Control /\ TableAgrees /\ Shape /\ WriteArmed
  BY DEF TcpInv, Tables
<1>2. /\ id \in connections /\ loop = "up" /\ Len(tasks) < TaskCapacity
      /\ tasks' = Append(tasks, t) /\ sessions' = [sessions EXCEPT ![id] = p]
      /\ UNCHANGED <<connections, next_id, at, loop, stop, closing, callbacks, delivered>>
  BY DEF Call, CanPost
<1>3. ~s.closed /\ SessionOK(s) /\ Owes(s, tasks, id) /\ tasks \in Seq(TaskRecords)
  BY <1>1, <1>2 DEF TableAgrees, Tables, Posted
<1>4. id \in Nat
  BY <1>1, LenProperties DEF Shape, Ids
<1>5. t \in TaskRecords /\ t.op = op /\ t.id = id /\ t.n = n
  BY <1>4 DEF TaskRecords
<1>6. Owes(p, Append(tasks, t), id)
  BY <1>3, <1>4, OwesPosted
<1> HIDE DEF t
<1>7. /\ SessionOK(p) /\ p.closed = s.closed /\ p.started = s.started
      /\ p.queue = s.queue /\ p.epollout = s.epollout
  BY <1>3, PromisedOK
<1>8. loop = "up" /\ at # [in |-> "write", id |-> id] => (s.epollout <=> s.queue # <<>>)
  BY <1>1, <1>3 DEF WriteArmed, Writing
<1> HIDE DEF p
<1>9. Replaced(sessions', id, p)
  BY <1>1, <1>2, <1>7, OneSession DEF Shape, SessionOK
<1>10. Tables'
  <2>1. ~p.closed /\ (p.started => s.started) /\ loop # "down"
    BY <1>2, <1>3, <1>7
  <2>2. loop = "up" /\ at' # [in |-> "write", id |-> id] => (p.epollout <=> p.queue # <<>>)
    BY <1>2, <1>7, <1>8
  <2> QED BY <1>1, <1>2, <1>3, <1>7, <2>1, <2>2, TablesTouched
<1>11. \A j \in Ids : Owes(sessions'[j], Append(tasks, t), j)
  <2>1. ASSUME NEW j \in Ids, j # id PROVE Owes(sessions[j], Append(tasks, t), j)
    BY <1>1, <1>3, <1>5, <2>1, OwesBehind DEF Tables, Posted
  <2> QED BY <1>6, <1>9, <2>1 DEF Replaced
<1>12. Posted'
  BY <1>1, <1>2, <1>5, <1>9, <1>11, PostedMore DEF Replaced, Ids
<1> QED BY <1>10, <1>12 DEF TcpInv

\* Steps that leave the sessions and the tasks alone.
LEMMA QuietStep ==
    ASSUME TcpInv, \/ DispatchAccept \/ StopBegin \/ StopLoops \/ LoopExit \/ StopDone
                   \/ \E id \in Ids : HandleRead(id) \/ HandleWritable(id)
    PROVE  TcpInv'
<1>1. Tables /\ Posted /\ Control /\ TableAgrees /\ Shape
  BY DEF TcpInv, Tables
<1>2. UNCHANGED <<sessions, next_id, delivered, tasks>>
  BY DEF DispatchAccept, StopBegin, StopLoops, LoopExit, StopDone, HandleRead, HandleWritable
<1>3. Ids' = Ids
  BY <1>2 DEF Ids
<1>4. Posted'
  BY <1>1, <1>2, <1>3, PostedKept DEF Posted
<1>5. CASE DispatchAccept
  <2> USE <1>5 DEF DispatchAccept
  <2>1. at.id \in Ids /\ ~sessions[at.id].closed /\ at.in # "write"
    BY <1>1 DEF Control, Nothing
  <2>2. Control' /\ TableAgrees' /\ closing' \subseteq Ids
    BY <1>1, <1>2, <1>3 DEF Control, TableAgrees, Nothing, Shape
  <2>3. Tables'
    BY <1>1, <1>2, <2>1, <2>2, TablesQuiet
  <2> QED BY <1>4, <2>3 DEF TcpInv
<1>6. CASE StopBegin
  <2> USE <1>6 DEF StopBegin
  <2>1. Control' /\ TableAgrees' /\ closing' \subseteq Ids
    BY <1>1, <1>2, <1>3 DEF Control, TableAgrees, Shape
  <2>2. Tables'
    BY <1>1, <1>2, <2>1, TablesQuiet
  <2> QED BY <1>4, <2>2 DEF TcpInv
<1>7. CASE StopLoops
  <2> USE <1>7 DEF StopLoops
  <2>1. Control' /\ TableAgrees' /\ closing' \subseteq Ids
    BY <1>1, <1>2, <1>3 DEF Control, TableAgrees, Shape
  <2>2. Tables'
    BY <1>1, <1>2, <2>1, TablesQuiet
  <2> QED BY <1>4, <2>2 DEF TcpInv
<1>8. CASE LoopExit
  <2> USE <1>8 DEF LoopExit, LoopIdle
  <2>1. Control' /\ TableAgrees' /\ closing' \subseteq Ids
    BY <1>1, <1>2, <1>3 DEF Control, TableAgrees, Shape
  <2>2. Tables'
    BY <1>1, <1>2, <2>1, TablesQuiet
  <2> QED BY <1>4, <2>2 DEF TcpInv
<1>9. CASE StopDone
  <2> USE <1>9 DEF StopDone
  <2>1. at = Nothing
    BY <1>1 DEF Control
  <2>2. Control' /\ TableAgrees' /\ closing' \subseteq Ids
    BY <1>1, <1>2, <1>3, <2>1 DEF Control, TableAgrees, Shape, Nothing
  <2>3. Tables'
    BY <1>1, <1>2, <2>2, TablesQuiet
  <2> QED BY <1>4, <2>3 DEF TcpInv
<1>10. ASSUME NEW id \in Ids, HandleRead(id) PROVE TcpInv'
  <2>1. Live(id) /\ callbacks' = Dispatch(callbacks, "read", id)
        /\ UNCHANGED <<connections, at, loop, stop, closing>>
    BY <1>10 DEF HandleRead
  <2>2. ~sessions[id].closed
    BY <2>1 DEF Live
  <2>3. Control' /\ TableAgrees' /\ closing' \subseteq Ids
    BY <1>1, <1>2, <1>3, <2>1 DEF Control, TableAgrees, Shape
  <2>4. Tables'
    BY <1>1, <1>2, <2>1, <2>2, <2>3, TablesQuiet
  <2> QED BY <1>4, <2>4 DEF TcpInv
<1>11. ASSUME NEW id \in Ids, HandleWritable(id) PROVE TcpInv'
  <2>1. Live(id) /\ at' = [in |-> "write", id |-> id]
        /\ UNCHANGED <<connections, loop, stop, closing, callbacks>>
    BY <1>11 DEF HandleWritable
  <2>2. ~sessions[id].closed /\ at = Nothing /\ loop # "down"
    BY <2>1 DEF Live, LoopIdle
  <2>3. at' \in [in : {"accept", "started", "write"}, id : Ids] /\ at'.id = id /\ at'.in = "write"
        /\ at' # Nothing
    BY <2>1 DEF Nothing
  <2>4. Control' /\ TableAgrees' /\ closing' \subseteq Ids
    BY <1>1, <1>2, <1>3, <2>1, <2>2, <2>3 DEF Control, TableAgrees, Shape
  <2>5. at.in # "write"
    BY <2>2 DEF Nothing
  <2>6. Tables'
    BY <1>1, <1>2, <2>1, <2>4, <2>5, TablesQuiet
  <2> QED BY <1>4, <2>6 DEF TcpInv
<1> QED BY <1>5, <1>6, <1>7, <1>8, <1>9, <1>10, <1>11

\* StopInternal() posts a Close().
LEMMA StopCloseStep ==
    ASSUME TcpInv, NEW id \in Ids, StopClose(id)
    PROVE  TcpInv'
<1> DEFINE t == [op |-> "close", id |-> id, n |-> 0]
<1>1. Tables /\ Posted /\ Control /\ TableAgrees /\ Shape
  BY DEF TcpInv, Tables
<1>2. UNCHANGED <<connections, sessions, next_id, at, loop, stop, callbacks, delivered>>
      /\ closing' \subseteq closing
  BY DEF StopClose
<1>3. Ids' = Ids
  BY <1>2 DEF Ids
<1>4. Tables'
  <2>1. Control' /\ TableAgrees' /\ closing' \subseteq Ids
    BY <1>1, <1>2, <1>3 DEF Control, TableAgrees, Shape
  <2> QED BY <1>1, <1>2, <2>1, TablesQuiet
<1>5. CASE tasks' = tasks
  BY <1>1, <1>2, <1>3, <1>4, <1>5, PostedKept DEF Posted, TcpInv
<1>6. CASE tasks' = Append(tasks, t) /\ Len(tasks) < TaskCapacity
  <2>1. id \in Nat
    BY <1>1, LenProperties DEF Shape, Ids
  <2>2. t \in TaskRecords /\ t.id = id /\ t.op = "close"
    BY <2>1 DEF TaskRecords
  <2> HIDE DEF t
  <2>3. \A j \in Ids : Owes(sessions'[j], Append(tasks, t), j)
    BY <1>1, <1>2, <2>2, OwesBehind DEF Tables, Posted
  <2>4. Posted'
    BY <1>1, <1>3, <1>6, <2>2, <2>3, PostedMore
  <2> QED BY <1>4, <2>4 DEF TcpInv
<1> QED BY <1>5, <1>6 DEF StopClose, CanPost

\* A connection is accepted.
LEMMA AcceptStep ==
    ASSUME TcpInv, Accept
    PROVE  TcpInv'
<1> USE DEF Accept
<1> DEFINE m == Len(sessions)
<1>1. Tables /\ Posted /\ Control /\ TableAgrees /\ Shape /\ WriteArmed /\ Told
      /\ \A j \in Ids : SessionOK(sessions[j])
  BY DEF TcpInv, Tables
<1>2. /\ m \in Nat /\ Ids = 1 .. m /\ next_id = m + 1 /\ sessions \in Seq(SessionRecords)
      /\ delivered \in Seq(Seq({"accept", "read", "close"})) /\ Len(delivered) = m
      /\ DOMAIN delivered = 1 .. m
  BY <1>1, LenProperties DEF Shape, Ids
<1>3. NewSession \in SessionRecords /\ SessionOK(NewSession)
  BY NewSessionOK DEF SessionOK
<1>4. /\ sessions' \in Seq(SessionRecords) /\ Len(sessions') = m + 1 /\ Ids' = 1 .. (m + 1)
      /\ sessions'[m + 1] = NewSession /\ \A j \in 1 .. m : sessions'[j] = sessions[j]
  <2> DEFINE longer == Append(sessions, NewSession)
  <2>1. /\ longer \in Seq(SessionRecords) /\ Len(longer) = m + 1 /\ DOMAIN longer = 1 .. (m + 1)
        /\ longer[m + 1] = NewSession /\ \A j \in 1 .. m : longer[j] = sessions[j]
    <3> HIDE DEF m
    <3> QED BY <1>2, <1>3 DEF m
  <2>2. sessions' = longer
    OBVIOUS
  <2> HIDE DEF longer
  <2> QED BY <2>1, <2>2 DEF Ids
<1>5. /\ delivered' \in Seq(Seq({"accept", "read", "close"})) /\ Len(delivered') = m + 1
      /\ delivered'[m + 1] = <<>> /\ \A j \in 1 .. m : delivered'[j] = delivered[j]
  <2> DEFINE longer == Append(delivered, <<>>)
  <2>1. /\ longer \in Seq(Seq({"accept", "read", "close"})) /\ Len(longer) = m + 1
        /\ longer[m + 1] = <<>> /\ \A j \in 1 .. m : longer[j] = delivered[j]
    <3> HIDE DEF m
    <3> QED BY <1>2
  <2>2. delivered' = longer
    OBVIOUS
  <2> HIDE DEF longer
  <2> QED BY <2>1, <2>2
<1> HIDE DEF m
<1>6. /\ Ids \subseteq Ids' /\ m + 1 \in Ids' /\ m + 1 \notin Ids
      /\ \A j \in Ids' : j \in Ids \/ j = m + 1
  BY <1>2, <1>4
<1>7. \A j \in Ids : sessions'[j] = sessions[j] /\ delivered'[j] = delivered[j]
  BY <1>2, <1>4, <1>5
<1>8. at = Nothing /\ loop # "down"
      /\ UNCHANGED <<tasks, loop, stop, closing, callbacks>>
  BY DEF LoopIdle
<1>9. /\ NewSession.closed = FALSE /\ NewSession.started = FALSE /\ NewSession.epollout = FALSE
      /\ NewSession.queue = <<>> /\ NewSession.close_after_send = FALSE
      /\ NewSession.asked = FALSE /\ NewSession.accepted = 0 /\ NewSession.promised = 0
      /\ NewSession.written = 0 /\ NewSession.pending_bytes = 0
  BY DEF NewSession
<1>10. \/ connections' = connections /\ at' = at
       \/ /\ connections' = connections \cup {m + 1} /\ at' = [in |-> "accept", id |-> m + 1]
          /\ Cardinality(connections) < MaxConnections
  BY <1>2
<1>11. connections' \subseteq Ids' /\ IsFiniteSet(connections') /\ Cardinality(connections') <= MaxConnections
  <2>1. /\ connections \subseteq Ids /\ IsFiniteSet(connections) /\ Cardinality(connections) <= MaxConnections
        /\ Cardinality(connections) \in Nat
    BY <1>1, FS_CardinalityType DEF Shape
  <2>2. CASE connections' = connections
    BY <1>6, <2>1, <2>2
  <2>3. CASE connections' = connections \cup {m + 1} /\ Cardinality(connections) < MaxConnections
    <3>1. m + 1 \notin connections
      BY <1>6, <2>1
    <3>2. IsFiniteSet(connections') /\ Cardinality(connections') = Cardinality(connections) + 1
      BY <2>1, <2>3, <3>1, FS_AddElement
    <3> QED BY <1>6, <2>1, <2>3, <3>2, TcpNumbers
  <2> QED BY <1>10, <2>2, <2>3
<1>12. Shape'
  <2>1. next_id' = Len(sessions') + 1
    BY <1>2, <1>4
  <2> QED BY <1>1, <1>4, <1>5, <1>6, <1>8, <1>11, <2>1 DEF Shape
<1>13. Control'
  <2>1. CASE at' = at
    BY <1>1, <1>8, <2>1 DEF Control, Nothing
  <2>2. CASE connections' = connections \cup {m + 1} /\ at' = [in |-> "accept", id |-> m + 1]
    <3>1. at' \in [in : {"accept", "started", "write"}, id : Ids'] /\ at'.id = m + 1
          /\ at'.id \in connections'
      BY <1>6, <2>2
    <3> QED BY <1>1, <1>4, <1>8, <1>9, <3>1 DEF Control
  <2> QED BY <1>10, <2>1, <2>2
<1>14. WriteArmed'
  <2> SUFFICES ASSUME NEW j \in Ids', ~sessions'[j].closed, loop = "up"
               PROVE  sessions'[j].epollout <=> sessions'[j].queue # <<>>
    BY <1>8 DEF WriteArmed, Writing
  <2>1. CASE j = m + 1
    BY <1>4, <1>9, <2>1
  <2>2. CASE j \in Ids
    BY <1>1, <1>7, <1>8, <2>2 DEF WriteArmed, Writing, Nothing
  <2> QED BY <1>6, <2>1, <2>2
<1>15. TableAgrees'
  <2>1. ASSUME NEW j \in connections' PROVE ~sessions'[j].closed
    <3>1. CASE j = m + 1
      BY <1>4, <1>9, <3>1
    <3>2. CASE j # m + 1
      <4>1. j \in connections /\ j \in Ids
        BY <1>1, <1>10, <3>2 DEF Shape
      <4> QED BY <1>1, <1>7, <4>1 DEF TableAgrees
    <3> QED BY <3>1, <3>2
  <2>2. ASSUME NEW j \in Ids', sessions'[j].started, ~sessions'[j].closed, stop # "done"
        PROVE  j \in connections'
    <3>1. j \in Ids
      BY <1>4, <1>6, <1>9, <2>2
    <3>2. j \in connections
      BY <1>1, <1>7, <2>2, <3>1 DEF TableAgrees
    <3> QED BY <1>10, <3>2
  <2> QED BY <1>8, <2>1, <2>2 DEF TableAgrees
<1>16. Told'
  <2>1. \A i \in DOMAIN callbacks : callbacks[i].id \in Ids
    BY <1>1 DEF Shape
  <2>2. ASSUME NEW j \in Ids', NEW i \in DOMAIN delivered'[j], delivered'[j][i] = "close"
        PROVE  /\ i = Len(delivered'[j]) /\ sessions'[j].closed
               /\ \A k \in DOMAIN callbacks : callbacks[k].id # j
    <3>1. j \in Ids
      <4>1. DOMAIN <<>> = {}
        OBVIOUS
      <4> QED BY <1>5, <1>6, <2>2, <4>1
    <3>2. i \in DOMAIN delivered[j] /\ delivered[j][i] = "close"
      BY <1>7, <2>2, <3>1
    <3> QED BY <1>1, <1>7, <3>1, <3>2 DEF Told
  <2>3. ASSUME NEW i \in DOMAIN callbacks, callbacks[i].name = "close"
        PROVE  /\ sessions'[callbacks[i].id].closed
               /\ \A j \in DOMAIN callbacks : j > i => callbacks[j].id # callbacks[i].id
    BY <1>1, <1>7, <2>1, <2>3 DEF Told
  <2> QED BY <1>8, <2>2, <2>3 DEF Told
<1>17. (\A j \in Ids : SessionOK(sessions[j]))'
  <2> SUFFICES ASSUME NEW j \in Ids' PROVE SessionOK(sessions[j])'
    OBVIOUS
  <2>1. SessionOK(sessions'[j])
    BY <1>1, <1>3, <1>4, <1>6, <1>7
  <2> QED BY <2>1 DEF SessionOK, SessionRecords
<1>18. Posted'
  <2>1. tasks \in Seq(TaskRecords) /\ Len(tasks) <= TaskCapacity /\ Len(tasks) \in Nat
        /\ DOMAIN tasks = 1 .. Len(tasks)
        /\ \A i \in DOMAIN tasks : tasks[i].id \in Ids /\ (tasks[i].op = "send" => tasks[i].n \in Sizes)
    BY <1>1, LenProperties DEF Posted
  <2>2. Owes(NewSession, tasks, m + 1)
    <3> DEFINE w == [i \in 0 .. Len(tasks) |-> 0]
    <3>1. \A i \in 1 .. Len(tasks) : tasks[i].id # m + 1
      BY <1>6, <2>1
    <3>2. \A i \in 1 .. Len(tasks) : Adds(tasks[i], m + 1) = 0
      BY <3>1 DEF Adds
    <3>3. w \in [0 .. Len(tasks) -> Nat] /\ \A i \in 0 .. Len(tasks) : w[i] = 0
      OBVIOUS
    <3> HIDE DEF w
    <3>4. /\ 0 \in 0 .. Len(tasks) /\ Len(tasks) \in 0 .. Len(tasks)
          /\ \A i \in 1 .. Len(tasks) : i \in 0 .. Len(tasks) /\ i - 1 \in 0 .. Len(tasks)
      BY <2>1
    <3>5. Course(NewSession, tasks, m + 1, w)
      <4>1. \A i \in 1 .. Len(tasks) : w[i] = w[i - 1] + Adds(tasks[i], m + 1)
        <5> SUFFICES ASSUME NEW i \in 1 .. Len(tasks)
                     PROVE  w[i] = w[i - 1] + Adds(tasks[i], m + 1)
          OBVIOUS
        <5>1. w[i] = 0 /\ w[i - 1] = 0 /\ Adds(tasks[i], m + 1) = 0
          BY <3>2, <3>3, <3>4
        <5> QED BY <5>1
      <4>2. w[0] = NewSession.written + NewSession.pending_bytes /\ NewSession.accepted <= w[Len(tasks)]
        BY <1>9, <3>3, <3>4
      <4> QED BY <3>1, <3>3, <4>1, <4>2 DEF Course
    <3> QED BY <3>1, <3>5 DEF Owes
  <2>3. \A j \in Ids' : Owes(sessions'[j], tasks, j)
    BY <1>1, <1>4, <1>6, <1>7, <2>2 DEF Posted
  <2>4. (\A j \in Ids : Owes(sessions[j], tasks, j))'
    <3> SUFFICES ASSUME NEW j \in Ids' PROVE Owes(sessions[j], tasks, j)'
      OBVIOUS
    <3>1. Owes(sessions'[j], tasks', j)
      BY <1>8, <2>3
    <3> QED BY <3>1 DEF Owes, Course, Adds
  <2> QED BY <1>6, <1>8, <2>1, <2>4 DEF Posted
<1> QED BY <1>12, <1>13, <1>14, <1>15, <1>16, <1>17, <1>18 DEF TcpInv, Tables

\* The callback loop delivers.
LEMMA CallbackStep ==
    ASSUME TcpInv, RunCallback
    PROVE  TcpInv'
<1> USE DEF RunCallback
<1> DEFINE q == callbacks
           c == Head(q)
           rest == Tail(q)
           d == delivered[c.id]
           seen == Append(d, c.name)
<1>1. Tables /\ Posted /\ Control /\ TableAgrees /\ Shape /\ WriteArmed /\ Told
      /\ \A j \in Ids : SessionOK(sessions[j])
  BY DEF TcpInv, Tables
<1>2. UNCHANGED <<connections, sessions, next_id, at, tasks, loop, stop, closing>> /\ Ids' = Ids
  BY DEF Ids
<1>3. /\ q \in Seq(CallbackRecords) /\ q # <<>> /\ Len(q) <= CallbackCapacity
      /\ \A i \in DOMAIN q : q[i].id \in Ids
      /\ delivered \in Seq(Seq({"accept", "read", "close"})) /\ Len(delivered) = Len(sessions)
      /\ DOMAIN delivered = Ids
  BY <1>1, LenProperties DEF Shape, Ids
<1>4. \A i \in DOMAIN q : q[i].name = "close" =>
          /\ sessions[q[i].id].closed
          /\ \A j \in DOMAIN q : j > i => q[j].id # q[i].id
  BY <1>1 DEF Told
<1>5. \A id \in Ids : \A i \in DOMAIN delivered[id] : delivered[id][i] = "close" =>
          /\ i = Len(delivered[id]) /\ sessions[id].closed
          /\ \A j \in DOMAIN q : q[j].id # id
  BY <1>1 DEF Told
<1>6. callbacks' = rest /\ delivered' = [delivered EXCEPT ![c.id] = seen]
  OBVIOUS
<1> HIDE DEF q
<1>7. /\ c \in CallbackRecords /\ c = q[1] /\ 1 \in DOMAIN q
      /\ rest \in Seq(CallbackRecords) /\ Len(rest) = Len(q) - 1 /\ Len(q) \in Nat
      /\ \A i \in DOMAIN rest : i + 1 \in DOMAIN q /\ rest[i] = q[i + 1] /\ i \in Nat /\ i >= 1
  BY <1>3
<1>8. c.id \in Ids /\ c.name \in {"accept", "read", "close"}
  BY <1>3, <1>7 DEF CallbackRecords
<1> HIDE DEF c, rest
<1>9. d \in Seq({"accept", "read", "close"})
  BY <1>3, <1>8
<1>10. /\ seen \in Seq({"accept", "read", "close"}) /\ Len(seen) = Len(d) + 1 /\ Len(d) \in Nat
       /\ seen[Len(d) + 1] = c.name /\ \A i \in 1 .. Len(d) : seen[i] = d[i]
       /\ DOMAIN seen = 1 .. (Len(d) + 1) /\ DOMAIN d = 1 .. Len(d)
  <2> HIDE DEF d
  <2> QED BY <1>8, <1>9
<1> HIDE DEF seen
<1>11. /\ delivered' \in Seq(Seq({"accept", "read", "close"})) /\ Len(delivered') = Len(sessions)
       /\ delivered'[c.id] = seen /\ \A j \in Ids : j # c.id => delivered'[j] = delivered[j]
  <2>1. delivered \in [1 .. Len(delivered) -> Seq({"accept", "read", "close"})] /\ Len(delivered) \in Nat
    BY <1>3, LenProperties
  <2>2. delivered' \in [1 .. Len(delivered) -> Seq({"accept", "read", "close"})]
    BY <1>6, <1>10, <2>1
  <2>3. delivered' \in Seq(Seq({"accept", "read", "close"})) /\ Len(delivered') = Len(delivered)
    BY <2>1, <2>2
  <2> QED BY <1>3, <1>6, <1>8, <2>3
<1>12. Shape'
  <2>1. Len(rest) <= CallbackCapacity
    BY <1>3, <1>7, TcpNumbers
  <2>2. \A i \in DOMAIN rest : rest[i].id \in Ids
    BY <1>3, <1>7
  <2> QED BY <1>1, <1>2, <1>6, <1>7, <1>11, <2>1, <2>2 DEF Shape
<1>13. Told'
  <2>1. ASSUME NEW i \in DOMAIN rest, rest[i].name = "close"
        PROVE  /\ sessions[rest[i].id].closed
               /\ \A j \in DOMAIN rest : j > i => rest[j].id # rest[i].id
    <3>1. i + 1 \in DOMAIN q /\ rest[i] = q[i + 1]
      BY <1>7
    <3>2. \A j \in DOMAIN rest : j > i => j + 1 > i + 1
      BY <1>7
    <3> QED BY <1>4, <1>7, <2>1, <3>1, <3>2
  <2>2. c.name = "close" =>
            sessions[c.id].closed /\ \A j \in DOMAIN rest : rest[j].id # c.id
    <3>1. \A j \in DOMAIN rest : j + 1 > 1
      BY <1>7
    <3> QED BY <1>4, <1>7, <3>1
  <2>3. \A i \in DOMAIN d : d[i] # "close"
    BY <1>5, <1>7, <1>8
  <2>4. ASSUME NEW id \in Ids, NEW i \in DOMAIN delivered'[id], delivered'[id][i] = "close"
        PROVE  /\ i = Len(delivered'[id]) /\ sessions[id].closed
               /\ \A j \in DOMAIN rest : rest[j].id # id
    <3>1. CASE id = c.id
      <4>3. i \in DOMAIN seen /\ seen[i] = "close"
        BY <1>11, <2>4, <3>1
      <4>4. ~(i \in DOMAIN d)
        BY <1>10, <2>3, <4>3
      <4>1. i = Len(d) + 1
        <5> HIDE DEF d
        <5> QED BY <1>10, <4>3, <4>4
      <4>2. c.name = "close"
        BY <1>10, <1>11, <2>4, <3>1, <4>1
      <4> QED BY <1>10, <1>11, <2>2, <3>1, <4>1, <4>2
    <3>2. CASE id # c.id
      <4>1. delivered'[id] = delivered[id]
        BY <1>11, <3>2
      <4>2. i = Len(delivered[id]) /\ sessions[id].closed /\ \A j \in DOMAIN q : q[j].id # id
        BY <1>5, <2>4, <4>1
      <4> QED BY <1>7, <4>1, <4>2
    <3> QED BY <3>1, <3>2
  <2> QED BY <1>2, <1>6, <2>1, <2>4 DEF Told
<1>14. Control' /\ TableAgrees' /\ WriteArmed'
  BY <1>1, <1>2 DEF Control, TableAgrees, WriteArmed, Writing
<1>15. (\A j \in Ids : SessionOK(sessions[j]))'
  <2> SUFFICES ASSUME NEW j \in Ids PROVE SessionOK(sessions[j])'
    BY <1>2
  <2>1. SessionOK(sessions'[j])
    BY <1>1, <1>2
  <2> QED BY <2>1 DEF SessionOK, SessionRecords
<1>16. Posted'
  BY <1>1, <1>2, PostedKept DEF Posted
<1> QED BY <1>12, <1>13, <1>14, <1>15, <1>16 DEF TcpInv, Tables

\* Nothing changes.
LEMMA TcpStutter ==
    ASSUME TcpInv, UNCHANGED vars
    PROVE  TcpInv'
<1> USE DEF vars
<1>1. Tables /\ Posted /\ Control /\ TableAgrees /\ Shape
  BY DEF TcpInv, Tables
<1>2. Control' /\ TableAgrees' /\ closing' \subseteq Ids
  BY <1>1 DEF Control, TableAgrees, Shape, Ids
<1>3. Tables'
  BY <1>1, <1>2, TablesQuiet
<1>4. Posted'
  BY <1>1, PostedKept DEF Posted, Ids
<1> QED BY <1>3, <1>4 DEF TcpInv

\* Every step keeps the invariant.
LEMMA TcpStep == TcpInv /\ [Next]_vars => TcpInv'
<1> SUFFICES ASSUME TcpInv, [Next]_vars PROVE TcpInv'
  OBVIOUS
<1>1. CASE UNCHANGED vars
  BY <1>1, TcpStutter
<1>2. CASE \/ RunCallback \/ Accept \/ StartSession \/ RunTask
  BY <1>2, CallbackStep, AcceptStep, StartStep, RunTaskStep
<1>3. CASE DispatchAccept \/ StopBegin \/ StopLoops \/ LoopExit \/ StopDone
  BY <1>3, QuietStep
<1>4. ASSUME NEW id \in Ids,
             \/ HandleRead(id) \/ HandleError(id) \/ HandleWritable(id)
             \/ CheckTimeouts(id) \/ SendBlocks(id) \/ SendFails(id)
             \/ WriteDone(id) \/ StopClose(id)
      PROVE  TcpInv'
  BY <1>4, QuietStep, EventStep, WriteEndStep, StopCloseStep
<1>5. ASSUME NEW id \in Ids,
             \/ \E n \in 1 .. SendBufferLimit : SendSome(id, n)
             \/ \E n \in Sizes : SendInLoop(id, n)
      PROVE  TcpInv'
  BY <1>5, SendSomeStep, SendInLoopStep
<1>6. ASSUME NEW id \in Ids,
             \/ \E n \in Sizes : Call("send", id, n)
             \/ \E op \in {"close", "close_after"} : Call(op, id, 0)
      PROVE  TcpInv'
  <2>1. ASSUME NEW n \in Sizes, Call("send", id, n) PROVE TcpInv'
    BY <2>1, CallStep, TcpNumbers
  <2>2. ASSUME NEW op \in {"close", "close_after"}, Call(op, id, 0) PROVE TcpInv'
    BY <2>2, CallStep
  <2> QED BY <1>6, <2>1, <2>2
<1> QED BY <1>1, <1>2, <1>3, <1>4, <1>5, <1>6 DEF Next

-----------------------------------------------------------------------------
(* Theorems *)

\* The invariant holds of every behaviour.
LEMMA TcpAlways == Spec => []TcpInv
BY TcpInit, TcpStep, PTL DEF Spec

\* The output of every connection, for every limit: pending_bytes_ is the total
\* of the send queue, both limits of a slow client hold, EPOLLOUT is armed
\* exactly while there is output, and CloseAfterSend() closes only what wrote
\* everything accepted before it (HandleWrite(), EnqueueOutBuffer(), CloseInLoop()).
THEOREM OutputExactHolds == Spec => []OutputExact
<1>1. TcpInv => OutputExact
  <2> SUFFICES ASSUME TcpInv PROVE OutputExact
    OBVIOUS
  <2>1. Tables /\ Posted /\ Shape /\ Control /\ WriteArmed /\ \A j \in Ids : SessionOK(sessions[j])
    BY DEF TcpInv, Tables
  <2>2. \A id \in Ids : sessions[id].queue \in Seq(1 .. SendBufferLimit)
                          /\ sessions[id].pending_bytes \in Nat
    BY <2>1 DEF SessionOK, SessionRecords, Buffers
  <2>3. at.in \in {"idle", "accept", "started", "write"}
    BY <2>1 DEF Control, Nothing
  <2>4. TypeOK
    BY <2>1, <2>2, <2>3 DEF TypeOK, Shape, Posted
  <2>5. PendingBytesExact
    BY <2>1 DEF PendingBytesExact, SessionOK
  <2>6. FlushedBeforeClose
    <3> SUFFICES ASSUME NEW id \in Ids, sessions[id].reason = "flushed"
                 PROVE  sessions[id].written >= sessions[id].promised
      BY DEF FlushedBeforeClose
    <3>1. sessions[id].promised <= sessions[id].written
          /\ sessions[id].promised \in Nat /\ sessions[id].written \in Nat
      BY <2>1 DEF SessionOK, SessionRecords
    <3> QED BY <3>1
  <2> QED BY <2>1, <2>4, <2>5, <2>6 DEF OutputExact
<1> QED BY <1>1, TcpAlways, PTL

\* The connection table, the sessions and the callbacks agree on which connections
\* exist, for every number of them: no closed session is looked up, none that
\* serves is missing until Stop(), and no owner hears anything after on_close
\* (AddAcceptedConnection(), CloseInLoop(), OnConnectionClosed()).
THEOREM ConnectionsAgreeHolds == Spec => []ConnectionsAgree
<1>1. TcpInv => ConnectionsAgree
  BY DEF TcpInv, Tables, Told, ConnectionsAgree, NothingAfterClose
<1> QED BY <1>1, TcpAlways, PTL

-----------------------------------------------------------------------------
(***************************************************************************)
(* The network statistics: levels, slow clients and session counts.        *)
(***************************************************************************)

\* A record: critical checks are counted only while it is critical.
NetRecordType(r) ==
    /\ r.level \in NetLevels /\ r.critical \in Nat /\ r.checked \in 0 .. nsNow
    /\ r.slow \in Int /\ r.slow <= r.checked
    /\ r.critical > 0 => r.level = 2

\* A report of a slow client.
NetReport == [key : NetConns \X NetMetrics, at : Nat]

NetShape ==
    /\ nsThread \in {"none", "wait", "graded"} /\ nsNow \in Nat
    /\ nsLevel \in NetLevels /\ nsLast \in NetLevels /\ nsNext.level \in NetLevels
    /\ DOMAIN nsRecs \subseteq NetConns \X NetMetrics
    /\ nsNext.slow \in Seq(NetReport) /\ nsHistory \in Seq(NetReport)
    /\ Len(nsHistory) <= NetOptions.history
    /\ nsReal \in Nat /\ nsSessions \in Nat
    /\ nsThread # "graded" => nsNext = NoCheck

NetRecords == \A k \in DOMAIN nsRecs : NetRecordType(nsRecs[k])

\* The level shown is the one published and heard.
NetHeard ==
    /\ nsThread # "none" => nsHeard = nsLevel /\ nsLast = nsLevel
    /\ nsNow = 0 => nsLevel = 0 /\ nsLast = 0 /\ nsHeard = 0

\* The count is zero until the first event, then the server's.
NetCounted == nsSessions = 0 \/ (nsThread # "none" /\ nsSessions = nsReal)

\* A report is remembered by its record, or it is older than the cooldown.
NetRemembered(recs, now, e) ==
    \/ e.key \in DOMAIN recs /\ recs[e.key].slow >= e.at
    \/ now - e.at >= NetOptions.cooldown

\* Two reports of one queue are a cooldown apart.
NetApart(reports) ==
    \A i, j \in DOMAIN reports :
        i < j /\ reports[i].key = reports[j].key => reports[j].at - reports[i].at >= NetOptions.cooldown

\* The reports of the history and those the running check has made.
NetReported(recs, now, hist, news) ==
    /\ NetApart(hist)
    /\ \A i \in DOMAIN hist : NetRemembered(recs, now, hist[i]) /\ hist[i].at <= now
    /\ \A i \in DOMAIN news : /\ news[i].key \in DOMAIN recs /\ recs[news[i].key].level = 2
                              /\ recs[news[i].key].slow = now /\ news[i].at = now
    /\ \A i, j \in DOMAIN news : i # j => news[i].key # news[j].key
    /\ \A i \in DOMAIN hist, j \in DOMAIN news : hist[i].key = news[j].key => now - hist[i].at >= NetOptions.cooldown

NetSpaced == NetReported(nsRecs, nsNow, nsHistory, nsNext.slow)

NetInv == NetShape /\ NetRecords /\ NetHeard /\ NetCounted /\ NetSpaced

\* A record after one sample.
LEMMA NetUpdated ==
    ASSUME NetRecords, nsNow \in Nat, NEW k, NEW v
    PROVE  LET r == UpdateQueueRecord(k, v)
           IN  /\ r.level \in NetLevels /\ r.critical \in Nat /\ r.checked = nsNow
               /\ r.critical > 0 => r.level = 2
               /\ r.slow = IF k \in DOMAIN nsRecs THEN nsRecs[k].slow ELSE 0 - 1
               /\ r.slow \in Int /\ r.slow <= nsNow
               /\ r.critical >= NetOptions.checks /\ NetOptions.checks > 1 =>
                    k \in DOMAIN nsRecs /\ nsRecs[k].level = 2
               /\ DOMAIN r = {"smoothed", "level", "checked", "slow", "critical", "normal", "since", "normalSince"}
<1> DEFINE old == IF k \in DOMAIN nsRecs THEN nsRecs[k] ELSE NewRecord(v)
           s == IF k \in DOMAIN nsRecs THEN SmoothValue(old.smoothed, v) ELSE v
           g == Grade(k[2], s)
           r == UpdateQueueRecord(k, v)
<1>1. /\ old.critical \in Nat /\ old.slow \in Int /\ old.slow <= nsNow
      /\ old.slow = IF k \in DOMAIN nsRecs THEN nsRecs[k].slow ELSE 0 - 1
      /\ old.critical > 0 => k \in DOMAIN nsRecs /\ nsRecs[k].level = 2
  <2>1. CASE k \in DOMAIN nsRecs
    <3>1. NetRecordType(nsRecs[k]) /\ old = nsRecs[k]
      BY <2>1 DEF NetRecords
    <3> HIDE DEF old
    <3> QED BY <2>1, <3>1 DEF NetRecordType
  <2>2. CASE k \notin DOMAIN nsRecs
    BY <2>2 DEF NewRecord
  <2> QED BY <2>1, <2>2
<1>2. g \in NetLevels
  BY DEF Grade, NetLevels
<1>3. /\ r.level = g /\ r.checked = nsNow /\ r.slow = old.slow
      /\ r.critical = IF g = 2 THEN Capped(old.critical + 1, NetOptions.checks) ELSE 0
      /\ DOMAIN r = {"smoothed", "level", "checked", "slow", "critical", "normal", "since", "normalSince"}
  BY DEF UpdateQueueRecord
<1> HIDE DEF old, g, r
<1>4. Capped(old.critical + 1, NetOptions.checks) \in Nat
      /\ (NetOptions.checks > 1 /\ Capped(old.critical + 1, NetOptions.checks) >= NetOptions.checks => old.critical > 0)
  BY <1>1, NetStatAssumption DEF Capped
<1>5. r.critical \in Nat /\ (r.critical > 0 => g = 2)
      /\ (NetOptions.checks > 1 /\ r.critical >= NetOptions.checks => old.critical > 0)
  BY <1>3, <1>4, NetStatAssumption
<1> QED
  BY <1>1, <1>2, <1>3, <1>5 DEF r

\* The records after the samples of one check.
LEMMA NetSampled ==
    ASSUME NetShape, NetRecords, NEW open \in SUBSET NetConns, NEW samples \in [open -> NetSamples]
    PROVE  /\ DOMAIN Sampled(samples) \subseteq NetConns \X NetMetrics
           /\ DOMAIN nsRecs \subseteq DOMAIN Sampled(samples)
           /\ JudgedKeys(samples) \subseteq DOMAIN Sampled(samples)
           /\ \A k \in DOMAIN Sampled(samples) :
                 /\ NetRecordType(Sampled(samples)[k])
                 /\ k \in DOMAIN nsRecs => Sampled(samples)[k].slow = nsRecs[k].slow
                 /\ k \notin DOMAIN nsRecs => Sampled(samples)[k].slow = 0 - 1
           /\ \A k \in JudgedKeys(samples) :
                 /\ Sampled(samples)[k].checked = nsNow
                 /\ "slow" \in DOMAIN Sampled(samples)[k]
                 /\ Sampled(samples)[k].critical >= NetOptions.checks /\ NetOptions.checks > 1 =>
                       k \in DOMAIN nsRecs /\ nsRecs[k].level = 2
<1> DEFINE S == Sampled(samples)
           keys == Touched(samples)
           Val(k) == IF k[2] = "pending" THEN samples[k[1]].pending ELSE samples[k[1]].queue
<1>1. /\ keys \subseteq NetConns \X NetMetrics
      /\ \A c \in open : <<c, "pending">> \in keys
      /\ \A c \in open : samples[c].queue # 0 => <<c, "queue">> \in keys
  <2>1. DOMAIN samples = open
    OBVIOUS
  <2>2. \A c \in open : <<c, "pending">> \in keys
    BY <2>1 DEF Touched
  <2>3. \A c \in open : samples[c].queue # 0 => <<c, "queue">> \in keys
    BY <2>1 DEF Touched
  <2>4. \A k \in keys : \E c \in open : k = <<c, "pending">> \/ k = <<c, "queue">>
    BY <2>1 DEF Touched
  <2>5. \A c \in open : <<c, "pending">> \in NetConns \X NetMetrics /\ <<c, "queue">> \in NetConns \X NetMetrics
    BY DEF NetMetrics
  <2> HIDE DEF keys
  <2> QED BY <2>2, <2>3, <2>4, <2>5
<1>2. DOMAIN S = DOMAIN nsRecs \union keys
      /\ \A k \in keys : S[k] = UpdateQueueRecord(k, Val(k))
  BY DEF Sampled
<1>20. \A k \in DOMAIN nsRecs : k \notin keys => S[k] = nsRecs[k]
  BY DEF Sampled
<1>3. JudgedKeys(samples) \subseteq keys
  <2> SUFFICES ASSUME NEW c \in open PROVE Judged(S, samples, c) \in keys
    BY DEF JudgedKeys
  <2> HIDE DEF S
  <2> QED BY <1>1 DEF Judged
<1> HIDE DEF S, Val, keys
<1>4. nsNow \in Nat
  BY DEF NetShape
<1>5. ASSUME NEW k \in keys
      PROVE  /\ NetRecordType(S[k]) /\ S[k].checked = nsNow /\ "slow" \in DOMAIN S[k]
             /\ S[k].slow = IF k \in DOMAIN nsRecs THEN nsRecs[k].slow ELSE 0 - 1
             /\ S[k].critical >= NetOptions.checks /\ NetOptions.checks > 1 => k \in DOMAIN nsRecs /\ nsRecs[k].level = 2
  <2> DEFINE r == UpdateQueueRecord(k, Val(k))
  <2>1. /\ r.level \in NetLevels /\ r.critical \in Nat /\ r.checked = nsNow
        /\ r.critical > 0 => r.level = 2
        /\ r.slow = IF k \in DOMAIN nsRecs THEN nsRecs[k].slow ELSE 0 - 1
        /\ r.slow \in Int /\ r.slow <= nsNow
        /\ r.critical >= NetOptions.checks /\ NetOptions.checks > 1 => k \in DOMAIN nsRecs /\ nsRecs[k].level = 2
        /\ DOMAIN r = {"smoothed", "level", "checked", "slow", "critical", "normal", "since", "normalSince"}
    BY <1>4, NetUpdated
  <2>2. S[k] = r
    BY <1>2
  <2> HIDE DEF r
  <2> QED BY <1>4, <2>1, <2>2 DEF NetRecordType
<1>6. ASSUME NEW k \in DOMAIN nsRecs, k \notin keys PROVE NetRecordType(S[k]) /\ S[k].slow = nsRecs[k].slow
  <2>1. S[k] = nsRecs[k]
    BY <1>6, <1>20
  <2>2. NetRecordType(nsRecs[k])
    BY DEF NetRecords
  <2> QED BY <2>1, <2>2
<1> QED
  BY <1>1, <1>2, <1>3, <1>5, <1>6 DEF NetShape, S

\* CheckConnections grades every connection and picks the reports.
LEMMA NetCheckPreserves ==
    ASSUME NetInv, NEW open \in SUBSET NetConns, NEW samples \in [open -> NetSamples], CheckConnections(samples)
    PROVE  /\ NetInv'
           /\ \A i \in DOMAIN nsNext'.slow :
                 NetOptions.checks > 1 => nsNext'.slow[i].key \in DOMAIN nsRecs /\ nsRecs[nsNext'.slow[i].key].level = 2
<1> DEFINE S == Sampled(samples)
           J == JudgedKeys(samples)
           ready == {k \in J : SlowReady(S[k])}
<1>1. /\ nsThread = "wait" /\ nsThread' = "graded"
      /\ UNCHANGED <<nsStop, nsNow, nsLevel, nsLast, nsHistory, nsSessions, nsReal, nsHeard>>
  BY DEF CheckConnections
<1>2. PICK slow \in SlowReports(ready) :
        /\ nsRecs' = [k \in DOMAIN S |-> IF \E i \in DOMAIN slow : slow[i] = k THEN [S[k] EXCEPT !.slow = nsNow] ELSE S[k]]
        /\ nsNext' = [level |-> MaxLevel({0} \union {S[k].level : k \in J}),
                      slow |-> [i \in DOMAIN slow |-> [key |-> slow[i], at |-> nsNow]]]
  BY DEF CheckConnections
<1>3. /\ DOMAIN S \subseteq NetConns \X NetMetrics
      /\ DOMAIN nsRecs \subseteq DOMAIN S /\ J \subseteq DOMAIN S
      /\ \A k \in DOMAIN S : /\ NetRecordType(S[k])
                             /\ k \in DOMAIN nsRecs => S[k].slow = nsRecs[k].slow
                             /\ k \notin DOMAIN nsRecs => S[k].slow = 0 - 1
      /\ \A k \in J : /\ S[k].checked = nsNow /\ "slow" \in DOMAIN S[k]
                      /\ S[k].critical >= NetOptions.checks /\ NetOptions.checks > 1 =>
                            k \in DOMAIN nsRecs /\ nsRecs[k].level = 2
  BY NetSampled DEF NetInv
<1> HIDE DEF S, J
<1>4. PICK n \in 0 .. kMaxSlowClients : slow \in [1 .. n -> ready]
  BY DEF SlowReports
<1>5. /\ n \in Nat /\ DOMAIN slow = 1 .. n /\ \A i \in 1 .. n : slow[i] \in J /\ SlowReady(S[slow[i]])
      /\ \A i, j \in 1 .. n : i # j => slow[i] # slow[j]
  <2>1. \A i, j \in DOMAIN slow : i # j => slow[i] # slow[j]
    BY <1>2 DEF SlowReports
  <2> QED BY <1>4, <2>1, NetStatAssumption
<1> HIDE DEF ready
<1> DEFINE news == nsNext'.slow
           hist == nsHistory
<1>6. news = [i \in 1 .. n |-> [key |-> slow[i], at |-> nsNow]] /\ nsNext'.level = MaxLevel({0} \union {S[k].level : k \in J})
  BY <1>2, <1>5
<1>7. /\ hist \in Seq(NetReport) /\ nsNow \in Nat /\ nsNext.slow = <<>>
  BY <1>1 DEF NetInv, NetShape, NoCheck
<1>8. news \in Seq(NetReport) /\ Len(news) = n /\ \A i \in 1 .. n : news[i].key = slow[i] /\ news[i].at = nsNow
  <2>1. \A i \in 1 .. n : [key |-> slow[i], at |-> nsNow] \in NetReport
    BY <1>3, <1>5, <1>7 DEF NetReport
  <2> QED BY <1>5, <1>6, <2>1
<1>9. nsNext'.level \in NetLevels
  <2> DEFINE L == {0} \union {S[k].level : k \in J}
  <2>1. L \subseteq NetLevels /\ 0 \in L
    BY <1>3 DEF NetRecordType, NetLevels
  <2> HIDE DEF L
  <2>2. \E l \in L : \A m \in L : m <= l
    <3>1. L \subseteq {0, 1, 2}
      BY <2>1 DEF NetLevels
    <3>2. CASE 2 \in L
      BY <3>1, <3>2
    <3>3. CASE 2 \notin L /\ 1 \in L
      BY <3>1, <3>3
    <3>4. CASE 2 \notin L /\ 1 \notin L
      BY <3>1, <3>4, <2>1
    <3> QED BY <3>2, <3>3, <3>4
  <2>3. MaxLevel(L) \in L
    BY <2>2 DEF MaxLevel
  <2> QED BY <1>6, <2>1, <2>3 DEF L
<1> DEFINE Known(k) == \E i \in 1 .. n : slow[i] = k
<1>10. /\ DOMAIN nsRecs' = DOMAIN S
       /\ \A k \in DOMAIN S : IF Known(k) THEN nsRecs'[k] = [S[k] EXCEPT !.slow = nsNow] ELSE nsRecs'[k] = S[k]
  BY <1>2, <1>5
<1> HIDE DEF news
<1>11. \A k \in DOMAIN S :
          /\ NetRecordType(nsRecs'[k]) /\ nsRecs'[k].level = S[k].level
          /\ nsRecs'[k].slow >= S[k].slow /\ (Known(k) => nsRecs'[k].slow = nsNow)
  <2> SUFFICES ASSUME NEW k \in DOMAIN S
               PROVE  /\ NetRecordType(nsRecs'[k]) /\ nsRecs'[k].level = S[k].level
                      /\ nsRecs'[k].slow >= S[k].slow /\ (Known(k) => nsRecs'[k].slow = nsNow)
    OBVIOUS
  <2>1. NetRecordType(S[k])
    BY <1>3
  <2>2. CASE Known(k)
    <3>1. nsRecs'[k] = [S[k] EXCEPT !.slow = nsNow] /\ k \in J /\ S[k].checked = nsNow /\ "slow" \in DOMAIN S[k]
      BY <1>3, <1>5, <1>10, <2>2
    <3>2. /\ nsRecs'[k].slow = nsNow /\ nsRecs'[k].level = S[k].level /\ nsRecs'[k].critical = S[k].critical
          /\ nsRecs'[k].checked = S[k].checked
      BY <3>1
    <3> QED BY <1>7, <2>1, <3>1, <3>2 DEF NetRecordType
  <2>3. CASE ~Known(k)
    <3>1. nsRecs'[k] = S[k]
      BY <1>10, <2>3
    <3> QED BY <2>1, <2>3, <3>1 DEF NetRecordType
  <2> QED BY <2>2, <2>3
<1>12. NetShape'
  <2>1. nsLevel \in NetLevels /\ nsLast \in NetLevels /\ Len(nsHistory) <= NetOptions.history /\ nsReal \in Nat /\ nsSessions \in Nat
    BY DEF NetInv, NetShape
  <2>2. news \in Seq(NetReport)
    BY <1>8
  <2> QED BY <1>1, <1>3, <1>7, <1>9, <1>10, <2>1, <2>2 DEF NetShape, news
<1>13. NetRecords'
  BY <1>1, <1>10, <1>11 DEF NetRecords, NetRecordType
<1>14. NetHeard' /\ NetCounted'
  BY <1>1 DEF NetInv, NetHeard, NetCounted
<1>15. NetSpaced'
  <2> DEFINE m == Len(hist)
             recs == nsRecs'
             now == nsNow
  <2>1. /\ m \in Nat /\ DOMAIN hist = 1 .. m /\ DOMAIN news = 1 .. n
        /\ \A i \in 1 .. m : hist[i].at \in Nat
    <3> HIDE DEF hist
    <3>1. \A i \in 1 .. m : hist[i] \in NetReport
      BY <1>7
    <3> QED BY <1>5, <1>7, <1>8, <3>1 DEF NetReport
  <2>2. /\ NetApart(hist)
        /\ \A i \in DOMAIN hist : NetRemembered(nsRecs, now, hist[i]) /\ hist[i].at <= now
    BY DEF NetInv, NetSpaced, NetReported
  <2>3. \A i \in 1 .. n : /\ slow[i] \in DOMAIN S /\ Known(slow[i]) /\ SlowReady(S[slow[i]])
                          /\ NetRecordType(S[slow[i]])
    BY <1>3, <1>5
  <2>4. \A i \in DOMAIN news : /\ news[i].key \in DOMAIN recs /\ recs[news[i].key].level = 2
                               /\ recs[news[i].key].slow = now /\ news[i].at = now
    <3>1. \A i \in 1 .. n : S[slow[i]].level = 2
      BY <2>3 DEF SlowReady
    <3>2. \A i \in 1 .. n : recs[slow[i]].level = 2 /\ recs[slow[i]].slow = now /\ slow[i] \in DOMAIN recs
      BY <1>10, <1>11, <2>3, <3>1
    <3> QED BY <1>8, <2>1, <3>2
  <2>5. \A i, j \in DOMAIN news : i # j => news[i].key # news[j].key
    BY <1>5, <1>8, <2>1
  \* A report that is made now keeps its distance from the earlier ones.
  <2>6. ASSUME NEW i \in DOMAIN hist, NEW j \in DOMAIN news, hist[i].key = news[j].key
        PROVE  now - hist[i].at >= NetOptions.cooldown
    <3>0. news[j].key = slow[j] /\ hist[i].key = slow[j] /\ j \in 1 .. n /\ i \in 1 .. m
      BY <1>8, <2>1, <2>6
    <3> DEFINE k == slow[j]
               told == hist[i].at
    <3>1. k \in DOMAIN S /\ SlowReady(S[k]) /\ NetRecordType(S[k]) /\ told \in Nat
      BY <2>1, <2>3, <3>0
    <3>2. \/ now - told >= NetOptions.cooldown
          \/ k \in DOMAIN nsRecs /\ nsRecs[k].slow >= told
      BY <2>2, <3>0 DEF NetRemembered
    <3>3. S[k].slow = 0 - 1 \/ now - S[k].slow >= NetOptions.cooldown
      BY <3>1 DEF SlowReady
    <3>4. S[k].slow \in Int
      BY <3>1 DEF NetRecordType
    <3>5. k \in DOMAIN nsRecs => S[k].slow = nsRecs[k].slow
      BY <1>3, <3>1
    <3>6. now \in Nat /\ NetOptions.cooldown \in Nat
      BY <1>7, NetStatAssumption
    <3>7. CASE k \in DOMAIN nsRecs /\ nsRecs[k].slow >= told
      <4>1. told \in Nat /\ S[k].slow >= told
        BY <3>1, <3>5, <3>7
      <4> HIDE DEF k, told, now
      <4>2. \A s \in Int, a \in Nat, t \in Nat, c \in Nat : s >= a /\ (s = 0 - 1 \/ t - s >= c) => t - a >= c
        OBVIOUS
      <4>3. now - told >= NetOptions.cooldown
        BY ONLY <4>1, <4>2, <3>3, <3>4, <3>6
      <4> QED BY <4>3 DEF told
    <3> QED BY <3>2, <3>7 DEF told
  <2>7. ASSUME NEW i \in DOMAIN hist PROVE NetRemembered(recs, now, hist[i])
    <3> DEFINE k == hist[i].key
               told == hist[i].at
    <3>0. told \in Nat /\ told <= now /\ NetRemembered(nsRecs, now, hist[i])
      BY <2>1, <2>2
    <3>1. CASE k \in DOMAIN nsRecs /\ nsRecs[k].slow >= told
      <4>1. k \in DOMAIN S /\ S[k].slow = nsRecs[k].slow /\ NetRecordType(S[k])
        BY <1>3, <3>1
      <4>2. recs[k].slow >= S[k].slow /\ NetRecordType(recs[k]) /\ k \in DOMAIN recs
        BY <1>10, <1>11, <4>1
      <4>3. S[k].slow \in Int /\ recs[k].slow \in Int
        BY <4>1, <4>2 DEF NetRecordType
      <4> HIDE DEF k, told, recs
      <4>4. recs[k].slow >= told
        BY <3>0, <3>1, <4>1, <4>2, <4>3
      <4> QED BY <4>2, <4>4 DEF NetRemembered, k, told
    <3>2. CASE now - told >= NetOptions.cooldown
      BY <3>2 DEF NetRemembered
    <3> QED BY <3>0, <3>1, <3>2 DEF NetRemembered
  <2>8. NetReported(recs, now, hist, news)
    <3> HIDE DEF recs, now, hist
    <3> QED BY <2>2, <2>4, <2>5, <2>6, <2>7 DEF NetReported
  <2>9. nsNow' = now /\ nsHistory' = hist
    BY <1>1
  <2> QED BY <2>8, <2>9 DEF NetSpaced, news
<1>16. \A i \in DOMAIN news : NetOptions.checks > 1 => news[i].key \in DOMAIN nsRecs /\ nsRecs[news[i].key].level = 2
  <2>1. \A i \in 1 .. n : S[slow[i]].critical >= NetOptions.checks
    BY <1>5 DEF SlowReady
  <2>2. DOMAIN news = 1 .. n
    BY <1>8
  <2> QED BY <1>3, <1>5, <1>8, <2>1, <2>2
<1> QED
  BY <1>12, <1>13, <1>14, <1>15, <1>16 DEF NetInv, news

\* The last reports of a history are reports of it, in the same order.
LEMMA NetLast ==
    ASSUME NEW seq \in Seq(NetReport), NEW n \in Nat
    PROVE  /\ LastOf(n, seq) \in Seq(NetReport) /\ Len(LastOf(n, seq)) <= n
           /\ \E d \in Nat : \A i \in DOMAIN LastOf(n, seq) : i + d \in DOMAIN seq /\ LastOf(n, seq)[i] = seq[i + d]
<1>1. CASE Len(seq) <= n
  <2>1. LastOf(n, seq) = seq
    BY <1>1 DEF LastOf
  <2>2. \A i \in DOMAIN seq : i + 0 \in DOMAIN seq /\ seq[i] = seq[i + 0]
    OBVIOUS
  <2> QED BY <1>1, <2>1, <2>2
<1>2. CASE ~(Len(seq) <= n)
  <2> DEFINE d == Len(seq) - n
             l == LastOf(n, seq)
  <2>1. Len(seq) \in Nat /\ d \in Nat /\ DOMAIN seq = 1 .. Len(seq) /\ \A i \in 1 .. Len(seq) : seq[i] \in NetReport
    BY <1>2
  <2>2. l = SubSeq(seq, d + 1, Len(seq))
    BY <1>2 DEF LastOf
  <2>3. l = [i \in 1 .. n |-> seq[i + d]]
    BY <1>2, <2>1, <2>2
  <2> HIDE DEF l
  <2>4. \A i \in 1 .. n : i + d \in 1 .. Len(seq)
    BY <2>1
  <2>5. \A i \in 1 .. n : i + d \in 1 .. Len(seq) /\ l[i] = seq[i + d] /\ seq[i + d] \in NetReport
    BY <2>1, <2>3, <2>4
  <2>6. l \in Seq(NetReport) /\ Len(l) = n /\ DOMAIN l = 1 .. n
    <3> HIDE DEF d
    <3> QED BY <2>3, <2>5
  <2>7. Len(l) <= n
    BY <2>6
  <2> HIDE DEF d
  <2> QED BY <2>1, <2>5, <2>6, <2>7 DEF l
<1> QED BY <1>1, <1>2

\* CheckEnd publishes the level, appends the reports and drops the idle records.
LEMMA NetCheckEndPreserves ==
    ASSUME NetInv, CheckEnd
    PROVE  NetInv'
<1> DEFINE hist == nsHistory
           news == nsNext.slow
           all == hist \o news
           new == LastOf(NetOptions.history, all)
<1>1. /\ nsThread = "graded" /\ nsThread' = "wait" /\ nsNow' = nsNow + 1
      /\ nsLevel' = nsNext.level /\ nsNext' = NoCheck
      /\ nsRecs' = [k \in {x \in DOMAIN nsRecs : Alive(x)} |-> nsRecs[k]]
      /\ nsHistory' = new
      /\ UNCHANGED <<nsStop, nsSessions, nsReal>>
      /\ IF PublishLevel(nsNext.level) THEN nsLast' = nsNext.level /\ nsHeard' = nsNext.level
                                       ELSE UNCHANGED <<nsLast, nsHeard>>
  BY DEF CheckEnd, HistoryWith
<1>2. /\ nsNow \in Nat /\ nsNext.level \in NetLevels /\ hist \in Seq(NetReport) /\ news \in Seq(NetReport)
      /\ nsReal \in Nat /\ nsSessions \in Nat /\ DOMAIN nsRecs \subseteq NetConns \X NetMetrics
      /\ nsLevel \in NetLevels /\ nsLast \in NetLevels
  BY DEF NetInv, NetShape
<1>3. nsHeard = nsLevel /\ nsLast = nsLevel
  BY <1>1 DEF NetInv, NetHeard
<1>4. nsLast' = nsNext.level /\ nsHeard' = nsNext.level
  BY <1>1, <1>3 DEF PublishLevel
<1>5. /\ DOMAIN nsRecs' = {x \in DOMAIN nsRecs : Alive(x)}
      /\ \A k \in DOMAIN nsRecs' : nsRecs'[k] = nsRecs[k]
  BY <1>1
<1>6. \A k \in DOMAIN nsRecs : NetRecordType(nsRecs[k])
  BY DEF NetInv, NetRecords
<1>7. NetReported(nsRecs, nsNow, hist, news)
  BY DEF NetInv, NetSpaced
<1> HIDE DEF hist, news
<1>8. /\ all \in Seq(NetReport) /\ DOMAIN all = 1 .. Len(hist) + Len(news)
      /\ \A i \in 1 .. Len(hist) : all[i] = hist[i]
      /\ \A i \in 1 .. Len(news) : all[Len(hist) + i] = news[i]
  <2>1. \A a, b \in Seq(NetReport) : /\ a \o b \in Seq(NetReport) /\ DOMAIN (a \o b) = 1 .. Len(a) + Len(b)
                                     /\ \A i \in 1 .. Len(a) : (a \o b)[i] = a[i]
                                     /\ \A i \in 1 .. Len(b) : (a \o b)[Len(a) + i] = b[i]
    OBVIOUS
  <2> QED BY <1>2, <2>1
<1>9. /\ Len(hist) \in Nat /\ Len(news) \in Nat /\ DOMAIN hist = 1 .. Len(hist) /\ DOMAIN news = 1 .. Len(news)
      /\ \A i \in DOMAIN hist : hist[i].at \in Nat
  <2>1. \A i \in DOMAIN hist : hist[i] \in NetReport
    BY <1>2
  <2> QED BY <1>2, <2>1 DEF NetReport
<1> HIDE DEF all
<1>10. new \in Seq(NetReport) /\ Len(new) <= NetOptions.history
       /\ \E d \in Nat : \A i \in DOMAIN new : i + d \in DOMAIN all /\ new[i] = all[i + d]
  BY <1>8, NetLast, NetStatAssumption
<1>11. PICK d \in Nat : \A i \in DOMAIN new : i + d \in DOMAIN all /\ new[i] = all[i + d]
  BY <1>10
<1> HIDE DEF new
<1>12. DOMAIN new \subseteq Nat
  BY <1>10
<1> DEFINE m == Len(hist)
<1>13. \A i \in DOMAIN all : i \in 1 .. m \/ (i - m \in DOMAIN news /\ i = m + (i - m))
  BY <1>8, <1>9
<1>14. \A i \in DOMAIN all :
          \/ i \in DOMAIN hist /\ all[i] = hist[i]
          \/ i - m \in DOMAIN news /\ all[i] = news[i - m] /\ i \notin 1 .. m
  <2> SUFFICES ASSUME NEW i \in DOMAIN all
               PROVE  \/ i \in DOMAIN hist /\ all[i] = hist[i]
                      \/ i - m \in DOMAIN news /\ all[i] = news[i - m] /\ i \notin 1 .. m
    OBVIOUS
  <2>1. CASE i \in 1 .. m
    BY <1>8, <1>9, <2>1
  <2>2. CASE i \notin 1 .. m
    <3>1. i - m \in DOMAIN news /\ i = m + (i - m)
      BY <1>13, <2>2
    <3>2. \A x \in DOMAIN news : all[m + x] = news[x]
      <4>1. \A x \in 1 .. Len(news) : all[m + x] = news[x]
        BY ONLY <1>8 DEF m
      <4>2. DOMAIN news = 1 .. Len(news)
        BY <1>9
      <4> QED BY ONLY <4>1, <4>2, Zenon
    <3> QED BY <2>2, <3>1, <3>2
  <2> QED BY <2>1, <2>2
<1> HIDE DEF m
<1>15. \A i \in DOMAIN all : all[i].at \in Nat /\ all[i].at <= nsNow /\ NetRemembered(nsRecs, nsNow, all[i])
  <2>1. \A i \in DOMAIN hist : hist[i].at \in Nat /\ hist[i].at <= nsNow /\ NetRemembered(nsRecs, nsNow, hist[i])
    BY <1>7, <1>9 DEF NetReported
  <2>2. \A i \in DOMAIN news : news[i].at = nsNow /\ news[i].key \in DOMAIN nsRecs /\ nsRecs[news[i].key].slow = nsNow
    BY <1>7 DEF NetReported
  <2>3. nsNow <= nsNow /\ nsNow >= nsNow
    BY <1>2
  <2>4. \A i \in DOMAIN news : news[i].at \in Nat /\ news[i].at <= nsNow /\ NetRemembered(nsRecs, nsNow, news[i])
    BY <1>2, <2>2, <2>3 DEF NetRemembered
  <2> QED BY <1>14, <2>1, <2>4
<1>16. NetApart(all)
  <2> SUFFICES ASSUME NEW i \in DOMAIN all, NEW j \in DOMAIN all, i < j, all[i].key = all[j].key
               PROVE  all[j].at - all[i].at >= NetOptions.cooldown
    BY DEF NetApart
  <2>1. CASE j \in DOMAIN hist /\ all[j] = hist[j]
    <3>1. i \in DOMAIN hist /\ all[i] = hist[i]
      BY <1>8, <1>9, <2>1
    <3>2. NetApart(hist)
      BY <1>7 DEF NetReported
    <3> QED BY <2>1, <3>1, <3>2 DEF NetApart
  <2>2. CASE j - m \in DOMAIN news /\ all[j] = news[j - m] /\ j \notin 1 .. m
    <3>1. CASE i \in DOMAIN hist /\ all[i] = hist[i]
      <4>1. nsNow - hist[i].at >= NetOptions.cooldown /\ news[j - m].at = nsNow
        BY <1>7, <2>2, <3>1 DEF NetReported
      <4> QED BY <2>2, <3>1, <4>1
    <3>2. CASE i - m \in DOMAIN news /\ all[i] = news[i - m]
      <4>1. i - m # j - m
          BY <1>8, <1>9 DEF m
      <4>2. news[i - m].key # news[j - m].key
        BY <1>7, <2>2, <3>2, <4>1 DEF NetReported
      <4> QED BY <2>2, <3>2, <4>2
    <3> QED BY <1>14, <3>1, <3>2
  <2> QED BY <1>14, <2>1, <2>2
<1>17. NetApart(new)
  <2> SUFFICES ASSUME NEW i \in DOMAIN new, NEW j \in DOMAIN new, i < j, new[i].key = new[j].key
               PROVE  new[j].at - new[i].at >= NetOptions.cooldown
    BY DEF NetApart
  <2>1. i + d \in DOMAIN all /\ j + d \in DOMAIN all /\ new[i] = all[i + d] /\ new[j] = all[j + d]
    BY <1>11
  <2>2. i + d < j + d
    BY <1>12
  <2> QED BY <1>16, <2>1, <2>2 DEF NetApart
<1> DEFINE then == nsNow + 1
<1>30. then \in Nat /\ then = nsNow + 1
  BY <1>2
<1> HIDE DEF then
\* A record that expires is older than the cooldown.
<1>18. ASSUME NEW i \in DOMAIN all PROVE NetRemembered(nsRecs', then, all[i])
  <2> DEFINE k == all[i].key
             told == all[i].at
  <2>1. told \in Nat /\ told <= nsNow /\ NetRemembered(nsRecs, nsNow, all[i])
    BY <1>15
  <2>2. CASE nsNow - told >= NetOptions.cooldown
    <3>1. then - told >= NetOptions.cooldown
      <4> HIDE DEF told
      <4> QED BY <1>2, <1>30, <2>1, <2>2, NetStatAssumption
    <3> QED BY <3>1 DEF NetRemembered
  <2>3. CASE k \in DOMAIN nsRecs /\ nsRecs[k].slow >= told
    <3>1. CASE Alive(k)
      <4>1. k \in DOMAIN nsRecs' /\ nsRecs'[k] = nsRecs[k]
        BY <1>5, <2>3, <3>1
      <4> QED BY <2>3, <4>1 DEF NetRemembered
    <3>2. CASE ~Alive(k)
      <4>1. /\ nsRecs[k].checked \in Nat /\ nsRecs[k].slow \in Int /\ nsRecs[k].slow <= nsRecs[k].checked
            /\ ~(nsNow - nsRecs[k].checked <= kQueueRecordExpire)
        BY <1>2, <1>6, <2>3, <3>2 DEF NetRecordType, Alive
      <4>2. then - told >= NetOptions.cooldown
        <5>1. \A a \in Nat, s \in Int, c \in Nat, t \in Nat, x \in Nat, e \in Nat :
                 s >= a /\ s <= c /\ ~(t - c <= x) /\ x > e => (t + 1) - a >= e
          OBVIOUS
        <5>2. kQueueRecordExpire \in Nat /\ NetOptions.cooldown \in Nat /\ kQueueRecordExpire > NetOptions.cooldown
          BY NetStatAssumption
        <5>3. nsRecs[k].slow >= told
          BY <2>3
        <5> HIDE DEF k, told
        <5> QED BY ONLY <1>2, <1>30, <2>1, <4>1, <5>1, <5>2, <5>3
      <4> QED BY <4>2 DEF NetRemembered
    <3> QED BY <3>1, <3>2
  <2> QED BY <2>1, <2>2, <2>3 DEF NetRemembered
<1>19. NetReported(nsRecs', then, new, <<>>)
  <2>1. \A i \in DOMAIN new : NetRemembered(nsRecs', then, new[i]) /\ new[i].at <= then
    <3>1. \A i \in DOMAIN all : all[i].at <= then
      BY <1>2, <1>15, <1>30
    <3> QED BY <1>11, <1>18, <3>1
  <2> QED BY <1>17, <2>1 DEF NetReported
<1>20. NetSpaced'
  <2>1. nsNext'.slow = <<>>
    BY <1>1 DEF NoCheck
  <2> QED BY <1>1, <1>19, <1>30, <2>1 DEF NetSpaced
<1>21. NetShape'
  BY <1>1, <1>2, <1>4, <1>5, <1>10 DEF NetShape, NoCheck, NetLevels
<1>22. NetRecords'
  <2>1. \A k \in DOMAIN nsRecs' : k \in DOMAIN nsRecs /\ nsRecs'[k] = nsRecs[k] /\ NetRecordType(nsRecs[k])
    BY <1>5, <1>6
  <2> QED BY <1>1, <1>2, <2>1 DEF NetRecords, NetRecordType
<1>23. NetHeard' /\ NetCounted'
  BY <1>1, <1>2, <1>4 DEF NetInv, NetHeard, NetCounted
<1> QED
  BY <1>20, <1>21, <1>22, <1>23 DEF NetInv

\* HandleSession follows the RTSP server's count once it has an event.
LEMMA NetSessionPreserves ==
    ASSUME NetInv, NEW connected \in BOOLEAN, HandleSession(connected)
    PROVE  NetInv' /\ (nsThread # "none" /\ nsReal' # nsReal /\ nsReal <= nsSessions => nsSessions' = nsReal')
<1>1. /\ nsReal' \in Nat
      /\ nsReal' = IF connected THEN nsReal + 1 ELSE nsReal - 1
      /\ nsSessions' = IF nsThread = "none" THEN nsSessions ELSE EventClientCount(nsReal', connected)
      /\ UNCHANGED <<nsThread, nsStop, nsNow, nsRecs, nsNext, nsLevel, nsLast, nsHistory, nsHeard>>
  BY DEF HandleSession
<1>2. nsReal \in Nat /\ nsSessions \in Nat
  BY DEF NetInv, NetShape
<1>3. NetCounted
  BY DEF NetInv
<1>4. nsThread # "none" /\ nsReal' > 0 => nsSessions' = nsReal'
  BY <1>1 DEF EventClientCount
<1>5. nsThread # "none" /\ nsReal' = 0 => nsSessions' = 0
  <2> SUFFICES ASSUME nsThread # "none", nsReal' = 0 PROVE nsSessions' = 0
    OBVIOUS
  <2>1. ~connected /\ nsReal = 1
    BY <1>1, <1>2
  <2>2. nsSessions' = IF nsSessions > 0 THEN nsSessions - 1 ELSE 0
    BY <1>1, <2>1 DEF EventClientCount
  <2> QED BY <1>2, <1>3, <2>1, <2>2 DEF NetCounted
<1>6. nsThread # "none" => nsSessions' = nsReal'
  <2>1. \A x \in Nat : x > 0 \/ x = 0
    OBVIOUS
  <2>2. nsReal' > 0 \/ nsReal' = 0
    BY <1>1, <2>1
  <2> QED BY <1>4, <1>5, <2>2
<1>7. nsSessions' \in Nat /\ NetCounted'
  BY <1>1, <1>2, <1>3, <1>6 DEF NetCounted
<1>8. NetShape'
  BY <1>1, <1>7 DEF NetInv, NetShape, NoCheck
<1>9. NetRecords' /\ NetHeard'
  BY <1>1 DEF NetInv, NetRecords, NetRecordType, NetHeard
<1>10. NetSpaced'
  BY <1>1 DEF NetInv, NetSpaced
<1> QED
  BY <1>6, <1>7, <1>8, <1>9, <1>10 DEF NetInv

\* NetStart starts the thread once, NetStop asks it to end and NetStopEnd resets all.
LEMMA NetLifePreserves ==
    ASSUME NetInv, NetStart \/ NetStop \/ NetStopEnd
    PROVE  NetInv' /\ nsNext'.slow = nsNext.slow /\ nsReal' = nsReal
<1>1. CASE NetStart
  <2>1. /\ nsThread = "none" /\ nsNow = 0 /\ nsThread' = "wait"
        /\ UNCHANGED <<nsStop, nsNow, nsRecs, nsNext, nsLevel, nsLast, nsHistory, nsSessions, nsReal, nsHeard>>
    BY <1>1 DEF NetStart
  <2>2. NetShape' /\ NetRecords' /\ NetSpaced'
    BY <2>1 DEF NetInv, NetShape, NetRecords, NetRecordType, NetSpaced, NoCheck
  <2>3. NetHeard' /\ NetCounted'
    BY <2>1 DEF NetInv, NetHeard, NetCounted
  <2> QED BY <2>1, <2>2, <2>3 DEF NetInv
<1>2. CASE NetStop
  <2>1. UNCHANGED <<nsThread, nsNow, nsRecs, nsNext, nsLevel, nsLast, nsHistory, nsSessions, nsReal, nsHeard>>
    BY <1>2 DEF NetStop
  <2>2. NetShape' /\ NetRecords' /\ NetSpaced' /\ NetHeard' /\ NetCounted'
    BY <2>1 DEF NetInv, NetShape, NetRecords, NetRecordType, NetSpaced, NetHeard, NetCounted, NoCheck
  <2> QED BY <2>1, <2>2 DEF NetInv
<1>3. CASE NetStopEnd
  <2>1. /\ nsThread = "wait" /\ nsThread' = "none" /\ nsRecs' = <<>> /\ nsLevel' = 0 /\ nsLast' = 0
        /\ nsHistory' = <<>> /\ nsSessions' = 0 /\ UNCHANGED <<nsNow, nsNext, nsReal, nsHeard>>
    BY <1>3 DEF NetStopEnd
  <2>2. nsNext = NoCheck /\ nsNow \in Nat /\ nsReal \in Nat
    BY <2>1 DEF NetInv, NetShape
  <2>3. DOMAIN nsRecs' = {} /\ nsNext'.slow = <<>> /\ nsNext'.level = 0 /\ DOMAIN nsHistory' = {} /\ Len(nsHistory') = 0
    BY <2>1, <2>2 DEF NoCheck
  <2>4. NetShape'
    BY <2>1, <2>2, <2>3, NetStatAssumption DEF NetShape, NetLevels, NoCheck
  <2>5. NetRecords'
    BY <2>3 DEF NetRecords
  <2>6. NetHeard' /\ NetCounted'
    BY <2>1 DEF NetInv, NetHeard, NetCounted
  <2>7. NetSpaced'
    BY <2>3 DEF NetSpaced, NetReported, NetApart
  <2> QED BY <2>1, <2>4, <2>5, <2>6, <2>7 DEF NetInv
<1> QED
  BY <1>1, <1>2, <1>3

\* The sampler starts with nothing measured and nothing reported.
LEMMA NetInitially == NetInit => NetInv
<1> SUFFICES ASSUME NetInit PROVE NetInv
  OBVIOUS
<1>1. DOMAIN nsRecs = {} /\ nsNext.slow = <<>> /\ nsNext.level = 0 /\ DOMAIN nsHistory = {} /\ Len(nsHistory) = 0
  BY DEF NetInit, NoCheck
<1>2. NetShape
  BY <1>1, NetStatAssumption DEF NetInit, NetShape, NetLevels, NoCheck
<1>3. NetRecords /\ NetSpaced
  BY <1>1 DEF NetRecords, NetSpaced, NetReported, NetApart
<1>4. NetHeard /\ NetCounted
  BY DEF NetInit, NetHeard, NetCounted
<1> QED
  BY <1>2, <1>3, <1>4 DEF NetInv

\* NetReportsHonest (NetStat::Check, AddSlowClientIfReady and HandleEvent) for any
\* set of connections, samples and thresholds, as long as a record outlives the cooldown.
THEOREM NetReportsHonestHolds == NetSpec => NetReportsHonest
<1> DEFINE Burst == \A i \in DOMAIN nsNext'.slow :
                       LET k == nsNext'.slow[i].key
                       IN NetOptions.checks > 1 => k \in DOMAIN nsRecs /\ nsRecs[k].level = 2
           Counted == nsThread # "none" /\ nsReal' # nsReal /\ nsReal <= nsSessions => nsSessions' = nsReal'
<1>1. NetInit => NetInv
  BY NetInitially
<1>2. NetInv /\ [NetNext]_nsVars => NetInv' /\ [Burst]_nsVars /\ [Counted]_nsVars
  <2> SUFFICES ASSUME NetInv, [NetNext]_nsVars PROVE NetInv' /\ [Burst]_nsVars /\ [Counted]_nsVars
    OBVIOUS
  \* The reports of the running check were made when their records were critical.
  <2>1. nsNext'.slow = nsNext.slow => Burst
    BY DEF NetInv, NetSpaced, NetReported
  <2>2. nsReal' = nsReal => Counted
    OBVIOUS
  <2>3. CASE NetStart \/ NetStop \/ NetStopEnd
    BY <2>1, <2>2, <2>3, NetLifePreserves
  <2>4. CASE CheckEnd
    <3>1. nsNext'.slow = <<>> /\ nsReal' = nsReal
      BY <2>4 DEF CheckEnd, NoCheck
    <3>2. Burst
      BY <3>1
    <3> QED BY <2>2, <2>4, <3>1, <3>2, NetCheckEndPreserves
  <2>5. CASE \E open \in SUBSET NetConns : \E samples \in [open -> NetSamples] : CheckConnections(samples)
    <3>1. PICK open \in SUBSET NetConns : \E samples \in [open -> NetSamples] : CheckConnections(samples)
      BY <2>5
    <3>2. PICK samples \in [open -> NetSamples] : CheckConnections(samples)
      BY <3>1
    <3>3. /\ NetInv'
          /\ \A i \in DOMAIN nsNext'.slow :
                NetOptions.checks > 1 => nsNext'.slow[i].key \in DOMAIN nsRecs /\ nsRecs[nsNext'.slow[i].key].level = 2
      BY <3>2, NetCheckPreserves
    <3>4. nsReal' = nsReal
      BY <3>2 DEF CheckConnections
    <3> QED BY <2>2, <3>3, <3>4
  <2>6. CASE \E connected \in BOOLEAN : HandleSession(connected)
    <3>1. PICK connected \in BOOLEAN : HandleSession(connected)
      BY <2>6
    <3>2. NetInv' /\ Counted
      BY <3>1, NetSessionPreserves
    <3>3. nsNext'.slow = nsNext.slow
      BY <3>1 DEF HandleSession
    <3> QED BY <2>1, <3>2, <3>3
  <2>7. CASE UNCHANGED nsVars
    <3>1. NetInv'
      BY <2>7 DEF nsVars, NetInv, NetShape, NetRecords, NetRecordType, NetHeard, NetCounted, NetSpaced, NoCheck
    <3> QED BY <2>7, <3>1
  <2> QED BY <2>3, <2>4, <2>5, <2>6, <2>7 DEF NetNext
<1>3. NetInv => NetTypeOK /\ LevelIsPublished /\ ReportsSpaced
  BY DEF NetInv, NetShape, NetHeard, NetSpaced, NetReported, NetApart, NetTypeOK, LevelIsPublished, ReportsSpaced
<1> QED
  BY <1>1, <1>2, <1>3, PTL DEF NetSpec, NetReportsHonest, BurstNotReported, SessionsCounted
=============================================================================
