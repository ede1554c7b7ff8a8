----------------------------- MODULE TcpSessions -----------------------------
(***************************************************************************)
(* TCP connections of libs/socket_io: the accept loop of TcpServer, the    *)
(* sessions with their send queues (tcp_session.cpp) and the connection    *)
(* table and shutdown of SocketIoImpl, on one EventLoop (module EventLoop  *)
(* justifies treating it as a serial task queue with a capacity).          *)
(*                                                                         *)
(* A session is changed by its loop thread only; other threads reach it    *)
(* through tasks.  Callbacks go to the callback loop, as the application   *)
(* configures it (CallbackMode::kPostToLoop).                              *)
(*                                                                         *)
(* Abstracted: payloads (a buffer is its unwritten size), slices,          *)
(* addresses, statistics, the table of closed-connection diagnostics; a    *)
(* timeout may elapse whenever its condition holds.                        *)
(***************************************************************************)
EXTENDS Naturals, Sequences, FiniteSets, Totals

CONSTANTS
    Sizes,             \* sizes of the buffers that are sent
    MaxConnections,    \* options_.max_connections
    SendQueueCapacity, \* options_.send_queue_capacity
    SendBufferLimit,   \* options_.send_buffer_limit_bytes
    TaskCapacity,      \* task_capacity_ of the IO loop
    CallbackCapacity,  \* queue capacity of the callback loop
    MaxId,             \* bound: connections accepted
    MaxCalls           \* bound: API calls and reads

ASSUME TcpAssumption ==
    /\ Sizes \subseteq Nat \ {0}
    /\ MaxConnections \in Nat \ {0} /\ SendQueueCapacity \in Nat \ {0}
    /\ SendBufferLimit \in Nat \ {0} /\ TaskCapacity \in Nat \ {0}
    /\ CallbackCapacity \in Nat \ {0} /\ MaxId \in Nat /\ MaxCalls \in Nat

VARIABLES
    connections,  \* connections_: ids in the table
    sessions,     \* every TcpSession ever made: id -> state
    next_id,      \* next connection id
    at,           \* what the loop thread is in the middle of: [in, id]
    tasks,        \* posted to the IO loop
    loop,         \* the IO loop: "up", "stopping" or "down"
    running,      \* SocketIoImpl::running_
    stop,         \* StopInternal(): "idle", "closing", "loops", "done"
    closing,      \* connections StopInternal() has still to close
    callbacks,    \* posted to the callback loop
    delivered,    \* history: callbacks each connection's owner has seen
    calls         \* calls so far

vars == <<connections, sessions, next_id, at, tasks, loop, running, stop,
          closing, callbacks, delivered, calls>>

Nothing == [in |-> "idle", id |-> 0]

\* asked, accepted, promised and written are history: whether CloseAfterSend()
\* was accepted, the bytes whose Send() was accepted, those accepted before it,
\* and the bytes handed to the kernel.
NewSession ==
    [queue |-> <<>>, pending_bytes |-> 0, closed |-> FALSE,
     close_after_send |-> FALSE, epollout |-> FALSE, started |-> FALSE,
     reason |-> "open", asked |-> FALSE, accepted |-> 0, promised |-> 0,
     written |-> 0]

Init ==
    /\ connections = {} /\ sessions = <<>> /\ next_id = 1
    /\ at = Nothing /\ tasks = <<>> /\ loop = "up" /\ running = TRUE
    /\ stop = "idle" /\ closing = {} /\ callbacks = <<>> /\ delivered = <<>>
    /\ calls = 0

-----------------------------------------------------------------------------
(* The callback loop. *)

\* Dispatch...(): posts to the callback loop and ignores a refusal.
Dispatch(q, name, id) ==
    IF Len(q) < CallbackCapacity
    THEN Append(q, [name |-> name, id |-> id]) ELSE q

RunCallback ==
    /\ callbacks # <<>>
    /\ delivered' = [delivered EXCEPT ![Head(callbacks).id] =
                         Append(@, Head(callbacks).name)]
    /\ callbacks' = Tail(callbacks)
    /\ UNCHANGED <<connections, sessions, next_id, at, tasks, loop, running,
                   stop, closing, calls>>

-----------------------------------------------------------------------------
(* Closing, on the loop thread. *)

Closed(s, reason) ==
    [s EXCEPT !.closed = TRUE, !.reason = reason, !.queue = <<>>,
              !.pending_bytes = 0, !.epollout = FALSE]

\* Mutant: closing does not look whether the session is closed already.
CloseInLoopAgain(id, reason) ==
    /\ sessions' = [sessions EXCEPT ![id] = Closed(@, reason)]
    /\ connections' = connections \ {id}
    /\ callbacks' = Dispatch(callbacks, "close", id)

\* CloseInLoop() and OnConnectionClosed(); once closed it does nothing.
CloseInLoop(id, reason) ==
    IF sessions[id].closed
    THEN UNCHANGED <<sessions, connections, callbacks>>
    ELSE /\ sessions' = [sessions EXCEPT ![id] = Closed(@, reason)]
         /\ connections' = connections \ {id}
         /\ callbacks' = Dispatch(callbacks, "close", id)

LoopIdle == at = Nothing /\ loop \in {"up", "stopping"}

-----------------------------------------------------------------------------
(* TcpServer::AcceptLoop(), three sections. *)

\* accept() and AddAcceptedConnection(); StopInternal() may come in between.
Accept ==
    /\ LoopIdle /\ next_id <= MaxId
    /\ next_id' = next_id + 1
    /\ sessions' = Append(sessions, NewSession)
    /\ delivered' = Append(delivered, <<>>)
    /\ IF running /\ Cardinality(connections) < MaxConnections
       THEN /\ connections' = connections \cup {next_id}
            /\ at' = [in |-> "accept", id |-> next_id]
       ELSE UNCHANGED <<connections, at>>
    /\ UNCHANGED <<tasks, loop, running, stop, closing, callbacks, calls>>

\* TcpSession::Start(): AddFd() refuses when the loop is stopping.
StartSession ==
    /\ at.in = "accept"
    /\ IF loop = "up"
       THEN /\ sessions' = [sessions EXCEPT ![at.id].started = TRUE]
            /\ at' = [at EXCEPT !.in = "started"]
            /\ UNCHANGED connections
       ELSE /\ connections' = connections \ {at.id}
            /\ at' = Nothing
            /\ UNCHANGED sessions
    /\ UNCHANGED <<next_id, tasks, loop, running, stop, closing, callbacks,
                   delivered, calls>>

DispatchAccept ==
    /\ at.in = "started"
    /\ callbacks' = Dispatch(callbacks, "accept", at.id)
    /\ at' = Nothing
    /\ UNCHANGED <<connections, sessions, next_id, tasks, loop, running, stop,
                   closing, delivered, calls>>

-----------------------------------------------------------------------------
(* Epoll events and the timeout timer of a session. *)

Live(id) == LoopIdle /\ sessions[id].started /\ ~sessions[id].closed

HandleRead(id) ==
    /\ Live(id)
    /\ callbacks' = Dispatch(callbacks, "read", id)
    /\ calls < MaxCalls /\ calls' = calls + 1
    /\ UNCHANGED <<connections, sessions, next_id, at, tasks, loop, running,
                   stop, closing, delivered>>

\* recv() returned 0 or failed, or EPOLLERR/EPOLLHUP.
HandleError(id) ==
    /\ Live(id)
    /\ \E reason \in {"kRemoteClose", "kInternalError"} : CloseInLoop(id, reason)
    /\ UNCHANGED <<next_id, at, tasks, loop, running, stop, closing, delivered, calls>>

HandleWritable(id) ==
    /\ Live(id) /\ sessions[id].epollout
    /\ at' = [in |-> "write", id |-> id]
    /\ UNCHANGED <<connections, sessions, next_id, tasks, loop, running, stop,
                   closing, callbacks, delivered, calls>>

\* CheckTimeouts(): an idle reader, or output that makes no progress.
CheckTimeouts(id) ==
    /\ Live(id)
    /\ \E reason \in {"kReadTimeout", "kWriteTimeout", "kSendStall"} :
          /\ reason # "kReadTimeout" => sessions[id].pending_bytes > 0
          /\ CloseInLoop(id, reason)
    /\ UNCHANGED <<next_id, at, tasks, loop, running, stop, closing, delivered, calls>>

-----------------------------------------------------------------------------
(* HandleWrite(): one sendmsg() per step. *)

Writing(id) == at = [in |-> "write", id |-> id]

\* The kernel took n bytes of the first buffer.
KernelTook(s, n) ==
    LET left == Head(s.queue) - n
    IN  [s EXCEPT !.queue = IF left = 0 THEN Tail(@) ELSE <<left>> \o Tail(@),
                  !.pending_bytes = @ - n, !.written = @ + n]

SendSome(id, n) ==
    /\ Writing(id) /\ sessions[id].queue # <<>>
    /\ n <= Head(sessions[id].queue)
    /\ sessions' = [sessions EXCEPT ![id] = KernelTook(@, n)]
    /\ UNCHANGED <<connections, next_id, at, tasks, loop, running, stop,
                   closing, callbacks, delivered, calls>>

\* ModifyFd() has no effect on a loop that is stopping.
SetEpollout(s, on) == IF loop = "up" THEN [s EXCEPT !.epollout = on] ELSE s

\* EAGAIN: EnableWrite() and return.
SendBlocks(id) ==
    /\ Writing(id) /\ sessions[id].queue # <<>>
    /\ sessions' = [sessions EXCEPT ![id] = SetEpollout(@, TRUE)]
    /\ at' = Nothing
    /\ UNCHANGED <<connections, next_id, tasks, loop, running, stop, closing,
                   callbacks, delivered, calls>>

SendFails(id) ==
    /\ Writing(id) /\ sessions[id].queue # <<>>
    /\ CloseInLoop(id, "kInternalError")
    /\ at' = Nothing
    /\ UNCHANGED <<next_id, tasks, loop, running, stop, closing, delivered, calls>>

\* The loop in HandleWrite() ends: close_after_send_ or DisableWrite().
WriteDone(id) ==
    /\ Writing(id) /\ sessions[id].queue = <<>>
    /\ at' = Nothing
    /\ IF sessions[id].close_after_send
       THEN CloseInLoop(id, "flushed")
       ELSE /\ sessions' = [sessions EXCEPT ![id] = SetEpollout(@, FALSE)]
            /\ UNCHANGED <<connections, callbacks>>
    /\ UNCHANGED <<next_id, tasks, loop, running, stop, closing, delivered, calls>>

-----------------------------------------------------------------------------
(* Sending. *)

\* EnqueueOutBuffer(): the hard limits of a slow client.
OverLimit(s, n) ==
    IF Len(s.queue) >= SendQueueCapacity THEN "kQueueFull"
    ELSE IF s.pending_bytes >= SendBufferLimit
            \/ n > SendBufferLimit - s.pending_bytes
    THEN "kPendingLimit" ELSE "none"

\* The buffer at the end of the queue, EPOLLOUT asked for.
Enqueued(s, n) ==
    [SetEpollout(s, TRUE) EXCEPT !.queue = Append(@, n), !.pending_bytes = @ + n]

\* SendSlices() on the loop thread: EnqueueOutBuffer(), EnableWrite(), HandleWrite().
EnqueueAndWrite(id, n) ==
    LET s == sessions[id]
        limit == OverLimit(s, n)
    IN  IF s.closed \/ s.close_after_send
        THEN UNCHANGED <<sessions, connections, callbacks, at>>
        ELSE IF limit # "none"
        THEN CloseInLoop(id, limit) /\ UNCHANGED at
        ELSE /\ sessions' = [sessions EXCEPT ![id] = Enqueued(@, n)]
             /\ at' = [in |-> "write", id |-> id]
             /\ UNCHANGED <<connections, callbacks>>

\* Send() by a timer or a handler of the same loop (the RTSP and FLV senders).
SendInLoop(id, n) ==
    /\ Live(id) /\ id \in connections
    /\ calls < MaxCalls /\ calls' = calls + 1
    /\ EnqueueAndWrite(id, n)
    /\ UNCHANGED <<next_id, tasks, loop, running, stop, closing, delivered>>

CanPost == loop = "up" /\ Len(tasks) < TaskCapacity

\* History: what an accepted Send() or CloseAfterSend() promises.
Promised(s, op, n) ==
    [s EXCEPT !.accepted = IF op = "send" THEN @ + n ELSE @,
              !.asked = @ \/ op = "close_after",
              !.promised = IF op = "close_after" /\ ~s.asked THEN s.accepted ELSE @]

\* Send(), Close() and CloseAfterSend() by another thread: FindConnection(),
\* then a task.
Call(op, id, n) ==
    /\ id \in connections /\ CanPost
    /\ calls < MaxCalls /\ calls' = calls + 1
    /\ tasks' = Append(tasks, [op |-> op, id |-> id, n |-> n])
    /\ sessions' = [sessions EXCEPT ![id] = Promised(@, op, n)]
    /\ UNCHANGED <<connections, next_id, at, loop, running, stop, closing,
                   callbacks, delivered>>

Lingers(s) == [SetEpollout(s, TRUE) EXCEPT !.close_after_send = TRUE]

\* Mutant: CloseAfterSend() does not look at the queue.
CloseAfterSendAtOnce(id) ==
    CloseInLoop(id, "flushed") /\ UNCHANGED at

CloseAfterSend(id) ==
    /\ IF sessions[id].closed
       THEN UNCHANGED <<sessions, connections, callbacks>>
       ELSE IF sessions[id].queue = <<>>
       THEN CloseInLoop(id, "flushed")
       ELSE /\ sessions' = [sessions EXCEPT ![id] = Lingers(@)]
            /\ UNCHANGED <<connections, callbacks>>
    /\ UNCHANGED at

RunTask ==
    /\ LoopIdle /\ tasks # <<>>
    /\ tasks' = Tail(tasks)
    /\ LET t == Head(tasks)
       IN  \/ t.op = "send" /\ EnqueueAndWrite(t.id, t.n)
           \/ t.op = "close" /\ CloseInLoop(t.id, "kNormal") /\ UNCHANGED at
           \/ t.op = "close_after" /\ CloseAfterSend(t.id)
    /\ UNCHANGED <<next_id, loop, running, stop, closing, delivered, calls>>

-----------------------------------------------------------------------------
(* SocketIoImpl::StopInternal(). *)

StopBegin ==
    /\ stop = "idle"
    /\ stop' = "closing" /\ running' = FALSE /\ closing' = connections
    /\ UNCHANGED <<connections, sessions, next_id, at, tasks, loop, callbacks,
                   delivered, calls>>

\* connection->Close(kInternalError), its result ignored.
StopClose(id) ==
    /\ stop = "closing" /\ id \in closing
    /\ closing' = closing \ {id}
    /\ tasks' = IF CanPost THEN Append(tasks, [op |-> "close", id |-> id, n |-> 0])
                           ELSE tasks
    /\ UNCHANGED <<connections, sessions, next_id, at, loop, running, stop,
                   callbacks, delivered, calls>>

StopLoops ==
    /\ stop = "closing" /\ closing = {}
    /\ stop' = "loops" /\ loop' = "stopping"
    /\ UNCHANGED <<connections, sessions, next_id, at, tasks, running, closing,
                   callbacks, delivered, calls>>

\* The thread ends after a final RunTasks().
LoopExit ==
    /\ LoopIdle /\ loop = "stopping" /\ tasks = <<>>
    /\ loop' = "down"
    /\ UNCHANGED <<connections, sessions, next_id, at, tasks, running, stop,
                   closing, callbacks, delivered, calls>>

StopDone ==
    /\ stop = "loops" /\ loop = "down"
    /\ stop' = "done" /\ connections' = {}
    /\ UNCHANGED <<sessions, next_id, at, tasks, loop, running, closing,
                   callbacks, delivered, calls>>

Ids == DOMAIN sessions

Next ==
    \/ RunCallback \/ Accept \/ StartSession \/ DispatchAccept \/ RunTask
    \/ \E id \in Ids :
          \/ HandleRead(id) \/ HandleError(id) \/ HandleWritable(id)
          \/ CheckTimeouts(id) \/ SendBlocks(id) \/ SendFails(id)
          \/ WriteDone(id) \/ StopClose(id)
          \/ \E n \in 1..SendBufferLimit : SendSome(id, n)
          \/ \E n \in Sizes : SendInLoop(id, n)
          \/ \E n \in Sizes : Call("send", id, n)
          \/ \E op \in {"close", "close_after"} : Call(op, id, 0)
    \/ StopBegin \/ StopLoops \/ LoopExit \/ StopDone

Spec == Init /\ [][Next]_vars

-----------------------------------------------------------------------------
(* Properties. *)

\* Types; the table respects max_connections and the queues their capacities.
TypeOK ==
    /\ connections \subseteq Ids /\ Cardinality(connections) <= MaxConnections
    /\ next_id = Len(sessions) + 1
    /\ \A id \in Ids :
          /\ sessions[id].queue \in Seq(1..SendBufferLimit)
          /\ sessions[id].pending_bytes \in Nat
    /\ at.in \in {"idle", "accept", "started", "write"}
    /\ Len(tasks) <= TaskCapacity /\ Len(callbacks) <= CallbackCapacity

\* pending_bytes_, which the limits, the write timeout and the diagnostics rely
\* on, is the number of bytes not yet handed to the kernel, and both limits of
\* a slow client hold, through short writes, timeouts and closes.
PendingBytesExact ==
    \A id \in Ids :
        LET s == sessions[id]
        IN  /\ s.pending_bytes = Total(s.queue)
            /\ s.pending_bytes <= SendBufferLimit
            /\ Len(s.queue) <= SendQueueCapacity

\* Output is never stuck: an open session with queued bytes either is being
\* written or waits for EPOLLOUT, and an idle one does not spin on it.
WriteArmed ==
    \A id \in Ids :
        LET s == sessions[id]
        IN  ~s.closed /\ ~Writing(id) /\ loop = "up" =>
                (s.epollout <=> s.queue # <<>>)

\* The table and the sessions agree: a session that can be looked up is not
\* closed, and one that serves its peer can be looked up until Stop().
TableAgrees ==
    /\ \A id \in connections : ~sessions[id].closed
    /\ \A id \in Ids : sessions[id].started /\ ~sessions[id].closed /\ stop # "done"
                          => id \in connections

\* CloseAfterSend() closes a connection only when everything whose Send() was
\* accepted before it has been written.
FlushedBeforeClose ==
    \A id \in Ids :
        sessions[id].reason = "flushed" => sessions[id].written >= sessions[id].promised

\* A connection's owner sees nothing of it after on_close.
NothingAfterClose ==
    \A id \in Ids : \A i \in DOMAIN delivered[id] :
        delivered[id][i] = "close" => i = Len(delivered[id])

\* What StopInternal() says: the listeners, then the sessions, then the loops
\* are stopped, so that every owner still gets its close callback and releases
\* its resources.  It fails when a queue is full at that moment.
StopClosesEverySession ==
    stop = "done" /\ callbacks = <<>> =>
        \A id \in Ids : sessions[id].started =>
            \E i \in DOMAIN delivered[id] : delivered[id][i] = "close"

\* The output of a session: its byte count is exact, its limits hold, it is never
\* stuck behind a disarmed EPOLLOUT, and a connection that closes after sending
\* has sent everything accepted before (HandleWrite, EnqueueOutBuffer,
\* CloseAfterSend).
OutputExact ==
    /\ TypeOK /\ PendingBytesExact /\ WriteArmed /\ FlushedBeforeClose

\* The table, the sessions and the callbacks agree on which connections exist:
\* none is looked up after it closed, and no owner hears of one after on_close.
ConnectionsAgree ==
    /\ TableAgrees /\ NothingAfterClose
=============================================================================
