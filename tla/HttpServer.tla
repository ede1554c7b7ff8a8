----------------------------- MODULE HttpServer -----------------------------
(***************************************************************************)
(* The connection side of libs/http with the long-lived streams of         *)
(* libs/http_media: HttpServer, HttpSession and StreamingHttpHandler.      *)
(*                                                                         *)
(* Four kinds of thread meet under one mutex: the callback loop delivers   *)
(* accept, read and close one at a time; the IO loop runs timers; executor *)
(* workers run the handler of a request; a control thread stops the        *)
(* server.  Each step below is one critical section of HttpServer::mutex_, *)
(* or one call made outside it, so whatever another thread does between    *)
(* two critical sections of a callback is between two steps here.          *)
(*                                                                         *)
(* A request is its number on the connection and its kind: an API request, *)
(* one with "Connection: close", one for media that is answered and done   *)
(* with (a snapshot, a playlist, WebRTC signalling), a stream (FLV, MJPEG, *)
(* server-sent events) or bytes that do not parse.                         *)
(***************************************************************************)
EXTENDS Naturals, Sequences, FiniteSets

CONSTANTS
    Conns,           \* connection ids; each is used by one connection
    MaxPipelined,    \* max_pipelined_requests
    MaxRequests,     \* max_requests_per_connection
    MaxRead,         \* requests a client sends on one connection
    MaxPartial       \* reads that bring only a part of a request (as a timeout generation)

ASSUME HttpLimits == {MaxPipelined, MaxRequests} \subseteq Nat \ {0} /\ MaxRead \in Nat

VARIABLES
    server,    \* HttpServer's life: "off", "on"; in Stop() "stopping", then "control"
               \* and "joining" when the control and the stream executor are stopped
    wire,      \* the socket: "idle" (unused), "open", "flush", "closing", "closed"
    session,   \* sessions_: the HttpSession of a connection, or NoSession
    sentTo,    \* requests (by number) the client has sent so far
    steps,     \* what the threads are in the middle of
    timers,    \* timers in the IO loop: connection and generation
    attached,  \* connections whose client is registered with MediaStreams
    answers,   \* the numbers of the requests answered, in order
    broken,    \* connections on which a 4xx/503 for the protocol was sent
    unarmed    \* connections whose RunAfter() failed last

httpVars == <<server, wire, session, sentTo, steps, timers, attached, answers,
              broken, unarmed>>

StreamKinds == {"flv", "mjpeg", "sse"}
Kinds == {"api", "close", "media", "bad"} \cup StreamKinds
NoSession == [open |-> FALSE]
NoRequest == [n |-> 0, kind |-> "api", last |-> FALSE]

\* ShouldUseStreamExecutor: media has workers of its own.
OnStreamExecutor(kind) == kind \in StreamKinds \cup {"media"}

\* A fresh HttpSession.  `late` and `lost` are history: accepted after Stop() had
\* taken the sessions, and a request of it discarded with the executor's queue.
FreshHttpSession ==
    [open |-> TRUE, pending |-> <<>>, buffer |-> <<>>, requests |-> 0,
     processing |-> FALSE, closing |-> FALSE, streaming |-> FALSE,
     state |-> "none", client |-> FALSE, gen |-> 0, timer |-> 0,
     late |-> FALSE, lost |-> FALSE]

\* A thread inside a callback or a handler: `who` runs it, `pc` is its next
\* step, `req` the request it handles, `gen` the timeout it renewed.
Task(who, c, pc, req) == [who |-> who, c |-> c, pc |-> pc, req |-> req, gen |-> 0]
NetIdle == \A t \in steps : t.who # "net"
Handled(t, new) == steps' = (steps \ {t}) \cup new
AtStep(t, pc) == Handled(t, {[t EXCEPT !.pc = pc]})
Finish(t) == Handled(t, {})

HttpInit ==
    /\ server = "off"
    /\ wire = [c \in Conns |-> "idle"]
    /\ session = [c \in Conns |-> NoSession]
    /\ sentTo = [c \in Conns |-> 0]
    /\ steps = {} /\ timers = {} /\ attached = {}
    /\ answers = [c \in Conns |-> <<>>]
    /\ broken = {} /\ unarmed = {}

-----------------------------------------------------------------------------
(* HttpSession *)

\* Requests the front of the buffer yields in one ParsePendingRequests: it
\* stops after max_pipelined_requests, at bytes that do not parse, and after
\* the request that closes the connection.
StopsAt(s, i) ==
    s.buffer[i].kind \in {"bad", "close"} \/ s.requests + i >= MaxRequests
Taken(s) ==
    LET limit == IF Len(s.buffer) < MaxPipelined THEN Len(s.buffer) ELSE MaxPipelined
    IN  CHOOSE k \in 0 .. limit :
            /\ \A i \in 1 .. k - 1 : ~StopsAt(s, i)
            /\ k = limit \/ (k > 0 /\ StopsAt(s, k))

Parsed(s) ==
    LET k == Taken(s)
        bad == k > 0 /\ s.buffer[k].kind = "bad"
        good == [i \in 1 .. (IF bad THEN k - 1 ELSE k) |->
                    [s.buffer[i] EXCEPT !.last = StopsAt(s, i)]]
        last == k > 0 /\ StopsAt(s, k)
    IN  IF s.closing THEN [s |-> s, ok |-> TRUE]
        ELSE [s |-> [s EXCEPT !.pending = s.pending \o good,
                              !.requests = s.requests + Len(good),
                              !.closing = last,
                              !.buffer = IF last THEN <<>>
                                         ELSE SubSeq(s.buffer, k + 1, Len(s.buffer))],
              ok |-> ~bad]

BegunStream(s) ==
    [s EXCEPT !.processing = FALSE, !.closing = TRUE, !.streaming = TRUE,
              !.state = "opening", !.client = FALSE, !.pending = <<>>,
              !.buffer = <<>>, !.gen = s.gen + 1]

MarkedClosing(s) ==
    IF s.streaming THEN [s EXCEPT !.state = "closing", !.closing = TRUE, !.gen = s.gen + 1]
    ELSE s

\* TakeNextRequest: one handler at a time.
CanTake(s) == s.open /\ ~s.processing /\ s.pending # <<>>

\* ExpireTimeout: only the timeout that is still the current one.
Current(s, gen) == s.open /\ s.gen = gen /\ s.timer # 0

-----------------------------------------------------------------------------
(* Sockets and timers of socket_io, as HttpServer uses them *)

\* Close(): the close callback follows on the callback loop.
CloseSocket(c) ==
    wire' = [wire EXCEPT ![c] = IF @ \in {"open", "flush"} THEN "closing" ELSE @]

\* A response the socket takes; CloseAfterSend() when it is the last one.
Send(c, n, last) ==
    \/ /\ wire[c] = "open"
       /\ answers' = [answers EXCEPT ![c] = Append(@, n)]
       /\ wire' = [wire EXCEPT ![c] = IF last THEN "flush" ELSE "open"]
    \/ CloseSocket(c) /\ UNCHANGED answers      \* refused: SendSlices failed
SendTook(c) == answers'[c] # answers[c]

\* A response for the protocol itself (400, 413, 503); it ends the connection.
Refuse(c) ==
    /\ broken' = broken \cup {c}
    /\ \/ wire[c] = "open" /\ wire' = [wire EXCEPT ![c] = "flush"]
       \/ CloseSocket(c)

-----------------------------------------------------------------------------
(* HttpServer: callbacks of the callback loop, and timers *)

\* An accept that was queued on the callback loop is delivered during Stop() too.
OnConnection(c) ==
    /\ NetIdle /\ wire[c] = "idle" /\ server # "off"
    /\ wire' = [wire EXCEPT ![c] = "open"]
    /\ session' = [session EXCEPT ![c] = [FreshHttpSession EXCEPT !.late = server # "on"]]
    /\ steps' = steps \cup {Task("net", c, "renew", NoRequest)}
    /\ UNCHANGED <<server, sentTo, timers, attached, answers, broken, unarmed>>

\* The client's bytes: up to two requests, or only a part of one.
Sent(c) ==
    {<<>>} \cup
    {[i \in 1 .. k |-> [n |-> sentTo[c] + i, kind |-> f[i], last |-> FALSE]] :
        k \in 1 .. 2, f \in [1 .. 2 -> Kinds]}

\* What OnMessage does once the bytes are parsed: refuse them, or restart the
\* request timer and hand the next request to an executor.
AfterRead(p) == IF p.ok THEN "renew" ELSE "refuse"

OnMessage(c) ==
    /\ NetIdle /\ wire[c] \in {"open", "flush"}
    /\ \E bytes \in Sent(c) :
        /\ sentTo[c] + Len(bytes) <= MaxRead
        /\ bytes = <<>> => session[c].open /\ session[c].gen <= MaxPartial
        /\ sentTo' = [sentTo EXCEPT ![c] = @ + Len(bytes)]
        /\ LET s == session[c]
               p == Parsed([s EXCEPT !.buffer = @ \o bytes, !.gen = @ + 1])
           IN  IF ~s.open \/ s.closing \/ s.streaming
               THEN UNCHANGED <<session, steps>>
               ELSE /\ session' = [session EXCEPT ![c] = p.s]
                    /\ steps' = steps \cup
                        {Task("net", c, AfterRead(p), [NoRequest EXCEPT !.n = 1])}
    /\ UNCHANGED <<server, wire, timers, attached, answers, broken, unarmed>>

\* A timer of the IO loop runs.
OnTimer(c) ==
    /\ \E tm \in timers :
        /\ tm.c = c
        /\ timers' = timers \ {tm}
        /\ IF Current(session[c], tm.gen)
           THEN /\ session' = [session EXCEPT ![c].timer = 0]
                /\ CloseSocket(c)
           ELSE UNCHANGED <<session, wire>>
    /\ UNCHANGED <<server, sentTo, steps, attached, answers, broken, unarmed>>

\* The socket is gone, closed by either side: the session goes, and the media
\* client it held is detached once the mutex is released.
OnClose(c) ==
    /\ NetIdle /\ wire[c] \in {"open", "flush", "closing"}
    /\ wire' = [wire EXCEPT ![c] = "closed"]
    /\ session' = [session EXCEPT ![c] = NoSession]
    /\ timers' = {tm \in timers : ~(session[c].open /\ tm.c = c /\ tm.gen = session[c].timer)}
    /\ steps' = IF session[c].open /\ session[c].client
                THEN steps \cup {Task("net", c, "notify", NoRequest)} ELSE steps
    /\ UNCHANGED <<server, sentTo, attached, answers, broken, unarmed>>

NotifyStreamClosed(t) ==
    /\ t.pc = "notify"
    /\ attached' = attached \ {t.c}
    /\ Finish(t)
    /\ UNCHANGED <<server, wire, session, sentTo, timers, answers, broken, unarmed>>

-----------------------------------------------------------------------------
(* HttpServer: what callbacks and handlers share *)

\* StartConnectionTimer, first critical section, and the cancellation of the
\* timer it replaces.
RenewTimeout(t) ==
    /\ t.pc = "renew"
    /\ LET s == session[t.c]
       IN  IF ~s.open THEN Finish(t) /\ UNCHANGED <<session, timers>>
           ELSE /\ session' = [session EXCEPT ![t.c].timer = 0, ![t.c].gen = s.gen + 1]
                /\ timers' = {tm \in timers : ~(tm.c = t.c /\ tm.gen = s.timer)}
                /\ Handled(t, {[t EXCEPT !.pc = "install", !.gen = s.gen + 1]})
    /\ UNCHANGED <<server, wire, sentTo, attached, answers, broken, unarmed>>

\* RunAfter() and the second critical section: the timer is kept only if no
\* one moved the session on since it was renewed.
InstallTimeout(t) ==
    /\ t.pc = "install"
    /\ LET s == session[t.c]
       IN  \/ /\ s.open /\ s.gen = t.gen
              /\ session' = [session EXCEPT ![t.c].timer = t.gen]
              /\ timers' = timers \cup {[c |-> t.c, gen |-> t.gen]}
              /\ unarmed' = unarmed \ {t.c}
           \/ /\ ~(s.open /\ s.gen = t.gen)
              /\ UNCHANGED <<session, timers, unarmed>>
           \/ /\ unarmed' = unarmed \cup {t.c}      \* RunAfter() failed
              /\ UNCHANGED <<session, timers>>
    /\ IF t.who = "net" /\ t.req.n # 0 THEN AtStep(t, "post") ELSE Finish(t)
    /\ UNCHANGED <<server, wire, sentTo, attached, answers, broken>>

\* Post() to the executor of the request: Stop() ends the control one first.
Accepts(kind) == server \in {"on", "stopping"} \/ (server = "control" /\ OnStreamExecutor(kind))

\* TryPostNextRequest: at most one handler per connection; a full or stopped
\* executor answers 503.
TryPostNextRequest(t) ==
    /\ t.pc = "post"
    /\ LET s == session[t.c]
       IN  IF ~CanTake(s)
           THEN Finish(t) /\ UNCHANGED session
           ELSE LET req == Head(s.pending)
                    rest == [s EXCEPT !.pending = Tail(s.pending), !.processing = TRUE]
                IN  /\ session' = [session EXCEPT ![t.c] = rest]
                    /\ \/ /\ Accepts(req.kind)
                          /\ Handled(t, {Task("worker", t.c, "handle", req)})
                       \/ AtStep(t, "refuse")
    /\ UNCHANGED <<server, wire, sentTo, timers, attached, answers, broken, unarmed>>

RefuseRequest(t) ==
    /\ t.pc = "refuse"
    /\ Refuse(t.c)
    /\ Finish(t)
    /\ UNCHANGED <<server, session, sentTo, timers, attached, answers, unarmed>>

AfterResponse(p) ==
    IF ~p.ok THEN "refuse" ELSE IF p.s.pending # <<>> THEN "post" ELSE "renew"

\* CompleteKeepAliveRequest: the handler is done, the buffer is parsed again.
CompleteKeepAlive(t) ==
    /\ t.pc = "complete"
    /\ LET s == session[t.c]
           p == Parsed([s EXCEPT !.processing = FALSE])
       IN  IF ~s.open THEN Finish(t) /\ UNCHANGED session
           ELSE /\ session' = [session EXCEPT ![t.c] = p.s]
                /\ AtStep(t, AfterResponse(p))
    /\ UNCHANGED <<server, wire, sentTo, timers, attached, answers, broken, unarmed>>

-----------------------------------------------------------------------------
(* Executor workers: the request handlers *)

\* An ordinary request: HandleHttpRequest and SendResponse.
HandleHttpRequest(t) ==
    /\ t.pc = "handle" /\ t.req.kind \in {"api", "close", "media"}
    /\ Send(t.c, t.req.n, t.req.last)
    /\ IF SendTook(t.c) /\ ~t.req.last THEN AtStep(t, "complete") ELSE Finish(t)
    /\ UNCHANGED <<server, session, sentTo, timers, attached, broken, unarmed>>

\* A stream that cannot start is answered and closed: no permission, the
\* stream does not run or has another codec, the pipeline restarts.
RejectStream(t) ==
    /\ t.pc = "handle" /\ t.req.kind \in StreamKinds
    /\ Send(t.c, t.req.n, TRUE)
    /\ Finish(t)
    /\ UNCHANGED <<server, session, sentTo, timers, attached, broken, unarmed>>

BeginStream(t) ==
    LET s == session[t.c]
    IN  IF s.open /\ s.processing /\ ~s.streaming
        THEN /\ session' = [session EXCEPT ![t.c] = BegunStream(s)]
             /\ answers' = [answers EXCEPT ![t.c] = Append(@, t.req.n)]
             /\ AtStep(t, "start")
        ELSE AtStep(t, "closed") /\ UNCHANGED <<session, answers>>

HandleFlvRequest(t) ==
    /\ t.pc = "handle" /\ t.req.kind = "flv"
    /\ BeginStream(t)
    /\ UNCHANGED <<server, wire, sentTo, timers, attached, broken, unarmed>>

HandleMjpegRequest(t) ==
    /\ t.pc = "handle" /\ t.req.kind = "mjpeg"
    /\ BeginStream(t)
    /\ UNCHANGED <<server, wire, sentTo, timers, attached, broken, unarmed>>

HandleEventStreamRequest(t) ==
    /\ t.pc = "handle" /\ t.req.kind = "sse"
    /\ BeginStream(t)
    /\ UNCHANGED <<server, wire, sentTo, timers, attached, broken, unarmed>>

\* The stream's header and cached tags.  A send that fails marks the stream
\* closing and closes the socket.
StartStream(t) ==
    /\ t.pc = "start"
    /\ \/ wire[t.c] = "open" /\ AtStep(t, "attach") /\ UNCHANGED <<session, wire>>
       \/ /\ session' = [session EXCEPT ![t.c] = IF @.open THEN MarkedClosing(@) ELSE @]
          /\ CloseSocket(t.c)
          /\ AtStep(t, "closed")
    /\ UNCHANGED <<server, sentTo, timers, attached, answers, broken, unarmed>>

\* AttachFlvClient / AttachMjpegClient: MediaStreams may refuse.  An event
\* stream has no media client, its handle carries id 0.
AttachMediaClient(t) ==
    /\ t.pc = "attach"
    /\ \/ t.req.kind # "sse" /\ attached' = attached \cup {t.c} /\ AtStep(t, "hand")
       \/ t.req.kind # "sse" /\ UNCHANGED attached /\ AtStep(t, "closed")
       \/ t.req.kind = "sse" /\ UNCHANGED attached /\ AtStep(t, "hand")
    /\ UNCHANGED <<server, wire, session, sentTo, timers, answers, broken, unarmed>>

\* HttpSession::AttachStreamClient wants an opening stream and an id.
Attachable(s, kind) == s.open /\ s.streaming /\ s.state = "opening" /\ kind # "sse"

\* A session that does not take the client: the handler detaches it again.
DetachLeaks(c) == attached      \* mutant: the client stays attached
Detach(c) == attached \ {c}

AttachStreamClient(t) ==
    /\ t.pc = "hand"
    /\ LET s == session[t.c]
       IN  IF Attachable(s, t.req.kind)
           THEN /\ session' = [session EXCEPT ![t.c] = [s EXCEPT !.client = TRUE, !.state = "attached"]]
                /\ Finish(t) /\ UNCHANGED attached
           ELSE /\ attached' = Detach(t.c)
                /\ AtStep(t, "closed") /\ UNCHANGED session
    /\ UNCHANGED <<server, wire, sentTo, timers, answers, broken, unarmed>>

\* The handler gave up: CloseConnection.
CloseStream(t) ==
    /\ t.pc = "closed"
    /\ session' = [session EXCEPT ![t.c] = IF @.open THEN MarkedClosing(@) ELSE @]
    /\ CloseSocket(t.c)
    /\ Finish(t)
    /\ UNCHANGED <<server, sentTo, timers, attached, answers, broken, unarmed>>

\* MediaStreams writes a frame to the client's sink.  A sink that cannot send
\* (no session, socket gone, send buffer full) is detached by MediaStreams.
StreamWriteFails(c) ==
    /\ c \in attached
    /\ attached' = attached \ {c}
    /\ session' = [session EXCEPT ![c] = IF @.open THEN MarkedClosing(@) ELSE @]
    /\ CloseSocket(c)
    /\ UNCHANGED <<server, sentTo, steps, timers, answers, broken, unarmed>>

-----------------------------------------------------------------------------
(* Control thread *)

\* The workers of both executors have been joined: Stop() returned.
StopReturned == server = "joining" /\ \A t \in steps : t.who # "worker"

StartServer ==
    /\ server = "off" \/ StopReturned
    /\ server' = "on"
    /\ UNCHANGED <<wire, session, sentTo, steps, timers, attached, answers, broken, unarmed>>

\* Stop() takes every session with its timer and its media client.
StopServer ==
    /\ server = "on"
    /\ server' = "stopping"
    /\ steps' = steps \cup {Task("control", c, "shut", [NoRequest EXCEPT !.n = IF session[c].client THEN 1 ELSE 0]) :
                               c \in {d \in Conns : session[d].open}}
    /\ session' = [c \in Conns |-> NoSession]
    /\ timers' = {tm \in timers : ~(session[tm.c].open /\ tm.gen = session[tm.c].timer)}
    /\ UNCHANGED <<wire, sentTo, attached, answers, broken, unarmed>>

\* Outside the lock: detach the clients, stop listening, close the sockets.
ShutSession(t) ==
    /\ t.pc = "shut"
    /\ attached' = IF t.req.n = 1 THEN attached \ {t.c} ELSE attached
    /\ CloseSocket(t.c)
    /\ Finish(t)
    /\ UNCHANGED <<server, session, sentTo, timers, answers, broken, unarmed>>

\* Stop(kDiscard) of an executor forgets what is queued and runs no more of it;
\* a request that a worker has begun is finished.
Discard(queued) ==
    \E gone \in SUBSET queued :
        /\ steps' = steps \ gone
        /\ session' = [c \in Conns |->
                IF session[c].open /\ \E t \in gone : t.c = c
                THEN [session[c] EXCEPT !.lost = TRUE] ELSE session[c]]

StopControlExecutor ==
    /\ server = "stopping"
    /\ \A t \in steps : t.who # "control"
    /\ server' = "control"
    /\ Discard({t \in steps : t.pc = "handle" /\ ~OnStreamExecutor(t.req.kind)})
    /\ UNCHANGED <<wire, sentTo, timers, attached, answers, broken, unarmed>>

\* Its workers are joined before the stream executor is stopped.
StopStreamExecutor ==
    /\ server = "control"
    /\ \A t \in steps : t.who = "worker" => OnStreamExecutor(t.req.kind)
    /\ server' = "joining"
    /\ Discard({t \in steps : t.pc = "handle"})
    /\ UNCHANGED <<wire, sentTo, timers, attached, answers, broken, unarmed>>

-----------------------------------------------------------------------------
HttpNext ==
    \/ StartServer \/ StopServer \/ StopControlExecutor \/ StopStreamExecutor
    \/ \E c \in Conns :
        OnConnection(c) \/ OnMessage(c) \/ OnTimer(c) \/ OnClose(c) \/ StreamWriteFails(c)
    \/ \E t \in steps :
        \/ NotifyStreamClosed(t) \/ RenewTimeout(t) \/ InstallTimeout(t)
        \/ TryPostNextRequest(t) \/ RefuseRequest(t) \/ CompleteKeepAlive(t)
        \/ HandleHttpRequest(t) \/ RejectStream(t) \/ StartStream(t)
        \/ HandleFlvRequest(t) \/ HandleMjpegRequest(t) \/ HandleEventStreamRequest(t)
        \/ AttachMediaClient(t) \/ AttachStreamClient(t) \/ CloseStream(t)
        \/ ShutSession(t)

HttpSpec == HttpInit /\ [][HttpNext]_httpVars
-----------------------------------------------------------------------------
(* Properties *)

HttpTypeOK ==
    /\ server \in {"off", "on", "stopping", "control", "joining"}
    /\ \A c \in Conns :
        /\ wire[c] \in {"idle", "open", "flush", "closing", "closed"}
        /\ sentTo[c] \in 0 .. MaxRead
        /\ session[c].open =>
            /\ session[c].state \in {"none", "opening", "attached", "closing"}
            /\ session[c].state = "none" <=> ~session[c].streaming
            /\ Len(session[c].pending) <= MaxRead /\ session[c].timer <= session[c].gen
    /\ \A t \in steps : t.c \in Conns /\ t.who \in {"net", "worker", "control"}
    /\ \A tm \in timers : tm.c \in Conns /\ tm.gen > 0
    /\ attached \subseteq Conns

\* A client registered with MediaStreams has someone who will detach it: the
\* session that holds it, the handler that is about to hand it over, or a
\* close or a stop that has taken it from the session (OnClose, Stop,
\* HandleFlvRequest).  Otherwise the sink and its buffers stay for ever.
ClientOwned ==
    \A c \in attached :
        \/ session[c].open /\ session[c].client
        \/ \E t \in steps : /\ t.c = c
                            /\ t.pc \in {"hand", "notify"} \/ (t.pc = "shut" /\ t.req.n = 1)

\* Responses leave in the order of the requests, without a gap, although
\* requests are pipelined and handled by a pool of workers (processing_ in
\* TakeNextRequest, ParsePendingRequests after each response).
AnswersInOrder == \A c \in Conns : \A i \in DOMAIN answers[c] : answers[c][i] = i

Quiet(c) == session[c].open /\ wire[c] = "open" /\ \A t \in steps : t.c # c

\* When no thread works for an open connection, everything the client sent has
\* been parsed and handled.  The exception is a connection accepted while Stop()
\* was under way whose request was in the queue that Stop() discarded
\* (http_server.cpp:32): it stays `processing` and serves nothing any more, also
\* after a restart, until its timer or the client closes it (IdleHasTimer).
NoneStranded ==
    \A c \in Conns : Quiet(c) =>
        \/ session[c].lost /\ session[c].late
        \/ /\ session[c].pending = <<>> /\ session[c].buffer = <<>>
           /\ ~session[c].processing

\* An open connection nobody works for is not kept for ever: unless it streams
\* (or the loop refused the timer), a timer that will close it is installed,
\* whatever two threads renewing the timeout did to each other's timer.
IdleHasTimer ==
    \A c \in Conns : (Quiet(c) /\ ~session[c].streaming /\ c \notin unarmed) =>
        \E tm \in timers : tm.c = c /\ Current(session[c], tm.gen)

\* Requests of a connection are answered in order, none is left behind but those
\* that Stop() discards on connections accepted behind its back, and what a
\* connection holds (a streaming client, its place in the table) is given
\* back, whichever of the workers, the loop, a timer and Stop() come first.
HttpConnectionsServed ==
    /\ HttpTypeOK /\ ClientOwned /\ AnswersInOrder /\ NoneStranded
    /\ IdleHasTimer
=============================================================================
