----------------------------- MODULE RtspServer -----------------------------
(***************************************************************************)
(* libs/rtsp: control connections, sessions, their media subscription,     *)
(* send timer and UDP sockets.                                             *)
(*                                                                         *)
(* Three threads share RtspImpl::mutex_: "cb", the callback loop of        *)
(* socket_io, runs accept, read and close one at a time; the IO loop runs  *)
(* the send timers; "ctl" starts and stops the server.  A handler holds    *)
(* the mutex only around single accesses to its session, so each critical  *)
(* section, with the calls made after it, is a step.                       *)
(*                                                                         *)
(* Subscriptions, timers and UDP socket pairs are named by the connection  *)
(* and the number of the request that made them.  The requests of a        *)
(* connection are numbered.                                                *)
(***************************************************************************)
EXTENDS Naturals, Sequences, FiniteSets

CONSTANTS
    RtspConns,         \* connection ids; each is used by one connection
    RtspMaxSessions,   \* RtspOptions::max_sessions
    MaxRtspRequests,   \* requests a client sends on one connection
    MaxRtspFrames      \* frames sent to it after a PLAY

ASSUME RtspLimits == RtspMaxSessions \in Nat \ {0} /\ MaxRtspFrames \in Nat

VARIABLES
    rtspUp,        \* "on", "closing" (in StopInternal) or "off"
    rtspAuth,      \* options_.enable_auth
    rtspWire,      \* a control connection, as the client and socket_io have it
    rtspTable,     \* session_table_: the connections that have a session
    rtsp,          \* the RtspSession of a connection
    rtspThread,    \* what "cb" and "ctl" are in the middle of
    rtspSender,    \* where the IO loop is in the callback of a send timer
    rtspSubs, rtspTimers, rtspUdp,     \* what MediaStreams and socket_io hold for us
    rtspAsked,     \* requests received so far
    rtspGranted,   \* history: streams a connection was authorised for
    rtspLog,       \* history: frames packetized and sent since the last PLAY
    rtspRaced      \* history: connections whose callback met StopInternal()

rtspVars == <<rtspUp, rtspAuth, rtspWire, rtspTable, rtsp, rtspThread, rtspSender, rtspSubs,
              rtspTimers, rtspUdp, rtspAsked, rtspGranted, rtspLog, rtspRaced>>

RtspStreams == {"main", "sub"}
Modes == {"tcp", "udp"}
Threads == {"cb", "ctl"}
Resting == [at |-> "idle"]
SenderIdle == [at |-> "idle"]
NewRtspSession ==
    [state |-> "init", stream |-> "main", mode |-> "tcp", udp |-> 0, sub |-> 0, subStream |-> "main",
     timer |-> 0, key |-> FALSE, start |-> <<>>, auth |-> "none"]

RtspInit ==
    /\ rtspUp = "off" /\ rtspAuth = TRUE
    /\ rtspWire = [c \in RtspConns |-> "idle"]
    /\ rtspTable = {}
    /\ rtsp = [c \in RtspConns |-> NewRtspSession]
    /\ rtspThread = [t \in Threads |-> Resting]
    /\ rtspSender = SenderIdle
    /\ rtspSubs = {} /\ rtspTimers = {} /\ rtspUdp = {}
    /\ rtspAsked = [c \in RtspConns |-> 0]
    /\ rtspGranted = [c \in RtspConns |-> {}]
    /\ rtspLog = [c \in RtspConns |-> <<>>]
    /\ rtspRaced = {}

Cb == rtspThread["cb"]
Becomes(t, rec) == rtspThread' = [rtspThread EXCEPT ![t] = rec]
At(t, at) == rtspThread' = [rtspThread EXCEPT ![t].at = at]
\* A thread that is about to take a session's resources away, then to do `next`.
Releasing(c, next) ==
    [at |-> "takeSub", c |-> c, next |-> next, sub |-> 0, timer |-> 0, udp |-> 0,
     stream |-> "main", mode |-> "tcp", todo |-> {}, shut |-> {}]

\* Close(): the close callback follows.
CloseControl(c) ==
    rtspWire' = [rtspWire EXCEPT ![c] = IF @ \in {"open", "flush"} THEN "closing" ELSE @]

-----------------------------------------------------------------------------
(* CloseSubscription and CloseSessionUdp, run by both threads *)

\* What ClearSubscription() and ClearDrainTimer() leave.
Unsubscribed(s) == [s EXCEPT !.sub = 0, !.timer = 0, !.key = FALSE, !.start = <<>>]

TakeSub(t) ==
    LET th == rtspThread[t]
    IN  /\ th.at = "takeSub"
        /\ Becomes(t, [th EXCEPT !.at = "dropSub", !.sub = rtsp[th.c].sub,
                                 !.timer = rtsp[th.c].timer])
        /\ rtsp' = [rtsp EXCEPT ![th.c] = Unsubscribed(@)]
        /\ UNCHANGED <<rtspUp, rtspAuth, rtspWire, rtspTable, rtspSender, rtspSubs, rtspTimers,
                       rtspUdp, rtspAsked, rtspGranted, rtspLog, rtspRaced>>

Cancelled(c, n) == rtspTimers \ {<<c, n>>}

\* Outside the lock: cancel the timer, unsubscribe; then take the UDP sockets.
DropSub(t) ==
    LET th == rtspThread[t]
    IN  /\ th.at = "dropSub"
        /\ rtspTimers' = Cancelled(th.c, th.timer)
        /\ rtspSubs' = rtspSubs \ {<<th.c, th.sub>>}
        /\ IF th.next = "subscribe" THEN At(t, "subscribe") /\ UNCHANGED rtsp
           ELSE /\ Becomes(t, [th EXCEPT !.at = "dropUdp", !.udp = rtsp[th.c].udp])
                /\ rtsp' = [rtsp EXCEPT ![th.c].udp = 0]
        /\ UNCHANGED <<rtspUp, rtspAuth, rtspWire, rtspTable, rtspSender, rtspUdp, rtspAsked,
                       rtspGranted, rtspLog, rtspRaced>>

UdpClosed(c, n) == rtspUdp \ {<<c, n>>}
DropUdp(t) ==
    LET th == rtspThread[t]
    IN  /\ th.at = "dropUdp"
        /\ rtspUdp' = UdpClosed(th.c, th.udp)
        /\ At(t, th.next)
        /\ UNCHANGED <<rtspUp, rtspAuth, rtspWire, rtspTable, rtsp, rtspSender, rtspSubs,
                       rtspTimers, rtspAsked, rtspGranted, rtspLog, rtspRaced>>

-----------------------------------------------------------------------------
(* Callback loop: connections *)

\* socket_io accepts while it listens; the callback comes later.
SocketAccepts(c) ==
    /\ rtspUp = "on" /\ rtspWire[c] = "idle"
    /\ rtspWire' = [rtspWire EXCEPT ![c] = "accepted"]
    /\ UNCHANGED <<rtspUp, rtspAuth, rtspTable, rtsp, rtspThread, rtspSender, rtspSubs, rtspTimers,
                   rtspUdp, rtspAsked, rtspGranted, rtspLog, rtspRaced>>

OnRtspConnection(c) ==
    /\ Cb = Resting /\ rtspWire[c] = "accepted"
    /\ IF Cardinality(rtspTable) < RtspMaxSessions
       THEN /\ rtspTable' = rtspTable \cup {c}
            /\ rtspWire' = [rtspWire EXCEPT ![c] = "open"]
            /\ rtspRaced' = IF rtspUp = "on" THEN rtspRaced ELSE rtspRaced \cup {c}
       ELSE /\ rtspWire' = [rtspWire EXCEPT ![c] = "closing"]
            /\ UNCHANGED <<rtspTable, rtspRaced>>
    /\ UNCHANGED <<rtspUp, rtspAuth, rtsp, rtspThread, rtspSender, rtspSubs, rtspTimers, rtspUdp,
                   rtspAsked, rtspGranted, rtspLog>>

\* RtspSessionTable::Remove.
Removed(c) == rtspTable \ {c}

\* OnConnectionClosed: by the client, by a failed send or by Close().
OnConnectionClosed(c) ==
    /\ Cb = Resting /\ rtspWire[c] \in {"open", "flush", "closing"}
    /\ rtspWire' = [rtspWire EXCEPT ![c] = "closed"]
    /\ rtspTable' = Removed(c)
    /\ IF c \in rtspTable THEN Becomes("cb", Releasing(c, "done")) ELSE UNCHANGED rtspThread
    /\ UNCHANGED <<rtspUp, rtspAuth, rtsp, rtspSender, rtspSubs, rtspTimers, rtspUdp, rtspAsked,
                   rtspGranted, rtspLog, rtspRaced>>

CbDone ==
    /\ Cb.at = "done"
    /\ Becomes("cb", Resting)
    /\ UNCHANGED <<rtspUp, rtspAuth, rtspWire, rtspTable, rtsp, rtspSender, rtspSubs, rtspTimers,
                   rtspUdp, rtspAsked, rtspGranted, rtspLog, rtspRaced>>

-----------------------------------------------------------------------------
(* Callback loop: requests *)

IsAuthenticatedFor(c, s) == rtsp[c].auth = s

\* AuthorizeRtspRequest lets the request for stream s pass and leaves the
\* session as `new`: authentication is off, or was done for this stream, or
\* Basic credentials log in with the preview permission.
Authorized(c, s, new) ==
    \/ /\ ~rtspAuth /\ new = rtsp[c]
       /\ rtspGranted' = [rtspGranted EXCEPT ![c] = @ \cup {s}]
    \/ /\ rtspAuth /\ IsAuthenticatedFor(c, s) /\ new = rtsp[c]
       /\ UNCHANGED rtspGranted
    \/ /\ rtspAuth /\ ~IsAuthenticatedFor(c, s) /\ new = [rtsp[c] EXCEPT !.auth = s]
       /\ rtspGranted' = [rtspGranted EXCEPT ![c] = @ \cup {s}]

\* OnMessage finds the session and a complete request.
RtspRequest(c) ==
    /\ Cb = Resting /\ rtspWire[c] \in {"open", "flush"} /\ c \in rtspTable
    /\ rtspAsked[c] < MaxRtspRequests
    /\ rtspAsked' = [rtspAsked EXCEPT ![c] = @ + 1]
    /\ rtspRaced' = IF rtspUp = "on" THEN rtspRaced ELSE rtspRaced \cup {c}
    /\ UNCHANGED <<rtspUp, rtspAuth, rtspTable, rtspSender, rtspSubs, rtspTimers, rtspUdp, rtspLog>>

\* A request that does not parse or is too large closes the connection, and
\* so does one that comes after StopInternal() cleared the table.
BadRtspRequest(c) ==
    /\ Cb = Resting /\ rtspWire[c] \in {"open", "flush"}
    /\ CloseControl(c)
    /\ UNCHANGED <<rtspUp, rtspAuth, rtspTable, rtsp, rtspThread, rtspSender, rtspSubs, rtspTimers,
                   rtspUdp, rtspAsked, rtspGranted, rtspLog, rtspRaced>>

HandleDescribe(c, s) ==
    /\ RtspRequest(c)
    /\ \E new \in {rtsp[c], [rtsp[c] EXCEPT !.auth = s]} :
        /\ Authorized(c, s, new)
        /\ rtsp' = [rtsp EXCEPT ![c] = [new EXCEPT !.stream = s]]
    /\ UNCHANGED <<rtspWire, rtspThread>>

\* SetupRtspTransport: the old subscription and sockets go first, also when
\* the new sockets then cannot be bound.
HandleSetup(c, s, mode) ==
    /\ RtspRequest(c)
    /\ \E new \in {rtsp[c], [rtsp[c] EXCEPT !.auth = s]} :
        /\ Authorized(c, s, new)
        /\ rtsp' = [rtsp EXCEPT ![c] = new]
    /\ Becomes("cb", [Releasing(c, "setup") EXCEPT !.stream = s, !.mode = mode])
    /\ UNCHANGED rtspWire

SetupSession ==
    /\ Cb.at = "setup"
    /\ LET c == Cb.c
           ready == [rtsp[c] EXCEPT !.state = "ready", !.stream = Cb.stream, !.mode = Cb.mode]
       IN  \/ /\ Cb.mode = "tcp"
              /\ rtsp' = [rtsp EXCEPT ![c] = [ready EXCEPT !.udp = 0]]
              /\ UNCHANGED rtspUdp
           \/ /\ Cb.mode = "udp"
              /\ rtsp' = [rtsp EXCEPT ![c] = [ready EXCEPT !.udp = rtspAsked[c]]]
              /\ rtspUdp' = rtspUdp \cup {<<c, rtspAsked[c]>>}
           \/ Cb.mode = "udp" /\ UNCHANGED <<rtsp, rtspUdp>>      \* BindUdp failed
    /\ Becomes("cb", Resting)
    /\ UNCHANGED <<rtspUp, rtspAuth, rtspWire, rtspTable, rtspSender, rtspSubs, rtspTimers,
                   rtspAsked, rtspGranted, rtspLog, rtspRaced>>

\* PLAY: an earlier subscription is closed, a new one made and stored, and the
\* send timer started.
PlayFrom(c) == Releasing(c, "subscribe")
HandlePlay(c) ==
    /\ RtspRequest(c)
    /\ \E new \in {rtsp[c], [rtsp[c] EXCEPT !.auth = rtsp[c].stream]} :
        /\ Authorized(c, rtsp[c].stream, new)
        /\ rtsp' = [rtsp EXCEPT ![c] = new]
    /\ IF rtsp[c].state \in {"ready", "playing"} THEN Becomes("cb", PlayFrom(c))
       ELSE UNCHANGED rtspThread
    /\ UNCHANGED rtspWire

SubscribeSession ==
    /\ Cb.at = "subscribe"
    /\ \/ /\ rtspSubs' = rtspSubs \cup {<<Cb.c, rtspAsked[Cb.c]>>}
          /\ Becomes("cb", [Cb EXCEPT !.at = "store", !.sub = rtspAsked[Cb.c]])
       \/ Becomes("cb", Resting) /\ UNCHANGED rtspSubs    \* refused, not ready or another codec
    /\ UNCHANGED <<rtspUp, rtspAuth, rtspWire, rtspTable, rtsp, rtspSender, rtspTimers, rtspUdp,
                   rtspAsked, rtspGranted, rtspLog, rtspRaced>>

\* The start frames of a subscription: a GOP, or nothing yet.
StartFrames(c, n) ==
    {<<>>, << [sub |-> n, stream |-> rtsp[c].stream, key |-> TRUE],
              [sub |-> n, stream |-> rtsp[c].stream, key |-> FALSE] >>}
StoreSubscription ==
    /\ Cb.at = "store"
    /\ LET c == Cb.c
       IN  /\ \E frames \in StartFrames(c, Cb.sub) :
                rtsp' = [rtsp EXCEPT ![c] = [@ EXCEPT !.state = "playing", !.sub = Cb.sub,
                                !.subStream = rtsp[c].stream, !.key = FALSE, !.start = frames]]
           /\ rtspLog' = [rtspLog EXCEPT ![c] = <<>>]
    /\ At("cb", "timer")
    /\ UNCHANGED <<rtspUp, rtspAuth, rtspWire, rtspTable, rtspSender, rtspSubs, rtspTimers, rtspUdp,
                   rtspAsked, rtspGranted, rtspRaced>>

\* RunEvery(); when it fails the subscription stored in the session goes.
StartSendTimer ==
    /\ Cb.at = "timer"
    /\ \/ /\ rtspTimers' = rtspTimers \cup {<<Cb.c, Cb.sub>>}
          /\ At("cb", "keep")
          /\ UNCHANGED <<rtsp, rtspSubs>>
       \/ /\ rtspSubs' = rtspSubs \ {<<Cb.c, rtsp[Cb.c].sub>>}
          /\ rtsp' = [rtsp EXCEPT ![Cb.c] = [@ EXCEPT !.sub = 0, !.key = FALSE, !.start = <<>>]]
          /\ Becomes("cb", Resting)
          /\ UNCHANGED rtspTimers
    /\ UNCHANGED <<rtspUp, rtspAuth, rtspWire, rtspTable, rtspSender, rtspUdp, rtspAsked,
                   rtspGranted, rtspLog, rtspRaced>>

KeepSendTimer ==
    /\ Cb.at = "keep"
    /\ rtsp' = [rtsp EXCEPT ![Cb.c].timer = Cb.sub]
    /\ Becomes("cb", Resting)
    /\ UNCHANGED <<rtspUp, rtspAuth, rtspWire, rtspTable, rtspSender, rtspSubs, rtspTimers,
                   rtspUdp, rtspAsked, rtspGranted, rtspLog, rtspRaced>>

\* TEARDOWN: the session's resources go, then the connection.
HandleTeardown(c) ==
    /\ RtspRequest(c)
    /\ \E new \in {rtsp[c], [rtsp[c] EXCEPT !.auth = rtsp[c].stream]} :
        /\ Authorized(c, rtsp[c].stream, new)
        /\ rtsp' = [rtsp EXCEPT ![c] = [new EXCEPT !.state = "closed"]]
    /\ Becomes("cb", Releasing(c, "flush"))
    /\ UNCHANGED rtspWire

CloseAfterTeardown ==
    /\ Cb.at = "flush"
    /\ rtspWire' = [rtspWire EXCEPT ![Cb.c] = IF @ = "open" THEN "flush" ELSE @]
    /\ Becomes("cb", Resting)
    /\ UNCHANGED <<rtspUp, rtspAuth, rtspTable, rtsp, rtspSender, rtspSubs, rtspTimers, rtspUdp,
                   rtspAsked, rtspGranted, rtspLog, rtspRaced>>

-----------------------------------------------------------------------------
(* IO loop: SendSessionFrames, the callback of a session's send timer *)

\* The callback begins: start frames are to be sent first.  Of the frame it has
\* taken: the subscription, the stream, whether it is a start frame and a
\* keyframe; `seen` is the subscription whose start frames were found sent, `play`
\* the one the keyframe check was made for (both history), `mode` the route.
Sending(c) ==
    [at |-> "start", c |-> c, sub |-> 0, stream |-> "main", start |-> FALSE, key |-> FALSE,
     seen |-> 0, play |-> 0, mode |-> "tcp"]

\* A callback that has begun is not stopped by CancelTimer().
RtspTimerFires(c) ==
    /\ rtspSender = SenderIdle /\ \E n \in 0 .. MaxRtspRequests : <<c, n>> \in rtspTimers
    /\ Len(rtspLog[c]) < MaxRtspFrames
    /\ rtspSender' = Sending(c)
    /\ UNCHANGED <<rtspUp, rtspAuth, rtspWire, rtspTable, rtsp, rtspThread, rtspSubs, rtspTimers,
                   rtspUdp, rtspAsked, rtspGranted, rtspLog, rtspRaced>>

\* The next frame of the same kind; a callback ends after kRtspMaxFramesPerSend
\* frames, here after any number.
NextFrame(x) ==
    IF x.start THEN Sending(x.c)
    ELSE [Sending(x.c) EXCEPT !.at = "pull", !.sub = x.sub, !.stream = x.stream, !.seen = x.seen]
GoesOn(log) ==
    \/ rtspSender' = SenderIdle
    \/ Len(log) < MaxRtspFrames /\ rtspSender' = NextFrame(rtspSender)

\* SendSessionStartFrames: a start frame, while there is one.
StartSkipped(s) == TRUE        \* mutant: live frames do not wait for the start frames
StartSent(s) == s.start = <<>>
TakeStartFrame ==
    /\ rtspSender.at = "start"
    /\ LET c == rtspSender.c
           s == rtsp[c]
       IN  \/ s.state # "playing" /\ rtspSender' = SenderIdle /\ UNCHANGED rtsp
           \/ /\ s.state = "playing" /\ s.start # <<>>
              /\ LET f == Head(s.start)
                 IN  rtspSender' = [Sending(c) EXCEPT !.at = "should", !.sub = f.sub,
                                        !.stream = f.stream, !.start = TRUE, !.key = f.key]
              /\ rtsp' = [rtsp EXCEPT ![c].start = Tail(@)]
           \/ /\ s.state = "playing" /\ StartSent(s)
              /\ rtspSender' = [Sending(c) EXCEPT !.at = "subscription", !.seen = s.sub]
              /\ UNCHANGED rtsp
    /\ UNCHANGED <<rtspUp, rtspAuth, rtspWire, rtspTable, rtspThread, rtspSubs, rtspTimers,
                   rtspUdp, rtspAsked, rtspGranted, rtspLog, rtspRaced>>

\* Another critical section: a PLAY may have come since the one before.
ReadSubscription ==
    /\ rtspSender.at = "subscription"
    /\ LET s == rtsp[rtspSender.c]
       IN  IF s.state = "playing" /\ s.sub # 0
           THEN rtspSender' = [rtspSender EXCEPT !.at = "pull", !.sub = s.sub, !.stream = s.subStream]
           ELSE rtspSender' = SenderIdle
    /\ UNCHANGED <<rtspUp, rtspAuth, rtspWire, rtspTable, rtsp, rtspThread, rtspSubs, rtspTimers,
                   rtspUdp, rtspAsked, rtspGranted, rtspLog, rtspRaced>>

\* PullFrame() without the lock: a live frame, or nothing is queued, or the
\* subscription has been ended.
PullLiveFrame ==
    /\ rtspSender.at = "pull"
    /\ \/ /\ <<rtspSender.c, rtspSender.sub>> \in rtspSubs
          /\ \E key \in BOOLEAN : rtspSender' = [rtspSender EXCEPT !.at = "should", !.key = key]
       \/ rtspSender' = SenderIdle
    /\ UNCHANGED <<rtspUp, rtspAuth, rtspWire, rtspTable, rtsp, rtspThread, rtspSubs, rtspTimers,
                   rtspUdp, rtspAsked, rtspGranted, rtspLog, rtspRaced>>

\* SendFrame: the session may have changed since the frame was taken.
ShouldSend(s, f) == s.state = "playing" /\ s.sub # 0 /\ f.stream = s.stream
CheckSession ==
    /\ rtspSender.at = "should"
    /\ IF ShouldSend(rtsp[rtspSender.c], rtspSender)
       THEN rtspSender' = [rtspSender EXCEPT !.at = "key"]
       ELSE GoesOn(rtspLog[rtspSender.c])
    /\ UNCHANGED <<rtspUp, rtspAuth, rtspWire, rtspTable, rtsp, rtspThread, rtspSubs, rtspTimers,
                   rtspUdp, rtspAsked, rtspGranted, rtspLog, rtspRaced>>

\* RtspRtpSender::SendFrame drops frames until it has seen a keyframe.
CheckKeyframe ==
    /\ rtspSender.at = "key"
    /\ LET c == rtspSender.c
       IN  IF rtsp[c].key \/ rtspSender.key
           THEN /\ rtspSender' = [rtspSender EXCEPT !.at = "route", !.play = rtsp[c].sub]
                /\ rtsp' = [rtsp EXCEPT ![c].key = TRUE]
           ELSE GoesOn(rtspLog[c]) /\ UNCHANGED rtsp
    /\ UNCHANGED <<rtspUp, rtspAuth, rtspWire, rtspTable, rtspThread, rtspSubs, rtspTimers,
                   rtspUdp, rtspAsked, rtspGranted, rtspLog, rtspRaced>>

\* The route of the packets; the packets of a frame go together here.
ReadRoute ==
    /\ rtspSender.at = "route"
    /\ rtspSender' = [rtspSender EXCEPT !.at = "send", !.mode = rtsp[rtspSender.c].mode]
    /\ UNCHANGED <<rtspUp, rtspAuth, rtspWire, rtspTable, rtsp, rtspThread, rtspSubs, rtspTimers,
                   rtspUdp, rtspAsked, rtspGranted, rtspLog, rtspRaced>>

LogEntry(x) ==
    [sub |-> x.sub, stream |-> x.stream, start |-> x.start, key |-> x.key, seen |-> x.seen,
     play |-> x.play]
SendRtpPackets ==
    /\ rtspSender.at = "send"
    /\ LET c == rtspSender.c
       IN  /\ rtspLog' = [rtspLog EXCEPT ![c] = Append(@, LogEntry(rtspSender))]
           /\ \/ UNCHANGED rtspWire     \* sent, or lost: no packets made, UDP socket refuses
              \/ rtspSender.mode = "tcp" /\ CloseControl(c)
           /\ GoesOn(rtspLog'[c])
    /\ UNCHANGED <<rtspUp, rtspAuth, rtspTable, rtsp, rtspThread, rtspSubs, rtspTimers, rtspUdp,
                   rtspAsked, rtspGranted, rtspRaced>>

-----------------------------------------------------------------------------
(* Control thread *)

StartRtsp ==
    /\ rtspUp = "off" /\ rtspThread["ctl"] = Resting
    /\ rtspUp' = "on"
    /\ UNCHANGED <<rtspAuth, rtspWire, rtspTable, rtsp, rtspThread, rtspSender, rtspSubs, rtspTimers,
                   rtspUdp, rtspAsked, rtspGranted, rtspLog, rtspRaced>>

ApplyRtspOptions ==
    /\ rtspUp = "on"
    /\ rtspAuth' = ~rtspAuth
    /\ UNCHANGED <<rtspUp, rtspWire, rtspTable, rtsp, rtspThread, rtspSender, rtspSubs, rtspTimers,
                   rtspUdp, rtspAsked, rtspGranted, rtspLog, rtspRaced>>

\* StopInternal: stop listening, take the list of sessions, release each one,
\* close the connections, clear the table.
StopRtsp ==
    /\ rtspUp = "on"
    /\ rtspUp' = "closing"
    /\ Becomes("ctl", [at |-> "pick", todo |-> rtspTable, shut |-> rtspTable])
    /\ rtspRaced' = IF Cb = Resting THEN rtspRaced ELSE rtspRaced \cup {Cb.c}
    /\ UNCHANGED <<rtspAuth, rtspWire, rtspTable, rtsp, rtspSender, rtspSubs, rtspTimers, rtspUdp,
                   rtspAsked, rtspGranted, rtspLog>>

StopNextSession ==
    LET th == rtspThread["ctl"]
    IN  /\ th.at = "pick" /\ th.todo # {}
        /\ \E c \in th.todo :
            Becomes("ctl", [Releasing(c, "pick") EXCEPT !.todo = th.todo \ {c}, !.shut = th.shut])
        /\ UNCHANGED <<rtspUp, rtspAuth, rtspWire, rtspTable, rtsp, rtspSender, rtspSubs, rtspTimers,
                       rtspUdp, rtspAsked, rtspGranted, rtspLog, rtspRaced>>

StopClears ==
    LET th == rtspThread["ctl"]
    IN  /\ th.at = "pick" /\ th.todo = {}
        /\ rtspWire' = [c \in RtspConns |->
                IF c \in th.shut /\ rtspWire[c] \in {"open", "flush"} THEN "closing" ELSE rtspWire[c]]
        /\ rtspTable' = {}
        /\ rtspUp' = "off"
        /\ Becomes("ctl", Resting)
        /\ UNCHANGED <<rtspAuth, rtsp, rtspSender, rtspSubs, rtspTimers, rtspUdp, rtspAsked,
                       rtspGranted, rtspLog, rtspRaced>>

-----------------------------------------------------------------------------
RtspNext ==
    \/ StartRtsp \/ ApplyRtspOptions \/ StopRtsp \/ StopNextSession \/ StopClears
    \/ \E t \in Threads : TakeSub(t) \/ DropSub(t) \/ DropUdp(t)
    \/ CbDone \/ SetupSession \/ SubscribeSession \/ StoreSubscription
    \/ StartSendTimer \/ KeepSendTimer \/ CloseAfterTeardown
    \/ TakeStartFrame \/ ReadSubscription \/ PullLiveFrame
    \/ CheckSession \/ CheckKeyframe \/ ReadRoute \/ SendRtpPackets
    \/ \E c \in RtspConns :
        \/ SocketAccepts(c) \/ OnRtspConnection(c) \/ OnConnectionClosed(c) \/ BadRtspRequest(c)
        \/ \E s \in RtspStreams :
            HandleDescribe(c, s) \/ \E mode \in Modes : HandleSetup(c, s, mode)
        \/ HandlePlay(c) \/ HandleTeardown(c) \/ RtspTimerFires(c)

RtspSpec == RtspInit /\ [][RtspNext]_rtspVars
-----------------------------------------------------------------------------
(* Properties *)

RtspTypeOK ==
    /\ Cardinality(rtspTable) <= RtspMaxSessions
    /\ rtspTable \subseteq {c \in RtspConns : rtspWire[c] \in {"open", "flush", "closing"}}
    /\ \A c \in RtspConns :
        /\ rtsp[c].state \in {"init", "ready", "playing", "closed"}
        /\ rtsp[c].stream \in RtspStreams /\ rtsp[c].mode \in Modes
        /\ rtsp[c].udp # 0 => rtsp[c].mode = "udp"
        /\ Len(rtspLog[c]) <= MaxRtspFrames

\* A thread is about to release the session of c, or has taken n from it.
Taking(c) == \E t \in Threads : rtspThread[t].at = "takeSub" /\ rtspThread[t].c = c
Held(c) == c \in rtspTable \/ Taking(c)

\* Every subscription made for a session is the one its session holds, or a
\* thread is about to store it or to end it: PLAY twice, SETUP while playing,
\* TEARDOWN and a lost connection leave none behind (docs/libs/rtsp.md:71).
\* Stop() may leave one: a PLAY or SETUP in progress stores what it makes after
\* StopInternal() has released the session, and once the table is cleared nobody
\* releases it again (rtsp.cpp).  Those connections, rtspRaced, are left out.
SubscriptionsOwned ==
    \A c \in RtspConns \ rtspRaced, n \in 1 .. MaxRtspRequests :
        <<c, n>> \in rtspSubs =>
            \/ rtsp[c].sub = n /\ Held(c)
            \/ \E t \in Threads : /\ rtspThread[t].at \in {"dropSub", "store"}
                                  /\ rtspThread[t].c = c /\ rtspThread[t].sub = n

\* The same for the send timers of the IO loop: a session has at most one.
SendTimersOwned ==
    \A c \in RtspConns \ rtspRaced, n \in 1 .. MaxRtspRequests :
        <<c, n>> \in rtspTimers =>
            \/ rtsp[c].timer = n /\ Held(c)
            \/ \E t \in Threads :
                /\ rtspThread[t].at \in {"dropSub", "keep"} /\ rtspThread[t].c = c
                /\ n = IF rtspThread[t].at = "keep" THEN rtspThread[t].sub ELSE rtspThread[t].timer

\* And for the UDP sockets of a session.
UdpOwned ==
    \A c \in RtspConns \ rtspRaced, n \in 1 .. MaxRtspRequests :
        <<c, n>> \in rtspUdp =>
            \/ rtsp[c].udp = n
               /\ (Held(c) \/ \E t \in Threads : rtspThread[t].at = "dropSub" /\ rtspThread[t].c = c)
            \/ \E t \in Threads : /\ rtspThread[t].at = "dropUdp"
                                  /\ rtspThread[t].c = c /\ rtspThread[t].udp = n

\* After a PLAY a client gets a keyframe before anything else, but for one frame:
\* the one the send timer had let pass for the earlier PLAY and sends late
\* (keyframe_seen is read and the packets are sent in different critical sections,
\* rtsp_rtp_sender.cpp:175 and 326).
StartsWithKeyframe ==
    \A c \in RtspConns : rtsp[c].sub # 0 =>
        \A i \in DOMAIN rtspLog[c] :
            \/ i = 1 /\ rtspLog[c][i].play # rtsp[c].sub
            \/ /\ rtspLog[c][i].play = rtsp[c].sub
               /\ \E j \in 1 .. i : rtspLog[c][j].play = rtsp[c].sub /\ rtspLog[c][j].key

\* The start frames of a subscription are sent before its live frames, by every
\* callback but one: a callback that found the start frames sent and then reads
\* the subscription of a PLAY stored in between (rtsp_session_video_sender.cpp:176
\* and 147) sends live frames of it first.
StartBeforeLive ==
    \A c \in RtspConns : \A i, j \in DOMAIN rtspLog[c] :
        (i < j /\ rtspLog[c][i].sub = rtspLog[c][j].sub /\ rtspLog[c][j].start)
            => rtspLog[c][i].start \/ rtspLog[c][i].seen # rtspLog[c][i].sub

\* A client only gets streams it was authorised for (RtspAuth::Authorize), also
\* when it describes or sets up another stream while one plays.
OnlyAuthorized ==
    \A c \in RtspConns : \A i \in DOMAIN rtspLog[c] : rtspLog[c][i].stream \in rtspGranted[c]

\* What an RTSP session holds (subscription, send timer, UDP sockets) has an
\* owner that will give it back, unless a request of it ran into Stop(); and
\* what its client receives was authorised, starts with a keyframe and has the
\* start frames first, but for what the callback of the send timer does that a
\* repeated PLAY overtakes.
RtspSessionsServed ==
    /\ RtspTypeOK /\ SubscriptionsOwned /\ SendTimersOwned /\ UdpOwned
    /\ StartsWithKeyframe /\ StartBeforeLive /\ OnlyAuthorized
=============================================================================
