--------------------------- MODULE Sessions_proof ---------------------------
(***************************************************************************)
(* The sessions of the RTSP server, the AI tasks and the firmware upgrade, *)
(* for any number of connections, requests, frames, tasks, packages and    *)
(* jobs.                                                                   *)
(***************************************************************************)
EXTENDS Upgrade, AiTasks, RtspServer, FiniteSetTheorems, SequenceTheorems, TLAPS

\* A start frame of a session, a frame sent to its client, and the callback of a
\* send timer at work.
RtspStartFrame == [sub : Nat, stream : RtspStreams, key : BOOLEAN]
RtspLogEntry ==
    [sub : Nat, stream : RtspStreams, start : BOOLEAN, key : BOOLEAN, seen : Nat, play : Nat]
RtspSendAts == {"start", "subscription", "pull", "should", "key", "route", "send"}
RtspSending ==
    [at : RtspSendAts, c : RtspConns, sub : Nat, stream : RtspStreams, start : BOOLEAN,
     key : BOOLEAN, seen : Nat, play : Nat, mode : Modes]

RtspSessionType ==
    [state : {"init", "ready", "playing", "closed"}, stream : RtspStreams, mode : Modes,
     udp : Nat, sub : Nat, subStream : RtspStreams, timer : Nat, key : BOOLEAN,
     start : Seq(RtspStartFrame), auth : RtspStreams \cup {"none"}]

\* A thread in the middle of a request, a close or the release of a session.
RtspWork(ats, nexts) ==
    [at : ats, c : RtspConns, next : nexts, sub : Nat, timer : Nat, udp : Nat,
     stream : RtspStreams, mode : Modes, todo : SUBSET RtspConns, shut : SUBSET RtspConns]

RtspReleases == {"takeSub", "dropSub", "dropUdp"}
RtspCbAts == RtspReleases \cup {"done", "setup", "subscribe", "store", "timer", "keep", "flush"}

RtspCbWork == RtspWork(RtspCbAts, {"done", "setup", "subscribe", "flush"})
RtspCtlWork == RtspWork(RtspReleases \cup {"pick"}, {"pick"})
RtspPicking == [at : {"pick"}, todo : SUBSET RtspConns, shut : SUBSET RtspConns]

RtspCtl == rtspThread["ctl"]

\* The shapes of the state, and who runs what: StopInternal() is under way
\* exactly while the server closes.
RtspShape ==
    /\ rtspUp \in {"on", "closing", "off"} /\ rtspAuth \in BOOLEAN
    /\ rtspWire \in [RtspConns -> {"idle", "accepted", "open", "flush", "closing", "closed"}]
    /\ rtspTable \subseteq RtspConns /\ IsFiniteSet(rtspTable)
    /\ rtsp \in [RtspConns -> RtspSessionType]
    /\ rtspThread = [t \in Threads |-> rtspThread[t]]
    /\ Cb = Resting \/ Cb \in RtspCbWork
    /\ \/ RtspCtl = Resting /\ rtspUp # "closing"
       \/ rtspUp = "closing" /\ (RtspCtl \in RtspPicking \/ RtspCtl \in RtspCtlWork)
    /\ rtspSender = SenderIdle \/ rtspSender \in RtspSending
    /\ rtspAsked \in [RtspConns -> Nat]
    /\ rtspGranted \in [RtspConns -> SUBSET RtspStreams]
    /\ rtspLog \in [RtspConns -> Seq(RtspLogEntry)]
    /\ rtspRaced \subseteq RtspConns

\* What the callback loop does for c is a step of a request.
RtspAnswering(c) == Cb # Resting /\ Cb.c = c /\ Cb.next # "done"

\* A request that StopInternal() did not meet has its session in the table.
RtspRequestInv ==
    \A c \in RtspConns \ rtspRaced : RtspAnswering(c) => rtspUp = "on" /\ c \in rtspTable

\* The step a callback is at fits what it was called for.
RtspPlace ==
    Cb # Resting =>
        /\ Cb.at = "done" => Cb.next = "done"
        /\ Cb.at = "setup" => Cb.next = "setup"
        /\ Cb.at = "flush" => Cb.next = "flush"
        /\ Cb.at \in {"subscribe", "store", "timer", "keep"} => Cb.next = "subscribe"
        /\ Cb.at = "dropUdp" => Cb.next # "subscribe"

\* Where the callback loop stands in a request, the session's fields are free:
\* no subscription or timer from the release to the new one, no sockets at SETUP.
RtspFreed ==
    \A c \in RtspConns \ rtspRaced : RtspAnswering(c) =>
        /\ Cb.at \in {"dropSub", "dropUdp", "setup", "subscribe", "store"} => rtsp[c].sub = 0
        /\ Cb.at \in {"dropSub", "dropUdp", "setup", "subscribe", "store", "timer", "keep"} => rtsp[c].timer = 0
        /\ Cb.at \in {"dropUdp", "setup"} => rtsp[c].udp = 0

\* StopInternal() comes to every session that is still in the table.
RtspStopInv ==
    /\ rtspUp = "off" => rtspTable \subseteq rtspRaced
    /\ rtspUp = "closing" =>
        \A c \in rtspTable \ rtspRaced :
            \/ c \in RtspCtl.todo
            \/ RtspCtl.at = "takeSub" /\ RtspCtl.c = c
            \/ RtspCtl.at = "dropSub" /\ RtspCtl.c = c /\ rtsp[c].sub = 0 /\ rtsp[c].timer = 0
            \/ rtsp[c].sub = 0 /\ rtsp[c].timer = 0 /\ rtsp[c].udp = 0

\* Subscriptions are numbered by the request that made them, and what the callback
\* of the send timer knows is of an earlier subscription while a PLAY is under way.
RtspFresh == {"takeSub", "dropSub", "dropUdp", "setup", "subscribe", "store", "flush"}
RtspNumbers ==
    /\ \A c \in RtspConns : rtsp[c].sub <= rtspAsked[c]
    /\ \A c \in RtspConns : (RtspAnswering(c) /\ Cb.at \in RtspFresh) => rtsp[c].sub < rtspAsked[c]
    /\ rtspSender # SenderIdle =>
        \A n \in {rtspSender.sub, rtspSender.seen, rtspSender.play} :
            /\ n <= rtspAsked[rtspSender.c]
            /\ (RtspAnswering(rtspSender.c) /\ Cb.at \in RtspFresh) => n < rtspAsked[rtspSender.c]
    /\ (Cb # Resting /\ Cb.at = "store") => Cb.sub = rtspAsked[Cb.c]

\* A frame that does not come too early: a start frame, or a live frame of a
\* callback that found the start frames of another subscription sent.
RtspInTurn(e) == e.start \/ e.seen # e.sub

\* Start frames belong to the session's subscription, and while there are any no
\* callback has found them sent.
RtspStartInv ==
    \A c \in RtspConns :
        /\ \A i \in DOMAIN rtsp[c].start :
              rtsp[c].start[i].sub = rtsp[c].sub /\ rtsp[c].start[i].stream \in rtspGranted[c]
        /\ rtsp[c].start # <<>> =>
              /\ rtsp[c].sub # 0
              /\ \A i \in DOMAIN rtspLog[c] : rtspLog[c][i].sub = rtsp[c].sub => RtspInTurn(rtspLog[c][i])
              /\ (rtspSender # SenderIdle /\ rtspSender.c = c) => rtspSender.seen # rtsp[c].sub

\* What the callback of the send timer has taken may be sent.
RtspSenderInv ==
    rtspSender # SenderIdle =>
        /\ Len(rtspLog[rtspSender.c]) < MaxRtspFrames
        /\ IF rtspSender.at \in {"start", "subscription"} THEN ~rtspSender.start
           ELSE rtspSender.stream \in rtspGranted[rtspSender.c]
        /\ rtspSender.start =>
              \A i \in DOMAIN rtspLog[rtspSender.c] :
                 rtspLog[rtspSender.c][i].sub = rtspSender.sub => RtspInTurn(rtspLog[rtspSender.c][i])

\* The client of c has a keyframe of the session's subscription, and the callback
\* has passed the keyframe check with a frame for c.
RtspKeySent(c) == \E j \in DOMAIN rtspLog[c] : rtspLog[c][j].play = rtsp[c].sub /\ rtspLog[c][j].key
RtspPassed(c) == rtspSender.at \in {"route", "send"} /\ rtspSender.c = c

\* keyframe_seen means that a keyframe was sent or is about to be; a frame that
\* passed for an earlier subscription is the first one sent.
RtspKeyInv ==
    \A c \in RtspConns : rtsp[c].sub # 0 =>
        /\ rtsp[c].key => \/ RtspKeySent(c)
                          \/ RtspPassed(c) /\ rtspSender.play = rtsp[c].sub /\ rtspSender.key
        /\ RtspPassed(c) => IF rtspSender.play = rtsp[c].sub THEN rtspSender.key \/ RtspKeySent(c)
                            ELSE rtspLog[c] = <<>>

\* A session's authentication and the stream it subscribes to.
RtspGrantInv ==
    /\ \A c \in RtspConns :
        /\ rtsp[c].auth # "none" => rtsp[c].auth \in rtspGranted[c]
        /\ rtsp[c].sub # 0 => rtsp[c].subStream \in rtspGranted[c]
    /\ (Cb # Resting /\ Cb.next = "subscribe") => rtsp[Cb.c].stream \in rtspGranted[Cb.c]

RtspOwners == RtspRequestInv /\ RtspPlace /\ RtspFreed /\ RtspStopInv
RtspOwned == SubscriptionsOwned /\ SendTimersOwned /\ UdpOwned
RtspDelivery == RtspNumbers /\ RtspStartInv /\ RtspSenderInv /\ RtspKeyInv /\ RtspGrantInv
RtspSent == StartsWithKeyframe /\ StartBeforeLive /\ OnlyAuthorized

\* The inductive invariant.
RtspInv == RtspShape /\ RtspTypeOK /\ RtspOwners /\ RtspOwned /\ RtspDelivery /\ RtspSent

\* A thread that releases a session.
LEMMA RtspReleasing ==
    ASSUME NEW t \in Threads, RtspShape, rtspThread[t].at \in RtspReleases
    PROVE  /\ t = "cb" => rtspThread[t] \in RtspCbWork
           /\ t = "ctl" => rtspThread[t] \in RtspCtlWork /\ rtspUp = "closing"
           /\ rtspThread[t].c \in RtspConns /\ rtspThread[t].sub \in Nat
           /\ rtspThread[t].timer \in Nat /\ rtspThread[t].udp \in Nat
<1>1. CASE t = "cb"
  <2>1. rtspThread[t] \in RtspCbWork
    BY <1>1 DEF RtspShape, Cb, Resting, RtspReleases
  <2> QED
    BY <1>1, <2>1 DEF RtspCbWork, RtspWork
<1>2. CASE t = "ctl"
  <2>1. rtspThread[t] \in RtspCtlWork /\ rtspUp = "closing"
    BY <1>2 DEF RtspShape, RtspCtl, RtspPicking, Resting, RtspReleases
  <2> QED
    BY <1>2, <2>1 DEF RtspCtlWork, RtspWork
<1> QED
  BY <1>1, <1>2 DEF Threads

\* What the threads' records are.
LEMMA RtspThreadFacts ==
    ASSUME RtspShape
    PROVE  /\ Cb # Resting => Cb.at # "idle" /\ Cb.c \in RtspConns /\ Cb.at \in RtspCbAts
           /\ Cb = Resting => Cb.at = "idle"
           /\ RtspCtl.at \in {"idle", "pick"} \cup RtspReleases
           /\ RtspCtl.at = "idle" <=> rtspUp # "closing"
<1>1. Cb # Resting => Cb.at # "idle" /\ Cb.c \in RtspConns /\ Cb.at \in RtspCbAts
  BY DEF RtspShape, RtspCbWork, RtspWork, RtspCbAts, RtspReleases
<1>2. Cb = Resting => Cb.at = "idle"
  BY DEF Resting
<1>3. CASE RtspCtl = Resting /\ rtspUp # "closing"
  BY <1>1, <1>2, <1>3 DEF Resting
<1>4. CASE RtspCtl \in RtspPicking /\ rtspUp = "closing"
  BY <1>1, <1>2, <1>4 DEF RtspPicking
<1>5. CASE RtspCtl \in RtspCtlWork /\ rtspUp = "closing"
  BY <1>1, <1>2, <1>5 DEF RtspCtlWork, RtspWork, RtspReleases
<1> QED
  BY <1>3, <1>4, <1>5 DEF RtspShape

\* The steps that leave sessions' resources and the threads alone keep the owners.
LEMMA RtspOwnersSame ==
    ASSUME RtspShape, RtspOwners, RtspOwned,
           UNCHANGED <<rtspUp, rtspTable, rtspThread, rtspSubs, rtspTimers, rtspUdp>>,
           rtspRaced \subseteq rtspRaced',
           \A d \in RtspConns : /\ rtsp'[d].sub = rtsp[d].sub /\ rtsp'[d].timer = rtsp[d].timer
                                /\ rtsp'[d].udp = rtsp[d].udp
    PROVE  RtspOwners' /\ RtspOwned'
<1>1. RtspRequestInv' /\ RtspPlace'
  BY DEF RtspOwners, RtspRequestInv, RtspPlace, RtspAnswering, Cb, Resting
<1>2. RtspFreed'
  BY DEF RtspOwners, RtspFreed, RtspAnswering, Cb, Resting
<1>3. RtspStopInv'
  <2>1. rtspTable \subseteq RtspConns
    BY DEF RtspShape
  <2> QED
    BY <2>1 DEF RtspOwners, RtspStopInv, RtspCtl
<1>4. SubscriptionsOwned'
  BY DEF RtspOwned, SubscriptionsOwned, Held, Taking
<1>5. SendTimersOwned'
  BY DEF RtspOwned, SendTimersOwned, Held, Taking
<1>6. UdpOwned'
  BY DEF RtspOwned, UdpOwned, Held, Taking
<1> QED
  BY <1>1, <1>2, <1>3, <1>4, <1>5, <1>6 DEF RtspOwners, RtspOwned

\* The steps that leave frames alone keep what is said of them, as long as the
\* callback loop does not come nearer to a subscription.
LEMMA RtspDeliverySame ==
    ASSUME RtspDelivery, RtspSent, RtspShape,
           UNCHANGED <<rtspSender, rtspLog, rtspGranted, rtspAsked>>,
           \A d \in RtspConns : /\ rtsp'[d].sub = rtsp[d].sub /\ rtsp'[d].subStream = rtsp[d].subStream
                                /\ rtsp'[d].key = rtsp[d].key /\ rtsp'[d].start = rtsp[d].start
                                /\ rtsp'[d].auth = rtsp[d].auth /\ rtsp'[d].stream = rtsp[d].stream,
           Cb' = Resting \/ (/\ Cb # Resting /\ Cb'.c = Cb.c /\ Cb'.next = Cb.next
                             /\ (Cb'.at \in RtspFresh => Cb.at \in RtspFresh)
                             /\ (Cb'.at = "store" => Cb'.sub = rtspAsked[Cb.c]))
                        \/ (Cb' # Resting /\ Cb'.next = "done" /\ Cb'.at # "store")
    PROVE  RtspDelivery' /\ RtspSent'
<1>0. rtspSender # SenderIdle => rtspSender.c \in RtspConns
  BY DEF RtspShape, RtspSending
<1>1. RtspNumbers'
  BY <1>0 DEF RtspDelivery, RtspNumbers, RtspAnswering, Resting
<1>2. RtspStartInv' /\ RtspKeyInv'
  BY DEF RtspDelivery, RtspStartInv, RtspKeyInv, RtspKeySent, RtspPassed
<1>3. RtspSenderInv'
  BY DEF RtspDelivery, RtspSenderInv
<1>4. RtspGrantInv'
  <2>1. Cb # Resting => Cb.c \in RtspConns
    BY RtspThreadFacts
  <2> QED
    BY <2>1 DEF RtspDelivery, RtspGrantInv, Resting
<1>5. RtspSent'
  BY DEF RtspSent, StartsWithKeyframe, StartBeforeLive, OnlyAuthorized
<1> QED
  BY <1>1, <1>2, <1>3, <1>4, <1>5 DEF RtspDelivery
\* StartRtsp, ApplyRtspOptions, SocketAccepts and BadRtspRequest change only what
\* the server, the options and the wire are.
LEMMA RtspSwitches ==
    ASSUME RtspInv, StartRtsp \/ ApplyRtspOptions
    PROVE  RtspInv'
<1> USE DEF RtspInv
<1>1. UNCHANGED <<rtspWire, rtspTable, rtsp, rtspThread, rtspSender, rtspSubs, rtspTimers, rtspUdp, rtspAsked,
                  rtspGranted, rtspLog, rtspRaced>>
  BY DEF StartRtsp, ApplyRtspOptions
<1>2. rtspUp' \in {"on", "off", "closing"} /\ rtspAuth' \in BOOLEAN /\ (rtspUp' = "closing" <=> rtspUp = "closing")
      /\ (rtspUp' = "off" => rtspUp = "off") /\ (rtspUp = "on" => rtspUp' = "on")
  BY DEF StartRtsp, ApplyRtspOptions, RtspShape
<1>3. RtspShape'
  BY <1>1, <1>2 DEF RtspShape, Cb, RtspCtl, Resting
<1>4. RtspTypeOK'
  BY <1>1 DEF RtspTypeOK
<1>5. RtspOwners' /\ RtspOwned'
  <2>1. RtspRequestInv' /\ RtspPlace' /\ RtspFreed'
    BY <1>1, <1>2 DEF RtspOwners, RtspRequestInv, RtspPlace, RtspFreed, RtspAnswering, Cb, Resting
  <2>2. RtspStopInv'
    BY <1>1, <1>2 DEF RtspOwners, RtspStopInv, RtspCtl
  <2>3. SubscriptionsOwned' /\ SendTimersOwned' /\ UdpOwned'
    BY <1>1 DEF RtspOwned, SubscriptionsOwned, SendTimersOwned, UdpOwned, Held, Taking
  <2> QED
    BY <2>1, <2>2, <2>3 DEF RtspOwners, RtspOwned
<1>6. RtspDelivery' /\ RtspSent'
  <2>1. Cb' = Cb
    BY <1>1 DEF Cb
  <2>2. Cb.at = "store" /\ Cb # Resting => Cb.sub = rtspAsked[Cb.c]
    BY DEF RtspDelivery, RtspNumbers
  <2> QED
    BY <1>1, <2>1, <2>2, RtspDeliverySame
<1> QED
  BY <1>3, <1>4, <1>5, <1>6

\* Accepting a socket and answering a malformed request touch only the socket and keep
\* the whole invariant.
LEMMA RtspWireSteps ==
    ASSUME NEW c \in RtspConns, RtspInv, SocketAccepts(c) \/ BadRtspRequest(c)
    PROVE  RtspInv'
<1> USE DEF RtspInv
<1>1. UNCHANGED <<rtspUp, rtspAuth, rtspTable, rtsp, rtspThread, rtspSender, rtspSubs, rtspTimers, rtspUdp, rtspAsked,
                  rtspGranted, rtspLog, rtspRaced>>
  BY DEF SocketAccepts, BadRtspRequest
<1>2. /\ rtspWire' \in [RtspConns -> {"idle", "accepted", "open", "flush", "closing", "closed"}]
      /\ \A d \in RtspConns : rtspWire[d] \in {"open", "flush", "closing"} => rtspWire'[d] \in {"open", "flush", "closing"}
  BY DEF SocketAccepts, BadRtspRequest, CloseControl, RtspShape
<1>3. RtspShape'
  BY <1>1, <1>2 DEF RtspShape, Cb, RtspCtl, Resting
<1>4. RtspTypeOK'
  BY <1>1, <1>2 DEF RtspTypeOK
<1>5. RtspOwners' /\ RtspOwned'
  BY <1>1, RtspOwnersSame
<1>6. RtspDelivery' /\ RtspSent'
  <2>1. Cb' = Cb
    BY <1>1 DEF Cb
  <2>2. Cb.at = "store" /\ Cb # Resting => Cb.sub = rtspAsked[Cb.c]
    BY DEF RtspDelivery, RtspNumbers
  <2> QED
    BY <1>1, <2>1, <2>2, RtspDeliverySame
<1> QED
  BY <1>3, <1>4, <1>5, <1>6

\* A step of the send timer's callback that sends nothing changes at most the start
\* frames and keyframe_seen of a session: what is said of it is all there is to show.
LEMMA RtspSenderStep ==
    ASSUME RtspInv,
           UNCHANGED <<rtspUp, rtspAuth, rtspWire, rtspTable, rtspThread, rtspSubs, rtspTimers, rtspUdp,
                       rtspAsked, rtspGranted, rtspLog, rtspRaced>>,
           rtsp' \in [RtspConns -> RtspSessionType],
           \A d \in RtspConns :
              /\ rtsp'[d].state = rtsp[d].state /\ rtsp'[d].stream = rtsp[d].stream /\ rtsp'[d].mode = rtsp[d].mode
              /\ rtsp'[d].udp = rtsp[d].udp /\ rtsp'[d].sub = rtsp[d].sub /\ rtsp'[d].subStream = rtsp[d].subStream
              /\ rtsp'[d].timer = rtsp[d].timer /\ rtsp'[d].auth = rtsp[d].auth,
           rtspSender' = SenderIdle \/ rtspSender' \in RtspSending,
           RtspNumbers', RtspStartInv', RtspSenderInv', RtspKeyInv'
    PROVE  RtspInv'
<1> USE DEF RtspInv
<1>1. RtspShape'
  BY DEF RtspShape, Cb, RtspCtl, Resting
<1>2. RtspTypeOK'
  BY DEF RtspTypeOK
<1>3. RtspOwners' /\ RtspOwned'
  BY RtspOwnersSame
<1>4. RtspGrantInv'
  <2>1. Cb' = Cb /\ (Cb # Resting => Cb.c \in RtspConns)
    BY RtspThreadFacts DEF Cb
  <2> QED
    BY <2>1 DEF RtspDelivery, RtspGrantInv, Resting
<1>5. RtspSent'
  BY DEF RtspSent, StartsWithKeyframe, StartBeforeLive, OnlyAuthorized
<1> QED
  BY <1>1, <1>2, <1>3, <1>4, <1>5 DEF RtspDelivery

\* What the callback may go on with before the keyframe check.
RtspMayCarry(x) ==
    /\ x \in RtspSending /\ x.at \notin {"route", "send"}
    /\ Len(rtspLog[x.c]) < MaxRtspFrames
    /\ \A n \in {x.sub, x.seen, x.play} :
          \/ n = 0 \/ n = rtsp[x.c].sub
          \/ rtspSender # SenderIdle /\ rtspSender.c = x.c /\ n \in {rtspSender.sub, rtspSender.seen, rtspSender.play}
    /\ IF x.at \in {"start", "subscription"} THEN ~x.start ELSE x.stream \in rtspGranted[x.c]
    /\ x.start => \A i \in DOMAIN rtspLog[x.c] : rtspLog[x.c][i].sub = x.sub => RtspInTurn(rtspLog[x.c][i])
    /\ rtsp[x.c].start # <<>> => x.seen # rtsp[x.c].sub

\* A step of the callback that changes no session and does not pass the check.
LEMMA RtspSenderMoves ==
    ASSUME RtspInv,
           UNCHANGED <<rtspUp, rtspAuth, rtspWire, rtspTable, rtsp, rtspThread, rtspSubs, rtspTimers, rtspUdp,
                       rtspAsked, rtspGranted, rtspLog, rtspRaced>>,
           rtspSender.at \notin {"route", "send"},
           rtspSender' = SenderIdle \/ RtspMayCarry(rtspSender')
    PROVE  RtspInv'
<1> USE DEF RtspInv
<1>1. rtsp \in [RtspConns -> RtspSessionType] /\ rtspAsked \in [RtspConns -> Nat]
      /\ (rtspSender = SenderIdle \/ rtspSender \in RtspSending)
      /\ (rtspSender' = SenderIdle \/ rtspSender' \in RtspSending)
  BY DEF RtspShape, RtspMayCarry
<1>2. rtspSender'.at \notin {"route", "send"}
  BY DEF RtspMayCarry, SenderIdle
<1>3. RtspNumbers'
  <2>1. Cb' = Cb
    BY DEF Cb
  <2>2. CASE rtspSender' = SenderIdle
    BY <2>1, <2>2 DEF RtspDelivery, RtspNumbers, RtspAnswering, SenderIdle
  <2>3. CASE rtspSender' # SenderIdle
    <3>0. PICK x : x = rtspSender'
      OBVIOUS
    <3>1. RtspMayCarry(x) /\ x.c \in RtspConns
      BY <2>3, <3>0 DEF RtspMayCarry, RtspSending
    <3>2. rtsp[x.c].sub \in Nat /\ rtspAsked[x.c] \in Nat
      BY <1>1, <3>1 DEF RtspSessionType
    <3>3. rtsp[x.c].sub <= rtspAsked[x.c]
          /\ ((RtspAnswering(x.c) /\ Cb.at \in RtspFresh) => rtsp[x.c].sub < rtspAsked[x.c])
      BY <3>1 DEF RtspDelivery, RtspNumbers
    <3>4. ASSUME NEW n \in {x.sub, x.seen, x.play}
          PROVE  n <= rtspAsked[x.c] /\ ((RtspAnswering(x.c) /\ Cb.at \in RtspFresh) => n < rtspAsked[x.c])
      <4>1. CASE n = 0 \/ n = rtsp[x.c].sub
        BY <3>2, <3>3, <4>1
      <4>2. CASE rtspSender # SenderIdle /\ rtspSender.c = x.c /\ n \in {rtspSender.sub, rtspSender.seen, rtspSender.play}
        BY <4>2 DEF RtspDelivery, RtspNumbers
      <4> QED
        BY <3>1, <4>1, <4>2 DEF RtspMayCarry
    <3>5. (RtspAnswering(x.c)' <=> RtspAnswering(x.c)) /\ \A d \in RtspConns : RtspAnswering(d)' <=> RtspAnswering(d)
      BY <2>1 DEF RtspAnswering, Resting
    <3> QED
      BY <2>1, <3>0, <3>1, <3>4, <3>5 DEF RtspDelivery, RtspNumbers, Resting
  <2> QED
    BY <2>2, <2>3
<1>4. RtspStartInv'
  BY DEF RtspDelivery, RtspStartInv, RtspMayCarry
<1>5. RtspSenderInv'
  BY DEF RtspSenderInv, RtspMayCarry
<1>6. RtspKeyInv'
  <2>1. \A d \in RtspConns : ~RtspPassed(d) /\ ~RtspPassed(d)' /\ (RtspKeySent(d)' <=> RtspKeySent(d))
    BY <1>2 DEF RtspPassed, RtspKeySent
  <2> QED
    BY <2>1 DEF RtspDelivery, RtspKeyInv
<1> QED
  BY <1>1, <1>3, <1>4, <1>5, <1>6, RtspSenderStep

\* What the invariant says of the callback at work.
LEMMA RtspSenderFacts ==
    ASSUME RtspInv, rtspSender # SenderIdle
    PROVE  /\ rtspSender \in RtspSending /\ rtspSender.c \in RtspConns
           /\ rtsp[rtspSender.c] \in RtspSessionType /\ rtsp \in [RtspConns -> RtspSessionType]
           /\ rtspLog[rtspSender.c] \in Seq(RtspLogEntry)
           /\ Len(rtspLog[rtspSender.c]) < MaxRtspFrames
           /\ IF rtspSender.at \in {"start", "subscription"} THEN ~rtspSender.start
              ELSE rtspSender.stream \in rtspGranted[rtspSender.c]
           /\ rtspSender.start => \A i \in DOMAIN rtspLog[rtspSender.c] :
                 rtspLog[rtspSender.c][i].sub = rtspSender.sub => RtspInTurn(rtspLog[rtspSender.c][i])
           /\ rtsp[rtspSender.c].start # <<>> => /\ rtspSender.seen # rtsp[rtspSender.c].sub
                                                /\ rtsp[rtspSender.c].sub # 0
<1>1. rtspSender \in RtspSending
  BY DEF RtspInv, RtspShape
<1>2. rtspSender.c \in RtspConns
  BY <1>1 DEF RtspSending
<1> QED
  BY <1>1, <1>2 DEF RtspInv, RtspShape, RtspDelivery, RtspSenderInv, RtspStartInv

\* A callback that begins, or begins again.
LEMMA RtspSendingCarried ==
    ASSUME RtspInv, NEW c \in RtspConns, Len(rtspLog[c]) < MaxRtspFrames
    PROVE  RtspMayCarry(Sending(c))
<1>1. Sending(c) \in RtspSending /\ Sending(c).c = c /\ Sending(c).at = "start" /\ ~Sending(c).start
      /\ Sending(c).sub = 0 /\ Sending(c).seen = 0 /\ Sending(c).play = 0
  BY DEF Sending, RtspSending, RtspSendAts, RtspStreams, Modes
<1>2. rtsp[c].start # <<>> => rtsp[c].sub # 0
  BY DEF RtspInv, RtspDelivery, RtspStartInv
<1> HIDE DEF Sending
<1> QED
  BY <1>1, <1>2 DEF RtspMayCarry

\* The callback drops the frame it has and ends or goes on.
LEMMA RtspGoesOnCarried ==
    ASSUME RtspInv, rtspSender # SenderIdle, rtspSender.at \notin {"start", "subscription"},
           GoesOn(rtspLog[rtspSender.c])
    PROVE  rtspSender' = SenderIdle \/ RtspMayCarry(rtspSender')
<1> DEFINE x == rtspSender
<1>1. x \in RtspSending /\ x.c \in RtspConns /\ Len(rtspLog[x.c]) < MaxRtspFrames /\ x.stream \in rtspGranted[x.c]
      /\ (rtsp[x.c].start # <<>> => x.seen # rtsp[x.c].sub)
  BY RtspSenderFacts
<1>2. RtspMayCarry(Sending(x.c))
  BY <1>1, RtspSendingCarried
<1>3. ~x.start => RtspMayCarry(NextFrame(x))
  <2> DEFINE y == [Sending(x.c) EXCEPT !.at = "pull", !.sub = x.sub, !.stream = x.stream, !.seen = x.seen]
  <2>1. /\ y \in RtspSending /\ y.c = x.c /\ y.at = "pull" /\ ~y.start /\ y.sub = x.sub /\ y.seen = x.seen
        /\ y.play = 0 /\ y.stream = x.stream
    BY <1>1 DEF Sending, RtspSending, RtspSendAts, RtspStreams, Modes
  <2>2. ~x.start => NextFrame(x) = y
    BY DEF NextFrame
  <2> HIDE DEF y
  <2>3. RtspMayCarry(y)
    BY <1>1, <2>1 DEF RtspMayCarry
  <2> QED
    BY <2>2, <2>3
<1>4. x.start => NextFrame(x) = Sending(x.c)
  BY DEF NextFrame
<1> QED
  BY <1>2, <1>3, <1>4 DEF GoesOn

\* The send timer fires, and the callback reads the subscription, pulls a live frame
\* from it and looks whether the session still wants it.
LEMMA RtspSenderReads ==
    ASSUME RtspInv,
           (\E c \in RtspConns : RtspTimerFires(c)) \/ ReadSubscription \/ PullLiveFrame \/ CheckSession
    PROVE  RtspInv'
<1> DEFINE x == rtspSender
<1>1. /\ UNCHANGED <<rtspUp, rtspAuth, rtspWire, rtspTable, rtsp, rtspThread, rtspSubs, rtspTimers, rtspUdp,
                     rtspAsked, rtspGranted, rtspLog, rtspRaced>>
      /\ rtspSender.at \notin {"route", "send"}
  <2>1. CASE PullLiveFrame
    <3>1. x.at = "pull" /\ UNCHANGED <<rtspUp, rtspAuth, rtspWire, rtspTable, rtsp, rtspThread, rtspSubs, rtspTimers,
                                      rtspUdp, rtspAsked, rtspGranted, rtspLog, rtspRaced>>
      BY <2>1, Zenon DEF PullLiveFrame
    <3> QED
      BY <3>1
  <2> QED
    BY <2>1 DEF RtspTimerFires, ReadSubscription, CheckSession, SenderIdle
<1>2. CASE \E c \in RtspConns : RtspTimerFires(c)
  <2>1. PICK c \in RtspConns : RtspTimerFires(c)
    BY <1>2
  <2>2. RtspMayCarry(Sending(c)) /\ rtspSender' = Sending(c)
    BY <2>1, RtspSendingCarried DEF RtspTimerFires
  <2> QED
    BY <1>1, <2>2, RtspSenderMoves
<1>3. CASE ReadSubscription
  <2>1. x # SenderIdle
    BY <1>3 DEF ReadSubscription, SenderIdle
  <2>2. CASE rtsp[x.c].sub # 0 /\ rtspSender' = [x EXCEPT !.at = "pull", !.sub = rtsp[x.c].sub, !.stream = rtsp[x.c].subStream]
    <3>1. x \in RtspSending /\ x.c \in RtspConns /\ Len(rtspLog[x.c]) < MaxRtspFrames
          /\ (rtsp[x.c].start # <<>> => x.seen # rtsp[x.c].sub) /\ rtsp[x.c] \in RtspSessionType
      BY <2>1, RtspSenderFacts
    <3>2. rtsp[x.c].subStream \in rtspGranted[x.c]
      BY <2>2, <3>1 DEF RtspInv, RtspDelivery, RtspGrantInv
    <3>3. ~x.start
      BY <1>3, <2>1, RtspSenderFacts DEF ReadSubscription
    <3>4. /\ rtspSender' \in RtspSending /\ rtspSender'.c = x.c /\ rtspSender'.at = "pull" /\ rtspSender'.start = x.start
          /\ rtspSender'.sub = rtsp[x.c].sub /\ rtspSender'.seen = x.seen /\ rtspSender'.play = x.play
          /\ rtspSender'.stream = rtsp[x.c].subStream
      BY <2>2, <3>1 DEF RtspSending, RtspSendAts, RtspSessionType
    <3>5. RtspMayCarry(rtspSender')
      BY <2>1, <3>1, <3>2, <3>3, <3>4 DEF RtspMayCarry
    <3> QED
      BY <1>1, <3>5, RtspSenderMoves
  <2>3. CASE rtspSender' = SenderIdle
    BY <1>1, <2>3, RtspSenderMoves
  <2> QED
    BY <1>3, <2>2, <2>3 DEF ReadSubscription
<1>4. ASSUME NEW at \in {"should", "key"}, NEW key \in BOOLEAN, x # SenderIdle,
             x.at \notin {"start", "subscription"}, rtspSender' = [x EXCEPT !.at = at, !.key = key]
      PROVE  RtspMayCarry(rtspSender')
  <2>1. /\ rtspSender' \in RtspSending /\ rtspSender'.c = x.c /\ rtspSender'.at = at /\ rtspSender'.start = x.start
        /\ rtspSender'.sub = x.sub /\ rtspSender'.seen = x.seen /\ rtspSender'.play = x.play
        /\ rtspSender'.stream = x.stream
    BY <1>4, RtspSenderFacts DEF RtspSending, RtspSendAts
  <2> QED
    BY <1>4, <2>1, RtspSenderFacts DEF RtspMayCarry
<1>5. CASE PullLiveFrame
  <2>1. x # SenderIdle /\ x.at = "pull"
    <3>1. x.at = "pull"
      BY <1>5, Zenon DEF PullLiveFrame
    <3> QED
      BY <3>1 DEF SenderIdle
  <2>2. rtspSender' = SenderIdle \/ \E key \in BOOLEAN : rtspSender' = [x EXCEPT !.at = "should", !.key = key]
    BY <1>5, Zenon DEF PullLiveFrame
  <2>3. rtspSender' = SenderIdle \/ RtspMayCarry(rtspSender')
    BY <1>4, <2>1, <2>2
  <2> QED
    BY <1>1, <2>3, RtspSenderMoves
<1>6. CASE CheckSession
  <2>1. x # SenderIdle /\ x.at = "should"
    BY <1>6 DEF CheckSession, SenderIdle
  <2>2. CASE rtspSender' = [x EXCEPT !.at = "key"]
    <3>1. x.key \in BOOLEAN /\ rtspSender' = [x EXCEPT !.at = "key", !.key = x.key]
      BY <2>1, <2>2, RtspSenderFacts DEF RtspSending
    <3>2. RtspMayCarry(rtspSender')
      BY <1>4, <2>1, <3>1
    <3> QED
      BY <1>1, <3>2, RtspSenderMoves
  <2>3. CASE GoesOn(rtspLog[x.c])
    <3>1. rtspSender' = SenderIdle \/ RtspMayCarry(rtspSender')
      BY <2>1, <2>3, RtspGoesOnCarried
    <3> QED
      BY <1>1, <3>1, RtspSenderMoves
  <2> QED
    BY <1>6, <2>2, <2>3 DEF CheckSession
<1> QED
  BY <1>2, <1>3, <1>5, <1>6

\* The callback takes a start frame, finds that there are none left, or ends.
LEMMA RtspTakeStartPreserves ==
    ASSUME RtspInv, TakeStartFrame
    PROVE  RtspInv'
<1> USE DEF RtspInv
<1> DEFINE x == rtspSender  c == rtspSender.c
<1>1. /\ UNCHANGED <<rtspUp, rtspAuth, rtspWire, rtspTable, rtspThread, rtspSubs, rtspTimers, rtspUdp, rtspAsked,
                     rtspGranted, rtspLog, rtspRaced>>
      /\ x # SenderIdle /\ x.at = "start"
  BY DEF TakeStartFrame, SenderIdle
<1>2. /\ c \in RtspConns /\ rtsp[c] \in RtspSessionType /\ rtsp \in [RtspConns -> RtspSessionType]
      /\ Len(rtspLog[c]) < MaxRtspFrames /\ x.at \notin {"route", "send"}
  BY <1>1, RtspSenderFacts
<1>3. CASE rtspSender' = SenderIdle /\ UNCHANGED rtsp
  BY <1>1, <1>2, <1>3, RtspSenderMoves
<1>4. CASE /\ rtsp[c].start = <<>> /\ rtspSender' = [Sending(c) EXCEPT !.at = "subscription", !.seen = rtsp[c].sub]
           /\ UNCHANGED rtsp
  <2>1. /\ rtspSender' \in RtspSending /\ rtspSender'.c = c /\ rtspSender'.at = "subscription" /\ ~rtspSender'.start
        /\ rtspSender'.sub = 0 /\ rtspSender'.seen = rtsp[c].sub /\ rtspSender'.play = 0
    BY <1>2, <1>4 DEF Sending, RtspSending, RtspSendAts, RtspStreams, Modes, RtspSessionType
  <2>2. RtspMayCarry(rtspSender')
    BY <1>2, <1>4, <2>1 DEF RtspMayCarry
  <2> QED
    BY <1>1, <1>2, <1>4, <2>2, RtspSenderMoves
<1>5. CASE /\ rtsp[c].start # <<>>
           /\ rtspSender' = [Sending(c) EXCEPT !.at = "should", !.sub = Head(rtsp[c].start).sub,
                                !.stream = Head(rtsp[c].start).stream, !.start = TRUE, !.key = Head(rtsp[c].start).key]
           /\ rtsp' = [rtsp EXCEPT ![c].start = Tail(@)]
  <2>1. rtsp[c].start \in Seq(RtspStartFrame)
    BY <1>2 DEF RtspSessionType
  <2>2. /\ 1 \in DOMAIN rtsp[c].start /\ Head(rtsp[c].start) = rtsp[c].start[1]
        /\ Head(rtsp[c].start) \in RtspStartFrame /\ Tail(rtsp[c].start) \in Seq(RtspStartFrame)
        /\ \A i \in DOMAIN Tail(rtsp[c].start) :
              i + 1 \in DOMAIN rtsp[c].start /\ Tail(rtsp[c].start)[i] = rtsp[c].start[i + 1]
    BY <1>5, <2>1
  <2>3. rtsp' \in [RtspConns -> RtspSessionType]
    BY <1>2, <1>5, <2>2 DEF RtspSessionType
  <2>4. /\ \A d \in RtspConns \ {c} : rtsp'[d] = rtsp[d]
        /\ rtsp'[c].start = Tail(rtsp[c].start)
        /\ rtsp'[c].state = rtsp[c].state /\ rtsp'[c].stream = rtsp[c].stream /\ rtsp'[c].mode = rtsp[c].mode
        /\ rtsp'[c].udp = rtsp[c].udp /\ rtsp'[c].sub = rtsp[c].sub /\ rtsp'[c].subStream = rtsp[c].subStream
        /\ rtsp'[c].timer = rtsp[c].timer /\ rtsp'[c].key = rtsp[c].key /\ rtsp'[c].auth = rtsp[c].auth
    BY <1>2, <1>5 DEF RtspSessionType
  <2>5. /\ Head(rtsp[c].start).sub = rtsp[c].sub /\ Head(rtsp[c].start).stream \in rtspGranted[c]
        /\ rtsp[c].sub # 0
        /\ \A i \in DOMAIN rtspLog[c] : rtspLog[c][i].sub = rtsp[c].sub => RtspInTurn(rtspLog[c][i])
    BY <1>2, <1>5, <2>2 DEF RtspDelivery, RtspStartInv
  <2>6. /\ rtspSender' \in RtspSending /\ rtspSender'.c = c /\ rtspSender'.at = "should" /\ rtspSender'.start
        /\ rtspSender'.sub = rtsp[c].sub /\ rtspSender'.seen = 0 /\ rtspSender'.play = 0
        /\ rtspSender'.stream \in rtspGranted[c]
    BY <1>2, <1>5, <2>2, <2>5 DEF Sending, RtspSending, RtspSendAts, RtspStreams, Modes, RtspStartFrame
  <2>7. RtspNumbers'
    <3>1. Cb' = Cb /\ \A d \in RtspConns : rtsp'[d].sub = rtsp[d].sub /\ (RtspAnswering(d)' <=> RtspAnswering(d))
      BY <1>1, <2>4 DEF Cb, RtspAnswering, Resting
    <3>2. rtsp[c].sub \in Nat /\ rtspAsked[c] \in Nat
      BY <1>2 DEF RtspSessionType, RtspShape
    <3>3. \A n \in {rtspSender'.sub, rtspSender'.seen, rtspSender'.play} :
             n <= rtspAsked[c] /\ ((RtspAnswering(c) /\ Cb.at \in RtspFresh) => n < rtspAsked[c])
      BY <1>2, <2>6, <3>2 DEF RtspDelivery, RtspNumbers
    <3> QED
      BY <1>1, <1>2, <2>6, <3>1, <3>3 DEF RtspDelivery, RtspNumbers, Resting
  <2>8. RtspStartInv'
    <3>1. \A d \in RtspConns \ {c} : rtspSender'.c # d /\ rtsp'[d] = rtsp[d]
      BY <2>4, <2>6
    <3>2. \A i \in DOMAIN rtsp'[c].start : \E k \in DOMAIN rtsp[c].start : rtsp'[c].start[i] = rtsp[c].start[k]
      BY <2>2, <2>4
    <3>3. /\ \A i \in DOMAIN rtsp'[c].start :
                rtsp'[c].start[i].sub = rtsp'[c].sub /\ rtsp'[c].start[i].stream \in rtspGranted[c]
          /\ rtsp'[c].sub # 0 /\ rtspSender'.seen # rtsp'[c].sub
          /\ \A i \in DOMAIN rtspLog[c] : rtspLog[c][i].sub = rtsp'[c].sub => RtspInTurn(rtspLog[c][i])
      BY <1>2, <2>4, <2>5, <2>6, <3>2 DEF RtspDelivery, RtspStartInv
    <3> HIDE DEF c
    <3>4. ASSUME NEW d \in RtspConns
          PROVE  /\ \A i \in DOMAIN rtsp'[d].start :
                       rtsp'[d].start[i].sub = rtsp'[d].sub /\ rtsp'[d].start[i].stream \in rtspGranted[d]
                 /\ rtsp'[d].start # <<>> =>
                       /\ rtsp'[d].sub # 0
                       /\ \A i \in DOMAIN rtspLog[d] : rtspLog[d][i].sub = rtsp'[d].sub => RtspInTurn(rtspLog[d][i])
                       /\ (rtspSender' # SenderIdle /\ rtspSender'.c = d) => rtspSender'.seen # rtsp'[d].sub
      <4>1. CASE d = c
        BY <3>3, <4>1
      <4>2. CASE d # c
        BY <3>1, <4>2 DEF RtspDelivery, RtspStartInv
      <4> QED
        BY <4>1, <4>2
    <3> QED
      BY <1>1, <3>4 DEF RtspStartInv
  <2>9. RtspSenderInv'
    BY <1>1, <1>2, <2>5, <2>6 DEF RtspSenderInv
  <2>10. RtspKeyInv'
    <3>1. \A d \in RtspConns : rtsp'[d].sub = rtsp[d].sub /\ rtsp'[d].key = rtsp[d].key
      BY <2>4
    <3>2. \A d \in RtspConns : ~RtspPassed(d) /\ ~RtspPassed(d)' /\ (RtspKeySent(d)' <=> RtspKeySent(d))
      BY <1>1, <2>6, <3>1 DEF RtspPassed, RtspKeySent
    <3> QED
      BY <3>1, <3>2 DEF RtspDelivery, RtspKeyInv
  <2>11. \A d \in RtspConns :
              /\ rtsp'[d].state = rtsp[d].state /\ rtsp'[d].stream = rtsp[d].stream /\ rtsp'[d].mode = rtsp[d].mode
              /\ rtsp'[d].udp = rtsp[d].udp /\ rtsp'[d].sub = rtsp[d].sub /\ rtsp'[d].subStream = rtsp[d].subStream
              /\ rtsp'[d].timer = rtsp[d].timer /\ rtsp'[d].auth = rtsp[d].auth
    BY <2>4
  <2> QED
    BY <1>1, <2>3, <2>6, <2>7, <2>8, <2>9, <2>10, <2>11, RtspSenderStep
<1> QED
  BY <1>3, <1>4, <1>5 DEF TakeStartFrame, StartSent

\* The keyframe check, and the route of the packets.
LEMMA RtspChecksPreserve ==
    ASSUME RtspInv, CheckKeyframe \/ ReadRoute
    PROVE  RtspInv'
<1> USE DEF RtspInv
<1> DEFINE x == rtspSender
<1>0. PICK c : c = rtspSender.c
  OBVIOUS
<1>1. /\ UNCHANGED <<rtspUp, rtspAuth, rtspWire, rtspTable, rtspThread, rtspSubs, rtspTimers, rtspUdp, rtspAsked,
                     rtspGranted, rtspLog, rtspRaced>>
      /\ x # SenderIdle /\ x.at \in {"key", "route"}
  BY DEF CheckKeyframe, ReadRoute, SenderIdle
<1>2. /\ c \in RtspConns /\ rtsp[c] \in RtspSessionType /\ rtsp \in [RtspConns -> RtspSessionType]
      /\ Len(rtspLog[c]) < MaxRtspFrames /\ x \in RtspSending /\ x.stream \in rtspGranted[c]
  BY <1>0, <1>1, RtspSenderFacts
<1>3. CASE GoesOn(rtspLog[c]) /\ UNCHANGED rtsp /\ x.at = "key"
  <2>1. rtspSender' = SenderIdle \/ RtspMayCarry(rtspSender')
    BY <1>0, <1>1, <1>3, RtspGoesOnCarried
  <2> QED
    BY <1>1, <1>3, <2>1, RtspSenderMoves
<1>4. ASSUME NEW at \in {"route", "send"}, NEW play \in {x.play, rtsp[c].sub}, NEW mode \in Modes,
             rtspSender' = [x EXCEPT !.at = at, !.play = play, !.mode = mode],
             rtsp' \in [RtspConns -> RtspSessionType],
             \A d \in RtspConns :
                /\ rtsp'[d].state = rtsp[d].state /\ rtsp'[d].stream = rtsp[d].stream /\ rtsp'[d].mode = rtsp[d].mode
                /\ rtsp'[d].udp = rtsp[d].udp /\ rtsp'[d].sub = rtsp[d].sub /\ rtsp'[d].subStream = rtsp[d].subStream
                /\ rtsp'[d].timer = rtsp[d].timer /\ rtsp'[d].auth = rtsp[d].auth /\ rtsp'[d].start = rtsp[d].start,
             RtspKeyInv'
      PROVE  RtspInv'
  <2>1. /\ rtspSender' \in RtspSending /\ rtspSender'.c = c /\ rtspSender'.at = at /\ rtspSender'.start = x.start
        /\ rtspSender'.sub = x.sub /\ rtspSender'.seen = x.seen /\ rtspSender'.play = play
        /\ rtspSender'.stream = x.stream
    BY <1>0, <1>2, <1>4 DEF RtspSending, RtspSendAts, RtspSessionType
  <2>2. RtspNumbers'
    <3>1. Cb' = Cb /\ \A d \in RtspConns : rtsp'[d].sub = rtsp[d].sub /\ (RtspAnswering(d)' <=> RtspAnswering(d))
      BY <1>1, <1>4 DEF Cb, RtspAnswering, Resting
    <3>2. \A n \in {rtspSender'.sub, rtspSender'.seen, rtspSender'.play} :
             n <= rtspAsked[c] /\ ((RtspAnswering(c) /\ Cb.at \in RtspFresh) => n < rtspAsked[c])
      BY <1>0, <1>1, <1>2, <2>1 DEF RtspDelivery, RtspNumbers
    <3> QED
      BY <1>1, <1>2, <2>1, <3>1, <3>2 DEF RtspDelivery, RtspNumbers, Resting
  <2>3. RtspStartInv'
    BY <1>0, <1>1, <1>4, <2>1 DEF RtspDelivery, RtspStartInv
  <2>4. RtspSenderInv'
    BY <1>0, <1>1, <1>2, <2>1, RtspSenderFacts DEF RtspSenderInv
  <2> QED
    BY <1>1, <1>4, <2>1, <2>2, <2>3, <2>4, RtspSenderStep
<1>5. CASE CheckKeyframe /\ (rtsp[c].key \/ x.key)
  <2>1. /\ x.at = "key" /\ rtspSender' = [x EXCEPT !.at = "route", !.play = rtsp[c].sub]
        /\ rtsp' = [rtsp EXCEPT ![c].key = TRUE]
    BY <1>0, <1>5 DEF CheckKeyframe
  <2>2. x.mode \in Modes /\ rtspSender' = [x EXCEPT !.at = "route", !.play = rtsp[c].sub, !.mode = x.mode]
    BY <1>2, <2>1 DEF RtspSending
  <2>3. rtsp' \in [RtspConns -> RtspSessionType]
    BY <1>2, <2>1 DEF RtspSessionType
  <2>4. /\ \A d \in RtspConns \ {c} : rtsp'[d] = rtsp[d]
        /\ rtsp'[c].state = rtsp[c].state /\ rtsp'[c].stream = rtsp[c].stream /\ rtsp'[c].mode = rtsp[c].mode
        /\ rtsp'[c].udp = rtsp[c].udp /\ rtsp'[c].sub = rtsp[c].sub /\ rtsp'[c].subStream = rtsp[c].subStream
        /\ rtsp'[c].timer = rtsp[c].timer /\ rtsp'[c].auth = rtsp[c].auth /\ rtsp'[c].start = rtsp[c].start
    BY <1>2, <2>1 DEF RtspSessionType
  <2>5. \A d \in RtspConns :
           /\ rtsp'[d].state = rtsp[d].state /\ rtsp'[d].stream = rtsp[d].stream /\ rtsp'[d].mode = rtsp[d].mode
           /\ rtsp'[d].udp = rtsp[d].udp /\ rtsp'[d].sub = rtsp[d].sub /\ rtsp'[d].subStream = rtsp[d].subStream
           /\ rtsp'[d].timer = rtsp[d].timer /\ rtsp'[d].auth = rtsp[d].auth /\ rtsp'[d].start = rtsp[d].start
    BY <2>4
  <2>6. RtspKeyInv'
    <3>1. /\ \A d \in RtspConns : ~RtspPassed(d) /\ (RtspKeySent(d)' <=> RtspKeySent(d))
          /\ \A d \in RtspConns \ {c} : ~RtspPassed(d)'
          /\ rtspSender'.play = rtsp'[c].sub /\ rtspSender'.key = x.key
      BY <1>0, <1>1, <1>2, <2>1, <2>5 DEF RtspPassed, RtspKeySent, RtspSending
    <3>2. rtsp[c].sub # 0 => x.key \/ RtspKeySent(c)
      BY <1>2, <1>5, <3>1 DEF RtspDelivery, RtspKeyInv
    <3>3. RtspPassed(c)'
      BY <1>0, <1>2, <2>1 DEF RtspPassed, RtspSending
    <3>4. ASSUME NEW d \in RtspConns, rtsp'[d].sub # 0
          PROVE  /\ rtsp'[d].key => RtspKeySent(d)' \/ (RtspPassed(d)' /\ rtspSender'.play = rtsp'[d].sub /\ rtspSender'.key)
                 /\ RtspPassed(d)' => IF rtspSender'.play = rtsp'[d].sub THEN rtspSender'.key \/ RtspKeySent(d)'
                                      ELSE rtspLog'[d] = <<>>
      <4>1. CASE d = c
        BY <2>5, <3>1, <3>2, <3>3, <3>4, <4>1
      <4>2. CASE d # c
        BY <2>4, <3>1, <3>4, <4>2 DEF RtspDelivery, RtspKeyInv
      <4> QED
        BY <4>1, <4>2
    <3> QED
      BY <3>4 DEF RtspKeyInv
  <2> QED
    BY <1>4, <2>2, <2>3, <2>5, <2>6
<1>6. CASE ReadRoute
  <2>1. /\ x.at = "route" /\ rtspSender' = [x EXCEPT !.at = "send", !.mode = rtsp[c].mode] /\ UNCHANGED rtsp
    BY <1>0, <1>6 DEF ReadRoute
  <2>2. /\ rtsp[c].mode \in Modes /\ rtsp' \in [RtspConns -> RtspSessionType]
        /\ rtspSender' = [x EXCEPT !.at = "send", !.play = x.play, !.mode = rtsp[c].mode]
    BY <1>2, <2>1 DEF RtspSending, RtspSessionType
  <2>3. /\ rtspSender'.play = x.play /\ rtspSender'.key = x.key
        /\ \A d \in RtspConns : (RtspPassed(d)' <=> RtspPassed(d)) /\ (RtspKeySent(d)' <=> RtspKeySent(d))
    BY <1>1, <1>2, <2>1 DEF RtspPassed, RtspKeySent, RtspSending
  <2>4. RtspKeyInv'
    BY <1>1, <2>1, <2>3 DEF RtspDelivery, RtspKeyInv
  <2> QED
    BY <1>4, <2>1, <2>2, <2>4
<1> QED
  BY <1>0, <1>3, <1>5, <1>6 DEF CheckKeyframe

\* The packets of the frame go out, and the callback ends or goes on.
LEMMA RtspSendPreserves ==
    ASSUME RtspInv, SendRtpPackets
    PROVE  RtspInv'
<1> USE RtspLimits DEF RtspInv
<1> DEFINE x == rtspSender  e == LogEntry(rtspSender)
<1>0. PICK c : c = rtspSender.c
  OBVIOUS
<1>1. /\ UNCHANGED <<rtspUp, rtspAuth, rtspTable, rtsp, rtspThread, rtspSubs, rtspTimers, rtspUdp, rtspAsked,
                     rtspGranted, rtspRaced>>
      /\ rtspSender # SenderIdle /\ rtspSender.at = "send"
      /\ rtspLog' = [rtspLog EXCEPT ![c] = Append(@, e)]
      /\ GoesOn(rtspLog'[c])
  BY <1>0 DEF SendRtpPackets, SenderIdle
<1>2. /\ x \in RtspSending /\ c \in RtspConns /\ rtsp \in [RtspConns -> RtspSessionType]
      /\ rtspLog \in [RtspConns -> Seq(RtspLogEntry)] /\ rtspLog[c] \in Seq(RtspLogEntry)
      /\ Len(rtspLog[c]) < MaxRtspFrames /\ x.stream \in rtspGranted[c]
      /\ x.start => \A i \in DOMAIN rtspLog[c] : rtspLog[c][i].sub = x.sub => RtspInTurn(rtspLog[c][i])
      /\ rtsp[c].start # <<>> => x.seen # rtsp[c].sub
  BY <1>0, <1>1, RtspSenderFacts DEF RtspShape
<1>3. /\ rtspWire' \in [RtspConns -> {"idle", "accepted", "open", "flush", "closing", "closed"}]
      /\ \A d \in RtspConns : rtspWire[d] \in {"open", "flush", "closing"} => rtspWire'[d] \in {"open", "flush", "closing"}
  BY DEF SendRtpPackets, CloseControl, RtspShape
<1>4. /\ e \in RtspLogEntry /\ e.sub = x.sub /\ e.stream = x.stream /\ e.start = x.start /\ e.key = x.key
      /\ e.seen = x.seen /\ e.play = x.play
  BY <1>2 DEF LogEntry, RtspLogEntry, RtspSending
<1> HIDE DEF e
<1>5. /\ rtspLog'[c] = Append(rtspLog[c], e) /\ \A d \in RtspConns \ {c} : rtspLog'[d] = rtspLog[d]
      /\ rtspLog' \in [RtspConns -> Seq(RtspLogEntry)]
  BY <1>1, <1>2, <1>4
<1>6. /\ Len(rtspLog'[c]) = Len(rtspLog[c]) + 1 /\ Len(rtspLog[c]) \in Nat
      /\ \A i \in DOMAIN rtspLog'[c] : \/ i \in DOMAIN rtspLog[c] /\ rtspLog'[c][i] = rtspLog[c][i]
                                       \/ i = Len(rtspLog[c]) + 1 /\ rtspLog'[c][i] = e
      /\ DOMAIN rtspLog[c] = 1 .. Len(rtspLog[c]) /\ DOMAIN rtspLog'[c] = 1 .. Len(rtspLog[c]) + 1
      /\ \A i \in DOMAIN rtspLog[c] : rtspLog'[c][i] = rtspLog[c][i]
      /\ rtspLog'[c][Len(rtspLog[c]) + 1] = e
  BY <1>2, <1>4, <1>5
<1>7. /\ rtspSender' = SenderIdle \/ rtspSender' \in RtspSending
      /\ rtspSender' # SenderIdle =>
            /\ rtspSender'.c = c /\ ~rtspSender'.start /\ rtspSender'.at \in {"start", "pull"}
            /\ rtspSender'.at = "pull" => rtspSender'.stream = x.stream
            /\ Len(rtspLog'[c]) < MaxRtspFrames
            /\ rtspSender'.sub \in {0, x.sub} /\ rtspSender'.seen \in {0, x.seen} /\ rtspSender'.play = 0
  <2>1. Sending(c) \in RtspSending /\ Sending(c).c = c /\ Sending(c).at = "start" /\ ~Sending(c).start
        /\ Sending(c).sub = 0 /\ Sending(c).seen = 0 /\ Sending(c).play = 0
    BY <1>2 DEF Sending, RtspSending, RtspSendAts, RtspStreams, Modes
  <2> DEFINE y == [Sending(c) EXCEPT !.at = "pull", !.sub = x.sub, !.stream = x.stream, !.seen = x.seen]
  <2>2. /\ y \in RtspSending /\ y.c = c /\ y.at = "pull" /\ ~y.start /\ y.sub = x.sub /\ y.seen = x.seen
        /\ y.play = 0 /\ y.stream = x.stream
    BY <1>2 DEF Sending, RtspSending, RtspSendAts, RtspStreams, Modes
  <2>3. NextFrame(x) = Sending(c) \/ NextFrame(x) = y
    BY <1>0 DEF NextFrame
  <2> HIDE DEF y
  <2>4. CASE rtspSender' = SenderIdle
    BY <2>4
  <2>5. CASE rtspSender' = NextFrame(x) /\ Len(rtspLog'[c]) < MaxRtspFrames
    BY <2>1, <2>2, <2>3, <2>5
  <2> QED
    BY <1>1, <2>4, <2>5 DEF GoesOn
<1>8. RtspShape'
  BY <1>1, <1>3, <1>5, <1>7 DEF RtspShape, Cb, RtspCtl, Resting
<1>9. RtspTypeOK'
  <2>1. Len(rtspLog'[c]) <= MaxRtspFrames
    BY <1>2, <1>6
  <2>2. \A d \in RtspConns : Len(rtspLog'[d]) <= MaxRtspFrames
    BY <1>5, <2>1 DEF RtspTypeOK
  <2> QED
    BY <1>1, <1>3, <2>2 DEF RtspTypeOK
<1>10. RtspOwners' /\ RtspOwned'
  BY <1>1, RtspOwnersSame
<1>11. RtspNumbers'
  <2>1. Cb' = Cb /\ \A d \in RtspConns : RtspAnswering(d)' <=> RtspAnswering(d)
    BY <1>1 DEF Cb, RtspAnswering, Resting
  <2>2. rtsp[c].sub \in Nat /\ rtspAsked[c] \in Nat /\ rtsp[c].sub <= rtspAsked[c]
        /\ ((RtspAnswering(c) /\ Cb.at \in RtspFresh) => rtsp[c].sub < rtspAsked[c])
    BY <1>2 DEF RtspSessionType, RtspShape, RtspDelivery, RtspNumbers
  <2>3. \A n \in {0, x.sub, x.seen} :
           n <= rtspAsked[c] /\ ((RtspAnswering(c) /\ Cb.at \in RtspFresh) => n < rtspAsked[c])
    BY <1>0, <1>1, <2>2 DEF RtspDelivery, RtspNumbers
  <2>4. rtspSender' # SenderIdle => \A n \in {rtspSender'.sub, rtspSender'.seen, rtspSender'.play} :
           n <= rtspAsked[c] /\ ((RtspAnswering(c) /\ Cb.at \in RtspFresh) => n < rtspAsked[c])
    BY <1>7, <2>3
  <2> QED
    BY <1>1, <1>2, <1>7, <2>1, <2>4 DEF RtspDelivery, RtspNumbers, Resting
<1>12. RtspStartInv'
  <2>1. ASSUME rtsp[c].start # <<>>
        PROVE  /\ rtsp[c].sub # 0
               /\ \A i \in DOMAIN rtspLog'[c] : rtspLog'[c][i].sub = rtsp[c].sub => RtspInTurn(rtspLog'[c][i])
               /\ rtspSender' # SenderIdle => rtspSender'.seen # rtsp[c].sub
    <3>1. rtsp[c].sub # 0
      BY <1>2, <2>1 DEF RtspDelivery, RtspStartInv
    <3>2. e.sub = rtsp[c].sub => RtspInTurn(e)
      BY <1>2, <1>4, <2>1 DEF RtspInTurn
    <3>3. \A i \in DOMAIN rtspLog[c] : rtspLog[c][i].sub = rtsp[c].sub => RtspInTurn(rtspLog[c][i])
      BY <1>2, <2>1 DEF RtspDelivery, RtspStartInv
    <3>4. rtspSender' # SenderIdle => rtspSender'.seen # rtsp[c].sub
      BY <1>2, <1>7, <2>1, <3>1
    <3>5. \A i \in DOMAIN rtspLog'[c] : rtspLog'[c][i].sub = rtsp[c].sub => RtspInTurn(rtspLog'[c][i])
      BY <1>6, <3>2, <3>3
    <3> QED
      BY <3>1, <3>4, <3>5
  <2>2. \A d \in RtspConns \ {c} : rtspLog'[d] = rtspLog[d] /\ (rtspSender' # SenderIdle => rtspSender'.c # d)
    BY <1>5, <1>7
  <2>3. ASSUME NEW d \in RtspConns, d # c, rtsp[d].start # <<>>
        PROVE  /\ rtsp[d].sub # 0
               /\ \A i \in DOMAIN rtspLog'[d] : rtspLog'[d][i].sub = rtsp[d].sub => RtspInTurn(rtspLog'[d][i])
               /\ ~(rtspSender' # SenderIdle /\ rtspSender'.c = d)
    BY <2>2, <2>3 DEF RtspDelivery, RtspStartInv
  <2> QED
    BY <1>1, <2>1, <2>3 DEF RtspDelivery, RtspStartInv
<1>13. RtspSenderInv'
  BY <1>1, <1>2, <1>7 DEF RtspSenderInv
<1>14. RtspPassed(c) /\ \A d \in RtspConns : ~RtspPassed(d)' /\ (d # c => ~RtspPassed(d) /\ (RtspKeySent(d)' <=> RtspKeySent(d)))
  BY <1>0, <1>1, <1>5, <1>7 DEF RtspPassed, RtspKeySent, SenderIdle
<1>15. RtspKeySent(c) => RtspKeySent(c)'
  BY <1>1, <1>6 DEF RtspKeySent
<1>16. (x.play = rtsp[c].sub /\ x.key) => RtspKeySent(c)'
  <2>1. Len(rtspLog[c]) + 1 \in DOMAIN rtspLog'[c] /\ rtspLog'[c][Len(rtspLog[c]) + 1] = e /\ rtsp' = rtsp
    BY <1>1, <1>6
  <2> QED
    BY <1>4, <2>1 DEF RtspKeySent
<1>17. rtsp[c].sub # 0 => IF x.play = rtsp[c].sub THEN x.key \/ RtspKeySent(c) ELSE rtspLog[c] = <<>>
  BY <1>2, <1>14 DEF RtspDelivery, RtspKeyInv
<1>18. RtspKeyInv'
  <2>1. ASSUME NEW d \in RtspConns, rtsp'[d].sub # 0, rtsp'[d].key
        PROVE  RtspKeySent(d)'
    <3>1. CASE d = c
      BY <1>1, <1>2, <1>15, <1>16, <2>1, <3>1 DEF RtspDelivery, RtspKeyInv
    <3>2. CASE d # c
      BY <1>1, <1>14, <2>1, <3>2 DEF RtspDelivery, RtspKeyInv
    <3> QED
      BY <3>1, <3>2
  <2> QED
    BY <1>14, <2>1 DEF RtspKeyInv
<1>19. RtspGrantInv'
  <2>1. Cb' = Cb /\ (Cb # Resting => Cb.c \in RtspConns)
    BY <1>1, RtspThreadFacts DEF Cb
  <2> QED
    BY <1>1, <2>1 DEF RtspDelivery, RtspGrantInv, Resting
<1>20. StartsWithKeyframe'
  <2>1. ASSUME rtsp[c].sub # 0, NEW i \in DOMAIN rtspLog'[c]
        PROVE  \/ i = 1 /\ rtspLog'[c][i].play # rtsp[c].sub
               \/ /\ rtspLog'[c][i].play = rtsp[c].sub
                  /\ \E j \in 1 .. i : rtspLog'[c][j].play = rtsp[c].sub /\ rtspLog'[c][j].key
    <3>1. CASE i \in DOMAIN rtspLog[c]
      <4>1. \/ i = 1 /\ rtspLog[c][i].play # rtsp[c].sub
            \/ /\ rtspLog[c][i].play = rtsp[c].sub
               /\ \E j \in 1 .. i : rtspLog[c][j].play = rtsp[c].sub /\ rtspLog[c][j].key
        BY <1>2, <2>1, <3>1 DEF RtspSent, StartsWithKeyframe
      <4>2. \A j \in 1 .. i : rtspLog'[c][j] = rtspLog[c][j]
        BY <1>6, <3>1
      <4>3. rtspLog'[c][i] = rtspLog[c][i]
        BY <1>6, <3>1
      <4> QED
        BY <4>1, <4>2, <4>3
    <3>2. CASE i = Len(rtspLog[c]) + 1 /\ rtspLog'[c][i] = e
      <4>1. CASE x.play # rtsp[c].sub
        <5>1. rtspLog[c] = <<>>
          BY <1>17, <2>1, <4>1
        <5>2. i = 1
          BY <3>2, <5>1
        <5> QED
          BY <1>4, <3>2, <4>1, <5>2
      <4>2. CASE x.play = rtsp[c].sub /\ x.key
        <5>1. i \in 1 .. i
          BY <1>6, <3>2
        <5> QED
          BY <1>4, <3>2, <4>2, <5>1
      <4>3. CASE x.play = rtsp[c].sub /\ RtspKeySent(c)
        <5>1. PICK j \in DOMAIN rtspLog[c] : rtspLog[c][j].play = rtsp[c].sub /\ rtspLog[c][j].key
          BY <4>3 DEF RtspKeySent
        <5>2. j \in 1 .. i /\ rtspLog'[c][j] = rtspLog[c][j]
          BY <1>6, <3>2, <5>1
        <5> QED
          BY <1>4, <3>2, <4>3, <5>1, <5>2
      <4> QED
        BY <1>17, <2>1, <4>1, <4>2, <4>3
    <3> QED
      BY <1>6, <3>1, <3>2
  <2>2. ASSUME NEW d \in RtspConns \ {c}, rtsp[d].sub # 0, NEW i \in DOMAIN rtspLog'[d]
        PROVE  \/ i = 1 /\ rtspLog'[d][i].play # rtsp[d].sub
               \/ /\ rtspLog'[d][i].play = rtsp[d].sub
                  /\ \E j \in 1 .. i : rtspLog'[d][j].play = rtsp[d].sub /\ rtspLog'[d][j].key
    <3>1. rtspLog'[d] = rtspLog[d]
      BY <1>5, <2>2
    <3> QED
      BY <2>2, <3>1 DEF RtspSent, StartsWithKeyframe
  <2> QED
    BY <1>1, <2>1, <2>2 DEF StartsWithKeyframe
<1>21. StartBeforeLive'
  <2>1. ASSUME NEW i \in DOMAIN rtspLog'[c], NEW j \in DOMAIN rtspLog'[c],
               i < j, rtspLog'[c][i].sub = rtspLog'[c][j].sub, rtspLog'[c][j].start
        PROVE  RtspInTurn(rtspLog'[c][i])
    <3>1. i \in DOMAIN rtspLog[c] /\ rtspLog'[c][i] = rtspLog[c][i]
      BY <1>6, <2>1
    <3>2. CASE j \in DOMAIN rtspLog[c] /\ rtspLog'[c][j] = rtspLog[c][j]
      BY <1>2, <2>1, <3>1, <3>2 DEF RtspSent, StartBeforeLive, RtspInTurn
    <3>3. CASE rtspLog'[c][j] = e
      BY <1>2, <1>4, <2>1, <3>1, <3>3
    <3> QED
      BY <1>6, <3>2, <3>3
  <2>2. ASSUME NEW d \in RtspConns \ {c}
        PROVE  \A i, j \in DOMAIN rtspLog'[d] :
                  (i < j /\ rtspLog'[d][i].sub = rtspLog'[d][j].sub /\ rtspLog'[d][j].start) => RtspInTurn(rtspLog'[d][i])
    <3>1. rtspLog'[d] = rtspLog[d]
      BY <1>5
    <3> QED
      BY <3>1 DEF RtspSent, StartBeforeLive, RtspInTurn
  <2> QED
    BY <2>1, <2>2 DEF StartBeforeLive, RtspInTurn
<1>22. OnlyAuthorized'
  <2>1. \A i \in DOMAIN rtspLog'[c] : rtspLog'[c][i].stream \in rtspGranted[c]
    BY <1>2, <1>4, <1>6 DEF RtspSent, OnlyAuthorized
  <2> QED
    BY <1>1, <1>5, <2>1 DEF RtspSent, OnlyAuthorized
<1> QED
  BY <1>8, <1>9, <1>10, <1>11, <1>12, <1>13, <1>18, <1>19, <1>20, <1>21, <1>22 DEF RtspDelivery, RtspSent

\* What AuthorizeRtspRequest and the handler leave of the session: the stream is
\* granted, and what the session holds does not change.
RtspAdmits(c, s, r) ==
    /\ r \in RtspSessionType
    /\ r.mode = rtsp[c].mode /\ r.udp = rtsp[c].udp /\ r.sub = rtsp[c].sub /\ r.subStream = rtsp[c].subStream
    /\ r.timer = rtsp[c].timer /\ r.key = rtsp[c].key /\ r.start = rtsp[c].start
    /\ rtspGranted' \in [RtspConns -> SUBSET RtspStreams]
    /\ \A d \in RtspConns : rtspGranted[d] \subseteq rtspGranted'[d]
    /\ s \in rtspGranted'[c]
    /\ r.auth # "none" => r.auth \in rtspGranted'[c]

\* What Authorized says of a request: the stream it may be given, and who asked.
LEMMA RtspAuthorizedFacts ==
    ASSUME NEW c \in RtspConns, NEW s \in RtspStreams, NEW new,
           RtspShape, RtspGrantInv, Authorized(c, s, new)
    PROVE  RtspAdmits(c, s, new) /\ new.stream = rtsp[c].stream
<1>1. rtsp[c] \in RtspSessionType /\ rtspGranted \in [RtspConns -> SUBSET RtspStreams]
  BY DEF RtspShape
<1>2. rtsp[c].auth # "none" => rtsp[c].auth \in rtspGranted[c]
  BY DEF RtspGrantInv
<1>3. s # "none"
  BY DEF RtspStreams
<1>0. new = rtsp[c] \/ new = [rtsp[c] EXCEPT !.auth = s]
  BY DEF Authorized
<1>4. /\ new \in RtspSessionType
      /\ new.state = rtsp[c].state /\ new.stream = rtsp[c].stream /\ new.mode = rtsp[c].mode
      /\ new.udp = rtsp[c].udp /\ new.sub = rtsp[c].sub /\ new.subStream = rtsp[c].subStream
      /\ new.timer = rtsp[c].timer /\ new.key = rtsp[c].key /\ new.start = rtsp[c].start
      /\ new.auth \in {s, rtsp[c].auth}
  BY <1>0, <1>1 DEF RtspSessionType
<1>5. /\ rtspGranted' \in [RtspConns -> SUBSET RtspStreams]
      /\ \A d \in RtspConns : rtspGranted[d] \subseteq rtspGranted'[d]
  BY <1>1 DEF Authorized
<1>6. s \in rtspGranted'[c]
  BY <1>1, <1>2, <1>3 DEF Authorized, IsAuthenticatedFor
<1> QED
  BY <1>1, <1>2, <1>4, <1>5, <1>6 DEF RtspAdmits

\* A request that was let in: the session keeps what it holds, and the callback
\* loop rests or is about to release it.
LEMMA RtspRequestPreserves ==
    ASSUME RtspInv, NEW c \in RtspConns, RtspRequest(c), rtspWire' = rtspWire,
           NEW s \in RtspStreams, NEW r, RtspAdmits(c, s, r), rtsp' = [rtsp EXCEPT ![c] = r],
           \/ UNCHANGED rtspThread
           \/ \E w \in RtspCbWork : /\ w.at = "takeSub" /\ w.c = c /\ w.next \in {"setup", "subscribe", "flush"}
                                    /\ w.next = "subscribe" => r.stream = s
                                    /\ rtspThread' = [rtspThread EXCEPT !["cb"] = w]
    PROVE  RtspInv'
<1> USE DEF RtspInv
<1>1. /\ UNCHANGED <<rtspUp, rtspAuth, rtspTable, rtspSender, rtspSubs, rtspTimers, rtspUdp, rtspLog>>
      /\ Cb = Resting /\ c \in rtspTable
      /\ rtspAsked' = [rtspAsked EXCEPT ![c] = @ + 1]
      /\ rtspRaced' = IF rtspUp = "on" THEN rtspRaced ELSE rtspRaced \cup {c}
  BY DEF RtspRequest
<1>2. /\ r \in RtspSessionType
      /\ rtspGranted' \in [RtspConns -> SUBSET RtspStreams]
      /\ \A d \in RtspConns : rtspGranted[d] \subseteq rtspGranted'[d]
      /\ s \in rtspGranted'[c]
      /\ r.auth # "none" => r.auth \in rtspGranted'[c]
  BY DEF RtspAdmits
<1>3. /\ rtsp \in [RtspConns -> RtspSessionType] /\ rtsp' \in [RtspConns -> RtspSessionType]
      /\ rtspAsked \in [RtspConns -> Nat] /\ rtspAsked' \in [RtspConns -> Nat]
      /\ rtspRaced' \subseteq RtspConns /\ rtspRaced \subseteq rtspRaced'
      /\ rtspThread = [t \in Threads |-> rtspThread[t]]
  BY <1>1, <1>2 DEF RtspShape
<1>4. /\ rtsp'[c] = r /\ \A d \in RtspConns \ {c} : rtsp'[d] = rtsp[d]
      /\ rtspAsked'[c] = rtspAsked[c] + 1 /\ \A d \in RtspConns \ {c} : rtspAsked'[d] = rtspAsked[d]
  BY <1>1, <1>3
<1>5. \A d \in RtspConns : /\ rtsp'[d].mode = rtsp[d].mode
                            /\ rtsp'[d].udp = rtsp[d].udp /\ rtsp'[d].sub = rtsp[d].sub /\ rtsp'[d].subStream = rtsp[d].subStream
                            /\ rtsp'[d].timer = rtsp[d].timer /\ rtsp'[d].key = rtsp[d].key /\ rtsp'[d].start = rtsp[d].start
  BY <1>4 DEF RtspAdmits
<1>6. /\ rtspThread' = [t \in Threads |-> rtspThread'[t]]
      /\ RtspCtl' = RtspCtl
  BY <1>1, <1>3 DEF RtspCtl, Threads
<1>7. \/ Cb' = Resting
      \/ /\ Cb' # Resting /\ Cb' \in RtspCbWork /\ Cb'.at = "takeSub" /\ Cb'.c = c
         /\ Cb'.next \in {"setup", "subscribe", "flush"} /\ (Cb'.next = "subscribe" => r.stream = s)
  <2>1. CASE UNCHANGED rtspThread
    BY <1>1, <2>1 DEF Cb, Resting
  <2>2. ASSUME NEW w \in RtspCbWork, w.at = "takeSub", w.c = c, w.next \in {"setup", "subscribe", "flush"},
               w.next = "subscribe" => r.stream = s, rtspThread' = [rtspThread EXCEPT !["cb"] = w]
        PROVE  /\ Cb' # Resting /\ Cb' \in RtspCbWork /\ Cb'.at = "takeSub" /\ Cb'.c = c
               /\ Cb'.next \in {"setup", "subscribe", "flush"} /\ (Cb'.next = "subscribe" => r.stream = s)
    <3>1. w # Resting
      BY <2>2 DEF Resting
    <3>2. Cb' = w
      BY <1>3, <2>2 DEF Cb, Threads
    <3> QED
      BY <2>2, <3>1, <3>2 DEF Resting
  <2> QED
    BY <2>1, <2>2
<1>8. RtspShape'
  BY <1>1, <1>2, <1>3, <1>6, <1>7 DEF RtspShape, Resting
<1>9. RtspTypeOK'
  <2>1. \A d \in RtspConns : /\ rtsp'[d].state \in {"init", "ready", "playing", "closed"}
                             /\ rtsp'[d].stream \in RtspStreams /\ rtsp'[d].mode \in Modes
    BY <1>3 DEF RtspSessionType
  <2> QED
    BY <1>1, <1>5, <2>1 DEF RtspTypeOK
<1>10. RtspRequestInv'
  BY <1>1, <1>7 DEF RtspRequestInv, RtspAnswering, Resting
<1>11. RtspPlace' /\ RtspFreed'
  BY <1>7 DEF RtspPlace, RtspFreed, RtspAnswering, Resting
<1>12. RtspStopInv'
  <2>1. rtspTable \subseteq RtspConns
    BY DEF RtspShape
  <2> QED
    BY <1>1, <1>3, <1>5, <1>6, <2>1 DEF RtspOwners, RtspStopInv
<1>13. /\ rtspThread'["ctl"] = rtspThread["ctl"] /\ rtspThread["cb"].at = "idle"
       /\ rtspThread'["cb"].at \in {"idle", "takeSub"}
  BY <1>1, <1>6, <1>7 DEF RtspCtl, Cb, Resting
<1>14. \A d \in RtspConns : Held(d) => Held(d)'
  BY <1>1, <1>13 DEF Held, Taking, Threads
<1>15. SubscriptionsOwned'
  BY <1>1, <1>3, <1>5, <1>13, <1>14 DEF RtspOwned, SubscriptionsOwned, Threads
<1>16. SendTimersOwned'
  BY <1>1, <1>3, <1>5, <1>13, <1>14 DEF RtspOwned, SendTimersOwned, Threads
<1>17. UdpOwned'
  BY <1>1, <1>3, <1>5, <1>13, <1>14 DEF RtspOwned, UdpOwned, Threads
<1>18. RtspNumbers'
  <2>1. rtspSender # SenderIdle => /\ rtspSender.c \in RtspConns /\ rtspSender.sub \in Nat
                                   /\ rtspSender.seen \in Nat /\ rtspSender.play \in Nat
    BY DEF RtspShape, RtspSending
  <2>2. \A d \in RtspConns : rtsp[d].sub \in Nat /\ rtspAsked[d] \in Nat
    BY <1>3 DEF RtspSessionType
  <2> QED
    BY <1>1, <1>4, <1>5, <1>7, <2>1, <2>2 DEF RtspDelivery, RtspNumbers, RtspAnswering, Resting
<1>19. RtspStartInv' /\ RtspKeyInv'
  BY <1>1, <1>2, <1>5 DEF RtspDelivery, RtspStartInv, RtspKeyInv, RtspKeySent, RtspPassed
<1>20. RtspSenderInv'
  <2>1. rtspSender # SenderIdle => rtspSender.c \in RtspConns
    BY DEF RtspShape, RtspSending
  <2> QED
    BY <1>1, <1>2, <2>1 DEF RtspDelivery, RtspSenderInv
<1>21. RtspGrantInv'
  <2>1. \A d \in RtspConns : rtsp'[d].auth # "none" => rtsp'[d].auth \in rtspGranted'[d]
    BY <1>2, <1>4 DEF RtspDelivery, RtspGrantInv
  <2> QED
    BY <1>1, <1>2, <1>4, <1>5, <1>7, <2>1 DEF RtspDelivery, RtspGrantInv, Resting
<1>22. RtspSent'
  BY <1>1, <1>2, <1>5 DEF RtspSent, StartsWithKeyframe, StartBeforeLive, OnlyAuthorized
<1> QED
  BY <1>8, <1>9, <1>10, <1>11, <1>12, <1>15, <1>16, <1>17, <1>18, <1>19, <1>20, <1>21, <1>22
     DEF RtspOwners, RtspOwned, RtspDelivery

\* Releasing() is a callback that has not begun to release.
LEMMA RtspReleasingWork ==
    ASSUME NEW c \in RtspConns, NEW next \in {"done", "setup", "subscribe", "flush"}
    PROVE  /\ Releasing(c, next) \in RtspCbWork
           /\ Releasing(c, next).at = "takeSub" /\ Releasing(c, next).c = c /\ Releasing(c, next).next = next
BY DEF Releasing, RtspCbWork, RtspWork, RtspCbAts, RtspReleases, RtspStreams, Modes

\* DESCRIBE, SETUP, PLAY and TEARDOWN.
LEMMA RtspRequestsPreserve ==
    ASSUME NEW c \in RtspConns, RtspInv,
           \/ \E s \in RtspStreams : HandleDescribe(c, s) \/ \E mode \in Modes : HandleSetup(c, s, mode)
           \/ HandlePlay(c) \/ HandleTeardown(c)
    PROVE  RtspInv'
<1>0. rtsp[c] \in RtspSessionType /\ rtsp[c].stream \in RtspStreams /\ RtspShape /\ RtspGrantInv
  BY DEF RtspInv, RtspShape, RtspSessionType, RtspDelivery
<1>1. ASSUME NEW s \in RtspStreams, HandleDescribe(c, s)
      PROVE  RtspInv'
  <2>1. PICK new : Authorized(c, s, new) /\ rtsp' = [rtsp EXCEPT ![c] = [new EXCEPT !.stream = s]]
    BY <1>1 DEF HandleDescribe
  <2>2. RtspAdmits(c, s, new)
    BY <1>0, <2>1, RtspAuthorizedFacts
  <2>3. RtspAdmits(c, s, [new EXCEPT !.stream = s])
    BY <2>2 DEF RtspAdmits, RtspSessionType
  <2>4. RtspRequest(c) /\ rtspWire' = rtspWire /\ UNCHANGED rtspThread
    BY <1>1 DEF HandleDescribe
  <2> QED
    BY <2>1, <2>3, <2>4, RtspRequestPreserves
<1>2. ASSUME NEW s \in RtspStreams, NEW mode \in Modes, HandleSetup(c, s, mode)
      PROVE  RtspInv'
  <2>1. PICK new : Authorized(c, s, new) /\ rtsp' = [rtsp EXCEPT ![c] = new]
    BY <1>2 DEF HandleSetup
  <2>2. RtspAdmits(c, s, new)
    BY <1>0, <2>1, RtspAuthorizedFacts
  <2> DEFINE w == [Releasing(c, "setup") EXCEPT !.stream = s, !.mode = mode]
  <2>3. w \in RtspCbWork /\ w.at = "takeSub" /\ w.c = c /\ w.next = "setup"
    BY DEF Releasing, RtspCbWork, RtspWork, RtspCbAts, RtspReleases, RtspStreams, Modes
  <2>4. RtspRequest(c) /\ rtspWire' = rtspWire /\ rtspThread' = [rtspThread EXCEPT !["cb"] = w]
    BY <1>2 DEF HandleSetup, Becomes
  <2> HIDE DEF w
  <2> QED
    BY <2>1, <2>2, <2>3, <2>4, RtspRequestPreserves
<1>3. CASE HandlePlay(c)
  <2>1. PICK new : Authorized(c, rtsp[c].stream, new) /\ rtsp' = [rtsp EXCEPT ![c] = new]
    BY <1>3 DEF HandlePlay
  <2>2. RtspAdmits(c, rtsp[c].stream, new) /\ new.stream = rtsp[c].stream
    BY <1>0, <2>1, RtspAuthorizedFacts
  <2>3. PlayFrom(c) \in RtspCbWork /\ PlayFrom(c).at = "takeSub" /\ PlayFrom(c).c = c /\ PlayFrom(c).next = "subscribe"
    BY RtspReleasingWork DEF PlayFrom
  <2>4. RtspRequest(c) /\ rtspWire' = rtspWire
        /\ (UNCHANGED rtspThread \/ rtspThread' = [rtspThread EXCEPT !["cb"] = PlayFrom(c)])
    BY <1>3 DEF HandlePlay, Becomes
  <2> QED
    BY <1>0, <2>1, <2>2, <2>3, <2>4, RtspRequestPreserves
<1>4. CASE HandleTeardown(c)
  <2>1. PICK new : Authorized(c, rtsp[c].stream, new) /\ rtsp' = [rtsp EXCEPT ![c] = [new EXCEPT !.state = "closed"]]
    BY <1>4 DEF HandleTeardown
  <2>2. RtspAdmits(c, rtsp[c].stream, new)
    BY <1>0, <2>1, RtspAuthorizedFacts
  <2>3. RtspAdmits(c, rtsp[c].stream, [new EXCEPT !.state = "closed"])
    BY <2>2 DEF RtspAdmits, RtspSessionType
  <2> DEFINE w == Releasing(c, "flush")
  <2>4. w \in RtspCbWork /\ w.at = "takeSub" /\ w.c = c /\ w.next = "flush"
    BY RtspReleasingWork
  <2>5. RtspRequest(c) /\ rtspWire' = rtspWire /\ rtspThread' = [rtspThread EXCEPT !["cb"] = w]
    BY <1>4 DEF HandleTeardown, Becomes
  <2> HIDE DEF w
  <2> QED
    BY <1>0, <2>1, <2>3, <2>4, <2>5, RtspRequestPreserves
<1> QED
  BY <1>1, <1>2, <1>3, <1>4

\* A step of one thread that leaves the table and the server alone.
LEMMA RtspThreadStep ==
    ASSUME RtspShape, NEW t \in Threads, NEW rec, rtspThread' = [rtspThread EXCEPT ![t] = rec],
           UNCHANGED <<rtspUp, rtspAuth, rtspTable, rtspSender, rtspAsked, rtspGranted, rtspRaced>>,
           rtspWire' \in [RtspConns -> {"idle", "accepted", "open", "flush", "closing", "closed"}],
           rtsp' \in [RtspConns -> RtspSessionType], rtspLog' \in [RtspConns -> Seq(RtspLogEntry)],
           t = "cb" => rec = Resting \/ rec \in RtspCbWork,
           t = "ctl" => rtspUp = "closing" /\ rec \in RtspCtlWork
    PROVE  /\ RtspShape'
           /\ rtspThread'[t] = rec /\ \A u \in Threads \ {t} : rtspThread'[u] = rtspThread[u]
           /\ t = "cb" => Cb' = rec /\ RtspCtl' = RtspCtl
           /\ t = "ctl" => RtspCtl' = rec /\ Cb' = Cb
<1>1. /\ rtspThread' = [u \in Threads |-> rtspThread'[u]]
      /\ rtspThread'[t] = rec /\ \A u \in Threads \ {t} : rtspThread'[u] = rtspThread[u]
  BY DEF RtspShape
<1>2. /\ t = "cb" => Cb' = rec /\ RtspCtl' = RtspCtl
      /\ t = "ctl" => RtspCtl' = rec /\ Cb' = Cb
  BY <1>1 DEF Cb, RtspCtl, Threads
<1>3. Cb' = Resting \/ Cb' \in RtspCbWork
  BY <1>2 DEF RtspShape, Threads
<1>4. \/ RtspCtl' = Resting /\ rtspUp' # "closing"
      \/ rtspUp' = "closing" /\ (RtspCtl' \in RtspPicking \/ RtspCtl' \in RtspCtlWork)
  BY <1>2 DEF RtspShape, Threads
<1>5. RtspShape'
  BY <1>1, <1>3, <1>4 DEF RtspShape, Resting
<1> QED
  BY <1>1, <1>2, <1>5

\* A session whose subscription is cleared: its frames and numbers.
LEMMA RtspDeliveryCleared ==
    ASSUME RtspDelivery, RtspSent, RtspShape, NEW c \in RtspConns,
           UNCHANGED <<rtspSender, rtspLog, rtspGranted, rtspAsked>>,
           \A d \in RtspConns \ {c} : rtsp'[d] = rtsp[d],
           rtsp'[c].sub = 0, rtsp'[c].key = FALSE, rtsp'[c].start = <<>>,
           rtsp'[c].auth = rtsp[c].auth, rtsp'[c].stream = rtsp[c].stream,
           Cb' = Resting \/ (/\ Cb # Resting /\ Cb'.c = Cb.c /\ Cb'.next = Cb.next
                             /\ (Cb'.at \in RtspFresh => Cb.at \in RtspFresh)
                             /\ (Cb'.at = "store" => Cb'.sub = rtspAsked[Cb.c]))
    PROVE  RtspDelivery' /\ RtspSent'
<1>0. rtspSender # SenderIdle => rtspSender.c \in RtspConns
  BY DEF RtspShape, RtspSending
<1>1. \A d \in RtspConns : rtsp[d].sub \in Nat /\ rtspAsked[d] \in Nat
  BY DEF RtspShape, RtspSessionType
<1>2. RtspNumbers'
  <2>1. \A d \in RtspConns : rtsp'[d].sub <= rtsp[d].sub /\ rtsp'[d].sub \in Nat
    BY <1>1
  <2> QED
    BY <1>0, <1>1, <2>1 DEF RtspDelivery, RtspNumbers, RtspAnswering, Resting
<1>3. RtspStartInv'
  <2>1. DOMAIN rtsp'[c].start = {}
    OBVIOUS
  <2> QED
    BY <2>1 DEF RtspDelivery, RtspStartInv
<1>4. RtspSenderInv' /\ RtspKeyInv'
  BY DEF RtspDelivery, RtspSenderInv, RtspKeyInv, RtspKeySent, RtspPassed
<1>5. RtspGrantInv'
  <2>1. Cb # Resting => Cb.c \in RtspConns
    BY RtspThreadFacts
  <2>2. \A d \in RtspConns : rtsp'[d].stream = rtsp[d].stream
    OBVIOUS
  <2> QED
    BY <2>1, <2>2 DEF RtspDelivery, RtspGrantInv, Resting
<1>6. RtspSent'
  BY DEF RtspSent, StartsWithKeyframe, StartBeforeLive, OnlyAuthorized
<1> QED
  BY <1>2, <1>3, <1>4, <1>5, <1>6 DEF RtspDelivery

\* A thread takes a session's subscription and timer.
LEMMA RtspTakeSubPreserves ==
    ASSUME RtspInv, NEW t \in Threads, TakeSub(t)
    PROVE  RtspInv'
<1> DEFINE th == rtspThread[t]
           c == th.c
           rec == [th EXCEPT !.at = "dropSub", !.sub = rtsp[c].sub, !.timer = rtsp[c].timer]
<1>0. RtspShape /\ RtspTypeOK /\ RtspOwners /\ RtspOwned /\ RtspDelivery /\ RtspSent
  BY DEF RtspInv
<1>1. /\ UNCHANGED <<rtspUp, rtspAuth, rtspWire, rtspTable, rtspSender, rtspSubs, rtspTimers, rtspUdp, rtspAsked,
                     rtspGranted, rtspLog, rtspRaced>>
      /\ th.at = "takeSub" /\ rtspThread' = [rtspThread EXCEPT ![t] = rec]
      /\ rtsp' = [rtsp EXCEPT ![c] = Unsubscribed(@)]
  BY DEF TakeSub, Becomes
<1>2. /\ t = "cb" => th \in RtspCbWork
      /\ t = "ctl" => th \in RtspCtlWork /\ rtspUp = "closing"
      /\ c \in RtspConns
  BY <1>0, <1>1, RtspReleasing DEF RtspReleases
<1>3. rtsp \in [RtspConns -> RtspSessionType] /\ rtsp[c] \in RtspSessionType
      /\ rtspLog \in [RtspConns -> Seq(RtspLogEntry)]
      /\ rtspWire \in [RtspConns -> {"idle", "accepted", "open", "flush", "closing", "closed"}]
  BY <1>0, <1>2 DEF RtspShape
<1>4. /\ t = "cb" => rec \in RtspCbWork
      /\ t = "ctl" => rec \in RtspCtlWork
      /\ rec.at = "dropSub" /\ rec.c = c /\ rec.next = th.next /\ rec.todo = th.todo
      /\ rec.sub = rtsp[c].sub /\ rec.timer = rtsp[c].timer
  <2>1. rtsp[c].sub \in Nat /\ rtsp[c].timer \in Nat
    BY <1>3 DEF RtspSessionType
  <2> QED
    BY <1>2, <2>1 DEF RtspCbWork, RtspCtlWork, RtspWork, RtspCbAts, RtspReleases, Threads
<1>5. rtsp' \in [RtspConns -> RtspSessionType]
  <2>0. <<>> \in Seq(RtspStartFrame)
    OBVIOUS
  <2>1. Unsubscribed(rtsp[c]) \in RtspSessionType
    BY <1>3, <2>0 DEF Unsubscribed, RtspSessionType
  <2> QED
    BY <1>1, <1>3, <2>1
<1>6. /\ \A d \in RtspConns \ {c} : rtsp'[d] = rtsp[d]
      /\ rtsp'[c].sub = 0 /\ rtsp'[c].timer = 0 /\ rtsp'[c].key = FALSE /\ rtsp'[c].start = <<>>
      /\ rtsp'[c].auth = rtsp[c].auth /\ rtsp'[c].stream = rtsp[c].stream /\ rtsp'[c].state = rtsp[c].state
      /\ rtsp'[c].mode = rtsp[c].mode /\ rtsp'[c].udp = rtsp[c].udp
  <2>1. rtsp'[c] = Unsubscribed(rtsp[c]) /\ \A d \in RtspConns \ {c} : rtsp'[d] = rtsp[d]
    BY <1>1, <1>2, <1>3
  <2> QED
    BY <1>3, <2>1 DEF Unsubscribed, RtspSessionType
<1> HIDE DEF rec
<1>7. /\ RtspShape'
      /\ rtspThread'[t] = rec /\ \A u \in Threads \ {t} : rtspThread'[u] = rtspThread[u]
      /\ t = "cb" => Cb' = rec /\ RtspCtl' = RtspCtl
      /\ t = "ctl" => RtspCtl' = rec /\ Cb' = Cb
  BY <1>0, <1>1, <1>2, <1>3, <1>4, <1>5, RtspThreadStep
<1>8. t = "cb" => th = Cb
  BY DEF Cb
<1>9. t = "ctl" => th = RtspCtl
  BY DEF RtspCtl
<1>10. t = "cb" \/ t = "ctl"
  BY DEF Threads
<1>11. (t = "cb" => Cb # Resting) /\ rec # Resting
  BY <1>1, <1>4, <1>8 DEF Resting
<1> HIDE DEF th, c
<1>12. RtspTypeOK'
  BY <1>0, <1>1, <1>2, <1>6 DEF RtspTypeOK
<1>13. RtspRequestInv' /\ RtspPlace'
  <2>1. RtspRequestInv'
    BY <1>0, <1>1, <1>4, <1>7, <1>8, <1>10, <1>11 DEF RtspOwners, RtspRequestInv, RtspAnswering, Resting, c
  <2>2. RtspPlace'
    BY <1>0, <1>1, <1>4, <1>7, <1>8, <1>10, <1>11 DEF RtspOwners, RtspPlace, Resting
  <2> QED
    BY <2>1, <2>2
<1>14. RtspFreed'
  <2>1. CASE t = "cb"
    BY <1>0, <1>1, <1>2, <1>4, <1>6, <1>7, <1>8, <2>1 DEF RtspFreed, RtspAnswering, Resting
  <2>2. CASE t = "ctl"
    BY <1>0, <1>1, <1>2, <1>6, <1>7, <2>2 DEF RtspOwners, RtspRequestInv, RtspFreed, RtspAnswering, Resting
  <2> QED
    BY <1>10, <2>1, <2>2
<1>15. RtspStopInv'
  <2>0. rtspTable \subseteq RtspConns
    BY <1>0 DEF RtspShape
  <2>1. CASE t = "cb"
    BY <1>0, <1>1, <1>2, <1>6, <1>7, <2>0, <2>1 DEF RtspOwners, RtspStopInv
  <2>2. CASE t = "ctl"
    BY <1>0, <1>1, <1>2, <1>4, <1>6, <1>7, <1>9, <2>0, <2>2 DEF RtspOwners, RtspStopInv, c
  <2> QED
    BY <1>10, <2>1, <2>2
<1>16. \A d \in RtspConns : Held(d) => Held(d)' \/ d = c
  BY <1>1, <1>7 DEF Held, Taking, c, th
<1>17. \A u \in Threads : rtspThread[u].at # "takeSub" => u # t /\ rtspThread'[u] = rtspThread[u]
  BY <1>1, <1>7 DEF th
<1>18. SubscriptionsOwned'
  BY <1>0, <1>1, <1>2, <1>4, <1>6, <1>7, <1>16, <1>17 DEF RtspOwned, SubscriptionsOwned
<1>19. SendTimersOwned'
  BY <1>0, <1>1, <1>2, <1>4, <1>6, <1>7, <1>16, <1>17 DEF RtspOwned, SendTimersOwned
<1>20. UdpOwned'
  BY <1>0, <1>1, <1>2, <1>4, <1>6, <1>7, <1>16, <1>17 DEF RtspOwned, UdpOwned
<1>21. RtspDelivery' /\ RtspSent'
  <2>1. \/ Cb' = Resting
        \/ /\ Cb # Resting /\ Cb'.c = Cb.c /\ Cb'.next = Cb.next
           /\ (Cb'.at \in RtspFresh => Cb.at \in RtspFresh)
           /\ (Cb'.at = "store" => Cb'.sub = rtspAsked[Cb.c])
    <3>1. CASE t = "cb"
      BY <1>1, <1>4, <1>7, <1>8, <1>11, <3>1 DEF RtspFresh, c
    <3>2. CASE t = "ctl"
      BY <1>0, <1>7, <3>2 DEF RtspDelivery, RtspNumbers, Resting
    <3> QED
      BY <1>10, <3>1, <3>2
  <2> QED
    BY <1>0, <1>1, <1>2, <1>6, <2>1, RtspDeliveryCleared
<1> QED
  BY <1>7, <1>12, <1>13, <1>14, <1>15, <1>18, <1>19, <1>20, <1>21 DEF RtspInv, RtspOwners, RtspOwned

\* It gives them back, and goes on to subscribe or takes the UDP sockets.
LEMMA RtspDropSubPreserves ==
    ASSUME RtspInv, NEW t \in Threads, DropSub(t)
    PROVE  RtspInv'
<1> DEFINE th == rtspThread[t]
           c == th.c
           rec == IF th.next = "subscribe" THEN [th EXCEPT !.at = "subscribe"]
                  ELSE [th EXCEPT !.at = "dropUdp", !.udp = rtsp[c].udp]
<1>0. RtspShape /\ RtspTypeOK /\ RtspOwners /\ RtspOwned /\ RtspDelivery /\ RtspSent
  BY DEF RtspInv
<1>1. /\ UNCHANGED <<rtspUp, rtspAuth, rtspWire, rtspTable, rtspSender, rtspUdp, rtspAsked,
                     rtspGranted, rtspLog, rtspRaced>>
      /\ th.at = "dropSub" /\ rtspThread' = [rtspThread EXCEPT ![t] = rec]
      /\ rtspTimers' = rtspTimers \ {<<c, th.timer>>} /\ rtspSubs' = rtspSubs \ {<<c, th.sub>>}
  BY DEF DropSub, Becomes, At, Cancelled
<1>2. /\ t = "cb" => th \in RtspCbWork
      /\ t = "ctl" => th \in RtspCtlWork /\ rtspUp = "closing"
      /\ c \in RtspConns
  BY <1>0, <1>1, RtspReleasing DEF RtspReleases
<1>3. rtsp \in [RtspConns -> RtspSessionType] /\ rtsp[c] \in RtspSessionType
      /\ rtspLog \in [RtspConns -> Seq(RtspLogEntry)]
      /\ rtspWire \in [RtspConns -> {"idle", "accepted", "open", "flush", "closing", "closed"}]
  BY <1>0, <1>2 DEF RtspShape
<1>4. /\ t = "cb" => rec \in RtspCbWork
      /\ t = "ctl" => rec \in RtspCtlWork /\ rec.at = "dropUdp"
      /\ rec.c = c /\ rec.next = th.next /\ rec.todo = th.todo
      /\ th.next = "subscribe" => rec.at = "subscribe"
      /\ th.next # "subscribe" => rec.at = "dropUdp" /\ rec.udp = rtsp[c].udp
  <2>1. rtsp[c].udp \in Nat
    BY <1>3 DEF RtspSessionType
  <2>2. CASE t = "cb"
    BY <1>2, <2>1, <2>2 DEF RtspCbWork, RtspWork, RtspCbAts, RtspReleases
  <2>3. CASE t = "ctl"
    BY <1>2, <2>1, <2>3 DEF RtspCtlWork, RtspWork, RtspReleases
  <2> QED
    BY <2>2, <2>3 DEF Threads
<1>5. rtsp' = rtsp \/ rtsp' = [rtsp EXCEPT ![c].udp = 0]
  BY DEF DropSub
<1>6. /\ rtsp' \in [RtspConns -> RtspSessionType]
      /\ \A d \in RtspConns \ {c} : rtsp'[d] = rtsp[d]
      /\ \A d \in RtspConns :
            /\ rtsp'[d].sub = rtsp[d].sub /\ rtsp'[d].timer = rtsp[d].timer /\ rtsp'[d].key = rtsp[d].key
            /\ rtsp'[d].start = rtsp[d].start /\ rtsp'[d].subStream = rtsp[d].subStream
            /\ rtsp'[d].auth = rtsp[d].auth /\ rtsp'[d].stream = rtsp[d].stream /\ rtsp'[d].state = rtsp[d].state
            /\ rtsp'[d].mode = rtsp[d].mode /\ rtsp'[d].udp \in {rtsp[d].udp, 0}
  <2>1. CASE rtsp' = rtsp
    BY <1>3, <2>1
  <2>2. CASE rtsp' = [rtsp EXCEPT ![c].udp = 0]
    BY <1>2, <1>3, <2>2 DEF RtspSessionType
  <2> QED
    BY <1>5, <2>1, <2>2
<1>7. /\ th.next = "subscribe" => rtsp' = rtsp
      /\ th.next # "subscribe" => rtsp'[c].udp = 0
  <2>1. CASE th.next = "subscribe"
    BY <2>1 DEF DropSub
  <2>2. CASE th.next # "subscribe"
    <3>1. rtsp' = [rtsp EXCEPT ![c].udp = 0]
      BY <2>2 DEF DropSub
    <3> QED
      BY <1>2, <1>3, <2>2, <3>1 DEF RtspSessionType
  <2> QED
    BY <2>1, <2>2
<1> HIDE DEF rec
<1>8. /\ RtspShape'
      /\ rtspThread'[t] = rec /\ \A u \in Threads \ {t} : rtspThread'[u] = rtspThread[u]
      /\ t = "cb" => Cb' = rec /\ RtspCtl' = RtspCtl
      /\ t = "ctl" => RtspCtl' = rec /\ Cb' = Cb
  BY <1>0, <1>1, <1>2, <1>3, <1>4, <1>6, RtspThreadStep
<1>9. (t = "cb" => th = Cb) /\ (t = "ctl" => th = RtspCtl)
  BY DEF Cb, RtspCtl
<1>10. t = "cb" \/ t = "ctl"
  BY DEF Threads
<1>11. (t = "cb" => Cb # Resting) /\ rec # Resting
  BY <1>1, <1>4, <1>9 DEF Resting
<1>12. rtspTable \subseteq RtspConns
  BY <1>0 DEF RtspShape
<1> HIDE DEF th, c
<1>13. RtspTypeOK'
  <2>1. \A d \in RtspConns : rtsp'[d].udp # 0 => rtsp'[d].mode = "udp"
    BY <1>0, <1>6 DEF RtspTypeOK
  <2> QED
    BY <1>0, <1>1, <1>2, <1>6, <2>1 DEF RtspTypeOK
<1>14. RtspRequestInv'
  BY <1>0, <1>1, <1>4, <1>8, <1>9, <1>10, <1>11 DEF RtspOwners, RtspRequestInv, RtspAnswering, Resting, c
<1>15. RtspPlace'
  BY <1>0, <1>1, <1>4, <1>8, <1>9, <1>10, <1>11 DEF RtspOwners, RtspPlace, Resting
<1>16. RtspFreed'
  <2>1. CASE t = "cb"
    <3>1. ASSUME NEW d \in RtspConns \ rtspRaced', RtspAnswering(d)'
          PROVE  /\ d = c /\ rtsp'[d].sub = 0 /\ rtsp'[d].timer = 0
                 /\ Cb'.at \in {"subscribe", "dropUdp"} /\ (Cb'.at = "dropUdp" => rtsp'[d].udp = 0)
      <4>1. d = c /\ RtspAnswering(d) /\ Cb.at = "dropSub"
        BY <1>1, <1>4, <1>8, <1>9, <1>11, <2>1, <3>1 DEF RtspAnswering, Resting, c
      <4>2. rtsp[d].sub = 0 /\ rtsp[d].timer = 0
        BY <1>0, <1>1, <3>1, <4>1 DEF RtspOwners, RtspFreed
      <4> QED
        BY <1>4, <1>6, <1>7, <1>8, <2>1, <4>1, <4>2
    <3> QED
      BY <3>1 DEF RtspFreed
  <2>2. CASE t = "ctl"
    BY <1>0, <1>1, <1>2, <1>8, <2>2 DEF RtspOwners, RtspRequestInv, RtspFreed, RtspAnswering, Resting
  <2> QED
    BY <1>10, <2>1, <2>2
<1>17. RtspStopInv'
  <2>1. CASE t = "cb"
    BY <1>0, <1>1, <1>2, <1>6, <1>8, <1>12, <2>1 DEF RtspOwners, RtspStopInv
  <2>2. CASE t = "ctl"
    <3>1. th.next # "subscribe"
      BY <1>2, <2>2 DEF RtspCtlWork, RtspWork
    <3>2. ASSUME NEW d \in rtspTable' \ rtspRaced'
          PROVE  d \in RtspCtl'.todo \/ (rtsp'[d].sub = 0 /\ rtsp'[d].timer = 0 /\ rtsp'[d].udp = 0)
      <4>1. d \in rtspTable \ rtspRaced /\ d \in RtspConns /\ rtspUp = "closing"
        BY <1>1, <1>2, <1>12, <2>2, <3>2
      <4>2. \/ d \in RtspCtl.todo
            \/ RtspCtl.c = d /\ rtsp[d].sub = 0 /\ rtsp[d].timer = 0
            \/ rtsp[d].sub = 0 /\ rtsp[d].timer = 0 /\ rtsp[d].udp = 0
        BY <1>0, <1>1, <1>9, <2>2, <4>1 DEF RtspOwners, RtspStopInv
      <4> QED
        BY <1>4, <1>6, <1>7, <1>8, <1>9, <2>2, <3>1, <4>1, <4>2 DEF c
    <3> QED
      BY <1>1, <1>2, <2>2, <3>2 DEF RtspStopInv
  <2> QED
    BY <1>10, <2>1, <2>2
<1>18. \A d \in RtspConns : Held(d) => Held(d)'
  BY <1>1, <1>8 DEF Held, Taking, c, th
<1>19. \A u \in Threads : u # t => rtspThread'[u] = rtspThread[u]
  BY <1>8
<1>20. SubscriptionsOwned'
  BY <1>0, <1>1, <1>6, <1>18, <1>19 DEF RtspOwned, SubscriptionsOwned, th, c
<1>21. SendTimersOwned'
  BY <1>0, <1>1, <1>6, <1>18, <1>19 DEF RtspOwned, SendTimersOwned, th, c
<1>22. UdpOwned'
  <2>1. ASSUME NEW d \in RtspConns \ rtspRaced, d = c, NEW n \in 1 .. MaxRtspRequests, rtsp[d].udp = n
        PROVE  \/ rtsp'[d].udp = n /\ Held(d)'
               \/ rtspThread'[t].at = "dropUdp" /\ rtspThread'[t].c = d /\ rtspThread'[t].udp = n
    <3>1. CASE th.next # "subscribe"
      BY <1>4, <1>8, <2>1, <3>1
    <3>2. CASE th.next = "subscribe"
      <4>1. t = "cb"
        BY <1>2, <1>10, <3>2 DEF RtspCtlWork, RtspWork
      <4>2. RtspAnswering(d)
        BY <1>9, <1>11, <2>1, <3>2, <4>1 DEF RtspAnswering, c
      <4>3. d \in rtspTable
        BY <1>0, <1>2, <2>1, <4>2 DEF RtspOwners, RtspRequestInv
      <4> QED
        BY <1>1, <1>7, <2>1, <3>2, <4>3 DEF Held
    <3> QED
      BY <3>1, <3>2
  <2>2. ASSUME NEW d \in RtspConns \ rtspRaced, NEW n \in 1 .. MaxRtspRequests, <<d, n>> \in rtspUdp
        PROVE  \/ rtsp'[d].udp = n
                   /\ (Held(d)' \/ \E u \in Threads : rtspThread'[u].at = "dropSub" /\ rtspThread'[u].c = d)
               \/ \E u \in Threads : /\ rtspThread'[u].at = "dropUdp"
                                     /\ rtspThread'[u].c = d /\ rtspThread'[u].udp = n
    <3>1. CASE rtsp[d].udp = n
               /\ (Held(d) \/ \E u \in Threads : rtspThread[u].at = "dropSub" /\ rtspThread[u].c = d)
      <4>1. CASE d = c
        BY <2>1, <2>2, <3>1, <4>1
      <4>2. CASE d # c
        BY <1>6, <1>18, <1>19, <2>2, <3>1, <4>2 DEF c, th
      <4> QED
        BY <4>1, <4>2
    <3>2. CASE \E u \in Threads : rtspThread[u].at = "dropUdp" /\ rtspThread[u].c = d /\ rtspThread[u].udp = n
      BY <1>1, <1>19, <3>2 DEF th
    <3> QED
      BY <1>0, <2>2, <3>1, <3>2 DEF RtspOwned, UdpOwned
  <2> QED
    BY <1>1, <2>2 DEF UdpOwned
<1>23. RtspDelivery' /\ RtspSent'
  <2>1. \/ Cb' = Resting
        \/ /\ Cb # Resting /\ Cb'.c = Cb.c /\ Cb'.next = Cb.next
           /\ (Cb'.at \in RtspFresh => Cb.at \in RtspFresh)
           /\ (Cb'.at = "store" => Cb'.sub = rtspAsked[Cb.c])
    <3>1. CASE t = "cb"
      BY <1>1, <1>4, <1>8, <1>9, <1>11, <3>1 DEF RtspFresh, c
    <3>2. CASE t = "ctl"
      BY <1>0, <1>8, <3>2 DEF RtspDelivery, RtspNumbers, Resting
    <3> QED
      BY <1>10, <3>1, <3>2
  <2> QED
    BY <1>0, <1>1, <1>6, <2>1, RtspDeliverySame
<1> QED
  BY <1>8, <1>13, <1>14, <1>15, <1>16, <1>17, <1>20, <1>21, <1>22, <1>23 DEF RtspInv, RtspOwners, RtspOwned

\* It closes the UDP sockets it took.
LEMMA RtspDropUdpPreserves ==
    ASSUME RtspInv, NEW t \in Threads, DropUdp(t)
    PROVE  RtspInv'
<1> DEFINE th == rtspThread[t]
           c == th.c
           rec == [th EXCEPT !.at = th.next]
<1>0. RtspShape /\ RtspTypeOK /\ RtspOwners /\ RtspOwned /\ RtspDelivery /\ RtspSent
  BY DEF RtspInv
<1>1. /\ UNCHANGED <<rtspUp, rtspAuth, rtspWire, rtspTable, rtsp, rtspSender, rtspSubs, rtspTimers, rtspAsked,
                     rtspGranted, rtspLog, rtspRaced>>
      /\ th.at = "dropUdp" /\ rtspThread' = [rtspThread EXCEPT ![t] = rec]
      /\ rtspUdp' = rtspUdp \ {<<c, th.udp>>}
  BY DEF DropUdp, At, UdpClosed
<1>2. /\ t = "cb" => th \in RtspCbWork
      /\ t = "ctl" => th \in RtspCtlWork /\ rtspUp = "closing"
      /\ c \in RtspConns
  BY <1>0, <1>1, RtspReleasing DEF RtspReleases
<1>3. rtsp \in [RtspConns -> RtspSessionType]
      /\ rtspLog \in [RtspConns -> Seq(RtspLogEntry)]
      /\ rtspWire \in [RtspConns -> {"idle", "accepted", "open", "flush", "closing", "closed"}]
  BY <1>0 DEF RtspShape
<1>4. (t = "cb" => th = Cb) /\ (t = "ctl" => th = RtspCtl) /\ (t = "cb" \/ t = "ctl")
  BY DEF Cb, RtspCtl, Threads
<1>5. /\ t = "cb" => Cb # Resting /\ th.next \in {"done", "setup", "flush"}
      /\ t = "ctl" => th.next = "pick"
  <2>1. CASE t = "cb"
    <3>1. th # Resting
      BY <1>1 DEF Resting
    <3>2. th.next \in {"done", "setup", "subscribe", "flush"}
      BY <1>2, <2>1 DEF RtspCbWork, RtspWork
    <3> QED
      BY <1>0, <1>1, <1>4, <2>1, <3>1, <3>2 DEF RtspOwners, RtspPlace
  <2>2. CASE t = "ctl"
    BY <1>2, <2>2 DEF RtspCtlWork, RtspWork
  <2> QED
    BY <1>4, <2>1, <2>2
<1>6. /\ t = "cb" => rec \in RtspCbWork
      /\ t = "ctl" => rec \in RtspCtlWork
      /\ rec.at = th.next /\ rec.c = c /\ rec.next = th.next /\ rec.todo = th.todo
  <2>2. CASE t = "cb"
    BY <1>2, <1>5, <2>2 DEF RtspCbWork, RtspWork, RtspCbAts, RtspReleases
  <2>3. CASE t = "ctl"
    BY <1>2, <1>5, <2>3 DEF RtspCtlWork, RtspWork, RtspReleases
  <2> QED
    BY <1>4, <2>2, <2>3
<1> HIDE DEF rec
<1>8. /\ RtspShape'
      /\ rtspThread'[t] = rec /\ \A u \in Threads \ {t} : rtspThread'[u] = rtspThread[u]
      /\ t = "cb" => Cb' = rec /\ RtspCtl' = RtspCtl
      /\ t = "ctl" => RtspCtl' = rec /\ Cb' = Cb
  BY <1>0, <1>1, <1>2, <1>3, <1>6, RtspThreadStep
<1>11. rec # Resting
  BY <1>4, <1>5, <1>6 DEF Resting
<1>12. rtspTable \subseteq RtspConns
  BY <1>0 DEF RtspShape
<1> HIDE DEF th, c
<1>13. RtspTypeOK'
  BY <1>0, <1>1 DEF RtspTypeOK
<1>14. RtspRequestInv'
  BY <1>0, <1>1, <1>4, <1>5, <1>6, <1>8, <1>11 DEF RtspOwners, RtspRequestInv, RtspAnswering, Resting, c
<1>15. RtspPlace'
  BY <1>0, <1>1, <1>4, <1>5, <1>6, <1>8, <1>11 DEF RtspOwners, RtspPlace, Resting
<1>16. RtspFreed'
  <2>1. CASE t = "cb"
    <3>1. ASSUME NEW d \in RtspConns \ rtspRaced', RtspAnswering(d)'
          PROVE  rtsp'[d].sub = 0 /\ rtsp'[d].timer = 0 /\ rtsp'[d].udp = 0
      <4>1. RtspAnswering(d) /\ Cb.at = "dropUdp"
        BY <1>1, <1>4, <1>5, <1>6, <1>8, <2>1, <3>1 DEF RtspAnswering, Resting, c
      <4> QED
        BY <1>0, <1>1, <3>1, <4>1 DEF RtspOwners, RtspFreed
    <3> QED
      BY <3>1 DEF RtspFreed
  <2>2. CASE t = "ctl"
    BY <1>0, <1>1, <1>2, <1>8, <2>2 DEF RtspOwners, RtspRequestInv, RtspFreed, RtspAnswering, Resting
  <2> QED
    BY <1>4, <2>1, <2>2
<1>17. RtspStopInv'
  <2>1. CASE t = "cb"
    BY <1>0, <1>1, <1>2, <1>8, <2>1 DEF RtspOwners, RtspStopInv
  <2>2. CASE t = "ctl"
    BY <1>0, <1>1, <1>2, <1>4, <1>6, <1>8, <2>2 DEF RtspOwners, RtspStopInv
  <2> QED
    BY <1>4, <2>1, <2>2
<1>18. \A d \in RtspConns : Held(d) => Held(d)'
  BY <1>1, <1>8 DEF Held, Taking, c, th
<1>19. \A u \in Threads : u # t => rtspThread'[u] = rtspThread[u]
  BY <1>8
<1>20. SubscriptionsOwned'
  BY <1>0, <1>1, <1>18, <1>19 DEF RtspOwned, SubscriptionsOwned, th, c
<1>21. SendTimersOwned'
  BY <1>0, <1>1, <1>18, <1>19 DEF RtspOwned, SendTimersOwned, th, c
<1>22. UdpOwned'
  BY <1>0, <1>1, <1>18, <1>19 DEF RtspOwned, UdpOwned, th, c
<1>23. RtspDelivery' /\ RtspSent'
  <2>1. \/ Cb' = Resting
        \/ /\ Cb # Resting /\ Cb'.c = Cb.c /\ Cb'.next = Cb.next
           /\ (Cb'.at \in RtspFresh => Cb.at \in RtspFresh)
           /\ (Cb'.at = "store" => Cb'.sub = rtspAsked[Cb.c])
    <3>1. CASE t = "cb"
      BY <1>1, <1>4, <1>5, <1>6, <1>8, <1>11, <3>1 DEF RtspFresh, c
    <3>2. CASE t = "ctl"
      BY <1>0, <1>8, <3>2 DEF RtspDelivery, RtspNumbers, Resting
    <3> QED
      BY <1>4, <3>1, <3>2
  <2> QED
    BY <1>0, <1>1, <2>1, RtspDeliverySame
<1> QED
  BY <1>8, <1>13, <1>14, <1>15, <1>16, <1>17, <1>20, <1>21, <1>22, <1>23 DEF RtspInv, RtspOwners, RtspOwned

\* What is known of a callback in the middle of a request.
LEMMA RtspCbFacts ==
    ASSUME RtspInv, Cb.at \in {"setup", "subscribe", "store", "timer", "keep", "flush"}
    PROVE  /\ Cb # Resting /\ Cb \in RtspCbWork /\ Cb.c \in RtspConns /\ Cb.next # "done"
           /\ Cb.at \in {"subscribe", "store", "timer", "keep"} => Cb.next = "subscribe"
           /\ Cb.c \notin rtspRaced =>
                 /\ rtspUp = "on" /\ Cb.c \in rtspTable /\ RtspCtl.at = "idle"
                 /\ Cb.at \in {"setup", "subscribe", "store"} => rtsp[Cb.c].sub = 0
                 /\ Cb.at \in {"setup", "subscribe", "store", "timer", "keep"} => rtsp[Cb.c].timer = 0
                 /\ Cb.at = "setup" => rtsp[Cb.c].udp = 0
           /\ \A d \in RtspConns : rtsp[d].sub \in Nat /\ rtsp[d].timer \in Nat /\ rtsp[d].udp \in Nat
<1>0. RtspShape /\ RtspOwners
  BY DEF RtspInv
<1>1. Cb # Resting /\ Cb \in RtspCbWork
  BY <1>0 DEF RtspShape, Resting
<1>2. Cb.c \in RtspConns
  BY <1>1 DEF RtspCbWork, RtspWork
<1>3. Cb.next # "done" /\ (Cb.at \in {"subscribe", "store", "timer", "keep"} => Cb.next = "subscribe")
  BY <1>0, <1>1 DEF RtspOwners, RtspPlace
<1>4. RtspAnswering(Cb.c)
  BY <1>1, <1>3 DEF RtspAnswering
<1>5. Cb.c \notin rtspRaced => rtspUp = "on" /\ Cb.c \in rtspTable
  BY <1>0, <1>2, <1>4 DEF RtspOwners, RtspRequestInv
<1>6. rtspUp = "on" => RtspCtl.at = "idle"
  BY <1>0, RtspThreadFacts
<1>7. Cb.c \notin rtspRaced =>
                 /\ Cb.at \in {"setup", "subscribe", "store"} => rtsp[Cb.c].sub = 0
                 /\ Cb.at \in {"setup", "subscribe", "store", "timer", "keep"} => rtsp[Cb.c].timer = 0
                 /\ Cb.at = "setup" => rtsp[Cb.c].udp = 0
  BY <1>0, <1>2, <1>4 DEF RtspOwners, RtspFreed
<1>8. \A d \in RtspConns : rtsp[d].sub \in Nat /\ rtsp[d].timer \in Nat /\ rtsp[d].udp \in Nat
  BY <1>0 DEF RtspShape, RtspSessionType
<1> QED
  BY <1>1, <1>2, <1>3, <1>5, <1>6, <1>7, <1>8

\* The step of a request after the release: who owns what in the session.
LEMMA RtspCbOwners ==
    ASSUME RtspShape, RtspOwners, NEW c \in RtspConns, Cb # Resting, Cb.c = c, Cb.next # "done",
           RtspCtl' = RtspCtl, UNCHANGED <<rtspUp, rtspTable, rtspRaced>>,
           \A d \in RtspConns \ {c} : rtsp'[d] = rtsp[d],
           \/ Cb' = Resting
           \/ /\ Cb' # Resting /\ Cb'.c = Cb.c /\ Cb'.next = "subscribe"
              /\ Cb'.at \in {"store", "timer", "keep"} /\ Cb.at \in {"subscribe", "store", "timer"}
              /\ rtsp'[c].timer = rtsp[c].timer
              /\ Cb'.at = "store" => Cb.at = "subscribe" /\ rtsp'[c].sub = rtsp[c].sub
    PROVE  RtspOwners'
<1>1. RtspAnswering(c) /\ (c \notin rtspRaced => rtspUp = "on" /\ c \in rtspTable)
  BY DEF RtspOwners, RtspRequestInv, RtspAnswering
<1>2. RtspRequestInv' /\ RtspPlace'
  BY <1>1 DEF RtspRequestInv, RtspPlace, RtspAnswering, Resting
<1>3. RtspFreed'
  <2>1. ASSUME NEW d \in RtspConns \ rtspRaced', RtspAnswering(d)'
        PROVE  /\ Cb'.at \in {"store", "timer", "keep"} /\ rtsp'[d].timer = 0
               /\ Cb'.at = "store" => rtsp'[d].sub = 0
    <3>1. d = c /\ d \notin rtspRaced /\ Cb' # Resting
      BY <2>1 DEF RtspAnswering, Resting
    <3> QED
      BY <1>1, <3>1 DEF RtspOwners, RtspFreed
  <2> QED
    BY <2>1 DEF RtspFreed
<1>4. RtspStopInv'
  <2>1. rtspTable \subseteq RtspConns
    BY DEF RtspShape
  <2> QED
    BY <1>1, <2>1 DEF RtspOwners, RtspStopInv
<1> QED
  BY <1>2, <1>3, <1>4 DEF RtspOwners

\* A thread that is not about to take a session keeps who is held.
LEMMA RtspCbHeld ==
    ASSUME Cb.at # "takeSub", RtspCtl' = RtspCtl, rtspTable' = rtspTable
    PROVE  \A d \in RtspConns : Held(d) => Held(d)'
BY DEF Held, Taking, Threads, Cb, RtspCtl

\* The callback loop is done with a lost connection.
LEMMA RtspCbDonePreserves ==
    ASSUME RtspInv, CbDone
    PROVE  RtspInv'
<1>0. RtspShape /\ RtspTypeOK /\ RtspOwners /\ RtspOwned /\ RtspDelivery /\ RtspSent
  BY DEF RtspInv
<1>1. /\ UNCHANGED <<rtspUp, rtspAuth, rtspWire, rtspTable, rtsp, rtspSender, rtspSubs, rtspTimers, rtspUdp, rtspAsked,
                     rtspGranted, rtspLog, rtspRaced>>
      /\ Cb.at = "done" /\ rtspThread' = [rtspThread EXCEPT !["cb"] = Resting]
  BY DEF CbDone, Becomes
<1>2. RtspShape' /\ Cb' = Resting /\ RtspCtl' = RtspCtl
  <2>1. "cb" \in Threads
    BY DEF Threads
  <2>2. /\ rtsp' \in [RtspConns -> RtspSessionType] /\ rtspLog' \in [RtspConns -> Seq(RtspLogEntry)]
        /\ rtspWire' \in [RtspConns -> {"idle", "accepted", "open", "flush", "closing", "closed"}]
    BY <1>0, <1>1 DEF RtspShape
  <2> QED
    BY <1>0, <1>1, <2>1, <2>2, RtspThreadStep
<1>3. RtspTypeOK'
  BY <1>0, <1>1 DEF RtspTypeOK
<1>4. RtspOwners'
  BY <1>0, <1>1, <1>2 DEF RtspOwners, RtspRequestInv, RtspPlace, RtspFreed, RtspStopInv, RtspAnswering, Resting
<1>5. \A d \in RtspConns : Held(d) => Held(d)'
  BY <1>1, <1>2, RtspCbHeld
<1>6. rtspThread["cb"].at = "done" /\ rtspThread'["ctl"] = rtspThread["ctl"]
  BY <1>1, <1>2 DEF Cb, RtspCtl
<1>7. RtspOwned'
  <2>1. SubscriptionsOwned'
    BY <1>0, <1>1, <1>5, <1>6 DEF RtspOwned, SubscriptionsOwned, Threads
  <2>2. SendTimersOwned'
    BY <1>0, <1>1, <1>5, <1>6 DEF RtspOwned, SendTimersOwned, Threads
  <2>3. UdpOwned'
    BY <1>0, <1>1, <1>5, <1>6 DEF RtspOwned, UdpOwned, Threads
  <2> QED
    BY <2>1, <2>2, <2>3 DEF RtspOwned
<1>8. RtspDelivery' /\ RtspSent'
  BY <1>0, <1>1, <1>2, RtspDeliverySame
<1> QED
  BY <1>2, <1>3, <1>4, <1>7, <1>8 DEF RtspInv

\* SETUP binds the new transport.
LEMMA RtspSetupPreserves ==
    ASSUME RtspInv, SetupSession
    PROVE  RtspInv'
<1> DEFINE c == Cb.c
           ready == [rtsp[c] EXCEPT !.state = "ready", !.stream = Cb.stream, !.mode = Cb.mode]
<1>0. RtspShape /\ RtspTypeOK /\ RtspOwners /\ RtspOwned /\ RtspDelivery /\ RtspSent
  BY DEF RtspInv
<1>1. /\ UNCHANGED <<rtspUp, rtspAuth, rtspWire, rtspTable, rtspSender, rtspSubs, rtspTimers, rtspAsked,
                     rtspGranted, rtspLog, rtspRaced>>
      /\ Cb.at = "setup" /\ rtspThread' = [rtspThread EXCEPT !["cb"] = Resting]
  BY DEF SetupSession, Becomes
<1>2. \/ Cb.mode = "tcp" /\ rtsp' = [rtsp EXCEPT ![c] = [ready EXCEPT !.udp = 0]] /\ UNCHANGED rtspUdp
      \/ Cb.mode = "udp" /\ rtsp' = [rtsp EXCEPT ![c] = [ready EXCEPT !.udp = rtspAsked[c]]]
         /\ rtspUdp' = rtspUdp \cup {<<c, rtspAsked[c]>>}
      \/ UNCHANGED <<rtsp, rtspUdp>>
  BY DEF SetupSession
<1>3. /\ Cb # Resting /\ Cb \in RtspCbWork /\ c \in RtspConns /\ Cb.next # "done"
      /\ c \notin rtspRaced =>
            rtspUp = "on" /\ c \in rtspTable /\ RtspCtl.at = "idle" /\ rtsp[c].udp = 0
  BY <1>1, RtspCbFacts
<1>4. Cb.stream \in RtspStreams /\ Cb.mode \in Modes
  BY <1>3 DEF RtspCbWork, RtspWork
<1>5. /\ rtsp \in [RtspConns -> RtspSessionType] /\ rtsp[c] \in RtspSessionType /\ rtspAsked[c] \in Nat
      /\ rtspLog' \in [RtspConns -> Seq(RtspLogEntry)]
      /\ rtspWire' \in [RtspConns -> {"idle", "accepted", "open", "flush", "closing", "closed"}]
  BY <1>0, <1>1, <1>3 DEF RtspShape
<1>6. /\ rtsp' \in [RtspConns -> RtspSessionType]
      /\ \A d \in RtspConns \ {c} : rtsp'[d] = rtsp[d]
      /\ rtsp'[c].sub = rtsp[c].sub /\ rtsp'[c].timer = rtsp[c].timer /\ rtsp'[c].key = rtsp[c].key
      /\ rtsp'[c].start = rtsp[c].start /\ rtsp'[c].subStream = rtsp[c].subStream
      /\ rtsp'[c].auth = rtsp[c].auth
      /\ \/ rtsp'[c].udp = 0 /\ rtspUdp' = rtspUdp
         \/ rtsp'[c].mode = "udp" /\ rtsp'[c].udp = rtspAsked[c] /\ rtspUdp' = rtspUdp \cup {<<c, rtspAsked[c]>>}
         \/ rtsp' = rtsp /\ rtspUdp' = rtspUdp
  <2>0. /\ ready \in RtspSessionType /\ [ready EXCEPT !.udp = 0] \in RtspSessionType
        /\ [ready EXCEPT !.udp = rtspAsked[c]] \in RtspSessionType
    BY <1>4, <1>5 DEF RtspSessionType
  <2>1. CASE Cb.mode = "tcp" /\ rtsp' = [rtsp EXCEPT ![c] = [ready EXCEPT !.udp = 0]] /\ UNCHANGED rtspUdp
    <3>1. rtsp'[c] = [ready EXCEPT !.udp = 0] /\ \A d \in RtspConns \ {c} : rtsp'[d] = rtsp[d]
      BY <1>3, <1>5, <2>1
    <3>2. rtsp' \in [RtspConns -> RtspSessionType]
      BY <1>5, <2>0, <2>1
    <3> QED
      BY <1>5, <2>1, <3>1, <3>2 DEF RtspSessionType
  <2>2. CASE Cb.mode = "udp" /\ rtsp' = [rtsp EXCEPT ![c] = [ready EXCEPT !.udp = rtspAsked[c]]]
             /\ rtspUdp' = rtspUdp \cup {<<c, rtspAsked[c]>>}
    <3>1. rtsp'[c] = [ready EXCEPT !.udp = rtspAsked[c]] /\ \A d \in RtspConns \ {c} : rtsp'[d] = rtsp[d]
      BY <1>3, <1>5, <2>2
    <3>2. rtsp' \in [RtspConns -> RtspSessionType]
      BY <1>5, <2>0, <2>2
    <3> QED
      BY <1>5, <2>2, <3>1, <3>2 DEF RtspSessionType
  <2>3. CASE UNCHANGED <<rtsp, rtspUdp>>
    BY <1>5, <2>3
  <2> QED
    BY <1>2, <2>1, <2>2, <2>3
<1> HIDE DEF c, ready
<1>7. RtspShape' /\ Cb' = Resting /\ RtspCtl' = RtspCtl
  <2>1. "cb" \in Threads
    BY DEF Threads
  <2> QED
    BY <1>0, <1>1, <1>5, <1>6, <2>1, RtspThreadStep
<1>8. RtspTypeOK'
  <2>1. \A d \in RtspConns : /\ rtsp'[d].state \in {"init", "ready", "playing", "closed"}
                             /\ rtsp'[d].stream \in RtspStreams /\ rtsp'[d].mode \in Modes
    BY <1>6 DEF RtspSessionType
  <2>2. \A d \in RtspConns : rtsp'[d].udp # 0 => rtsp'[d].mode = "udp"
    BY <1>0, <1>6 DEF RtspTypeOK
  <2> QED
    BY <1>0, <1>1, <2>1, <2>2 DEF RtspTypeOK
<1>9. RtspOwners'
  BY <1>0, <1>1, <1>3, <1>6, <1>7, RtspCbOwners DEF c
<1>10. \A d \in RtspConns : Held(d) => Held(d)'
  BY <1>1, <1>7, RtspCbHeld
<1>11. rtspThread["cb"].at = "setup" /\ rtspThread'["ctl"] = rtspThread["ctl"]
  BY <1>1, <1>7 DEF Cb, RtspCtl
<1>12. \A d \in RtspConns : rtsp'[d].sub = rtsp[d].sub /\ rtsp'[d].timer = rtsp[d].timer
  BY <1>6
<1>13. SubscriptionsOwned' /\ SendTimersOwned'
  <2>1. SubscriptionsOwned'
    BY <1>0, <1>1, <1>10, <1>11, <1>12 DEF RtspOwned, SubscriptionsOwned, Threads
  <2>2. SendTimersOwned'
    BY <1>0, <1>1, <1>10, <1>11, <1>12 DEF RtspOwned, SendTimersOwned, Threads
  <2> QED
    BY <2>1, <2>2
<1>14. UdpOwned'
  <2>1. ASSUME NEW n \in 1 .. MaxRtspRequests, NEW d \in RtspConns \ rtspRaced, <<d, n>> \in rtspUdp'
        PROVE  \/ rtsp'[d].udp = n
                   /\ (Held(d)' \/ \E u \in Threads : rtspThread'[u].at = "dropSub" /\ rtspThread'[u].c = d)
               \/ \E u \in Threads : /\ rtspThread'[u].at = "dropUdp"
                                     /\ rtspThread'[u].c = d /\ rtspThread'[u].udp = n
    <3>1. CASE d # c
      <4>1. <<d, n>> \in rtspUdp /\ rtsp'[d].udp = rtsp[d].udp
        BY <1>6, <2>1, <3>1
      <4> QED
        BY <1>0, <1>10, <1>11, <2>1, <4>1 DEF RtspOwned, UdpOwned, Threads
    <3>2. CASE d = c
      <4>1. rtspUp = "on" /\ d \in rtspTable /\ rtspThread["ctl"].at = "idle" /\ rtsp[d].udp = 0
        BY <1>3, <2>1, <3>2 DEF RtspCtl
      <4>2. <<d, n>> \notin rtspUdp
        BY <1>0, <1>11, <2>1, <4>1 DEF RtspOwned, UdpOwned, Threads
      <4>3. Held(d)'
        BY <1>1, <4>1 DEF Held
      <4> QED
        BY <1>6, <2>1, <3>2, <4>2, <4>3
    <3> QED
      BY <3>1, <3>2
  <2> QED
    BY <1>1, <2>1 DEF UdpOwned
<1>15. RtspDelivery' /\ RtspSent'
  <2>0. rtspSender # SenderIdle => rtspSender.c \in RtspConns
    BY <1>0 DEF RtspShape, RtspSending
  <2>1. \A d \in RtspConns : /\ rtsp'[d].sub = rtsp[d].sub /\ rtsp'[d].subStream = rtsp[d].subStream
                             /\ rtsp'[d].key = rtsp[d].key /\ rtsp'[d].start = rtsp[d].start
                             /\ rtsp'[d].auth = rtsp[d].auth
    BY <1>6
  <2>2. RtspNumbers'
    BY <1>0, <1>1, <1>7, <2>0, <2>1 DEF RtspDelivery, RtspNumbers, RtspAnswering, Resting
  <2>3. RtspStartInv' /\ RtspSenderInv' /\ RtspKeyInv'
    BY <1>0, <1>1, <2>1 DEF RtspDelivery, RtspStartInv, RtspSenderInv, RtspKeyInv, RtspKeySent, RtspPassed
  <2>4. RtspGrantInv'
    BY <1>0, <1>1, <1>7, <2>1 DEF RtspDelivery, RtspGrantInv, Resting
  <2>5. RtspSent'
    BY <1>0, <1>1, <2>1 DEF RtspSent, StartsWithKeyframe, StartBeforeLive, OnlyAuthorized
  <2> QED
    BY <2>2, <2>3, <2>4, <2>5 DEF RtspDelivery
<1> QED
  BY <1>7, <1>8, <1>9, <1>13, <1>14, <1>15 DEF RtspInv, RtspOwned

\* PLAY subscribes, or is refused.
LEMMA RtspSubscribePreserves ==
    ASSUME RtspInv, SubscribeSession
    PROVE  RtspInv'
<1> DEFINE c == Cb.c
           n0 == rtspAsked[c]
           rec == [Cb EXCEPT !.at = "store", !.sub = n0]
<1>0. RtspShape /\ RtspTypeOK /\ RtspOwners /\ RtspOwned /\ RtspDelivery /\ RtspSent
  BY DEF RtspInv
<1>1. /\ UNCHANGED <<rtspUp, rtspAuth, rtspWire, rtspTable, rtsp, rtspSender, rtspTimers, rtspUdp, rtspAsked,
                     rtspGranted, rtspLog, rtspRaced>>
      /\ Cb.at = "subscribe"
      /\ \/ rtspSubs' = rtspSubs \cup {<<c, n0>>} /\ rtspThread' = [rtspThread EXCEPT !["cb"] = rec]
         \/ rtspSubs' = rtspSubs /\ rtspThread' = [rtspThread EXCEPT !["cb"] = Resting]
  BY DEF SubscribeSession, Becomes
<1>3. Cb # Resting /\ Cb \in RtspCbWork /\ c \in RtspConns /\ Cb.next = "subscribe" /\ Cb.next # "done"
  BY <1>1, RtspCbFacts
<1>4. n0 \in Nat /\ rtspAsked'[c] = n0
  BY <1>0, <1>1, <1>3 DEF RtspShape
<1>5. /\ rec \in RtspCbWork /\ rec # Resting /\ rec.at = "store" /\ rec.c = c /\ rec.next = "subscribe" /\ rec.sub = n0
  BY <1>3, <1>4 DEF RtspCbWork, RtspWork, RtspCbAts, Resting
<1>6. /\ rtsp' \in [RtspConns -> RtspSessionType] /\ rtspLog' \in [RtspConns -> Seq(RtspLogEntry)]
      /\ rtspWire' \in [RtspConns -> {"idle", "accepted", "open", "flush", "closing", "closed"}]
      /\ "cb" \in Threads
  BY <1>0, <1>1 DEF RtspShape, Threads
<1> HIDE DEF rec, n0
<1>7. /\ RtspShape' /\ RtspCtl' = RtspCtl
      /\ \/ Cb' = rec /\ rtspSubs' = rtspSubs \cup {<<c, n0>>}
         \/ Cb' = Resting /\ rtspSubs' = rtspSubs
  <2>1. CASE rtspSubs' = rtspSubs \cup {<<c, n0>>} /\ rtspThread' = [rtspThread EXCEPT !["cb"] = rec]
    BY <1>0, <1>1, <1>5, <1>6, <2>1, RtspThreadStep
  <2>2. CASE rtspSubs' = rtspSubs /\ rtspThread' = [rtspThread EXCEPT !["cb"] = Resting]
    BY <1>0, <1>1, <1>6, <2>2, RtspThreadStep
  <2> QED
    BY <1>1, <2>1, <2>2
<1> HIDE DEF c
<1>8. RtspTypeOK'
  BY <1>0, <1>1 DEF RtspTypeOK
<1>9. RtspOwners'
  BY <1>0, <1>1, <1>3, <1>5, <1>7, RtspCbOwners DEF c
<1>10. \A d \in RtspConns : Held(d) => Held(d)'
  BY <1>1, <1>7, RtspCbHeld
<1>11. rtspThread["cb"].at = "subscribe" /\ rtspThread'["ctl"] = rtspThread["ctl"] /\ rtspThread'["cb"] = Cb'
  BY <1>1, <1>7 DEF Cb, RtspCtl
<1>12. SubscriptionsOwned'
  BY <1>0, <1>1, <1>5, <1>7, <1>10, <1>11 DEF RtspOwned, SubscriptionsOwned, Threads
<1>13. SendTimersOwned'
  BY <1>0, <1>1, <1>10, <1>11 DEF RtspOwned, SendTimersOwned, Threads
<1>14. UdpOwned'
  BY <1>0, <1>1, <1>10, <1>11 DEF RtspOwned, UdpOwned, Threads
<1>15. RtspDelivery' /\ RtspSent'
  <2>1. \/ Cb' = Resting
        \/ /\ Cb # Resting /\ Cb'.c = Cb.c /\ Cb'.next = Cb.next
           /\ (Cb'.at \in RtspFresh => Cb.at \in RtspFresh)
           /\ (Cb'.at = "store" => Cb'.sub = rtspAsked[Cb.c])
    BY <1>1, <1>3, <1>5, <1>7 DEF RtspFresh, c, n0
  <2> QED
    BY <1>0, <1>1, <2>1, RtspDeliverySame
<1> QED
  BY <1>7, <1>8, <1>9, <1>12, <1>13, <1>14, <1>15 DEF RtspInv, RtspOwned

\* PLAY stores the subscription and its start frames.
LEMMA RtspStorePreserves ==
    ASSUME RtspInv, StoreSubscription
    PROVE  RtspInv'
<1> DEFINE c == Cb.c
           n0 == Cb.sub
           str == rtsp[c].stream
           rec == [Cb EXCEPT !.at = "timer"]
<1> USE RtspLimits
<1>0. RtspShape /\ RtspTypeOK /\ RtspOwners /\ RtspOwned /\ RtspDelivery /\ RtspSent
  BY DEF RtspInv
<1>1. /\ UNCHANGED <<rtspUp, rtspAuth, rtspWire, rtspTable, rtspSender, rtspSubs, rtspTimers, rtspUdp, rtspAsked,
                     rtspGranted, rtspRaced>>
      /\ Cb.at = "store" /\ rtspThread' = [rtspThread EXCEPT !["cb"] = rec]
      /\ rtspLog' = [rtspLog EXCEPT ![c] = <<>>]
  BY DEF StoreSubscription, At, Cb
<1>2. PICK frames \in StartFrames(c, n0) :
         rtsp' = [rtsp EXCEPT ![c] = [rtsp[c] EXCEPT !.state = "playing", !.sub = n0,
                                          !.subStream = str, !.key = FALSE, !.start = frames]]
  BY DEF StoreSubscription
<1>3. /\ Cb # Resting /\ Cb \in RtspCbWork /\ c \in RtspConns /\ Cb.next = "subscribe" /\ Cb.next # "done"
      /\ c \notin rtspRaced =>
           rtspUp = "on" /\ c \in rtspTable /\ RtspCtl.at = "idle" /\ rtsp[c].sub = 0 /\ rtsp[c].timer = 0
  BY <1>1, RtspCbFacts
<1>4. /\ rtsp \in [RtspConns -> RtspSessionType] /\ rtsp[c] \in RtspSessionType /\ str \in RtspStreams
      /\ n0 \in Nat /\ rtspLog \in [RtspConns -> Seq(RtspLogEntry)] /\ str \in rtspGranted[c]
      /\ n0 = rtspAsked[c] /\ "cb" \in Threads
      /\ rtspWire' \in [RtspConns -> {"idle", "accepted", "open", "flush", "closing", "closed"}]
  <2>1. /\ rtsp \in [RtspConns -> RtspSessionType] /\ rtsp[c] \in RtspSessionType
        /\ rtspLog \in [RtspConns -> Seq(RtspLogEntry)] /\ "cb" \in Threads
        /\ rtspWire' \in [RtspConns -> {"idle", "accepted", "open", "flush", "closing", "closed"}]
    BY <1>0, <1>1, <1>3 DEF RtspShape, Threads
  <2>2. str \in RtspStreams
    BY <2>1 DEF RtspSessionType
  <2>3. n0 \in Nat
    BY <1>3 DEF RtspCbWork, RtspWork
  <2>4. str \in rtspGranted[c] /\ n0 = rtspAsked[c]
    BY <1>0, <1>1, <1>3 DEF RtspDelivery, RtspGrantInv, RtspNumbers
  <2> QED
    BY <2>1, <2>2, <2>3, <2>4
<1>5. /\ frames \in Seq(RtspStartFrame)
      /\ \A i \in DOMAIN frames : frames[i].sub = n0 /\ frames[i].stream = str
  <2> DEFINE k == [sub |-> n0, stream |-> str, key |-> TRUE]
             p == [sub |-> n0, stream |-> str, key |-> FALSE]
  <2>1. /\ k \in RtspStartFrame /\ k.sub = n0 /\ k.stream = str
        /\ p \in RtspStartFrame /\ p.sub = n0 /\ p.stream = str
    BY <1>3, <1>4 DEF RtspStartFrame
  <2>2. frames = <<>> \/ frames = <<k, p>>
    BY <1>2 DEF StartFrames
  <2> HIDE DEF k, p
  <2>3. CASE frames = <<>>
    BY <2>3
  <2>4. CASE frames = <<k, p>>
    <3>1. frames \in Seq(RtspStartFrame) /\ DOMAIN frames = 1 .. 2 /\ frames[1] = k /\ frames[2] = p
      BY <2>1, <2>4
    <3>2. \A i \in 1 .. 2 : i = 1 \/ i = 2
      OBVIOUS
    <3> QED
      BY <2>1, <3>1, <3>2
  <2> QED
    BY <2>2, <2>3, <2>4
<1>6. /\ rtsp' \in [RtspConns -> RtspSessionType]
      /\ \A d \in RtspConns \ {c} : rtsp'[d] = rtsp[d]
      /\ rtsp'[c].sub = n0 /\ rtsp'[c].subStream = str /\ rtsp'[c].key = FALSE /\ rtsp'[c].start = frames
      /\ rtsp'[c].timer = rtsp[c].timer /\ rtsp'[c].udp = rtsp[c].udp /\ rtsp'[c].mode = rtsp[c].mode
      /\ rtsp'[c].auth = rtsp[c].auth /\ rtsp'[c].stream = str
  <2> DEFINE r == [rtsp[c] EXCEPT !.state = "playing", !.sub = n0, !.subStream = str, !.key = FALSE, !.start = frames]
  <2>1. /\ r \in RtspSessionType /\ r.sub = n0 /\ r.subStream = str /\ r.key = FALSE /\ r.start = frames
        /\ r.timer = rtsp[c].timer /\ r.udp = rtsp[c].udp /\ r.mode = rtsp[c].mode
        /\ r.auth = rtsp[c].auth /\ r.stream = str
    BY <1>4, <1>5 DEF RtspSessionType
  <2> HIDE DEF r
  <2>2. rtsp' = [rtsp EXCEPT ![c] = r]
    BY <1>2 DEF r
  <2> QED
    BY <1>3, <1>4, <2>1, <2>2
<1>7. rec \in RtspCbWork /\ rec # Resting /\ rec.at = "timer" /\ rec.c = c /\ rec.next = "subscribe"
  BY <1>3 DEF RtspCbWork, RtspWork, RtspCbAts, Resting
<1>8. /\ rtspLog' \in [RtspConns -> Seq(RtspLogEntry)] /\ rtspLog'[c] = <<>>
      /\ \A d \in RtspConns \ {c} : rtspLog'[d] = rtspLog[d]
  BY <1>1, <1>3, <1>4
<1> HIDE DEF rec, n0, str
<1>9. RtspShape' /\ RtspCtl' = RtspCtl /\ Cb' = rec
  <2>1. rtspThread' = [rtspThread EXCEPT !["cb"] = rec]
        /\ UNCHANGED <<rtspUp, rtspAuth, rtspTable, rtspSender, rtspAsked, rtspGranted, rtspRaced>>
    BY <1>1
  <2>2. "cb" # "ctl"
    OBVIOUS
  <2>3. RtspShape /\ "cb" \in Threads /\ rec \in RtspCbWork
    BY <1>0, <1>4, <1>7
  <2>4. /\ rtspWire' \in [RtspConns -> {"idle", "accepted", "open", "flush", "closing", "closed"}]
        /\ rtsp' \in [RtspConns -> RtspSessionType] /\ rtspLog' \in [RtspConns -> Seq(RtspLogEntry)]
    BY <1>4, <1>6, <1>8
  <2> QED
    BY ONLY <2>1, <2>2, <2>3, <2>4, RtspThreadStep, Zenon
<1> HIDE DEF c
<1>10. RtspTypeOK'
  <2>1. \A d \in RtspConns : /\ rtsp'[d].state \in {"init", "ready", "playing", "closed"}
                             /\ rtsp'[d].stream \in RtspStreams /\ rtsp'[d].mode \in Modes
    BY <1>6 DEF RtspSessionType
  <2>2. \A d \in RtspConns : rtsp'[d].udp # 0 => rtsp'[d].mode = "udp"
    BY <1>0, <1>6 DEF RtspTypeOK
  <2>3. \A d \in RtspConns : Len(rtspLog'[d]) <= MaxRtspFrames
    BY <1>0, <1>8 DEF RtspTypeOK
  <2> QED
    BY <1>0, <1>1, <2>1, <2>2, <2>3 DEF RtspTypeOK
<1>11. RtspOwners'
  BY <1>0, <1>1, <1>3, <1>6, <1>7, <1>9, RtspCbOwners DEF c
<1>12. \A d \in RtspConns : Held(d) => Held(d)'
  BY <1>1, <1>9, RtspCbHeld
<1>13. rtspThread["cb"].at = "store" /\ rtspThread["cb"].sub = n0 /\ rtspThread["cb"].c = c
       /\ rtspThread'["ctl"] = rtspThread["ctl"]
  BY <1>1, <1>9 DEF Cb, RtspCtl, n0, c
<1>14. SubscriptionsOwned'
  <2>1. ASSUME NEW d \in RtspConns \ rtspRaced, NEW n \in 1 .. MaxRtspRequests, <<d, n>> \in rtspSubs
        PROVE  \/ rtsp'[d].sub = n /\ Held(d)'
               \/ \E u \in Threads : /\ rtspThread'[u].at \in {"dropSub", "store"}
                                     /\ rtspThread'[u].c = d /\ rtspThread'[u].sub = n
    <3>1. CASE d # c
      BY <1>0, <1>6, <1>12, <1>13, <2>1, <3>1 DEF RtspOwned, SubscriptionsOwned, Threads
    <3>2. CASE d = c
      <4>1. d \in rtspTable /\ rtspThread["ctl"].at = "idle" /\ rtsp[d].sub = 0
        BY <1>3, <2>1, <3>2 DEF RtspCtl
      <4>2. n = n0
        BY <1>0, <1>13, <2>1, <4>1 DEF RtspOwned, SubscriptionsOwned, Threads
      <4>3. Held(d)'
        BY <1>1, <4>1 DEF Held
      <4> QED
        BY <1>6, <3>2, <4>2, <4>3
    <3> QED
      BY <3>1, <3>2
  <2> QED
    BY <1>1, <2>1 DEF SubscriptionsOwned
<1>15. \A d \in RtspConns : rtsp'[d].timer = rtsp[d].timer /\ rtsp'[d].udp = rtsp[d].udp
  BY <1>6
<1>16. SendTimersOwned'
  BY <1>0, <1>1, <1>12, <1>13, <1>15 DEF RtspOwned, SendTimersOwned, Threads
<1>17. UdpOwned'
  BY <1>0, <1>1, <1>12, <1>13, <1>15 DEF RtspOwned, UdpOwned, Threads
<1>18. /\ rtspSender # SenderIdle => rtspSender.c \in RtspConns
       /\ rtspSender # SenderIdle /\ rtspSender.c = c => rtspSender.seen # n0 /\ rtspSender.play # n0
       /\ n0 # 0
  <2>1. rtspSender # SenderIdle => rtspSender.c \in RtspConns /\ rtspSender.seen \in Nat /\ rtspSender.play \in Nat
    BY <1>0 DEF RtspShape, RtspSending
  <2>2. RtspAnswering(c) /\ Cb.at \in RtspFresh
    BY <1>1, <1>3 DEF RtspAnswering, RtspFresh, c
  <2>3. rtspSender # SenderIdle /\ rtspSender.c = c =>
           rtspSender.seen < rtspAsked[rtspSender.c] /\ rtspSender.play < rtspAsked[rtspSender.c]
    BY <1>0, <2>2 DEF RtspDelivery, RtspNumbers
  <2>4. rtsp[c].sub < rtspAsked[c] /\ rtsp[c].sub \in Nat
    BY <1>0, <1>3, <1>4, <2>2 DEF RtspDelivery, RtspNumbers, RtspSessionType
  <2> QED
    BY <1>4, <2>1, <2>3, <2>4
<1>19. RtspNumbers'
  <2>0. \A d \in RtspConns : rtsp[d].sub <= rtspAsked[d]
    BY <1>0 DEF RtspDelivery, RtspNumbers
  <2>3. rtsp'[c].sub <= rtspAsked'[c]
    BY <1>1, <1>4, <1>6
  <2>1. \A d \in RtspConns : rtsp'[d].sub <= rtspAsked'[d]
    BY <1>1, <1>6, <2>0, <2>3
  <2>2. Cb'.at = "timer"
    BY <1>7, <1>9
  <2> QED
    BY <1>0, <1>1, <2>1, <2>2 DEF RtspDelivery, RtspNumbers, RtspFresh
<1>20. RtspStartInv'
  <2>1. ASSUME NEW d \in RtspConns \ {c}
        PROVE  /\ rtsp'[d] = rtsp[d] /\ rtspLog'[d] = rtspLog[d] /\ rtspGranted'[d] = rtspGranted[d]
               /\ rtspSender' = rtspSender
    BY <1>1, <1>6, <1>8
  <2>2. DOMAIN rtspLog'[c] = {}
    BY <1>8
  <2>3. /\ \A i \in DOMAIN rtsp'[c].start :
              /\ rtsp'[c].start[i].sub = rtsp'[c].sub
              /\ rtsp'[c].start[i].stream \in rtspGranted'[c]
    BY <1>1, <1>4, <1>5, <1>6
  <2>4. /\ rtsp'[c].sub # 0
        /\ (rtspSender' # SenderIdle /\ rtspSender'.c = c) => rtspSender'.seen # rtsp'[c].sub
    BY <1>1, <1>6, <1>18
  <2> QED
    BY <1>0, <2>1, <2>2, <2>3, <2>4 DEF RtspDelivery, RtspStartInv
<1>21. RtspSenderInv'
  <2>1. CASE rtspSender # SenderIdle /\ rtspSender.c = c
    <3>1. Len(rtspLog[c]) \in Nat /\ Len(rtspLog[c]) < MaxRtspFrames
      BY <1>0, <1>3, <1>4, <2>1 DEF RtspDelivery, RtspSenderInv
    <3>2. Len(rtspLog'[c]) = 0 /\ DOMAIN rtspLog'[c] = {}
      BY <1>8
    <3> QED
      BY <1>0, <1>1, <2>1, <3>1, <3>2 DEF RtspDelivery, RtspSenderInv
  <2>2. CASE rtspSender # SenderIdle /\ rtspSender.c # c
    BY <1>0, <1>1, <1>8, <1>18, <2>2 DEF RtspDelivery, RtspSenderInv
  <2> QED
    BY <1>1, <2>1, <2>2 DEF RtspSenderInv
<1>22. RtspGrantInv'
  <2>1. ASSUME NEW d \in RtspConns
        PROVE  /\ rtsp'[d].auth # "none" => rtsp'[d].auth \in rtspGranted'[d]
               /\ rtsp'[d].sub # 0 => rtsp'[d].subStream \in rtspGranted'[d]
    <3>1. CASE d = c
      BY <1>0, <1>1, <1>4, <1>6, <3>1 DEF RtspDelivery, RtspGrantInv
    <3>2. CASE d # c
      BY <1>0, <1>1, <1>6, <1>8, <3>2 DEF RtspDelivery, RtspGrantInv
    <3> QED
      BY <3>1, <3>2
  <2>2. rtsp'[Cb'.c].stream \in rtspGranted'[Cb'.c]
    BY <1>1, <1>4, <1>6, <1>7, <1>9
  <2> QED
    BY <2>1, <2>2 DEF RtspGrantInv
<1>23. RtspSent'
  <2>1. DOMAIN rtspLog'[c] = {}
    BY <1>8
  <2>2. StartsWithKeyframe'
    <3>1. ASSUME NEW d \in RtspConns, rtsp'[d].sub # 0, NEW i \in DOMAIN rtspLog'[d]
          PROVE  \/ i = 1 /\ rtspLog'[d][i].play # rtsp'[d].sub
                 \/ /\ rtspLog'[d][i].play = rtsp'[d].sub
                    /\ \E j \in 1 .. i : rtspLog'[d][j].play = rtsp'[d].sub /\ rtspLog'[d][j].key
      <4>1. d # c /\ rtsp'[d] = rtsp[d] /\ rtspLog'[d] = rtspLog[d]
        BY <1>6, <1>8, <2>1, <3>1
      <4> QED
        BY <1>0, <3>1, <4>1 DEF RtspSent, StartsWithKeyframe
    <3> QED
      BY <3>1 DEF StartsWithKeyframe
  <2>3. StartBeforeLive'
    BY <1>0, <1>8, <2>1 DEF RtspSent, StartBeforeLive
  <2>4. OnlyAuthorized'
    BY <1>0, <1>1, <1>8, <2>1 DEF RtspSent, OnlyAuthorized
  <2> QED
    BY <2>2, <2>3, <2>4 DEF RtspSent
<1>24. RtspKeyInv'
  <2>0. PICK k : k = c
    OBVIOUS
  <2>1. k \in RtspConns /\ rtsp'[k].key = FALSE /\ rtspLog'[k] = <<>> /\ rtspSender' = rtspSender
    BY <1>1, <1>3, <1>6, <1>8, <2>0 DEF c
  <2>2. RtspPassed(k)' => rtspSender'.play # rtsp'[k].sub
    BY <1>6, <1>18, <2>0, <2>1 DEF RtspPassed, SenderIdle
  <2>3. ASSUME NEW d \in RtspConns, d # k
        PROVE  /\ rtsp'[d] = rtsp[d] /\ rtspLog'[d] = rtspLog[d]
               /\ (RtspPassed(d)' <=> RtspPassed(d)) /\ (RtspKeySent(d)' <=> RtspKeySent(d))
    BY <1>6, <1>8, <2>0, <2>1, <2>3 DEF RtspPassed, RtspKeySent
  <2>4. ASSUME NEW d \in RtspConns, rtsp'[d].sub # 0
        PROVE  /\ rtsp'[d].key => RtspKeySent(d)' \/ (RtspPassed(d)' /\ rtspSender'.play = rtsp'[d].sub /\ rtspSender'.key)
               /\ RtspPassed(d)' => IF rtspSender'.play = rtsp'[d].sub THEN rtspSender'.key \/ RtspKeySent(d)'
                                    ELSE rtspLog'[d] = <<>>
    <3>1. CASE d = k
      BY <2>1, <2>2, <3>1
    <3>2. CASE d # k
      BY <1>0, <2>1, <2>3, <2>4, <3>2 DEF RtspDelivery, RtspKeyInv
    <3> QED
      BY <3>1, <3>2
  <2> QED
    BY <2>4 DEF RtspKeyInv
<1> QED
  BY <1>9, <1>10, <1>11, <1>14, <1>16, <1>17, <1>19, <1>20, <1>21, <1>22, <1>23, <1>24
     DEF RtspInv, RtspOwned, RtspDelivery

\* The send timer starts, or the subscription goes again.
LEMMA RtspStartTimerPreserves ==
    ASSUME RtspInv, StartSendTimer
    PROVE  RtspInv'
<1> DEFINE c == Cb.c
           n0 == Cb.sub
           rec == [Cb EXCEPT !.at = "keep"]
<1>0. RtspShape /\ RtspTypeOK /\ RtspOwners /\ RtspOwned /\ RtspDelivery /\ RtspSent
  BY DEF RtspInv
<1>1. /\ UNCHANGED <<rtspUp, rtspAuth, rtspWire, rtspTable, rtspSender, rtspUdp, rtspAsked,
                     rtspGranted, rtspLog, rtspRaced>>
      /\ Cb.at = "timer"
  BY DEF StartSendTimer
<1>2. /\ Cb # Resting /\ Cb \in RtspCbWork /\ c \in RtspConns /\ Cb.next = "subscribe" /\ Cb.next # "done"
      /\ c \notin rtspRaced =>
           rtspUp = "on" /\ c \in rtspTable /\ RtspCtl.at = "idle" /\ rtsp[c].timer = 0
  BY <1>1, RtspCbFacts
<1>3. /\ rtsp \in [RtspConns -> RtspSessionType] /\ rtsp[c] \in RtspSessionType
      /\ rtspLog' \in [RtspConns -> Seq(RtspLogEntry)] /\ "cb" \in Threads
      /\ rtspWire' \in [RtspConns -> {"idle", "accepted", "open", "flush", "closing", "closed"}]
  BY <1>0, <1>1, <1>2 DEF RtspShape, Threads
<1>4. /\ rec \in RtspCbWork /\ rec # Resting /\ rec.at = "keep" /\ rec.c = c /\ rec.next = "subscribe"
      /\ rec.sub = n0
  BY <1>2 DEF RtspCbWork, RtspWork, RtspCbAts, Resting
<1>5. CASE /\ rtspTimers' = rtspTimers \cup {<<c, n0>>} /\ rtspThread' = [rtspThread EXCEPT !["cb"] = rec]
           /\ UNCHANGED <<rtsp, rtspSubs>>
  <2> HIDE DEF rec
  <2>1. RtspShape' /\ RtspCtl' = RtspCtl /\ Cb' = rec
    BY <1>0, <1>1, <1>3, <1>4, <1>5, RtspThreadStep
  <2> HIDE DEF c, n0
  <2>2. RtspTypeOK'
    BY <1>0, <1>1, <1>5 DEF RtspTypeOK
  <2>3. RtspOwners'
    BY <1>0, <1>1, <1>2, <1>4, <1>5, <2>1, RtspCbOwners DEF c
  <2>4. \A d \in RtspConns : Held(d) => Held(d)'
    BY <1>1, <2>1, RtspCbHeld
  <2>5. rtspThread["cb"].at = "timer" /\ rtspThread'["ctl"] = rtspThread["ctl"] /\ rtspThread'["cb"] = rec
    BY <1>1, <2>1 DEF Cb, RtspCtl
  <2>6. SubscriptionsOwned' /\ UdpOwned'
    BY <1>0, <1>1, <1>5, <2>4, <2>5 DEF RtspOwned, SubscriptionsOwned, UdpOwned, Threads
  <2>7. SendTimersOwned'
    BY <1>0, <1>1, <1>4, <1>5, <2>4, <2>5 DEF RtspOwned, SendTimersOwned, Threads
  <2>8. RtspDelivery' /\ RtspSent'
    <3>1. /\ Cb # Resting /\ Cb'.c = Cb.c /\ Cb'.next = Cb.next
          /\ (Cb'.at \in RtspFresh => Cb.at \in RtspFresh)
          /\ (Cb'.at = "store" => Cb'.sub = rtspAsked[Cb.c])
      BY <1>1, <1>2, <1>4, <2>1 DEF RtspFresh, c
    <3> QED
      BY <1>0, <1>1, <1>5, <3>1, RtspDeliverySame
  <2> QED
    BY <2>1, <2>2, <2>3, <2>6, <2>7, <2>8 DEF RtspInv, RtspOwned
<1>6. CASE /\ rtspSubs' = rtspSubs \ {<<c, rtsp[c].sub>>}
           /\ rtsp' = [rtsp EXCEPT ![c] = [@ EXCEPT !.sub = 0, !.key = FALSE, !.start = <<>>]]
           /\ rtspThread' = [rtspThread EXCEPT !["cb"] = Resting] /\ UNCHANGED rtspTimers
  <2> HIDE DEF rec
  <2>1. /\ rtsp' \in [RtspConns -> RtspSessionType]
        /\ \A d \in RtspConns \ {c} : rtsp'[d] = rtsp[d]
        /\ rtsp'[c].sub = 0 /\ rtsp'[c].key = FALSE /\ rtsp'[c].start = <<>>
        /\ rtsp'[c].timer = rtsp[c].timer /\ rtsp'[c].udp = rtsp[c].udp /\ rtsp'[c].mode = rtsp[c].mode
        /\ rtsp'[c].auth = rtsp[c].auth /\ rtsp'[c].stream = rtsp[c].stream /\ rtsp'[c].state = rtsp[c].state
    <3> DEFINE r == [rtsp[c] EXCEPT !.sub = 0, !.key = FALSE, !.start = <<>>]
    <3>0. <<>> \in Seq(RtspStartFrame)
      OBVIOUS
    <3>1. /\ r \in RtspSessionType /\ r.sub = 0 /\ r.key = FALSE /\ r.start = <<>>
          /\ r.timer = rtsp[c].timer /\ r.udp = rtsp[c].udp /\ r.mode = rtsp[c].mode
          /\ r.auth = rtsp[c].auth /\ r.stream = rtsp[c].stream /\ r.state = rtsp[c].state
      BY <1>3, <3>0 DEF RtspSessionType
    <3>2. rtsp' = [rtsp EXCEPT ![c] = r]
      BY <1>6
    <3> HIDE DEF r
    <3> QED
      BY <1>2, <1>3, <3>1, <3>2
  <2>2. RtspShape' /\ RtspCtl' = RtspCtl /\ Cb' = Resting
    BY <1>0, <1>1, <1>3, <1>6, <2>1, RtspThreadStep
  <2> HIDE DEF c, n0
  <2>3. RtspTypeOK'
    BY <1>0, <1>1, <2>1 DEF RtspTypeOK
  <2>4. RtspOwners'
    BY <1>0, <1>1, <1>2, <2>1, <2>2, RtspCbOwners DEF c
  <2>5. \A d \in RtspConns : Held(d) => Held(d)'
    BY <1>1, <2>2, RtspCbHeld
  <2>6. rtspThread["cb"].at = "timer" /\ rtspThread'["ctl"] = rtspThread["ctl"]
    BY <1>1, <2>2 DEF Cb, RtspCtl
  <2>7. SubscriptionsOwned'
    BY <1>0, <1>1, <1>6, <2>1, <2>5, <2>6 DEF RtspOwned, SubscriptionsOwned, Threads
  <2>8. \A d \in RtspConns : rtsp'[d].timer = rtsp[d].timer /\ rtsp'[d].udp = rtsp[d].udp
    BY <2>1
  <2>9. SendTimersOwned' /\ UdpOwned'
    BY <1>0, <1>1, <1>6, <2>5, <2>6, <2>8 DEF RtspOwned, SendTimersOwned, UdpOwned, Threads
  <2>10. RtspDelivery' /\ RtspSent'
    BY <1>0, <1>1, <1>2, <2>1, <2>2, RtspDeliveryCleared
  <2> QED
    BY <2>2, <2>3, <2>4, <2>7, <2>9, <2>10 DEF RtspInv, RtspOwned
<1> QED
  BY <1>5, <1>6 DEF StartSendTimer, Becomes, At, Cb

\* The session stores its send timer.
LEMMA RtspKeepPreserves ==
    ASSUME RtspInv, KeepSendTimer
    PROVE  RtspInv'
<1> DEFINE c == Cb.c
           n0 == Cb.sub
<1>0. RtspShape /\ RtspTypeOK /\ RtspOwners /\ RtspOwned /\ RtspDelivery /\ RtspSent
  BY DEF RtspInv
<1>1. /\ UNCHANGED <<rtspUp, rtspAuth, rtspWire, rtspTable, rtspSender, rtspSubs, rtspTimers, rtspUdp, rtspAsked,
                     rtspGranted, rtspLog, rtspRaced>>
      /\ Cb.at = "keep" /\ rtspThread' = [rtspThread EXCEPT !["cb"] = Resting]
      /\ rtsp' = [rtsp EXCEPT ![c].timer = n0]
  BY DEF KeepSendTimer, Becomes
<1>2. /\ Cb # Resting /\ Cb \in RtspCbWork /\ c \in RtspConns /\ Cb.next = "subscribe" /\ Cb.next # "done"
      /\ c \notin rtspRaced =>
           rtspUp = "on" /\ c \in rtspTable /\ RtspCtl.at = "idle" /\ rtsp[c].timer = 0
  BY <1>1, RtspCbFacts
<1>3. /\ rtsp \in [RtspConns -> RtspSessionType] /\ rtsp[c] \in RtspSessionType /\ n0 \in Nat
      /\ rtspLog' \in [RtspConns -> Seq(RtspLogEntry)] /\ "cb" \in Threads
      /\ rtspWire' \in [RtspConns -> {"idle", "accepted", "open", "flush", "closing", "closed"}]
  <2>1. n0 \in Nat
    BY <1>2 DEF RtspCbWork, RtspWork
  <2> QED
    BY <1>0, <1>1, <1>2, <2>1 DEF RtspShape, Threads
<1>4. /\ rtsp' \in [RtspConns -> RtspSessionType]
      /\ \A d \in RtspConns \ {c} : rtsp'[d] = rtsp[d] /\ rtsp'[d].timer = rtsp[d].timer
      /\ rtsp'[c].timer = n0
      /\ \A d \in RtspConns :
            /\ rtsp'[d].sub = rtsp[d].sub /\ rtsp'[d].key = rtsp[d].key
            /\ rtsp'[d].start = rtsp[d].start /\ rtsp'[d].subStream = rtsp[d].subStream
            /\ rtsp'[d].auth = rtsp[d].auth /\ rtsp'[d].stream = rtsp[d].stream /\ rtsp'[d].state = rtsp[d].state
            /\ rtsp'[d].mode = rtsp[d].mode /\ rtsp'[d].udp = rtsp[d].udp
  BY <1>1, <1>2, <1>3 DEF RtspSessionType
<1>5. RtspShape' /\ RtspCtl' = RtspCtl /\ Cb' = Resting
  BY <1>0, <1>1, <1>3, <1>4, RtspThreadStep
<1> HIDE DEF c, n0
<1>6. RtspTypeOK'
  BY <1>0, <1>1, <1>4 DEF RtspTypeOK
<1>7. RtspOwners'
  BY <1>0, <1>1, <1>2, <1>4, <1>5, RtspCbOwners DEF c
<1>8. \A d \in RtspConns : Held(d) => Held(d)'
  BY <1>1, <1>5, RtspCbHeld
<1>9. /\ rtspThread["cb"].at = "keep" /\ rtspThread["cb"].c = c /\ rtspThread["cb"].sub = n0
      /\ rtspThread'["ctl"] = rtspThread["ctl"]
  BY <1>1, <1>5 DEF Cb, RtspCtl, c, n0
<1>10. SubscriptionsOwned' /\ UdpOwned'
  BY <1>0, <1>1, <1>4, <1>8, <1>9 DEF RtspOwned, SubscriptionsOwned, UdpOwned, Threads
<1>11. SendTimersOwned'
  <2>1. ASSUME NEW d \in RtspConns \ rtspRaced, NEW n \in 1 .. MaxRtspRequests, <<d, n>> \in rtspTimers
        PROVE  \/ rtsp'[d].timer = n /\ Held(d)'
               \/ \E u \in Threads :
                    /\ rtspThread'[u].at \in {"dropSub", "keep"} /\ rtspThread'[u].c = d
                    /\ n = IF rtspThread'[u].at = "keep" THEN rtspThread'[u].sub ELSE rtspThread'[u].timer
    <3>1. CASE d # c
      BY <1>0, <1>4, <1>8, <1>9, <2>1, <3>1 DEF RtspOwned, SendTimersOwned, Threads
    <3>2. CASE d = c
      <4>1. d \in rtspTable /\ rtspThread["ctl"].at = "idle" /\ rtsp[d].timer = 0
        BY <1>2, <2>1, <3>2 DEF RtspCtl
      <4>2. n = n0
        BY <1>0, <1>9, <2>1, <4>1 DEF RtspOwned, SendTimersOwned, Threads
      <4>3. Held(d)'
        BY <1>1, <4>1 DEF Held
      <4> QED
        BY <1>4, <3>2, <4>2, <4>3
    <3> QED
      BY <3>1, <3>2
  <2> QED
    BY <1>1, <2>1 DEF SendTimersOwned
<1>12. RtspDelivery' /\ RtspSent'
  BY <1>0, <1>1, <1>4, <1>5, RtspDeliverySame
<1> QED
  BY <1>5, <1>6, <1>7, <1>10, <1>11, <1>12 DEF RtspInv, RtspOwned

\* TEARDOWN asks for the connection to be closed once its answer is out.
LEMMA RtspCloseAfterTeardownPreserves ==
    ASSUME RtspInv, CloseAfterTeardown
    PROVE  RtspInv'
<1>0. RtspShape /\ RtspTypeOK /\ RtspOwners /\ RtspOwned /\ RtspDelivery /\ RtspSent
  BY DEF RtspInv
<1>1. /\ UNCHANGED <<rtspUp, rtspAuth, rtspTable, rtsp, rtspSender, rtspSubs, rtspTimers, rtspUdp, rtspAsked,
                     rtspGranted, rtspLog, rtspRaced>>
      /\ Cb.at = "flush" /\ rtspThread' = [rtspThread EXCEPT !["cb"] = Resting]
      /\ rtspWire' = [rtspWire EXCEPT ![Cb.c] = IF @ = "open" THEN "flush" ELSE @]
  BY DEF CloseAfterTeardown, Becomes
<1>2. Cb # Resting /\ Cb.c \in RtspConns /\ Cb.next # "done"
  BY <1>1, RtspCbFacts
<1>3. /\ rtsp' \in [RtspConns -> RtspSessionType] /\ rtspLog' \in [RtspConns -> Seq(RtspLogEntry)] /\ "cb" \in Threads
      /\ rtspWire' \in [RtspConns -> {"idle", "accepted", "open", "flush", "closing", "closed"}]
      /\ \A d \in RtspConns : rtspWire[d] \in {"open", "flush", "closing"} => rtspWire'[d] \in {"open", "flush", "closing"}
  BY <1>0, <1>1, <1>2 DEF RtspShape, Threads
<1>4. RtspShape' /\ RtspCtl' = RtspCtl /\ Cb' = Resting
  BY <1>0, <1>1, <1>3, RtspThreadStep
<1>5. RtspTypeOK'
  BY <1>0, <1>1, <1>3 DEF RtspTypeOK
<1>6. RtspOwners'
  BY <1>0, <1>1, <1>2, <1>4, RtspCbOwners
<1>7. \A d \in RtspConns : Held(d) => Held(d)'
  BY <1>1, <1>4, RtspCbHeld
<1>8. rtspThread["cb"].at = "flush" /\ rtspThread'["ctl"] = rtspThread["ctl"]
  BY <1>1, <1>4 DEF Cb, RtspCtl
<1>9. SubscriptionsOwned'
  BY <1>0, <1>1, <1>7, <1>8 DEF RtspOwned, SubscriptionsOwned, Threads
<1>10. SendTimersOwned'
  BY <1>0, <1>1, <1>7, <1>8 DEF RtspOwned, SendTimersOwned, Threads
<1>11. UdpOwned'
  BY <1>0, <1>1, <1>7, <1>8 DEF RtspOwned, UdpOwned, Threads
<1>12. RtspDelivery' /\ RtspSent'
  BY <1>0, <1>1, <1>4, RtspDeliverySame
<1> QED
  BY <1>4, <1>5, <1>6, <1>9, <1>10, <1>11, <1>12 DEF RtspInv, RtspOwned

\* A connection is accepted, or turned away when the table is full.
LEMMA RtspConnectionPreserves ==
    ASSUME NEW c \in RtspConns, RtspInv, OnRtspConnection(c)
    PROVE  RtspInv'
<1> USE RtspLimits
<1>0. RtspShape /\ RtspTypeOK /\ RtspOwners /\ RtspOwned /\ RtspDelivery /\ RtspSent
  BY DEF RtspInv
<1>1. /\ UNCHANGED <<rtspUp, rtspAuth, rtsp, rtspThread, rtspSender, rtspSubs, rtspTimers, rtspUdp, rtspAsked,
                     rtspGranted, rtspLog>>
      /\ Cb = Resting /\ rtspWire[c] = "accepted"
  BY DEF OnRtspConnection
<1>2. /\ rtspWire \in [RtspConns -> {"idle", "accepted", "open", "flush", "closing", "closed"}]
      /\ rtspTable \subseteq RtspConns /\ IsFiniteSet(rtspTable) /\ rtspRaced \subseteq RtspConns
  BY <1>0 DEF RtspShape
<1>3. /\ rtspWire' \in [RtspConns -> {"idle", "accepted", "open", "flush", "closing", "closed"}]
      /\ rtspWire'[c] \in {"open", "closing"} /\ \A d \in RtspConns \ {c} : rtspWire'[d] = rtspWire[d]
      /\ rtspTable' \subseteq RtspConns /\ rtspTable \subseteq rtspTable' /\ rtspTable' \subseteq rtspTable \cup {c}
      /\ rtspRaced \subseteq rtspRaced' /\ rtspRaced' \subseteq RtspConns
      /\ rtspUp # "on" => rtspTable' \ rtspRaced' \subseteq rtspTable \ rtspRaced
  BY <1>2 DEF OnRtspConnection
<1>4. IsFiniteSet(rtspTable') /\ Cardinality(rtspTable') <= RtspMaxSessions
  <2>1. Cardinality(rtspTable) \in Nat /\ Cardinality(rtspTable) <= RtspMaxSessions
    BY <1>0, <1>2, FS_CardinalityType DEF RtspTypeOK
  <2>2. CASE rtspTable' = rtspTable
    BY <1>2, <2>1, <2>2
  <2>3. CASE Cardinality(rtspTable) < RtspMaxSessions /\ rtspTable' = rtspTable \cup {c}
    BY <1>2, <2>1, <2>3, FS_AddElement
  <2> QED
    BY <2>2, <2>3 DEF OnRtspConnection
<1>5. Cb' = Cb /\ RtspCtl' = RtspCtl
  BY <1>1 DEF Cb, RtspCtl
<1>6. RtspShape'
  BY <1>0, <1>1, <1>3, <1>4, <1>5 DEF RtspShape, Resting
<1>7. RtspTypeOK'
  BY <1>0, <1>1, <1>3, <1>4 DEF RtspTypeOK
<1>8. RtspOwners'
  <2>1. RtspRequestInv' /\ RtspPlace' /\ RtspFreed'
    BY <1>1, <1>5 DEF RtspRequestInv, RtspPlace, RtspFreed, RtspAnswering, Resting
  <2>2. RtspStopInv'
    BY <1>0, <1>1, <1>3, <1>5 DEF RtspOwners, RtspStopInv
  <2> QED
    BY <2>1, <2>2 DEF RtspOwners
<1>9. \A d \in RtspConns : Held(d) => Held(d)'
  BY <1>1, <1>3 DEF Held, Taking
<1>10. SubscriptionsOwned'
  BY <1>0, <1>1, <1>3, <1>9 DEF RtspOwned, SubscriptionsOwned
<1>11. SendTimersOwned'
  BY <1>0, <1>1, <1>3, <1>9 DEF RtspOwned, SendTimersOwned
<1>12. UdpOwned'
  BY <1>0, <1>1, <1>3, <1>9 DEF RtspOwned, UdpOwned
<1>13. RtspDelivery' /\ RtspSent'
  <2>1. Cb' = Resting
    BY <1>1, <1>5
  <2> QED
    BY <1>0, <1>1, <2>1, RtspDeliverySame
<1> QED
  BY <1>6, <1>7, <1>8, <1>10, <1>11, <1>12, <1>13 DEF RtspInv, RtspOwned

\* A connection is lost: the callback loop is about to release its session.
LEMMA RtspClosedPreserves ==
    ASSUME NEW c \in RtspConns, RtspInv, OnConnectionClosed(c)
    PROVE  RtspInv'
<1> USE RtspLimits
<1>0. RtspShape /\ RtspTypeOK /\ RtspOwners /\ RtspOwned /\ RtspDelivery /\ RtspSent
  BY DEF RtspInv
<1>1. /\ UNCHANGED <<rtspUp, rtspAuth, rtsp, rtspSender, rtspSubs, rtspTimers, rtspUdp, rtspAsked,
                     rtspGranted, rtspLog, rtspRaced>>
      /\ Cb = Resting
      /\ rtspWire' = [rtspWire EXCEPT ![c] = "closed"] /\ rtspTable' = rtspTable \ {c}
      /\ IF c \in rtspTable THEN rtspThread' = [rtspThread EXCEPT !["cb"] = Releasing(c, "done")]
         ELSE rtspThread' = rtspThread
  BY DEF OnConnectionClosed, Removed, Becomes
<1>2. /\ rtspWire \in [RtspConns -> {"idle", "accepted", "open", "flush", "closing", "closed"}]
      /\ rtspTable \subseteq RtspConns /\ IsFiniteSet(rtspTable) /\ rtspThread = [u \in Threads |-> rtspThread[u]]
  BY <1>0 DEF RtspShape
<1>3. /\ rtspWire' \in [RtspConns -> {"idle", "accepted", "open", "flush", "closing", "closed"}]
      /\ \A d \in RtspConns \ {c} : rtspWire'[d] = rtspWire[d]
      /\ rtspTable' \subseteq RtspConns
  BY <1>1, <1>2
<1>4. IsFiniteSet(rtspTable') /\ Cardinality(rtspTable') <= RtspMaxSessions
  <2>1. Cardinality(rtspTable) \in Nat /\ Cardinality(rtspTable) <= RtspMaxSessions
    BY <1>0, <1>2, FS_CardinalityType DEF RtspTypeOK
  <2>2. IsFiniteSet(rtspTable') /\ Cardinality(rtspTable') <= Cardinality(rtspTable) /\ Cardinality(rtspTable') \in Nat
    BY <1>1, <1>2, FS_Subset, FS_CardinalityType
  <2> QED
    BY <2>1, <2>2
<1>5. /\ Releasing(c, "done") \in RtspCbWork /\ Releasing(c, "done").at = "takeSub"
      /\ Releasing(c, "done").c = c /\ Releasing(c, "done").next = "done"
  BY DEF Releasing, RtspCbWork, RtspWork, RtspCbAts, RtspReleases, RtspStreams, Modes
<1>6. /\ RtspCtl' = RtspCtl /\ rtspThread' = [u \in Threads |-> rtspThread'[u]]
      /\ c \notin rtspTable => Cb' = Resting
      /\ c \in rtspTable => /\ Cb' \in RtspCbWork /\ Cb'.at = "takeSub" /\ Cb'.c = c /\ Cb'.next = "done"
                            /\ Cb' # Resting
  <2>1. CASE c \in rtspTable
    <3>1. rtspThread' = [rtspThread EXCEPT !["cb"] = Releasing(c, "done")]
      BY <1>1, <2>1
    <3>2. Cb' = Releasing(c, "done") /\ RtspCtl' = RtspCtl /\ rtspThread' = [u \in Threads |-> rtspThread'[u]]
      BY <1>2, <3>1 DEF Cb, RtspCtl, Threads
    <3>3. Cb'.at # "idle"
      BY <1>5, <3>2
    <3> QED
      BY <1>5, <2>1, <3>2, <3>3 DEF Resting
  <2>2. CASE c \notin rtspTable
    BY <1>1, <1>2, <2>2 DEF Cb, RtspCtl, Resting
  <2> QED
    BY <2>1, <2>2
<1>7. RtspShape'
  BY <1>0, <1>1, <1>3, <1>4, <1>6 DEF RtspShape, Resting
<1>8. RtspTypeOK'
  BY <1>0, <1>1, <1>3, <1>4 DEF RtspTypeOK
<1>9. RtspOwners'
  <2>1. RtspRequestInv' /\ RtspPlace' /\ RtspFreed'
    BY <1>6 DEF RtspRequestInv, RtspPlace, RtspFreed, RtspAnswering, Resting
  <2>2. RtspStopInv'
    BY <1>0, <1>1, <1>6 DEF RtspOwners, RtspStopInv
  <2> QED
    BY <2>1, <2>2 DEF RtspOwners
<1>10. /\ rtspThread'["ctl"] = rtspThread["ctl"] /\ rtspThread["cb"].at = "idle"
       /\ c \in rtspTable => rtspThread'["cb"].at = "takeSub" /\ rtspThread'["cb"].c = c
  BY <1>1, <1>6 DEF RtspCtl, Cb, Resting
<1>11. \A d \in RtspConns : Held(d) => Held(d)'
  BY <1>1, <1>10 DEF Held, Taking, Threads
<1>12. SubscriptionsOwned'
  BY <1>0, <1>1, <1>10, <1>11 DEF RtspOwned, SubscriptionsOwned, Threads
<1>13. SendTimersOwned'
  BY <1>0, <1>1, <1>10, <1>11 DEF RtspOwned, SendTimersOwned, Threads
<1>14. UdpOwned'
  BY <1>0, <1>1, <1>10, <1>11 DEF RtspOwned, UdpOwned, Threads
<1>15. RtspDelivery' /\ RtspSent'
  <2>1. Cb' = Resting \/ (Cb' # Resting /\ Cb'.next = "done" /\ Cb'.at # "store")
    BY <1>6
  <2> QED
    BY <1>0, <1>1, <2>1, RtspDeliverySame
<1> QED
  BY <1>7, <1>8, <1>9, <1>12, <1>13, <1>14, <1>15 DEF RtspInv, RtspOwned

\* StopInternal() begins: it has the list of the sessions.
LEMMA RtspStopPreserves ==
    ASSUME RtspInv, StopRtsp
    PROVE  RtspInv'
<1> DEFINE rec == [at |-> "pick", todo |-> rtspTable, shut |-> rtspTable]
<1>0. RtspShape /\ RtspTypeOK /\ RtspOwners /\ RtspOwned /\ RtspDelivery /\ RtspSent
  BY DEF RtspInv
<1>1. /\ UNCHANGED <<rtspAuth, rtspWire, rtspTable, rtsp, rtspSender, rtspSubs, rtspTimers, rtspUdp, rtspAsked,
                     rtspGranted, rtspLog>>
      /\ rtspUp = "on" /\ rtspUp' = "closing" /\ rtspThread' = [rtspThread EXCEPT !["ctl"] = rec]
      /\ rtspRaced' = IF Cb = Resting THEN rtspRaced ELSE rtspRaced \cup {Cb.c}
  BY DEF StopRtsp, Becomes
<1>2. /\ rtspTable \subseteq RtspConns /\ rtspThread = [u \in Threads |-> rtspThread[u]] /\ rtspRaced \subseteq RtspConns
      /\ (Cb # Resting => Cb.c \in RtspConns) /\ RtspCtl.at = "idle"
  BY <1>0, <1>1, RtspThreadFacts DEF RtspShape
<1>3. rec \in RtspPicking /\ rec.at = "pick" /\ rec.todo = rtspTable
  BY <1>2 DEF RtspPicking
<1> HIDE DEF rec
<1>4. /\ rtspThread' = [u \in Threads |-> rtspThread'[u]] /\ Cb' = Cb /\ RtspCtl' = rec
  BY <1>1, <1>2 DEF Cb, RtspCtl, Threads
<1>5. rtspRaced \subseteq rtspRaced' /\ rtspRaced' \subseteq RtspConns /\ (Cb # Resting => Cb.c \in rtspRaced')
  BY <1>1, <1>2
<1>6. RtspShape'
  BY <1>0, <1>1, <1>3, <1>4, <1>5 DEF RtspShape, Resting
<1>7. RtspTypeOK'
  BY <1>0, <1>1 DEF RtspTypeOK
<1>8. RtspOwners'
  <2>1. RtspRequestInv' /\ RtspFreed'
    BY <1>4, <1>5 DEF RtspRequestInv, RtspFreed, RtspAnswering, Resting
  <2>2. RtspPlace'
    BY <1>0, <1>4 DEF RtspOwners, RtspPlace, Resting
  <2>3. RtspStopInv'
    BY <1>1, <1>3, <1>4 DEF RtspStopInv
  <2> QED
    BY <2>1, <2>2, <2>3 DEF RtspOwners
<1>9. rtspThread'["cb"] = rtspThread["cb"] /\ rtspThread["ctl"].at = "idle"
  BY <1>2, <1>4 DEF Cb, RtspCtl
<1>10. \A d \in RtspConns : Held(d) => Held(d)'
  BY <1>1, <1>9 DEF Held, Taking, Threads
<1>11. SubscriptionsOwned'
  BY <1>0, <1>1, <1>5, <1>9, <1>10 DEF RtspOwned, SubscriptionsOwned, Threads
<1>12. SendTimersOwned'
  BY <1>0, <1>1, <1>5, <1>9, <1>10 DEF RtspOwned, SendTimersOwned, Threads
<1>13. UdpOwned'
  BY <1>0, <1>1, <1>5, <1>9, <1>10 DEF RtspOwned, UdpOwned, Threads
<1>14. RtspDelivery' /\ RtspSent'
  <2>1. Cb # Resting /\ Cb.at = "store" => Cb.sub = rtspAsked[Cb.c]
    BY <1>0 DEF RtspDelivery, RtspNumbers
  <2> QED
    BY <1>0, <1>1, <1>4, <2>1, RtspDeliverySame
<1> QED
  BY <1>6, <1>7, <1>8, <1>11, <1>12, <1>13, <1>14 DEF RtspInv, RtspOwned

\* StopInternal() comes to the next session.
LEMMA RtspStopNextPreserves ==
    ASSUME RtspInv, StopNextSession
    PROVE  RtspInv'
<1>0. RtspShape /\ RtspTypeOK /\ RtspOwners /\ RtspOwned /\ RtspDelivery /\ RtspSent
  BY DEF RtspInv
<1>1. /\ UNCHANGED <<rtspUp, rtspAuth, rtspWire, rtspTable, rtsp, rtspSender, rtspSubs, rtspTimers, rtspUdp, rtspAsked,
                     rtspGranted, rtspLog, rtspRaced>>
      /\ RtspCtl.at = "pick"
  BY DEF StopNextSession, RtspCtl
<1>2. PICK c \in RtspCtl.todo :
         rtspThread' = [rtspThread EXCEPT !["ctl"] =
                           [Releasing(c, "pick") EXCEPT !.todo = RtspCtl.todo \ {c}, !.shut = RtspCtl.shut]]
  BY DEF StopNextSession, Becomes, RtspCtl
<1> DEFINE rec == [Releasing(c, "pick") EXCEPT !.todo = RtspCtl.todo \ {c}, !.shut = RtspCtl.shut]
<1>3. rtspUp = "closing" /\ RtspCtl.todo \subseteq RtspConns /\ RtspCtl.shut \subseteq RtspConns
  <2>1. rtspUp = "closing" /\ (RtspCtl \in RtspPicking \/ RtspCtl \in RtspCtlWork)
    BY <1>0, <1>1 DEF RtspShape, Resting
  <2> QED
    BY <2>1 DEF RtspPicking, RtspCtlWork, RtspWork
<1>4. rec \in RtspCtlWork /\ rec.at = "takeSub" /\ rec.c = c /\ rec.todo = RtspCtl.todo \ {c}
  BY <1>2, <1>3 DEF Releasing, RtspCtlWork, RtspWork, RtspReleases, RtspStreams, Modes
<1>5. /\ rtsp' \in [RtspConns -> RtspSessionType] /\ rtspLog' \in [RtspConns -> Seq(RtspLogEntry)] /\ "ctl" \in Threads
      /\ rtspWire' \in [RtspConns -> {"idle", "accepted", "open", "flush", "closing", "closed"}]
  BY <1>0, <1>1 DEF RtspShape, Threads
<1>6. rtspThread' = [rtspThread EXCEPT !["ctl"] = rec]
  BY <1>2
<1> HIDE DEF rec
<1>7. RtspShape' /\ RtspCtl' = rec /\ Cb' = Cb
  BY <1>0, <1>1, <1>3, <1>4, <1>5, <1>6, RtspThreadStep
<1>8. RtspTypeOK'
  BY <1>0, <1>1 DEF RtspTypeOK
<1>9. RtspOwners'
  <2>1. RtspRequestInv' /\ RtspPlace' /\ RtspFreed'
    BY <1>0, <1>1, <1>7 DEF RtspOwners, RtspRequestInv, RtspPlace, RtspFreed, RtspAnswering, Resting
  <2>2. RtspStopInv'
    BY <1>0, <1>1, <1>3, <1>4, <1>7 DEF RtspOwners, RtspStopInv
  <2> QED
    BY <2>1, <2>2 DEF RtspOwners
<1>10. rtspThread'["cb"] = rtspThread["cb"] /\ rtspThread["ctl"].at = "pick"
  BY <1>1, <1>7 DEF Cb, RtspCtl
<1>11. \A d \in RtspConns : Held(d) => Held(d)'
  BY <1>1, <1>10 DEF Held, Taking, Threads
<1>12. SubscriptionsOwned'
  BY <1>0, <1>1, <1>10, <1>11 DEF RtspOwned, SubscriptionsOwned, Threads
<1>13. SendTimersOwned'
  BY <1>0, <1>1, <1>10, <1>11 DEF RtspOwned, SendTimersOwned, Threads
<1>14. UdpOwned'
  BY <1>0, <1>1, <1>10, <1>11 DEF RtspOwned, UdpOwned, Threads
<1>15. RtspDelivery' /\ RtspSent'
  <2>1. Cb # Resting /\ Cb.at = "store" => Cb.sub = rtspAsked[Cb.c]
    BY <1>0 DEF RtspDelivery, RtspNumbers
  <2> QED
    BY <1>0, <1>1, <1>7, <2>1, RtspDeliverySame
<1> QED
  BY <1>7, <1>8, <1>9, <1>12, <1>13, <1>14, <1>15 DEF RtspInv, RtspOwned

\* StopInternal() ends: every session it listed was released.
LEMMA RtspStopClearsPreserves ==
    ASSUME RtspInv, StopClears
    PROVE  RtspInv'
<1> USE RtspLimits
<1>0. RtspShape /\ RtspTypeOK /\ RtspOwners /\ RtspOwned /\ RtspDelivery /\ RtspSent
  BY DEF RtspInv
<1>1. /\ UNCHANGED <<rtspAuth, rtsp, rtspSender, rtspSubs, rtspTimers, rtspUdp, rtspAsked, rtspGranted, rtspLog, rtspRaced>>
      /\ RtspCtl.at = "pick" /\ RtspCtl.todo = {} /\ rtspTable' = {} /\ rtspUp' = "off"
      /\ rtspThread' = [rtspThread EXCEPT !["ctl"] = Resting]
      /\ rtspWire' = [c \in RtspConns |->
              IF c \in RtspCtl.shut /\ rtspWire[c] \in {"open", "flush"} THEN "closing" ELSE rtspWire[c]]
  BY DEF StopClears, RtspCtl, Becomes
<1>2. rtspUp = "closing" /\ rtspThread = [u \in Threads |-> rtspThread[u]]
  BY <1>0, <1>1, RtspThreadFacts DEF RtspShape
<1>3. /\ rtspThread' = [u \in Threads |-> rtspThread'[u]] /\ Cb' = Cb /\ RtspCtl' = Resting
  BY <1>1, <1>2 DEF Cb, RtspCtl, Threads
<1>4. rtspWire' \in [RtspConns -> {"idle", "accepted", "open", "flush", "closing", "closed"}]
  BY <1>0, <1>1 DEF RtspShape
<1>5. IsFiniteSet(rtspTable') /\ Cardinality(rtspTable') = 0 /\ rtspTable' \subseteq RtspConns
  BY <1>1, FS_EmptySet
<1>6. RtspShape'
  BY <1>0, <1>1, <1>3, <1>4, <1>5 DEF RtspShape, Resting
<1>7. RtspTypeOK'
  BY <1>0, <1>1, <1>5 DEF RtspTypeOK
<1>8. RtspOwners'
  <2>1. \A d \in RtspConns \ rtspRaced : ~RtspAnswering(d)
    BY <1>0, <1>2 DEF RtspOwners, RtspRequestInv
  <2>2. RtspRequestInv' /\ RtspFreed'
    BY <1>1, <1>3, <2>1 DEF RtspRequestInv, RtspFreed, RtspAnswering, Resting
  <2>3. RtspPlace'
    BY <1>0, <1>3 DEF RtspOwners, RtspPlace, Resting
  <2>4. RtspStopInv'
    BY <1>1 DEF RtspStopInv
  <2> QED
    BY <2>2, <2>3, <2>4 DEF RtspOwners
<1>9. rtspThread'["cb"] = rtspThread["cb"] /\ rtspThread["ctl"].at = "pick"
  BY <1>1, <1>3 DEF Cb, RtspCtl
<1>10. \A d \in RtspConns \ rtspRaced : d \in rtspTable => rtsp[d].sub = 0 /\ rtsp[d].timer = 0 /\ rtsp[d].udp = 0
  BY <1>0, <1>1, <1>2 DEF RtspOwners, RtspStopInv
<1>11. \A d \in RtspConns : Held(d) => d \in rtspTable \/ Held(d)'
  BY <1>9 DEF Held, Taking, Threads
<1>12. SubscriptionsOwned'
  BY <1>0, <1>1, <1>9, <1>10, <1>11 DEF RtspOwned, SubscriptionsOwned, Threads
<1>13. SendTimersOwned'
  BY <1>0, <1>1, <1>9, <1>10, <1>11 DEF RtspOwned, SendTimersOwned, Threads
<1>14. UdpOwned'
  BY <1>0, <1>1, <1>9, <1>10, <1>11 DEF RtspOwned, UdpOwned, Threads
<1>15. RtspDelivery' /\ RtspSent'
  <2>1. Cb # Resting /\ Cb.at = "store" => Cb.sub = rtspAsked[Cb.c]
    BY <1>0 DEF RtspDelivery, RtspNumbers
  <2> QED
    BY <1>0, <1>1, <1>3, <2>1, RtspDeliverySame
<1> QED
  BY <1>6, <1>7, <1>8, <1>12, <1>13, <1>14, <1>15 DEF RtspInv, RtspOwned

\* Before RtspServer::Start nothing is open and the invariant holds.
LEMMA RtspInitInv ==
    ASSUME RtspInit
    PROVE  RtspInv
<1> USE RtspLimits
<1>1. NewRtspSession \in RtspSessionType
  <2>1. <<>> \in Seq(RtspStartFrame) /\ <<>> \in Seq(RtspLogEntry)
    OBVIOUS
  <2> QED
    BY <2>1 DEF NewRtspSession, RtspSessionType, RtspStreams, Modes
<1>2. IsFiniteSet(rtspTable) /\ Cardinality(rtspTable) = 0
  BY FS_EmptySet DEF RtspInit
<1>3. Cb = Resting /\ RtspCtl = Resting /\ rtspThread = [t \in Threads |-> rtspThread[t]]
  BY DEF RtspInit, Cb, RtspCtl, Threads
<1>4. \A c \in RtspConns : /\ rtsp[c].state = "init" /\ rtsp[c].stream \in RtspStreams /\ rtsp[c].mode \in Modes
                           /\ rtsp[c].udp = 0 /\ rtsp[c].sub = 0 /\ rtsp[c].timer = 0 /\ rtsp[c].key = FALSE
                           /\ rtsp[c].start = <<>> /\ rtsp[c].auth = "none" /\ rtspLog[c] = <<>> /\ rtspAsked[c] = 0
  BY DEF RtspInit, NewRtspSession, RtspStreams, Modes
<1>5. RtspShape
  BY <1>1, <1>2, <1>3 DEF RtspInit, RtspShape
<1>6. RtspTypeOK
  BY <1>2, <1>4 DEF RtspInit, RtspTypeOK
<1>7. RtspOwners
  BY <1>3 DEF RtspInit, RtspOwners, RtspRequestInv, RtspPlace, RtspFreed, RtspStopInv, RtspAnswering
<1>8. RtspOwned
  BY DEF RtspInit, RtspOwned, SubscriptionsOwned, SendTimersOwned, UdpOwned
<1>9. RtspDelivery
  <2>1. \A c \in RtspConns : DOMAIN rtsp[c].start = {}
    BY <1>4
  <2>2. rtspSender = SenderIdle
    BY DEF RtspInit
  <2>3. RtspNumbers
    BY <1>3, <1>4, <2>2 DEF RtspNumbers, RtspAnswering
  <2> QED
    BY <1>3, <1>4, <2>1, <2>2, <2>3 DEF RtspDelivery, RtspStartInv, RtspSenderInv, RtspKeyInv, RtspGrantInv
<1>10. RtspSent
  <2>1. \A c \in RtspConns : DOMAIN rtspLog[c] = {}
    BY <1>4
  <2> QED
    BY <1>4, <2>1 DEF RtspSent, StartsWithKeyframe, StartBeforeLive, OnlyAuthorized
<1> QED
  BY <1>5, <1>6, <1>7, <1>8, <1>9, <1>10 DEF RtspInv

\* Every step of the server, its clients and its controller keeps the invariant.
LEMMA RtspNextPreserves ==
    ASSUME RtspInv, [RtspNext]_rtspVars
    PROVE  RtspInv'
<1>1. CASE UNCHANGED rtspVars
  <2>1. UNCHANGED <<rtspUp, rtspAuth, rtspWire, rtspTable, rtsp, rtspThread, rtspSender, rtspSubs,
                    rtspTimers, rtspUdp, rtspAsked, rtspGranted, rtspLog, rtspRaced>>
    BY <1>1 DEF rtspVars
  <2>2. Cb' = Cb /\ RtspCtl' = RtspCtl /\ RtspShape /\ RtspOwners /\ RtspOwned /\ RtspDelivery /\ RtspSent /\ RtspTypeOK
    BY <2>1 DEF Cb, RtspCtl, RtspInv
  <2>3. RtspShape' /\ RtspTypeOK'
    BY <2>1, <2>2 DEF RtspShape, RtspTypeOK, Resting
  <2>4. RtspOwners' /\ RtspOwned'
    BY <2>1, <2>2, RtspOwnersSame
  <2>5. Cb # Resting /\ Cb.at = "store" => Cb.sub = rtspAsked[Cb.c]
    BY <2>2 DEF RtspDelivery, RtspNumbers
  <2>6. RtspDelivery' /\ RtspSent'
    BY <2>1, <2>2, <2>5, RtspDeliverySame
  <2> QED
    BY <2>3, <2>4, <2>6 DEF RtspInv
<1>2. CASE StartRtsp \/ ApplyRtspOptions
  BY <1>2, RtspSwitches
<1>3. CASE StopRtsp
  BY <1>3, RtspStopPreserves
<1>4. CASE StopNextSession
  BY <1>4, RtspStopNextPreserves
<1>5. CASE StopClears
  BY <1>5, RtspStopClearsPreserves
<1>6. ASSUME NEW t \in Threads, TakeSub(t) \/ DropSub(t) \/ DropUdp(t)
      PROVE  RtspInv'
  BY <1>6, RtspTakeSubPreserves, RtspDropSubPreserves, RtspDropUdpPreserves
<1>7. CASE CbDone
  BY <1>7, RtspCbDonePreserves
<1>8. CASE SetupSession
  BY <1>8, RtspSetupPreserves
<1>9. CASE SubscribeSession
  BY <1>9, RtspSubscribePreserves
<1>10. CASE StoreSubscription
  BY <1>10, RtspStorePreserves
<1>11. CASE StartSendTimer
  BY <1>11, RtspStartTimerPreserves
<1>12. CASE KeepSendTimer
  BY <1>12, RtspKeepPreserves
<1>13. CASE CloseAfterTeardown
  BY <1>13, RtspCloseAfterTeardownPreserves
<1>14. CASE \/ ReadSubscription \/ PullLiveFrame \/ CheckSession
            \/ TakeStartFrame \/ CheckKeyframe \/ ReadRoute \/ SendRtpPackets
  BY <1>14, RtspSenderReads, RtspTakeStartPreserves, RtspChecksPreserve, RtspSendPreserves
<1>15. ASSUME NEW c \in RtspConns,
              \/ SocketAccepts(c) \/ OnRtspConnection(c) \/ OnConnectionClosed(c) \/ BadRtspRequest(c)
              \/ \E s \in RtspStreams :
                    HandleDescribe(c, s) \/ \E mode \in Modes : HandleSetup(c, s, mode)
              \/ HandlePlay(c) \/ HandleTeardown(c) \/ RtspTimerFires(c)
       PROVE  RtspInv'
  <2>1. CASE SocketAccepts(c) \/ BadRtspRequest(c)
    BY <2>1, RtspWireSteps
  <2>2. CASE OnRtspConnection(c)
    BY <2>2, RtspConnectionPreserves
  <2>3. CASE OnConnectionClosed(c)
    BY <2>3, RtspClosedPreserves
  <2>4. CASE RtspTimerFires(c)
    BY <2>4, RtspSenderReads
  <2>5. CASE \/ \E s \in RtspStreams :
                   HandleDescribe(c, s) \/ \E mode \in Modes : HandleSetup(c, s, mode)
             \/ HandlePlay(c) \/ HandleTeardown(c)
    BY <2>5, RtspRequestsPreserve
  <2> QED
    BY <1>15, <2>1, <2>2, <2>3, <2>4, <2>5
<1> QED
  BY <1>1, <1>2, <1>3, <1>4, <1>5, <1>6, <1>7, <1>8, <1>9, <1>10, <1>11, <1>12, <1>13, <1>14, <1>15
     DEF RtspNext

\* For any connections, requests and frames: every subscription, send timer and UDP
\* socket of a session has an owner that gives it back, however requests, the send
\* timer and lost connections interleave, unless a request of the connection ran into
\* Stop() (rtspRaced).  What a client receives was authorised; it starts with a
\* keyframe, after at most one frame passed for an earlier PLAY, and the start frames
\* come first in every callback that no PLAY overtakes.
THEOREM RtspSessionsServedHolds == RtspSpec => []RtspSessionsServed
<1>1. RtspInit => RtspInv
  BY RtspInitInv
<1>2. RtspInv /\ [RtspNext]_rtspVars => RtspInv'
  BY RtspNextPreserves
<1>3. RtspInv => RtspSessionsServed
  BY DEF RtspInv, RtspSessionsServed, RtspOwned, RtspSent
<1> QED
  BY <1>1, <1>2, <1>3, PTL DEF RtspSpec

-----------------------------------------------------------------------------
(***************************************************************************)
(* The AI tasks: every thread belongs to a worker of the table.            *)
(***************************************************************************)

\* A worker with a thread of its own.
AiHeld(w) == aiWorker[w].pc # "none"

\* The records of the workers, of the control thread and of the service.
AiWorkerType ==
    [config : Nat, running : BOOLEAN, backend : BOOLEAN, active : BOOLEAN,
     pc : {"none", "loop", "frame", "infer", "report", "inject", "ended"}, input : BOOLEAN]

AiCtlType ==
    [pc : {"idle", "stop", "start", "prepare", "publish", "inject"}, op : {"none", "start", "apply", "stop"},
     stop : SUBSET AiWorkers, start : SUBSET AiWorkers, input : BOOLEAN]

AiShape ==
    /\ aiStarted \in BOOLEAN /\ aiImages \in BOOLEAN /\ aiAlarm \in BOOLEAN
    /\ aiConfig.on \in BOOLEAN /\ aiConfig.tasks \in [TaskSet -> Nat]
    /\ aiTable \in [TaskSet -> 1 .. MaxAiWorkers]
    /\ aiWorker \in [AiWorkers -> AiWorkerType]
    /\ aiCtl \in AiCtlType

\* The phases of a call.
AiPhase ==
    /\ aiCtl.pc = "idle" => aiCtl = CtlIdle
    /\ aiCtl.pc # "stop" => aiCtl.stop = {}
    /\ aiCtl.pc # "prepare" => aiCtl.start = {}
    /\ aiCtl.pc = "stop" => aiCtl.op \in {"apply", "stop"}
    /\ aiCtl.pc \in {"start", "prepare"} => aiCtl.op \in {"start", "apply"} /\ aiStarted
    /\ aiCtl.pc \in {"publish", "inject"} => aiCtl.op = "apply" /\ aiStarted
    /\ aiCtl.pc = "prepare" => aiConfig.on
    /\ aiCtl.op = "stop" => ~aiStarted

\* A worker of the table that may run.
AiKept(w) == w \in InTable /\ aiWorker[w].running /\ aiWorker[w].config # 0 /\ aiStarted /\ aiConfig.on

\* Who has a thread or a backend: a worker of the table that may run, or one on
\* the list of those being stopped.
AiOwners ==
    /\ \A t \in TaskSet : aiWorker[<<t, aiTable[t]>>].config = aiConfig.tasks[t]
    /\ \A w \in AiWorkers : aiWorker[w].backend = AiHeld(w)
    /\ \A w \in AiWorkers : AiHeld(w) => AiKept(w) \/ w \in aiCtl.stop
    /\ \A w \in AiWorkers : AiHeld(w) => aiStarted \/ aiCtl.op = "stop"
    /\ \A w \in aiCtl.start : w \in InTable /\ ~AiHeld(w) /\ aiWorker[w].config # 0

\* What may still be on while AI is off.
AiQuiet ==
    /\ aiImages => (aiStarted /\ aiConfig.on) \/ (aiCtl.pc = "stop" /\ aiCtl.op = "stop")
    /\ aiAlarm => \/ aiStarted /\ aiConfig.on
                  \/ aiCtl.pc = "stop" /\ aiCtl.op = "stop"
                  \/ aiStarted /\ aiCtl.op = "apply" /\ aiCtl.pc # "idle"

AiInv == AiShape /\ AiPhase /\ AiOwners /\ AiQuiet

\* A step of one capture thread: the worker keeps its configuration, its backend,
\* its place and whether it has a thread.
LEMMA AiThreadStep ==
    ASSUME AiInv, NEW w \in AiWorkers, NEW r \in AiWorkerType,
           aiWorker' = [aiWorker EXCEPT ![w] = r],
           r.config = aiWorker[w].config, r.running = aiWorker[w].running, r.backend = aiWorker[w].backend,
           r.pc # "none", AiHeld(w),
           UNCHANGED aiRest, aiAlarm' \in BOOLEAN
    PROVE  AiInv'
<1>1. /\ UNCHANGED <<aiStarted, aiConfig, aiTable, aiImages, aiCtl>> /\ InTable' = InTable
  BY DEF aiRest, InTable
<1>2. aiWorker' \in [AiWorkers -> AiWorkerType]
  BY DEF AiInv, AiShape
<1>3. \A v \in AiWorkers : /\ aiWorker'[v].config = aiWorker[v].config
                           /\ aiWorker'[v].running = aiWorker[v].running
                           /\ aiWorker'[v].backend = aiWorker[v].backend
                           /\ AiHeld(v)' = AiHeld(v)
  <2>1. aiWorker'[w] = r /\ \A v \in AiWorkers \ {w} : aiWorker'[v] = aiWorker[v]
    BY DEF AiInv, AiShape
  <2> QED BY <2>1 DEF AiHeld
<1>4. AiShape'
  BY <1>1, <1>2 DEF AiInv, AiShape
<1>5. AiPhase'
  BY <1>1 DEF AiInv, AiPhase
<1>6. \A v \in AiWorkers : AiKept(v)' = AiKept(v)
  BY <1>1, <1>3 DEF AiKept
<1>7. AiOwners'
  <2>1. \A t \in TaskSet : <<t, aiTable[t]>> \in AiWorkers
    BY DEF AiInv, AiShape, AiWorkers
  <2>2. aiCtl.start \subseteq AiWorkers
    BY DEF AiInv, AiShape, AiCtlType
  <2> QED BY <1>1, <1>3, <1>6, <2>1, <2>2 DEF AiInv, AiOwners
<1>8. AiQuiet'
  <2>1. aiStarted \/ aiCtl.op = "stop"
    BY DEF AiInv, AiOwners
  <2>2. AiKept(w) \/ w \in aiCtl.stop
    BY DEF AiInv, AiOwners
  <2>3. w \in aiCtl.stop => aiCtl.pc = "stop" /\ aiCtl.op \in {"apply", "stop"}
    BY DEF AiInv, AiPhase
  <2>4. (aiStarted /\ aiConfig.on) \/ (aiCtl.pc = "stop" /\ aiCtl.op = "stop")
        \/ (aiStarted /\ aiCtl.op = "apply" /\ aiCtl.pc # "idle")
    BY <2>1, <2>2, <2>3 DEF AiKept
  <2> QED BY <1>1, <2>4 DEF AiInv, AiQuiet
<1> QED
  BY <1>4, <1>5, <1>7, <1>8 DEF AiInv

\* The steps of CaptureLoop().
LEMMA AiLoopPreserves ==
    ASSUME AiInv, NEW w \in AiWorkers, NEW b \in BOOLEAN,
           \/ LoopTurn(w) \/ DeviceAway(w) \/ CaptureFailed(w) \/ Captured(w)
           \/ ReportRead(w) \/ ReportInject(w) \/ Inferred(w, b)
    PROVE  AiInv'
<1> DEFINE s == aiWorker[w]
           R(pc, a, i) == [s EXCEPT !.pc = pc, !.active = a, !.input = i]
<1>1. s \in AiWorkerType /\ aiWorker \in [AiWorkers -> AiWorkerType] /\ aiAlarm \in BOOLEAN
  BY DEF AiInv, AiShape
<1>2. AlarmInput \in BOOLEAN
  BY DEF AlarmInput
<1>3. /\ AiHeld(w) /\ UNCHANGED aiRest /\ aiAlarm' \in BOOLEAN
  BY <1>1 DEF LoopTurn, DeviceAway, CaptureFailed, Captured, ReportRead, ReportInject, Inferred, AiHeld, AiWorkerType
<1>4. \E pc \in {"loop", "frame", "infer", "report", "inject", "ended"}, a \in BOOLEAN, i \in BOOLEAN :
         aiWorker' = [aiWorker EXCEPT ![w] = R(pc, a, i)]
  <2>0. s.active \in BOOLEAN /\ s.input \in BOOLEAN
    BY <1>1 DEF AiWorkerType
  <2>1. \A pc : [s EXCEPT !.pc = pc] = R(pc, s.active, s.input)
    BY <1>1 DEF AiWorkerType
  <2>2. \A pc, a : [s EXCEPT !.active = a, !.pc = pc] = R(pc, a, s.input)
    BY <1>1 DEF AiWorkerType
  <2>3. \A pc, i : [s EXCEPT !.pc = pc, !.input = i] = R(pc, s.active, i)
    BY <1>1 DEF AiWorkerType
  <2>5. CASE LoopTurn(w) \/ DeviceAway(w) \/ Captured(w)
    <3>1. \E pc \in {"loop", "frame", "infer", "ended"} : aiWorker' = [aiWorker EXCEPT ![w].pc = pc]
      BY <2>5 DEF LoopTurn, DeviceAway, Captured, Goes
    <3>2. PICK pc \in {"loop", "frame", "infer", "ended"} : aiWorker' = [aiWorker EXCEPT ![w].pc = pc]
      BY <3>1
    <3>3. aiWorker' = [aiWorker EXCEPT ![w] = R(pc, s.active, s.input)]
      BY <3>2, <2>1
    <3> HIDE DEF R, s
    <3> QED BY <3>3, <2>0
  <2>6. CASE CaptureFailed(w) \/ Inferred(w, b)
    <3>1. \/ \E a \in BOOLEAN : aiWorker' = [aiWorker EXCEPT ![w] = [s EXCEPT !.active = a, !.pc = "report"]]
          \/ aiWorker' = [aiWorker EXCEPT ![w] = [s EXCEPT !.pc = "loop"]]
      BY <2>6, <1>1 DEF CaptureFailed, Inferred
    <3>2. CASE aiWorker' = [aiWorker EXCEPT ![w] = [s EXCEPT !.pc = "loop"]]
      <4>1. aiWorker' = [aiWorker EXCEPT ![w] = R("loop", s.active, s.input)]
        BY <3>2, <2>1
      <4> HIDE DEF R, s
      <4> QED BY <4>1, <2>0
    <3>3. ASSUME NEW a \in BOOLEAN, aiWorker' = [aiWorker EXCEPT ![w] = [s EXCEPT !.active = a, !.pc = "report"]]
          PROVE  \E pc \in {"loop", "frame", "infer", "report", "inject", "ended"}, x \in BOOLEAN, i \in BOOLEAN :
                    aiWorker' = [aiWorker EXCEPT ![w] = R(pc, x, i)]
      <4>1. aiWorker' = [aiWorker EXCEPT ![w] = R("report", a, s.input)]
        BY <3>3, <2>2
      <4> HIDE DEF R, s
      <4> QED BY <4>1, <2>0
    <3> HIDE DEF R, s
    <3> QED BY <3>1, <3>2, <3>3
  <2>7. CASE ReportRead(w) \/ ReportInject(w)
    <3>1. \E pc \in {"inject", "loop"}, i \in BOOLEAN :
             aiWorker' = [aiWorker EXCEPT ![w] = [s EXCEPT !.pc = pc, !.input = i]]
      BY <2>7, <1>1, <1>2 DEF ReportRead, ReportInject
    <3>2. PICK pc \in {"inject", "loop"}, i \in BOOLEAN :
             aiWorker' = [aiWorker EXCEPT ![w] = [s EXCEPT !.pc = pc, !.input = i]]
      BY <3>1
    <3>3. aiWorker' = [aiWorker EXCEPT ![w] = R(pc, s.active, i)]
      BY <3>2, <2>3
    <3> HIDE DEF R, s
    <3> QED BY <3>3, <2>0
  <2> QED BY <2>5, <2>6, <2>7
<1>5. PICK pc \in {"loop", "frame", "infer", "report", "inject", "ended"}, a \in BOOLEAN, i \in BOOLEAN :
         aiWorker' = [aiWorker EXCEPT ![w] = R(pc, a, i)]
  BY <1>4
<1> DEFINE r == R(pc, a, i)
<1>6. r \in AiWorkerType /\ r.config = s.config /\ r.running = s.running /\ r.backend = s.backend /\ r.pc # "none"
  BY <1>1 DEF AiWorkerType
<1> HIDE DEF r
<1>7. aiWorker' = [aiWorker EXCEPT ![w] = r]
  BY <1>5 DEF r
<1> QED
  BY <1>3, <1>6, <1>7, AiThreadStep

\* The steps of the control thread that touch no worker.
LEMMA AiCtlPreserves ==
    ASSUME AiInv, NEW b \in BOOLEAN, StoppedAll \/ StartedAll \/ ApplyRead \/ ApplyInject \/ StartConfigured(b)
    PROVE  AiInv'
<1> USE DEF AiInv
<1>1. /\ UNCHANGED <<aiStarted, aiConfig, aiTable, aiWorker>> /\ InTable' = InTable
      /\ \A w : AiHeld(w)' = AiHeld(w) /\ AiKept(w)' = AiKept(w)
  BY DEF StoppedAll, StartedAll, ApplyRead, ApplyInject, StartConfigured, InTable, AiHeld, AiKept
<1>2. /\ CtlIdle \in AiCtlType /\ CtlIdle.pc = "idle" /\ CtlIdle.op = "none" /\ CtlIdle.stop = {} /\ CtlIdle.start = {}
  BY DEF CtlIdle, AiCtlType
<1>3. aiCtl \in AiCtlType /\ AlarmInput \in BOOLEAN /\ InTable \subseteq AiWorkers
      /\ aiImages \in BOOLEAN /\ aiAlarm \in BOOLEAN /\ aiConfig.on \in BOOLEAN
  BY DEF AiShape, AlarmInput, InTable, AiWorkers
<1>4. EnabledToStart \subseteq AiWorkers
  BY <1>3 DEF EnabledToStart
\* What becomes of the call.
<1>5. /\ aiCtl' \in AiCtlType
      /\ \/ aiCtl' = CtlIdle
         \/ aiCtl'.pc # "idle" /\ aiCtl'.op = aiCtl.op /\ aiCtl'.stop = aiCtl.stop
      /\ aiCtl.stop = {} /\ (aiCtl'.pc # "prepare" => aiCtl'.start = {})
      /\ aiCtl'.pc = "prepare" => aiStarted /\ aiConfig.on /\ aiCtl.pc = "start" /\ aiCtl'.start = EnabledToStart
      /\ aiCtl'.pc \in {"idle", "start", "prepare", "publish", "inject"}
      /\ aiCtl'.pc \in {"publish", "inject"} => aiCtl.op = "apply" /\ aiStarted
      /\ aiCtl'.pc = "start" => aiCtl.op = "apply" /\ aiStarted
  <2>1. CASE StoppedAll
    BY <1>2, <1>3, <2>1 DEF StoppedAll, AiCtlType, AiPhase
  <2>2. CASE StartedAll
    BY <1>2, <1>3, <2>2 DEF StartedAll, AfterStart, AiCtlType, AiPhase
  <2>3. CASE ApplyRead
    BY <1>2, <1>3, <2>3 DEF ApplyRead, AiCtlType, AiPhase
  <2>4. CASE ApplyInject
    BY <1>2, <1>3, <2>4 DEF ApplyInject, AiCtlType, AiPhase
  <2>5. CASE StartConfigured(b)
    <3>0. aiCtl.pc = "start" /\ aiStarted /\ aiCtl.stop = {} /\ aiCtl.start = {} /\ aiCtl.op \in {"start", "apply"}
      BY <2>5 DEF StartConfigured, AiPhase
    <3>1. CASE aiConfig.on /\ aiCtl' = [aiCtl EXCEPT !.pc = "prepare", !.start = EnabledToStart]
      BY <1>3, <1>4, <3>0, <3>1 DEF AiCtlType
    <3>2. CASE aiCtl' = AfterStart
      <4>1. CASE aiCtl.op = "apply"
        <5>1. aiCtl' = [aiCtl EXCEPT !.pc = "publish", !.start = {}]
          BY <3>2, <4>1 DEF AfterStart
        <5> QED BY <1>3, <3>0, <4>1, <5>1 DEF AiCtlType
      <4>2. CASE aiCtl.op # "apply"
        <5>1. aiCtl' = CtlIdle
          BY <3>2, <4>2 DEF AfterStart
        <5> QED BY <1>2, <3>0, <5>1
      <4> QED BY <4>1, <4>2
    <3>3. \/ aiConfig.on /\ aiCtl' = [aiCtl EXCEPT !.pc = "prepare", !.start = EnabledToStart]
          \/ aiCtl' = AfterStart
      BY <2>5 DEF StartConfigured
    <3> QED BY <3>1, <3>2, <3>3
  <2> QED BY <2>1, <2>2, <2>3, <2>4, <2>5
<1>6. aiImages' \in BOOLEAN /\ aiAlarm' \in BOOLEAN
  BY <1>3 DEF StoppedAll, StartedAll, ApplyRead, ApplyInject, StartConfigured, AiCtlType
<1>7. AiShape'
  BY <1>1, <1>5, <1>6 DEF AiShape
<1>8. AiPhase'
  BY <1>1, <1>2, <1>3, <1>5 DEF AiPhase, AiCtlType
<1>9. AiOwners'
  <2>1. \A w \in AiWorkers : AiHeld(w) => AiKept(w)
    BY <1>5 DEF AiOwners
  <2>2. \A w \in aiCtl'.start : w \in InTable /\ ~AiHeld(w) /\ aiWorker[w].config # 0
    <3>1. CASE aiCtl'.pc = "prepare"
      <4>1. aiCtl'.start = EnabledToStart
        BY <1>5, <3>1
      <4> QED BY <4>1, <2>1, <1>4 DEF EnabledToStart, AiKept
    <3>2. CASE aiCtl'.pc # "prepare"
      BY <1>5, <3>2
    <3> QED BY <3>1, <3>2
  <2>3. \A w \in AiWorkers : AiHeld(w) => aiStarted
    BY <2>1 DEF AiKept
  <2> QED BY <1>1, <2>1, <2>2, <2>3 DEF AiOwners
<1>10. AiQuiet'
  <2>1. CASE StoppedAll
    BY <1>1, <1>2, <2>1 DEF StoppedAll, AiQuiet, AiPhase, AiCtlType, AiShape
  <2>2. CASE StartedAll
    BY <1>1, <1>2, <1>3, <2>2 DEF StartedAll, AfterStart, AiQuiet, AiPhase, AiCtlType
  <2>3. CASE ApplyRead
    BY <1>1, <1>3, <2>3 DEF ApplyRead, AiQuiet, AiPhase, AiCtlType
  <2>4. CASE ApplyInject
    BY <1>1, <1>2, <1>3, <2>4 DEF ApplyInject, AiQuiet, AiPhase
  <2>5. CASE StartConfigured(b)
    <3>1. /\ aiCtl.pc = "start" /\ aiAlarm' = aiAlarm
          /\ aiImages' => aiImages \/ (aiStarted /\ aiConfig.on)
      BY <1>3, <2>5 DEF StartConfigured
    <3>2. aiImages' => aiStarted' /\ aiConfig'.on
      BY <1>1, <3>1 DEF AiQuiet
    <3>3. aiAlarm' => (aiStarted' /\ aiConfig'.on) \/ (aiStarted' /\ aiCtl'.op = "apply" /\ aiCtl'.pc # "idle")
      <4>1. aiAlarm => (aiStarted /\ aiConfig.on) \/ (aiStarted /\ aiCtl.op = "apply")
        BY <3>1 DEF AiQuiet
      <4>2. aiCtl.op = "apply" => aiCtl'.op = "apply" /\ aiCtl'.pc # "idle"
        <5>1. SUFFICES ASSUME aiCtl.op = "apply" PROVE aiCtl'.op = "apply" /\ aiCtl'.pc # "idle"
          OBVIOUS
        <5>2. \/ aiCtl' = [aiCtl EXCEPT !.pc = "prepare", !.start = EnabledToStart]
              \/ aiCtl' = [aiCtl EXCEPT !.pc = "publish", !.start = {}]
          BY <2>5, <5>1 DEF StartConfigured, AfterStart
        <5> QED BY <1>3, <5>1, <5>2 DEF AiCtlType
      <4> QED BY <1>1, <3>1, <4>1, <4>2
    <3> QED BY <3>2, <3>3 DEF AiQuiet
  <2> QED BY <2>1, <2>2, <2>3, <2>4, <2>5
<1> QED
  BY <1>7, <1>8, <1>9, <1>10

\* One task is stopped or started.
LEMMA AiTaskPreserves ==
    ASSUME AiInv, NEW w \in AiWorkers, NEW b \in BOOLEAN, StopTask(w) \/ StartTask(w, b)
    PROVE  AiInv'
<1> USE DEF AiInv
<1> DEFINE s == aiWorker[w]
<1>1. /\ UNCHANGED <<aiStarted, aiConfig, aiTable, aiImages, aiAlarm>> /\ InTable' = InTable
  BY DEF StopTask, StartTask, InTable
<1>2. /\ s \in AiWorkerType /\ aiWorker \in [AiWorkers -> AiWorkerType] /\ aiCtl \in AiCtlType
      /\ \A t \in TaskSet : <<t, aiTable[t]>> \in AiWorkers
  BY DEF AiShape, AiWorkers
<1>3. CASE StopTask(w)
  <2> DEFINE r == [s EXCEPT !.pc = "none", !.backend = FALSE]
  <2>1. r \in AiWorkerType /\ r.pc = "none" /\ r.backend = FALSE /\ r.config = s.config /\ r.running = s.running
    BY <1>2 DEF AiWorkerType
  <2>2. /\ aiWorker' = [aiWorker EXCEPT ![w] = r]
        /\ aiCtl' = [aiCtl EXCEPT !.stop = aiCtl.stop \ {w}] /\ aiCtl.pc = "stop"
    BY <1>2, <1>3 DEF StopTask
  <2> HIDE DEF r
  <2>3. /\ aiWorker' \in [AiWorkers -> AiWorkerType] /\ aiWorker'[w] = r
        /\ \A v \in AiWorkers \ {w} : aiWorker'[v] = aiWorker[v]
    BY <1>2, <2>1, <2>2
  <2>4. /\ aiCtl' \in AiCtlType /\ aiCtl'.pc = aiCtl.pc /\ aiCtl'.op = aiCtl.op /\ aiCtl'.start = aiCtl.start
        /\ aiCtl'.stop = aiCtl.stop \ {w}
    BY <1>2, <2>2 DEF AiCtlType
  <2>5. AiShape'
    BY <1>1, <2>3, <2>4 DEF AiShape
  <2>6. AiPhase'
    BY <1>1, <2>2, <2>4 DEF AiPhase
  <2>7. AiOwners'
    <3>1. \A v \in AiWorkers : /\ aiWorker'[v].config = aiWorker[v].config
                               /\ aiWorker'[v].running = aiWorker[v].running
                               /\ AiHeld(v)' = (AiHeld(v) /\ v # w)
                               /\ aiWorker'[v].backend = (aiWorker[v].backend /\ v # w)
                               /\ aiWorker[v].backend \in BOOLEAN
      BY <2>1, <2>3, <1>2 DEF AiHeld, AiWorkerType
    <3>2. \A v \in AiWorkers : AiKept(v)' = AiKept(v)
      BY <1>1, <3>1 DEF AiKept
    <3>3. aiCtl.start = {}
      BY <2>2 DEF AiPhase
    <3>4. \A t \in TaskSet : aiWorker'[<<t, aiTable'[t]>>].config = aiConfig'.tasks[t]
      BY <1>1, <1>2, <3>1 DEF AiOwners
    <3>5. \A v \in AiWorkers : aiWorker'[v].backend = AiHeld(v)'
      BY <3>1 DEF AiOwners
    <3>6. \A v \in AiWorkers : AiHeld(v)' => (AiKept(v)' \/ v \in aiCtl'.stop) /\ (aiStarted' \/ aiCtl'.op = "stop")
      BY <1>1, <2>4, <3>1, <3>2 DEF AiOwners
    <3> QED BY <2>4, <3>3, <3>4, <3>5, <3>6 DEF AiOwners
  <2>8. AiQuiet'
    BY <1>1, <2>4 DEF AiQuiet
  <2> QED BY <2>5, <2>6, <2>7, <2>8
<1>4. CASE StartTask(w, b)
  <2>1. /\ aiCtl.pc = "prepare" /\ w \in aiCtl.start /\ aiCtl' = [aiCtl EXCEPT !.start = aiCtl.start \ {w}]
    BY <1>4 DEF StartTask, First
  <2>2. /\ aiStarted /\ aiConfig.on /\ w \in InTable /\ ~AiHeld(w) /\ s.config # 0 /\ aiCtl.stop = {}
        /\ s.backend = FALSE
    BY <2>1, <1>2 DEF AiPhase, AiOwners, AiHeld
  <2>3. \E r \in AiWorkerType : /\ aiWorker' = [aiWorker EXCEPT ![w] = r] /\ r.config = s.config
                                /\ \/ r.running = TRUE /\ r.backend = TRUE /\ r.pc = "loop"
                                   \/ r.backend = s.backend /\ r.pc = s.pc
    <3> DEFINE x == [s EXCEPT !.running = TRUE, !.backend = TRUE, !.pc = "loop"]
               y == [s EXCEPT !.running = FALSE]
    <3>1. aiWorker' = [aiWorker EXCEPT ![w] = x] \/ aiWorker' = [aiWorker EXCEPT ![w] = y]
      BY <1>4, <1>2 DEF StartTask
    <3>2. /\ x \in AiWorkerType /\ x.config = s.config /\ x.running = TRUE /\ x.backend = TRUE /\ x.pc = "loop"
          /\ y \in AiWorkerType /\ y.config = s.config /\ y.backend = s.backend /\ y.pc = s.pc
      BY <1>2 DEF AiWorkerType
    <3> HIDE DEF x, y
    <3> QED BY <3>1, <3>2
  <2>4. PICK r \in AiWorkerType : /\ aiWorker' = [aiWorker EXCEPT ![w] = r] /\ r.config = s.config
                                  /\ \/ r.running = TRUE /\ r.backend = TRUE /\ r.pc = "loop"
                                     \/ r.backend = s.backend /\ r.pc = s.pc
    BY <2>3
  <2>5. /\ aiWorker' \in [AiWorkers -> AiWorkerType] /\ aiWorker'[w] = r
        /\ \A v \in AiWorkers \ {w} : aiWorker'[v] = aiWorker[v]
    BY <1>2, <2>4
  <2>6. /\ aiCtl' \in AiCtlType /\ aiCtl'.pc = aiCtl.pc /\ aiCtl'.op = aiCtl.op /\ aiCtl'.stop = aiCtl.stop
        /\ aiCtl'.start = aiCtl.start \ {w}
    BY <1>2, <2>1 DEF AiCtlType
  <2>7. AiShape'
    BY <1>1, <2>5, <2>6 DEF AiShape
  <2>8. AiPhase'
    BY <1>1, <2>1, <2>6 DEF AiPhase
  <2>9. AiOwners'
    <3>1. \A v \in AiWorkers : aiWorker'[v].config = aiWorker[v].config /\ (v # w => AiHeld(v)' = AiHeld(v))
      BY <2>4, <2>5 DEF AiHeld
    <3>2. AiHeld(w)' => AiKept(w)'
      BY <1>1, <2>2, <2>4, <2>5 DEF AiHeld, AiKept
    <3>3. aiWorker'[w].backend = AiHeld(w)'
      BY <2>2, <2>4, <2>5 DEF AiHeld
    <3>4. \A v \in AiWorkers \ {w} : AiKept(v)' = AiKept(v) /\ aiWorker'[v].backend = aiWorker[v].backend
      BY <1>1, <2>5 DEF AiKept
    <3>5. aiCtl.start \subseteq AiWorkers
      BY <1>2 DEF AiCtlType
    <3> QED BY <1>1, <1>2, <2>2, <2>6, <3>1, <3>2, <3>3, <3>4, <3>5 DEF AiOwners
  <2>10. AiQuiet'
    BY <1>1, <2>6 DEF AiQuiet
  <2> QED BY <2>7, <2>8, <2>9, <2>10
<1> QED
  BY <1>3, <1>4

\* Between calls every thread belongs to a worker of the table that may run.
LEMMA AiIdleFacts ==
    ASSUME AiInv, aiCtl = CtlIdle
    PROVE  /\ \A w \in AiWorkers : AiHeld(w) => AiKept(w)
           /\ ~(aiStarted /\ aiConfig.on) => ~aiImages /\ ~aiAlarm /\ \A w \in AiWorkers : ~AiHeld(w)
           /\ \A w \in AiWorkers : AiHeld(w) => aiStarted
<1>1. aiCtl.pc = "idle" /\ aiCtl.stop = {} /\ aiCtl.op = "none"
  BY DEF CtlIdle
<1> QED BY <1>1 DEF AiInv, AiOwners, AiQuiet, AiKept

\* A new table: what RenewTable and Rebuilt give.
LEMMA AiRenewed ==
    ASSUME AiShape, NEW c \in AiConfigs, NEW gone \in SUBSET TaskSet, \A t \in gone : aiTable[t] < MaxAiWorkers
    PROVE  /\ RenewTable(gone) \in [TaskSet -> 1 .. MaxAiWorkers]
           /\ \A t \in TaskSet : RenewTable(gone)[t] = IF t \in gone THEN aiTable[t] + 1 ELSE aiTable[t]
           /\ DOMAIN Rebuilt(c, gone) = {<<t, aiTable[t] + 1>> : t \in gone}
           /\ \A t \in gone : Rebuilt(c, gone)[<<t, aiTable[t] + 1>>] = NewWorker(c.tasks[t])
           /\ \A w \in DOMAIN Rebuilt(c, gone) : Rebuilt(c, gone)[w] = NewWorker(c.tasks[w[1]])
           /\ DOMAIN Rebuilt(c, gone) \subseteq AiWorkers /\ DOMAIN Rebuilt(c, gone) \cap InTable = {}
           /\ \A n \in Nat : NewWorker(n) \in AiWorkerType
           /\ c.on \in BOOLEAN /\ c.tasks \in [TaskSet -> Nat]
           /\ InTable \subseteq AiWorkers
<1>1. aiTable \in [TaskSet -> 1 .. MaxAiWorkers] /\ MaxAiWorkers \in Nat
  BY AiAssumption DEF AiShape
<1>2. \A t \in gone : aiTable[t] + 1 \in 1 .. MaxAiWorkers /\ aiTable[t] + 1 # aiTable[t]
  BY <1>1
<1>3. DOMAIN Rebuilt(c, gone) = {<<t, aiTable[t] + 1>> : t \in gone}
  BY DEF Rebuilt
<1>4. RenewTable(gone) \in [TaskSet -> 1 .. MaxAiWorkers]
  BY <1>1, <1>2 DEF RenewTable
<1>5. \A n \in Nat : NewWorker(n) \in AiWorkerType
  BY DEF NewWorker, AiWorkerType
<1>6. DOMAIN Rebuilt(c, gone) \subseteq AiWorkers /\ DOMAIN Rebuilt(c, gone) \cap InTable = {} /\ InTable \subseteq AiWorkers
  BY <1>1, <1>2, <1>3 DEF AiWorkers, InTable
<1> QED BY <1>3, <1>4, <1>5, <1>6, AiAssumption DEF RenewTable, Rebuilt

\* Start() makes all workers new.
LEMMA AiStartPreserves ==
    ASSUME AiInv, NEW c \in AiConfigs, AiStart(c)
    PROVE  AiInv'
<1>1. /\ AiShape /\ aiCtl = CtlIdle /\ aiStarted = FALSE /\ aiStarted' = TRUE /\ aiConfig' = c
      /\ UNCHANGED <<aiImages, aiAlarm>> /\ \A t \in TaskSet : aiTable[t] < MaxAiWorkers
      /\ aiTable' = RenewTable(TaskSet)
      /\ aiCtl' = [CtlIdle EXCEPT !.pc = "start", !.op = "start"]
  BY DEF AiStart, AiInv, AiShape
<1> DEFINE new == Rebuilt(c, TaskSet)
<1>2. aiWorker' = [w \in AiWorkers |-> IF w \in DOMAIN new THEN new[w] ELSE aiWorker[w]]
  BY DEF AiStart
<1>3. /\ aiTable' \in [TaskSet -> 1 .. MaxAiWorkers]
      /\ \A t \in TaskSet : aiTable'[t] = aiTable[t] + 1 /\ <<t, aiTable[t] + 1>> \in DOMAIN new
      /\ \A w \in DOMAIN new : new[w] = NewWorker(c.tasks[w[1]]) /\ w \in AiWorkers /\ w[1] \in TaskSet
      /\ \A n \in Nat : NewWorker(n) \in AiWorkerType
      /\ c.on \in BOOLEAN /\ c.tasks \in [TaskSet -> Nat]
  <2>1. /\ RenewTable(TaskSet) \in [TaskSet -> 1 .. MaxAiWorkers]
        /\ \A t \in TaskSet : RenewTable(TaskSet)[t] = IF t \in TaskSet THEN aiTable[t] + 1 ELSE aiTable[t]
        /\ DOMAIN Rebuilt(c, TaskSet) = {<<t, aiTable[t] + 1>> : t \in TaskSet}
        /\ \A w \in DOMAIN Rebuilt(c, TaskSet) : Rebuilt(c, TaskSet)[w] = NewWorker(c.tasks[w[1]])
        /\ DOMAIN Rebuilt(c, TaskSet) \subseteq AiWorkers /\ DOMAIN Rebuilt(c, TaskSet) \cap InTable = {}
        /\ \A n \in Nat : NewWorker(n) \in AiWorkerType
        /\ c.on \in BOOLEAN /\ c.tasks \in [TaskSet -> Nat] /\ InTable \subseteq AiWorkers
    <3> HIDE DEF new
    <3>1. TaskSet \in SUBSET TaskSet
      OBVIOUS
    <3> QED BY ONLY <1>1, <3>1, c \in AiConfigs, AiRenewed
  <2> QED BY <1>1, <2>1 DEF AiWorkers
<1>4. /\ \A w \in AiWorkers : ~AiHeld(w) /\ aiWorker[w].backend = FALSE
      /\ aiImages = FALSE /\ aiAlarm = FALSE /\ aiWorker \in [AiWorkers -> AiWorkerType]
  BY <1>1, AiIdleFacts DEF AiInv, AiOwners, AiShape
<1> HIDE DEF new
<1>5. /\ aiWorker' \in [AiWorkers -> AiWorkerType]
      /\ \A w \in AiWorkers : AiHeld(w)' = FALSE /\ aiWorker'[w].backend = FALSE
      /\ \A t \in TaskSet : aiWorker'[<<t, aiTable'[t]>>].config = c.tasks[t]
  <2>1. \A w \in AiWorkers : aiWorker'[w] = aiWorker[w] \/ (w \in DOMAIN new /\ aiWorker'[w] = NewWorker(c.tasks[w[1]]))
    BY <1>2, <1>3
  <2>2. \A w \in AiWorkers : aiWorker'[w] \in AiWorkerType
    BY <1>3, <1>4, <2>1
  <2>3. \A n : NewWorker(n).pc = "none" /\ NewWorker(n).backend = FALSE /\ NewWorker(n).config = n
    BY DEF NewWorker
  <2>4. \A t \in TaskSet : aiWorker'[<<t, aiTable[t] + 1>>] = NewWorker(c.tasks[t])
    BY <1>2, <1>3
  <2>5. \A w \in AiWorkers : AiHeld(w)' = FALSE /\ aiWorker'[w].backend = FALSE
    BY <1>4, <2>1, <2>3 DEF AiHeld
  <2> QED BY <1>2, <1>3, <2>2, <2>3, <2>4, <2>5
<1>6. aiCtl' \in AiCtlType /\ aiCtl'.pc = "start" /\ aiCtl'.op = "start" /\ aiCtl'.stop = {} /\ aiCtl'.start = {}
  BY <1>1 DEF CtlIdle, AiCtlType
<1>7. AiShape'
  BY <1>1, <1>3, <1>4, <1>5, <1>6 DEF AiShape
<1>8. AiPhase'
  BY <1>1, <1>6 DEF AiPhase
<1>9. AiOwners'
  BY <1>1, <1>5, <1>6 DEF AiOwners
<1>10. AiQuiet'
  BY <1>1, <1>4 DEF AiQuiet
<1> QED BY <1>7, <1>8, <1>9, <1>10 DEF AiInv

\* ApplyConfig() replaces the workers of changed tasks.
LEMMA AiApplyPreserves ==
    ASSUME AiInv, NEW c \in AiConfigs, ApplyAiConfig(c)
    PROVE  AiInv'
<1> DEFINE gone == Replaced(c)
           old == {<<t, aiTable[t]>> : t \in gone}
           new == Rebuilt(c, gone)
<1>1. /\ AiShape /\ aiCtl = CtlIdle /\ aiConfig' = c
      /\ UNCHANGED <<aiStarted, aiAlarm>> /\ \A t \in gone : aiTable[t] < MaxAiWorkers
      /\ aiTable' = RenewTable(gone)
      /\ aiImages' = (aiImages /\ c.on /\ ToStop(old) = {})
      /\ aiCtl' = [CtlIdle EXCEPT !.pc = "stop", !.op = "apply", !.stop = ToStop(old)]
      /\ aiWorker' = [w \in AiWorkers |-> IF w \in DOMAIN new THEN new[w]
                                          ELSE IF w \in old THEN StopWorker(w) ELSE aiWorker[w]]
  BY DEF ApplyAiConfig, AiInv
<1>2. gone \in SUBSET TaskSet /\ \A t \in TaskSet : t \notin gone => c.on /\ aiWorker[<<t, aiTable[t]>>].config = c.tasks[t]
  BY DEF Replaced
<1>3. old \subseteq AiWorkers /\ old \subseteq InTable
  BY <1>1, <1>2 DEF AiShape, AiWorkers, InTable
<1> HIDE DEF gone
<1>4. /\ aiTable' \in [TaskSet -> 1 .. MaxAiWorkers]
      /\ \A t \in TaskSet : aiTable'[t] = IF t \in gone THEN aiTable[t] + 1 ELSE aiTable[t]
      /\ DOMAIN new = {<<t, aiTable[t] + 1>> : t \in gone}
      /\ \A w \in DOMAIN new : new[w] = NewWorker(c.tasks[w[1]])
      /\ DOMAIN new \subseteq AiWorkers /\ DOMAIN new \cap InTable = {}
      /\ \A n \in Nat : NewWorker(n) \in AiWorkerType
      /\ c.on \in BOOLEAN /\ c.tasks \in [TaskSet -> Nat] /\ InTable \subseteq AiWorkers
  <2>1. /\ RenewTable(gone) \in [TaskSet -> 1 .. MaxAiWorkers]
        /\ \A t \in TaskSet : RenewTable(gone)[t] = IF t \in gone THEN aiTable[t] + 1 ELSE aiTable[t]
        /\ DOMAIN Rebuilt(c, gone) = {<<t, aiTable[t] + 1>> : t \in gone}
        /\ \A w \in DOMAIN Rebuilt(c, gone) : Rebuilt(c, gone)[w] = NewWorker(c.tasks[w[1]])
        /\ DOMAIN Rebuilt(c, gone) \subseteq AiWorkers /\ DOMAIN Rebuilt(c, gone) \cap InTable = {}
        /\ \A n \in Nat : NewWorker(n) \in AiWorkerType
        /\ c.on \in BOOLEAN /\ c.tasks \in [TaskSet -> Nat] /\ InTable \subseteq AiWorkers
    <3>1. AiShape /\ gone \in SUBSET TaskSet /\ \A t \in gone : aiTable[t] < MaxAiWorkers
      BY <1>1, <1>2
    <3> HIDE DEF new, old
    <3> QED BY ONLY <3>1, c \in AiConfigs, AiRenewed
  <2> QED BY <1>1, <2>1
<1> HIDE DEF new
<1>5. /\ aiWorker \in [AiWorkers -> AiWorkerType] /\ aiImages \in BOOLEAN /\ aiAlarm \in BOOLEAN /\ aiStarted \in BOOLEAN
      /\ \A w \in AiWorkers : AiHeld(w) => AiKept(w) /\ aiStarted
      /\ \A w \in AiWorkers : aiWorker[w].backend = AiHeld(w)
      /\ ~(aiStarted /\ aiConfig.on) => ~aiImages /\ ~aiAlarm /\ \A w \in AiWorkers : ~AiHeld(w)
  BY <1>1, AiIdleFacts DEF AiInv, AiOwners, AiShape
<1>6. /\ \A w \in DOMAIN new : /\ aiWorker'[w] \in AiWorkerType /\ AiHeld(w)' = FALSE /\ aiWorker'[w].backend = FALSE
                               /\ aiWorker'[w].config = c.tasks[w[1]]
      /\ \A w \in old : /\ aiWorker'[w] \in AiWorkerType /\ AiHeld(w)' = AiHeld(w)
                        /\ aiWorker'[w].backend = aiWorker[w].backend
      /\ \A w \in AiWorkers : w \notin old /\ w \notin DOMAIN new => aiWorker'[w] = aiWorker[w]
  <2>1. ASSUME NEW w \in DOMAIN new
        PROVE  /\ aiWorker'[w] \in AiWorkerType /\ AiHeld(w)' = FALSE /\ aiWorker'[w].backend = FALSE
               /\ aiWorker'[w].config = c.tasks[w[1]]
    <3>1. aiWorker'[w] = NewWorker(c.tasks[w[1]]) /\ c.tasks[w[1]] \in Nat
      BY <1>1, <1>2, <1>4
    <3>2. \A n : NewWorker(n).pc = "none" /\ NewWorker(n).backend = FALSE /\ NewWorker(n).config = n
      BY DEF NewWorker
    <3> QED BY <1>4, <3>1, <3>2 DEF AiHeld
  <2>2. ASSUME NEW w \in old
        PROVE  /\ aiWorker'[w] \in AiWorkerType /\ AiHeld(w)' = AiHeld(w)
               /\ aiWorker'[w].backend = aiWorker[w].backend
    <3>1. aiWorker'[w] = StopWorker(w) /\ aiWorker[w] \in AiWorkerType
      BY <1>1, <1>3, <1>4, <1>5
    <3>2. StopWorker(w) \in AiWorkerType /\ StopWorker(w).pc = aiWorker[w].pc /\ StopWorker(w).backend = aiWorker[w].backend
      BY <3>1 DEF StopWorker, AiWorkerType
    <3> QED BY <3>1, <3>2 DEF AiHeld
  <2> QED BY <1>1, <2>1, <2>2
<1>7. InTable' = (InTable \ old) \cup DOMAIN new
  <2>1. \A t \in TaskSet : <<t, aiTable[t]>> \in old <=> t \in gone
    OBVIOUS
  <2> QED BY <1>2, <1>4, <2>1 DEF InTable
<1> HIDE DEF old
<1>8. aiWorker' \in [AiWorkers -> AiWorkerType]
  <2>1. \A w \in AiWorkers : aiWorker'[w] \in AiWorkerType
    BY <1>5, <1>6
  <2> QED BY <1>1, <2>1
<1>9. ToStop(old) = {w \in old : AiHeld(w)}
  BY <1>3, <1>5 DEF ToStop, AiHeld
<1>10. aiCtl' \in AiCtlType /\ aiCtl'.pc = "stop" /\ aiCtl'.op = "apply" /\ aiCtl'.stop = ToStop(old) /\ aiCtl'.start = {}
  <2>1. ToStop(old) \subseteq AiWorkers
    BY <1>3, <1>9
  <2> QED BY <1>1, <2>1 DEF CtlIdle, AiCtlType
<1>11. AiShape'
  <2>1. aiImages' \in BOOLEAN
    BY <1>1
  <2> QED BY <1>1, <1>4, <1>5, <1>8, <1>10, <2>1 DEF AiShape
<1>12. AiPhase'
  BY <1>1, <1>10 DEF AiPhase
<1>13. AiOwners'
  <2>1. \A t \in TaskSet : aiWorker'[<<t, aiTable'[t]>>].config = c.tasks[t]
    <3> SUFFICES ASSUME NEW t \in TaskSet PROVE aiWorker'[<<t, aiTable'[t]>>].config = c.tasks[t]
      OBVIOUS
    <3>1. CASE t \in gone
      <4>1. <<t, aiTable'[t]>> \in DOMAIN new
        BY <1>4, <3>1
      <4> QED BY <4>1, <1>6
    <3>2. CASE t \notin gone
      <4>1. <<t, aiTable'[t]>> = <<t, aiTable[t]>> /\ <<t, aiTable[t]>> \in InTable
        BY <1>4, <3>2 DEF InTable
      <4>2. <<t, aiTable[t]>> \notin old /\ <<t, aiTable[t]>> \notin DOMAIN new
        BY <1>4, <3>2, <4>1 DEF old
      <4> QED BY <1>2, <1>4, <1>6, <3>2, <4>1, <4>2
    <3> QED BY <3>1, <3>2
  <2>2. \A w \in AiWorkers : aiWorker'[w].backend = AiHeld(w)'
    BY <1>5, <1>6 DEF AiHeld
  <2>3. ASSUME NEW w \in AiWorkers, AiHeld(w)' PROVE (AiKept(w)' \/ w \in aiCtl'.stop) /\ aiStarted'
    <3>1. w \notin DOMAIN new
      BY <1>6, <2>3
    <3>2. CASE w \in old
      <4>1. AiHeld(w)
        BY <1>6, <2>3, <3>2
      <4> QED BY <1>1, <1>5, <1>9, <1>10, <3>2, <4>1
    <3>3. CASE w \notin old
      <4>1. aiWorker'[w] = aiWorker[w]
        BY <1>6, <3>1, <3>3
      <4>2. AiHeld(w) /\ AiKept(w) /\ aiStarted
        BY <4>1, <1>5, <2>3 DEF AiHeld
      <4>3. w \in InTable /\ w \in InTable'
        BY <4>2, <1>7, <3>3 DEF AiKept
      <4>4. c.on
        <5>1. PICK t \in TaskSet : w = <<t, aiTable[t]>>
          BY <4>3 DEF InTable
        <5>2. t \notin gone
          BY <3>3, <5>1 DEF old
        <5> QED BY <1>2, <5>2
      <4> QED BY <1>1, <4>1, <4>2, <4>3, <4>4 DEF AiKept
    <3> QED BY <3>2, <3>3
  <2> QED BY <1>1, <1>10, <2>1, <2>2, <2>3 DEF AiOwners
<1>14. AiQuiet'
  BY <1>1, <1>5, <1>10 DEF AiQuiet
<1> QED BY <1>11, <1>12, <1>13, <1>14 DEF AiInv

\* Stop() stops every worker.
LEMMA AiStopPreserves ==
    ASSUME AiInv, AiStop
    PROVE  AiInv'
<1>1. /\ AiShape /\ aiCtl = CtlIdle /\ aiStarted' = FALSE
      /\ UNCHANGED <<aiConfig, aiTable, aiImages, aiAlarm>> /\ InTable' = InTable
      /\ aiWorker' = [w \in AiWorkers |-> IF w \in InTable THEN StopWorker(w) ELSE aiWorker[w]]
      /\ aiCtl' = [CtlIdle EXCEPT !.pc = "stop", !.op = "stop", !.stop = ToStop(InTable)]
  BY DEF AiStop, AiInv, InTable
<1>2. /\ aiWorker \in [AiWorkers -> AiWorkerType] /\ InTable \subseteq AiWorkers
      /\ \A w \in AiWorkers : AiHeld(w) => w \in InTable
      /\ \A w \in AiWorkers : aiWorker[w].backend = AiHeld(w)
  <2>1. InTable \subseteq AiWorkers
    BY <1>1 DEF AiShape, InTable, AiWorkers
  <2> QED BY <1>1, <2>1, AiIdleFacts DEF AiInv, AiOwners, AiShape, AiKept
<1>3. \A w \in AiWorkers : /\ aiWorker'[w] \in AiWorkerType /\ AiHeld(w)' = AiHeld(w)
                           /\ aiWorker'[w].backend = aiWorker[w].backend /\ aiWorker'[w].config = aiWorker[w].config
  <2> SUFFICES ASSUME NEW w \in AiWorkers
               PROVE  /\ aiWorker'[w] \in AiWorkerType /\ AiHeld(w)' = AiHeld(w)
                      /\ aiWorker'[w].backend = aiWorker[w].backend /\ aiWorker'[w].config = aiWorker[w].config
    OBVIOUS
  <2>1. aiWorker'[w] = StopWorker(w) \/ aiWorker'[w] = aiWorker[w]
    BY <1>1
  <2>2. aiWorker[w] \in AiWorkerType
    BY <1>2
  <2>3. /\ StopWorker(w) \in AiWorkerType /\ StopWorker(w).pc = aiWorker[w].pc
        /\ StopWorker(w).backend = aiWorker[w].backend /\ StopWorker(w).config = aiWorker[w].config
    BY <2>2 DEF StopWorker, AiWorkerType
  <2> QED BY <2>1, <2>2, <2>3 DEF AiHeld
<1>4. ToStop(InTable) = {w \in InTable : AiHeld(w)}
  BY <1>2 DEF ToStop, AiHeld
<1>5. aiCtl' \in AiCtlType /\ aiCtl'.pc = "stop" /\ aiCtl'.op = "stop" /\ aiCtl'.stop = ToStop(InTable) /\ aiCtl'.start = {}
  <2>1. ToStop(InTable) \subseteq AiWorkers
    BY <1>2, <1>4
  <2> QED BY <1>1, <2>1 DEF CtlIdle, AiCtlType
<1>6. AiShape'
  BY <1>1, <1>3, <1>5 DEF AiShape
<1>7. AiPhase'
  BY <1>1, <1>5 DEF AiPhase
<1>8. AiOwners'
  <2>1. \A t \in TaskSet : <<t, aiTable[t]>> \in AiWorkers
    BY <1>2 DEF InTable
  <2> QED BY <1>1, <1>2, <1>3, <1>4, <1>5, <2>1 DEF AiInv, AiOwners
<1>9. AiQuiet'
  BY <1>1, <1>5 DEF AiQuiet
<1> QED BY <1>6, <1>7, <1>8, <1>9 DEF AiInv

\* For any tasks and configurations: the workers, backends and alarm input agree with
\* what was configured, and no result is reported for a task that may not run.
THEOREM AiTasksOwnedHolds == AiSpec => AiTasksOwned
<1> DEFINE Reports == \A w \in AiWorkers : aiWorker'[w].active /\ ~aiWorker[w].active => CanTaskRun(w)
<1>1. AiInit => AiInv
  <2> SUFFICES ASSUME AiInit PROVE AiInv
    OBVIOUS
  <2>1. NewWorker(0) \in AiWorkerType /\ NewWorker(0).pc = "none" /\ NewWorker(0).backend = FALSE /\ NewWorker(0).config = 0
    BY DEF NewWorker, AiWorkerType
  <2>2. CtlIdle \in AiCtlType /\ CtlIdle.pc = "idle" /\ CtlIdle.op = "none" /\ CtlIdle.stop = {} /\ CtlIdle.start = {}
    BY DEF CtlIdle, AiCtlType
  <2>3. 1 \in 1 .. MaxAiWorkers /\ \A t \in TaskSet : <<t, aiTable[t]>> \in AiWorkers
    BY AiAssumption DEF AiInit, AiWorkers
  <2>4. AiShape
    BY <2>1, <2>2, <2>3 DEF AiInit, AiShape, OffConfig
  <2>5. AiPhase
    BY <2>2 DEF AiInit, AiPhase
  <2>6. AiOwners
    BY <2>1, <2>2, <2>3 DEF AiInit, AiOwners, AiHeld, OffConfig
  <2>7. AiQuiet
    BY DEF AiInit, AiQuiet
  <2> QED BY <2>4, <2>5, <2>6, <2>7 DEF AiInv
<1>2. AiInv /\ [AiNext]_aiVars => AiInv'
  <2> SUFFICES ASSUME AiInv, [AiNext]_aiVars PROVE AiInv'
    OBVIOUS
  <2>1. CASE UNCHANGED aiVars
    BY <2>1 DEF aiVars, AiInv, AiShape, AiPhase, AiOwners, AiQuiet, AiHeld, AiKept, InTable
  <2>2. ASSUME NEW c \in AiConfigs, AiStart(c) \/ ApplyAiConfig(c) PROVE AiInv'
    BY <2>2, AiStartPreserves, AiApplyPreserves
  <2>3. CASE AiStop
    BY <2>3, AiStopPreserves
  <2>4. CASE StoppedAll \/ StartedAll \/ ApplyRead \/ ApplyInject
    BY <2>4, AiCtlPreserves
  <2>5. ASSUME NEW b \in BOOLEAN, StartConfigured(b) PROVE AiInv'
    BY <2>5, AiCtlPreserves
  <2>6. ASSUME NEW w \in AiWorkers, NEW b \in BOOLEAN, StopTask(w) \/ StartTask(w, b) PROVE AiInv'
    BY <2>6, AiTaskPreserves
  <2>7. ASSUME NEW w \in AiWorkers, NEW b \in BOOLEAN,
               \/ LoopTurn(w) \/ DeviceAway(w) \/ CaptureFailed(w) \/ Captured(w)
               \/ ReportRead(w) \/ ReportInject(w) \/ Inferred(w, b)
        PROVE  AiInv'
    BY <2>7, AiLoopPreserves
  <2>8. TRUE \in BOOLEAN
    OBVIOUS
  <2> QED BY <2>1, <2>2, <2>3, <2>4, <2>5, <2>6, <2>7, <2>8 DEF AiNext
<1>3. AiInv => AiTypeOK /\ BackendOutlivesRun /\ NoOrphanTask /\ OffIsQuiet
  <2> SUFFICES ASSUME AiInv PROVE AiTypeOK /\ BackendOutlivesRun /\ NoOrphanTask /\ OffIsQuiet
    OBVIOUS
  <2>1. AiTypeOK
    BY DEF AiInv, AiShape, AiTypeOK, InTable, AiWorkers, AiWorkerType, AiCtlType
  <2>2. BackendOutlivesRun
    BY DEF AiInv, AiOwners, BackendOutlivesRun, AiHeld
  <2>3. NoOrphanTask
    <3> SUFFICES ASSUME aiCtl = CtlIdle, NEW w \in AiWorkers, aiWorker[w].pc # "none" \/ aiWorker[w].backend
                 PROVE  /\ w \in InTable /\ aiWorker[w].running
                        /\ aiWorker[w].config = aiConfig.tasks[w[1]] /\ aiWorker[w].config # 0
      BY DEF NoOrphanTask
    <3>1. AiKept(w)
      BY AiIdleFacts DEF AiInv, AiOwners, AiHeld
    <3>2. \A t \in TaskSet : aiWorker[<<t, aiTable[t]>>].config = aiConfig.tasks[t]
      BY DEF AiInv, AiOwners
    <3> QED BY <3>1, <3>2 DEF AiKept, InTable
  <2>4. OffIsQuiet
    BY AiIdleFacts DEF OffIsQuiet, AiInv, AiOwners, AiHeld, AiShape
  <2> QED BY <2>1, <2>2, <2>3, <2>4
<1>4. AiInv /\ [AiNext]_aiVars => [Reports]_aiVars
  <2> SUFFICES ASSUME AiInv, AiNext, NEW v \in AiWorkers, aiWorker'[v].active, ~aiWorker[v].active PROVE CanTaskRun(v)
    OBVIOUS
  <2>1. aiWorker \in [AiWorkers -> AiWorkerType]
    BY DEF AiInv, AiShape
  <2>2. \A w \in AiWorkers : aiWorker[w] \in AiWorkerType
    BY <2>1
  <2>3. ASSUME NEW w \in AiWorkers, NEW b \in BOOLEAN, Inferred(w, b) PROVE CanTaskRun(v)
    <3>1. CASE v = w
      BY <2>1, <2>2, <2>3, <3>1 DEF Inferred, AiWorkerType
    <3>2. CASE v # w
      BY <2>1, <2>3, <3>2 DEF Inferred
    <3> QED BY <3>1, <3>2
  <2>4. ASSUME NEW w \in AiWorkers, NEW b \in BOOLEAN,
               \/ LoopTurn(w) \/ DeviceAway(w) \/ CaptureFailed(w) \/ Captured(w)
               \/ ReportRead(w) \/ ReportInject(w) \/ StopTask(w) \/ StartTask(w, b)
        PROVE  FALSE
    <3>1. CASE v # w
      BY <2>1, <2>4, <3>1 DEF LoopTurn, DeviceAway, CaptureFailed, Captured, ReportRead, ReportInject, StopTask, StartTask, Goes
    <3>2. CASE v = w
      <4>1. aiWorker[w] \in AiWorkerType
        BY <2>2
      <4> QED BY <2>1, <4>1, <2>4, <3>2
         DEF LoopTurn, DeviceAway, CaptureFailed, Captured, ReportRead, ReportInject, StopTask, StartTask, Goes, AiWorkerType
    <3> QED BY <3>1, <3>2
  <2>5. CASE AiStop \/ StoppedAll \/ StartedAll \/ ApplyRead \/ ApplyInject \/ \E b \in BOOLEAN : StartConfigured(b)
    <3>1. StopWorker(v).active = aiWorker[v].active
      BY <2>2 DEF StopWorker, AiWorkerType
    <3> QED BY <2>1, <2>5, <3>1 DEF AiStop, StoppedAll, StartedAll, ApplyRead, ApplyInject, StartConfigured
  <2>6. ASSUME NEW c \in AiConfigs, AiStart(c) \/ ApplyAiConfig(c) PROVE FALSE
    <3>1. StopWorker(v).active = aiWorker[v].active
      BY <2>2 DEF StopWorker, AiWorkerType
    <3>2. \A n : ~NewWorker(n).active
      BY DEF NewWorker
    <3>3. \A gone : \A w \in DOMAIN Rebuilt(c, gone) : Rebuilt(c, gone)[w] = NewWorker(c.tasks[w[1]])
      BY DEF Rebuilt
    <3> QED BY <2>1, <2>6, <3>1, <3>2, <3>3 DEF AiStart, ApplyAiConfig
  <2>7. TRUE \in BOOLEAN
    OBVIOUS
  <2> QED BY <2>3, <2>4, <2>5, <2>6, <2>7 DEF AiNext
<1> QED
  BY <1>1, <1>2, <1>3, <1>4, PTL DEF AiSpec, AiTasksOwned, OnlyRunningTasksReport

-----------------------------------------------------------------------------
(***************************************************************************)
(* The firmware upgrade, for any packages, requests, queue capacity and    *)
(* numbers of jobs, uploads and boots.                                     *)
(***************************************************************************)

WorkerPcs ==
    {"idle", "validate", "policy", "preparing", "prepare", "arm", "recheck", "writing", "write",
     "launch", "handoff", "mark", "extract", "apply", "burn", "program", "verify", "written",
     "commit", "finish", "reject", "rejected", "fail", "failed"}
HelperPcs ==
    {"none", "parse", "serve", "prepare", "extract", "stop", "burn", "program", "verify",
     "failed", "finish", "waiting", "reboot", "exited"}
ApiPcs == {"idle", "uploaded", "post", "cancel_platform", "cancel_finish"}

Versions == Nat \cup {None}

SvcRecords ==
    [state : SvcStates, target : Versions, path : Package \cup {None}, cancel : BOOLEAN,
     ext : BOOLEAN]
PlatRecords ==
    [cancel : BOOLEAN, ext : BOOLEAN, auto : BOOLEAN, cached : Package \cup {None},
     stage : Jobs \cup {None}]
StatusFiles == {None} \cup [state : SvcStates \cup {"torn"}, version : Versions]

\* The shape of the state.
UpShape ==
    /\ svc \in SvcRecords /\ plat \in PlatRecords
    /\ jobs \in Seq(Requests) /\ Len(jobs) <= MaxJobs
    /\ api \in ApiPcs /\ status \in StatusFiles
    /\ files \subseteq Package /\ stages \in [Jobs -> {"none", "made", "full"}]
    /\ flash \in [Partition -> Image] /\ power \in {"on", "lost", "auto", "confirm"}
    /\ canceled \subseteq Jobs /\ early \subseteq Jobs /\ wrote \subseteq Jobs
    /\ up \in BOOLEAN /\ term \in BOOLEAN /\ running \in Nat

\* Whatever is queued, in the worker or with a helper is a job.
UpQueue ==
    /\ queue \in Seq(Jobs) /\ Len(queue) <= QueueCapacity
    /\ \A k \in DOMAIN queue : queue[k] <= Len(jobs)
UpWorker ==
    /\ worker \in [pc : WorkerPcs, job : 0 .. Len(jobs), i : Nat]
    /\ worker.pc # "idle" => worker.job >= 1
UpHelpers ==
    /\ helper \in [Jobs -> [pc : HelperPcs, i : Nat, reboot : BOOLEAN]]
    /\ \A j \in Jobs : helper[j].pc # "none" => j <= Len(jobs)

\* Before the first job nothing is under way.
UpUntouched ==
    jobs = <<>> => status = None /\ svc.state = "idle" /\ api \in {"idle", "uploaded"}

\* Once the worker has validated a package, cached_package_ is the manifest of one.
UpCached ==
    worker.pc \notin {"idle", "validate", "reject", "rejected"} => plat.cached \in Package

UpFrame == UpShape /\ UpQueue /\ UpWorker /\ UpHelpers /\ UpUntouched /\ UpCached

-----------------------------------------------------------------------------
LEMMA UpFrameIsTypeOK == UpFrame => TypeOK
  BY DEF UpFrame, UpShape, UpQueue, UpWorker, UpHelpers, TypeOK, SvcRecords, PlatRecords, Versions

\* What a job asks for.
LEMMA UpRequest ==
  ASSUME UpShape, NEW j \in 1 .. Len(jobs)
  PROVE  /\ jobs[j].package \in Package /\ jobs[j].auto \in BOOLEAN
         /\ jobs[j].down \in BOOLEAN /\ j \in Jobs
         /\ Manifest[jobs[j].package].version \in Nat
         /\ RequiresReboot(jobs[j].package) \in BOOLEAN
<1>1. jobs[j] \in Requests
  BY DEF UpShape
<1>2. /\ jobs[j].package \in Package
      /\ {jobs[j].auto, jobs[j].same, jobs[j].down} \subseteq BOOLEAN
  BY <1>1, PackagesAssumption
<1>3. jobs[j].auto \in BOOLEAN /\ jobs[j].down \in BOOLEAN
  BY <1>2
<1>4. Manifest[jobs[j].package].version \in Nat /\ Manifest[jobs[j].package].reboot \in BOOLEAN
  BY <1>2, PackagesAssumption
<1>5. RequiresReboot(jobs[j].package) \in BOOLEAN
  BY <1>4 DEF RequiresReboot
<1>6. j \in Jobs
  BY BoundsAssumption DEF UpShape, Jobs
<1> QED BY <1>2, <1>3, <1>4, <1>5, <1>6

LEMMA UpPersisted ==
  ASSUME status \in StatusFiles
  PROVE  /\ Persisted \in [state : SvcStates, version : Versions]
         /\ StatusAfterLoad \in StatusFiles
<1> QED BY DEF Persisted, StatusAfterLoad, StatusFiles, Status, SvcStates, Versions

LEMMA UpPublish ==
  ASSUME status \in StatusFiles, NEW s \in SvcRecords, Publish(s)
  PROVE  /\ svc' \in SvcRecords /\ status' \in StatusFiles
         /\ svc'.cancel = s.cancel
         /\ ~s.ext => svc' = s /\ status' = status
<1> DEFINE st == Persisted
<1>1. st \in [state : SvcStates, version : Versions] /\ StatusAfterLoad \in StatusFiles
  BY UpPersisted
<1> HIDE DEF st
<1>2. svc' = Refreshed(s) /\ status' = IF s.ext THEN StatusAfterLoad ELSE status
  BY DEF Publish
<1>3. svc' \in SvcRecords /\ svc'.cancel = s.cancel /\ (~s.ext => svc' = s)
  BY <1>1, <1>2 DEF Refreshed, SvcRecords, st
<1> QED BY <1>1, <1>2, <1>3 DEF SvcRecords

\* A report of the main process or of a helper leaves a status file.
LEMMA UpReport ==
  ASSUME status \in StatusFiles, NEW s \in SvcStates, NEW v \in Versions,
         NEW racing, NEW overtaken, WriteUpgradeStatusFile(Status(s, v), racing, overtaken)
  PROVE  /\ status' \in StatusFiles
         /\ status' \in {Status(s, v), Torn, status}
         /\ ~racing => status' # Torn \/ status' = Status(s, v) \/ status' = status
         /\ ~overtaken => status' \in {Status(s, v), Torn}
  BY DEF WriteUpgradeStatusFile, StatusFiles, Status, Torn, Versions

LEMMA UpMainStatus ==
  ASSUME UpShape, NEW s \in SvcStates, NEW p \in Package, MainStatus(s, p)
  PROVE  /\ status' \in StatusFiles
         /\ status' \in {Status(s, Manifest[p].version), Torn, status}
<1>1. Manifest[p].version \in Versions
  BY PackagesAssumption DEF Versions
<1> QED BY <1>1, UpReport DEF MainStatus, UpShape

LEMMA UpHelperWrites ==
  ASSUME UpShape, NEW j \in Jobs, NEW s \in SvcStates, NEW v \in Versions,
         HelperWrites(j, Status(s, v))
  PROVE  /\ status' \in StatusFiles
         /\ status' \in {Status(s, v), Torn, status}
  BY UpReport DEF HelperWrites, UpShape

LEMMA UpHelperStatus ==
  ASSUME UpShape, NEW j \in 1 .. Len(jobs), NEW s \in SvcStates, HelperStatus(j, s)
  PROVE  /\ status' \in StatusFiles
         /\ status' \in {Status(s, Manifest[jobs[j].package].version), Torn, status}
<1>1. Manifest[jobs[j].package].version \in Versions /\ j \in Jobs
  BY UpRequest DEF Versions
<1> QED BY <1>1, UpHelperWrites DEF HelperStatus

\* One step of the worker, and of a helper, inside its program.
LEMMA UpGoto ==
  ASSUME UpWorker, NEW l \in WorkerPcs \ {"idle"}, worker.pc # "idle", Goto(l), jobs' = jobs
  PROVE  /\ UpWorker'
         /\ worker'.pc = l /\ worker'.job = worker.job /\ worker'.i = worker.i
<1>1. worker' = [worker EXCEPT !.pc = l] /\ worker \in [pc : WorkerPcs, job : 0 .. Len(jobs), i : Nat]
  BY DEF Goto, UpWorker
<1>2. /\ worker' \in [pc : WorkerPcs, job : 0 .. Len(jobs), i : Nat]
      /\ worker'.pc = l /\ worker'.job = worker.job /\ worker'.i = worker.i
  BY <1>1
<1> QED BY <1>2 DEF UpWorker

LEMMA UpCommand ==
  ASSUME UpWorker, NEW l \in WorkerPcs \ {"idle"}, worker.pc # "idle", NEW n \in Nat,
         worker' = [worker EXCEPT !.pc = l, !.i = n], jobs' = jobs
  PROVE  /\ UpWorker'
         /\ worker'.pc = l /\ worker'.job = worker.job /\ worker'.i = n
<1>1. worker \in [pc : WorkerPcs, job : 0 .. Len(jobs), i : Nat]
  BY DEF UpWorker
<1>2. /\ worker' \in [pc : WorkerPcs, job : 0 .. Len(jobs), i : Nat]
      /\ worker'.pc = l /\ worker'.job = worker.job /\ worker'.i = n
  BY <1>1
<1> QED BY <1>2 DEF UpWorker

LEMMA UpIdle ==
  ASSUME jobs' \in Seq(Requests), worker' = IdleWorker
  PROVE  UpWorker' /\ worker'.pc = "idle" /\ UpCached'
<1>1. worker' \in [pc : WorkerPcs, job : 0 .. Len(jobs'), i : Nat] /\ worker'.pc = "idle"
  BY DEF IdleWorker, WorkerPcs
<1> QED BY <1>1 DEF UpWorker, UpCached

LEMMA UpStep ==
  ASSUME UpHelpers, NEW j \in Jobs, j <= Len(jobs), NEW l \in HelperPcs, Step(j, l), jobs' = jobs
  PROVE  /\ UpHelpers' /\ helper'[j].pc = l
         /\ helper'[j].i = helper[j].i /\ helper'[j].reboot = helper[j].reboot
         /\ \A k \in Jobs \ {j} : helper'[k] = helper[k]
<1>1. helper' = [helper EXCEPT ![j].pc = l] /\ helper \in [Jobs -> [pc : HelperPcs, i : Nat, reboot : BOOLEAN]]
  BY DEF Step, UpHelpers
<1>2. helper' \in [Jobs -> [pc : HelperPcs, i : Nat, reboot : BOOLEAN]]
  BY <1>1
<1>3. /\ helper'[j].pc = l /\ helper'[j].i = helper[j].i /\ helper'[j].reboot = helper[j].reboot
      /\ \A k \in Jobs \ {j} : helper'[k] = helper[k]
  BY <1>1
<1> QED BY <1>2, <1>3 DEF UpHelpers

LEMMA UpAdvance ==
  ASSUME UpHelpers, NEW j \in Jobs, j <= Len(jobs), NEW l \in HelperPcs, NEW n \in Nat,
         helper' = [helper EXCEPT ![j].pc = l, ![j].i = n], jobs' = jobs
  PROVE  /\ UpHelpers' /\ helper'[j].pc = l
         /\ helper'[j].i = n /\ helper'[j].reboot = helper[j].reboot
         /\ \A k \in Jobs \ {j} : helper'[k] = helper[k]
<1>1. helper \in [Jobs -> [pc : HelperPcs, i : Nat, reboot : BOOLEAN]]
  BY DEF UpHelpers
<1>2. helper' \in [Jobs -> [pc : HelperPcs, i : Nat, reboot : BOOLEAN]]
  BY <1>1
<1>3. /\ helper'[j].pc = l /\ helper'[j].i = n /\ helper'[j].reboot = helper[j].reboot
      /\ \A k \in Jobs \ {j} : helper'[k] = helper[k]
  BY <1>1
<1> QED BY <1>2, <1>3 DEF UpHelpers

-----------------------------------------------------------------------------
(* The frame is preserved by every step. *)

LEMMA FrameWorkerTake ==
  ASSUME UpFrame, WorkerTake
  PROVE  UpFrame'
<1>1. /\ queue \in Seq(Jobs) /\ queue # <<>> /\ jobs \in Seq(Requests)
      /\ \A k \in DOMAIN queue : queue[k] <= Len(jobs)
  BY DEF WorkerTake, UpFrame, UpShape, UpQueue, UpWorker, UpHelpers, UpUntouched
<1>2. /\ Head(queue) \in 1 .. Len(jobs) /\ Tail(queue) \in Seq(Jobs)
      /\ Len(Tail(queue)) = Len(queue) - 1
      /\ \A k \in DOMAIN Tail(queue) : Tail(queue)[k] <= Len(jobs)
  <2>1. queue = <<>> \/ Len(queue) \in Nat \ {0}
    BY <1>1
  <2>2. Head(queue) = queue[1] /\ 1 \in DOMAIN queue /\ queue[1] \in Jobs
    BY <1>1, <2>1
  <2>3. Tail(queue) \in Seq(Jobs) /\ Len(Tail(queue)) = Len(queue) - 1
    BY <1>1, <2>1
  <2>4. \A k \in DOMAIN Tail(queue) : Tail(queue)[k] = queue[k + 1] /\ k + 1 \in DOMAIN queue
    BY <1>1, <2>1, <2>3
  <2> QED BY <1>1, <2>2, <2>3, <2>4 DEF Jobs
<1>3. UpWorker' /\ UpCached'
  <2>1. worker' = [pc |-> "validate", job |-> Head(queue), i |-> 0] /\ jobs' = jobs
    BY DEF WorkerTake
  <2> QED BY <2>1, <1>2 DEF UpWorker, UpCached, WorkerPcs
<1>4. UpQueue'
  BY <1>2, BoundsAssumption DEF WorkerTake, UpQueue, UpFrame
<1> QED BY <1>3, <1>4 DEF UpFrame, UpShape, UpHelpers, UpUntouched, WorkerTake, proc, tmpfs,
    cancels

LEMMA FrameWorkerValidate ==
  ASSUME UpFrame, WorkerValidate
  PROVE  UpFrame'
<1>1. /\ UpShape /\ UpQueue /\ UpWorker /\ UpHelpers /\ UpUntouched /\ UpCached
      /\ worker.pc # "idle" /\ jobs \in Seq(Requests) /\ jobs' = jobs
  BY DEF UpFrame, UpShape, WorkerAt, WorkerValidate
<1>a. worker.job \in 1 .. Len(jobs)
  BY <1>1 DEF UpWorker
<1>2. Request.package \in Package /\ Request.auto \in BOOLEAN /\ worker.job \in Jobs /\ jobs # <<>>
  BY <1>1, <1>a, UpRequest DEF Request
<1>10. UpWorker' /\ UpQueue'
  BY <1>1, <1>2, UpGoto, UpIdle DEF WorkerValidate, WorkerPcs, WorkerAt, UpQueue
<1>11. UpShape'
  BY <1>1, <1>2 DEF WorkerValidate, UpShape, PlatRecords, proc, tmpfs, cancels
<1>12. UpHelpers'
  BY <1>1 DEF WorkerValidate, UpHelpers
<1>13. UpCached'
  BY <1>1, <1>2, UpIdle DEF WorkerValidate, UpCached, UpShape, PlatRecords, WorkerAt, Goto,
      UpWorker, PlatRecords
<1> QED BY <1>1, <1>2, <1>10, <1>11, <1>12, <1>13 DEF UpFrame, UpUntouched

LEMMA FrameWorkerPolicy ==
  ASSUME UpFrame, WorkerPolicy
  PROVE  UpFrame'
<1>1. /\ UpShape /\ UpQueue /\ UpWorker /\ UpHelpers /\ UpUntouched /\ UpCached
      /\ worker.pc # "idle" /\ jobs \in Seq(Requests) /\ jobs' = jobs
  BY DEF UpFrame, UpShape, WorkerAt, WorkerPolicy
<1>a. worker.job \in 1 .. Len(jobs)
  BY <1>1 DEF UpWorker
<1>2. Request.package \in Package /\ Request.auto \in BOOLEAN /\ worker.job \in Jobs /\ jobs # <<>>
  BY <1>1, <1>a, UpRequest DEF Request
<1>10. UpWorker' /\ UpQueue'
  BY <1>1, <1>2, UpGoto, UpIdle DEF WorkerPolicy, WorkerPcs, WorkerAt, UpQueue
<1>11. UpShape'
  BY <1>1, <1>2 DEF WorkerPolicy, UpShape, PlatRecords, proc, tmpfs, cancels
<1>12. UpHelpers'
  BY <1>1 DEF WorkerPolicy, UpHelpers
<1>13. UpCached'
  BY <1>1, <1>2, UpIdle DEF WorkerPolicy, UpCached, UpShape, PlatRecords, WorkerAt, Goto, UpWorker
<1> QED BY <1>1, <1>2, <1>10, <1>11, <1>12, <1>13 DEF UpFrame, UpUntouched

LEMMA FrameWorkerRecheck ==
  ASSUME UpFrame, WorkerRecheck
  PROVE  UpFrame'
<1>1. /\ UpShape /\ UpQueue /\ UpWorker /\ UpHelpers /\ UpUntouched /\ UpCached
      /\ worker.pc # "idle" /\ jobs \in Seq(Requests) /\ jobs' = jobs
  BY DEF UpFrame, UpShape, WorkerAt, WorkerRecheck
<1>a. worker.job \in 1 .. Len(jobs)
  BY <1>1 DEF UpWorker
<1>2. Request.package \in Package /\ Request.auto \in BOOLEAN /\ worker.job \in Jobs /\ jobs # <<>>
  BY <1>1, <1>a, UpRequest DEF Request
<1>10. UpWorker' /\ UpQueue'
  BY <1>1, <1>2, UpGoto, UpIdle DEF WorkerRecheck, WorkerPcs, WorkerAt, UpQueue
<1>11. UpShape'
  BY <1>1, <1>2 DEF WorkerRecheck, UpShape, PlatRecords, proc, tmpfs, cancels
<1>12. UpHelpers'
  BY <1>1 DEF WorkerRecheck, UpHelpers
<1>13. UpCached'
  BY <1>1, <1>2, UpIdle DEF WorkerRecheck, UpCached, UpShape, PlatRecords, WorkerAt, Goto,
      UpWorker
<1> QED BY <1>1, <1>2, <1>10, <1>11, <1>12, <1>13 DEF UpFrame, UpUntouched

LEMMA FrameWorkerGiveUp ==
  ASSUME UpFrame, WorkerGiveUp
  PROVE  UpFrame'
<1>1. /\ UpShape /\ UpQueue /\ UpWorker /\ UpHelpers /\ UpUntouched /\ UpCached
      /\ worker.pc # "idle" /\ jobs \in Seq(Requests) /\ jobs' = jobs
  BY DEF UpFrame, UpShape, WorkerAt, WorkerGiveUp
<1>a. worker.job \in 1 .. Len(jobs)
  BY <1>1 DEF UpWorker
<1>2. Request.package \in Package /\ Request.auto \in BOOLEAN /\ worker.job \in Jobs /\ jobs # <<>>
  BY <1>1, <1>a, UpRequest DEF Request
<1>10. UpWorker' /\ UpQueue'
  BY <1>1, <1>2, UpGoto, UpIdle DEF WorkerGiveUp, WorkerPcs, WorkerAt, UpQueue
<1>11. UpShape'
  BY <1>1, <1>2 DEF WorkerGiveUp, UpShape, PlatRecords, proc, tmpfs, cancels
<1>12. UpHelpers'
  BY <1>1 DEF WorkerGiveUp, UpHelpers
<1>13. UpCached'
  BY <1>1, <1>2, UpIdle DEF WorkerGiveUp, UpCached, UpShape, PlatRecords, WorkerAt, Goto, UpWorker
<1> QED BY <1>1, <1>2, <1>10, <1>11, <1>12, <1>13 DEF UpFrame, UpUntouched

LEMMA FrameWorkerWrite ==
  ASSUME UpFrame, WorkerWrite
  PROVE  UpFrame'
<1>1. /\ UpShape /\ UpQueue /\ UpWorker /\ UpHelpers /\ UpUntouched /\ UpCached
      /\ worker.pc # "idle" /\ jobs \in Seq(Requests) /\ jobs' = jobs
  BY DEF UpFrame, UpShape, WorkerAt, WorkerWrite
<1>a. worker.job \in 1 .. Len(jobs)
  BY <1>1 DEF UpWorker
<1>2. Request.package \in Package /\ Request.auto \in BOOLEAN /\ worker.job \in Jobs /\ jobs # <<>>
  BY <1>1, <1>a, UpRequest DEF Request
<1>10. UpWorker' /\ UpQueue'
  BY <1>1, <1>2, UpGoto, UpIdle DEF WorkerWrite, WorkerPcs, WorkerAt, UpQueue
<1>11. UpShape'
  BY <1>1, <1>2 DEF WorkerWrite, UpShape, PlatRecords, proc, tmpfs, cancels
<1>12. UpHelpers'
  BY <1>1 DEF WorkerWrite, UpHelpers
<1>13. UpCached'
  BY <1>1, <1>2, UpIdle DEF WorkerWrite, UpCached, UpShape, PlatRecords, WorkerAt, Goto, UpWorker
<1> QED BY <1>1, <1>2, <1>10, <1>11, <1>12, <1>13 DEF UpFrame, UpUntouched

LEMMA FrameWorkerPreparing ==
  ASSUME UpFrame, WorkerPreparing
  PROVE  UpFrame'
<1>1. /\ UpShape /\ UpQueue /\ UpWorker /\ UpHelpers /\ UpUntouched /\ UpCached
      /\ worker.pc # "idle" /\ jobs \in Seq(Requests) /\ jobs' = jobs
  BY DEF UpFrame, UpShape, WorkerAt, WorkerPreparing
<1>a. worker.job \in 1 .. Len(jobs)
  BY <1>1 DEF UpWorker
<1>2. Request.package \in Package /\ Request.auto \in BOOLEAN /\ worker.job \in Jobs /\ jobs # <<>>
  BY <1>1, <1>a, UpRequest DEF Request
<1>b. PICK v : v = Manifest[Request.package].version
  OBVIOUS
<1>c. v \in Versions
  BY <1>1, <1>a, <1>b, UpRequest DEF Request, Versions
<1>3. [svc EXCEPT !.target = v, !.state = "preparing"] \in SvcRecords
  BY <1>1, <1>c DEF UpShape, SvcRecords, SvcStates
<1>4. svc' \in SvcRecords /\ status' \in StatusFiles
  BY <1>1, <1>b, <1>3, UpPublish DEF WorkerPreparing, UpShape
<1>10. UpWorker' /\ UpQueue'
  BY <1>1, <1>2, UpGoto, UpIdle DEF WorkerPreparing, WorkerPcs, WorkerAt, UpQueue
<1>11. UpShape'
  BY <1>1, <1>4 DEF WorkerPreparing, UpShape, PlatRecords, proc, tmpfs, cancels
<1>12. UpHelpers'
  BY <1>1 DEF WorkerPreparing, UpHelpers
<1>13. UpCached'
  BY <1>1, <1>4, UpIdle DEF WorkerPreparing, UpCached, UpShape, PlatRecords, WorkerAt, Goto,
      UpWorker
<1> QED BY <1>1, <1>2, <1>10, <1>11, <1>12, <1>13 DEF UpFrame, UpUntouched

LEMMA FrameWorkerPrepare ==
  ASSUME UpFrame, WorkerPrepare
  PROVE  UpFrame'
<1>1. /\ UpShape /\ UpQueue /\ UpWorker /\ UpHelpers /\ UpUntouched /\ UpCached
      /\ worker.pc # "idle" /\ jobs \in Seq(Requests) /\ jobs' = jobs
  BY DEF UpFrame, UpShape, WorkerAt, WorkerPrepare
<1>a. worker.job \in 1 .. Len(jobs)
  BY <1>1 DEF UpWorker
<1>2. Request.package \in Package /\ Request.auto \in BOOLEAN /\ worker.job \in Jobs /\ jobs # <<>>
  BY <1>1, <1>a, UpRequest DEF Request
<1>3. status' \in StatusFiles
  BY <1>1, <1>2, UpMainStatus DEF WorkerPrepare, UpShape, SvcStates
<1>10. UpWorker' /\ UpQueue'
  BY <1>1, <1>2, UpGoto, UpIdle DEF WorkerPrepare, WorkerPcs, WorkerAt, UpQueue
<1>11. UpShape'
  BY <1>1, <1>3 DEF WorkerPrepare, UpShape, PlatRecords, proc, tmpfs, cancels
<1>12. UpHelpers'
  BY <1>1 DEF WorkerPrepare, UpHelpers
<1>13. UpCached'
  BY <1>1, <1>3, UpIdle DEF WorkerPrepare, UpCached, UpShape, PlatRecords, WorkerAt, Goto,
      UpWorker
<1> QED BY <1>1, <1>2, <1>10, <1>11, <1>12, <1>13 DEF UpFrame, UpUntouched

LEMMA FrameWorkerArm ==
  ASSUME UpFrame, WorkerArm
  PROVE  UpFrame'
<1>1. /\ UpShape /\ UpQueue /\ UpWorker /\ UpHelpers /\ UpUntouched /\ UpCached
      /\ worker.pc # "idle" /\ jobs \in Seq(Requests) /\ jobs' = jobs
  BY DEF UpFrame, UpShape, WorkerAt, WorkerArm
<1>a. worker.job \in 1 .. Len(jobs)
  BY <1>1 DEF UpWorker
<1>2. Request.package \in Package /\ Request.auto \in BOOLEAN /\ worker.job \in Jobs /\ jobs # <<>>
  BY <1>1, <1>a, UpRequest DEF Request
<1>10. UpWorker' /\ UpQueue'
  BY <1>1, <1>2, UpGoto, UpIdle DEF WorkerArm, WorkerPcs, WorkerAt, UpQueue
<1>11. UpShape'
  BY <1>1, <1>2 DEF WorkerArm, UpShape, PlatRecords, proc, tmpfs, cancels
<1>12. UpHelpers'
  BY <1>1 DEF WorkerArm, UpHelpers
<1>13. UpCached'
  BY <1>1, <1>2, UpIdle DEF WorkerArm, UpCached, UpShape, PlatRecords, WorkerAt, Goto, UpWorker,
      PlatRecords
<1> QED BY <1>1, <1>2, <1>10, <1>11, <1>12, <1>13 DEF UpFrame, UpUntouched

LEMMA FrameWorkerWriting ==
  ASSUME UpFrame, WorkerWriting
  PROVE  UpFrame'
<1>1. /\ UpShape /\ UpQueue /\ UpWorker /\ UpHelpers /\ UpUntouched /\ UpCached
      /\ worker.pc # "idle" /\ jobs \in Seq(Requests) /\ jobs' = jobs
  BY DEF UpFrame, UpShape, WorkerAt, WorkerWriting
<1>a. worker.job \in 1 .. Len(jobs)
  BY <1>1 DEF UpWorker
<1>2. Request.package \in Package /\ Request.auto \in BOOLEAN /\ worker.job \in Jobs /\ jobs # <<>>
  BY <1>1, <1>a, UpRequest DEF Request
<1>3. [svc EXCEPT !.state = "writing"] \in SvcRecords
  BY <1>1 DEF UpShape, SvcRecords, SvcStates
<1>4. svc' \in SvcRecords /\ status' \in StatusFiles
  BY <1>1, <1>3, UpPublish DEF WorkerWriting, UpdateStatus, UpShape
<1>5. plat' \in PlatRecords /\ plat'.cached = plat.cached
  BY <1>1, <1>2 DEF WorkerWriting, UpShape, PlatRecords
<1>10. UpWorker' /\ UpQueue'
  BY <1>1, <1>2, UpGoto, UpIdle DEF WorkerWriting, WorkerPcs, WorkerAt, UpQueue
<1>11. UpShape'
  BY <1>1, <1>4, <1>5 DEF WorkerWriting, UpShape, PlatRecords, proc, tmpfs, cancels
<1>12. UpHelpers'
  BY <1>1 DEF WorkerWriting, UpHelpers
<1>13. UpCached'
  BY <1>1, <1>4, <1>5, UpIdle DEF WorkerWriting, UpCached, UpShape, PlatRecords, WorkerAt, Goto,
      UpWorker
<1> QED BY <1>1, <1>2, <1>10, <1>11, <1>12, <1>13 DEF UpFrame, UpUntouched

LEMMA FrameWorkerFailed ==
  ASSUME UpFrame, WorkerFailed
  PROVE  UpFrame'
<1>1. /\ UpShape /\ UpQueue /\ UpWorker /\ UpHelpers /\ UpUntouched /\ UpCached
      /\ worker.pc # "idle" /\ jobs \in Seq(Requests) /\ jobs' = jobs
  BY DEF UpFrame, UpShape, WorkerAt, WorkerFailed
<1>a. worker.job \in 1 .. Len(jobs)
  BY <1>1 DEF UpWorker
<1>2. Request.package \in Package /\ Request.auto \in BOOLEAN /\ worker.job \in Jobs /\ jobs # <<>>
  BY <1>1, <1>a, UpRequest DEF Request
<1>3. [svc EXCEPT !.state = "failed", !.path = None] \in SvcRecords
  BY <1>1 DEF UpShape, SvcRecords, SvcStates
<1>4. svc' \in SvcRecords /\ status' \in StatusFiles /\ files' \subseteq Package
  BY <1>1, <1>3, UpPublish DEF WorkerFailed, CleanupThen, UpShape
<1>b. plat' \in PlatRecords
  BY <1>1 DEF WorkerFailed, CleanupStageDir, UpShape, PlatRecords
<1>5. plat' \in PlatRecords /\ stages' \in [Jobs -> {"none", "made", "full"}]
  BY <1>1, <1>b DEF WorkerFailed, CleanupStageDir, UpShape
<1>10. UpWorker' /\ UpQueue'
  BY <1>1, <1>2, UpGoto, UpIdle DEF WorkerFailed, WorkerPcs, WorkerAt, UpQueue
<1>11. UpShape'
  BY <1>1, <1>4, <1>5 DEF WorkerFailed, UpShape, PlatRecords, proc, tmpfs, cancels
<1>12. UpHelpers'
  BY <1>1 DEF WorkerFailed, UpHelpers
<1>13. UpCached'
  BY <1>1, <1>4, <1>5, UpIdle DEF WorkerFailed, UpCached, UpShape, PlatRecords, WorkerAt, Goto,
      UpWorker
<1> QED BY <1>1, <1>2, <1>10, <1>11, <1>12, <1>13 DEF UpFrame, UpUntouched

LEMMA FrameWorkerLaunch ==
  ASSUME UpFrame, WorkerLaunch
  PROVE  UpFrame'
<1>1. /\ UpShape /\ UpQueue /\ UpWorker /\ UpHelpers /\ UpUntouched /\ UpCached
      /\ worker.pc # "idle" /\ jobs \in Seq(Requests) /\ jobs' = jobs
  BY DEF UpFrame, UpShape, WorkerAt, WorkerLaunch
<1>a. worker.job \in 1 .. Len(jobs)
  BY <1>1 DEF UpWorker
<1>2. Request.package \in Package /\ Request.auto \in BOOLEAN /\ worker.job \in Jobs /\ jobs # <<>>
  BY <1>1, <1>a, UpRequest DEF Request
<1>3. plat.cached \in Package
  BY DEF UpFrame, UpCached, WorkerAt, WorkerLaunch
<1>4. status' \in StatusFiles
  BY <1>1, <1>3, UpMainStatus DEF WorkerLaunch, UpShape, SvcStates
<1>5. (RequiresReboot(plat.cached) /\ plat.auto) \in BOOLEAN
  BY <1>1
<1>b. PICK b \in BOOLEAN : b = (RequiresReboot(plat.cached) /\ plat.auto)
  BY <1>5
<1>c. PICK new : new = [pc |-> "parse", i |-> 0, reboot |-> b]
  OBVIOUS
<1>d. new \in [pc : HelperPcs, i : Nat, reboot : BOOLEAN]
  BY <1>c DEF HelperPcs
<1>e. helper' = helper \/ helper' = [helper EXCEPT ![worker.job] = new]
  BY <1>b, <1>c DEF WorkerLaunch
<1>6. helper' \in [Jobs -> [pc : HelperPcs, i : Nat, reboot : BOOLEAN]]
  BY <1>1, <1>d, <1>e DEF UpHelpers
<1>7. \A j \in Jobs : helper'[j].pc # "none" => j <= Len(jobs)
  <2>1. CASE helper' = helper
    BY <1>1, <2>1 DEF UpHelpers
  <2>2. CASE helper' = [helper EXCEPT ![worker.job] = new]
    <3> SUFFICES ASSUME NEW j \in Jobs, helper'[j].pc # "none" PROVE j <= Len(jobs)
      OBVIOUS
    <3>1. CASE j = worker.job
      BY <3>1, <1>a
    <3>2. CASE j # worker.job
      BY <3>2, <2>2, <1>1 DEF UpHelpers
    <3> QED BY <3>1, <3>2
  <2> QED BY <1>e, <2>1, <2>2
<1>10. UpWorker' /\ UpQueue'
  BY <1>1, <1>2, UpGoto, UpIdle DEF WorkerLaunch, WorkerPcs, WorkerAt, UpQueue
<1>11. UpShape'
  BY <1>1, <1>2, <1>4 DEF WorkerLaunch, UpShape, PlatRecords, proc, tmpfs, cancels
<1>12. UpHelpers'
  BY <1>1, <1>6, <1>7, <1>2 DEF WorkerLaunch, UpHelpers
<1>13. UpCached'
  BY <1>1, <1>2, <1>4, UpIdle DEF WorkerLaunch, UpCached, UpShape, PlatRecords, WorkerAt, Goto,
      UpWorker
<1> QED BY <1>1, <1>2, <1>10, <1>11, <1>12, <1>13 DEF UpFrame, UpUntouched

LEMMA FrameWorkerHandoff ==
  ASSUME UpFrame, WorkerHandoff
  PROVE  UpFrame'
<1>1. /\ UpShape /\ UpQueue /\ UpWorker /\ UpHelpers /\ UpUntouched /\ UpCached
      /\ worker.pc # "idle" /\ jobs \in Seq(Requests) /\ jobs' = jobs
  BY DEF UpFrame, UpShape, WorkerAt, WorkerHandoff
<1>a. worker.job \in 1 .. Len(jobs)
  BY <1>1 DEF UpWorker
<1>2. Request.package \in Package /\ Request.auto \in BOOLEAN /\ worker.job \in Jobs /\ jobs # <<>>
  BY <1>1, <1>a, UpRequest DEF Request
<1>3. plat.cached \in Package
  BY DEF UpFrame, UpCached, WorkerAt, WorkerHandoff
<1>4. status' \in StatusFiles
  BY <1>1, <1>3, UpMainStatus DEF WorkerHandoff, UpShape, SvcStates
<1>10. UpWorker' /\ UpQueue'
  BY <1>1, <1>2, UpGoto, UpIdle DEF WorkerHandoff, WorkerPcs, WorkerAt, UpQueue
<1>11. UpShape'
  BY <1>1, <1>4 DEF WorkerHandoff, UpShape, PlatRecords, proc, tmpfs, cancels
<1>12. UpHelpers'
  BY <1>1 DEF WorkerHandoff, UpHelpers
<1>13. UpCached'
  BY <1>1, <1>4, UpIdle DEF WorkerHandoff, UpCached, UpShape, PlatRecords, WorkerAt, Goto,
      UpWorker, PlatRecords
<1> QED BY <1>1, <1>2, <1>10, <1>11, <1>12, <1>13 DEF UpFrame, UpUntouched

LEMMA FrameWorkerMark ==
  ASSUME UpFrame, WorkerMark
  PROVE  UpFrame'
<1>1. /\ UpShape /\ UpQueue /\ UpWorker /\ UpHelpers /\ UpUntouched /\ UpCached
      /\ worker.pc # "idle" /\ jobs \in Seq(Requests) /\ jobs' = jobs
  BY DEF UpFrame, UpShape, WorkerAt, WorkerMark
<1>a. worker.job \in 1 .. Len(jobs)
  BY <1>1 DEF UpWorker
<1>2. Request.package \in Package /\ Request.auto \in BOOLEAN /\ worker.job \in Jobs /\ jobs # <<>>
  BY <1>1, <1>a, UpRequest DEF Request
<1>3. [svc EXCEPT !.ext = TRUE, !.state = "writing"] \in SvcRecords
  BY <1>1 DEF UpShape, SvcRecords, SvcStates
<1>4. svc' \in SvcRecords /\ status' \in StatusFiles
  BY <1>1, <1>3, UpPublish DEF WorkerMark, UpShape
<1>10. UpWorker' /\ UpQueue'
  BY <1>1, <1>2, UpGoto, UpIdle DEF WorkerMark, WorkerPcs, WorkerAt, UpQueue
<1>11. UpShape'
  BY <1>1, <1>4 DEF WorkerMark, UpShape, PlatRecords, proc, tmpfs, cancels
<1>12. UpHelpers'
  BY <1>1 DEF WorkerMark, UpHelpers
<1>13. UpCached'
  BY <1>1, <1>4, UpIdle DEF WorkerMark, UpCached, UpShape, PlatRecords, WorkerAt, Goto, UpWorker
<1> QED BY <1>1, <1>2, <1>10, <1>11, <1>12, <1>13 DEF UpFrame, UpUntouched

LEMMA FrameWorkerExtract ==
  ASSUME UpFrame, WorkerExtract
  PROVE  UpFrame'
<1>1. /\ UpShape /\ UpQueue /\ UpWorker /\ UpHelpers /\ UpUntouched /\ UpCached
      /\ worker.pc # "idle" /\ jobs \in Seq(Requests) /\ jobs' = jobs
  BY DEF UpFrame, UpShape, WorkerAt, WorkerExtract
<1>a. worker.job \in 1 .. Len(jobs)
  BY <1>1 DEF UpWorker
<1>2. Request.package \in Package /\ Request.auto \in BOOLEAN /\ worker.job \in Jobs /\ jobs # <<>>
  BY <1>1, <1>a, UpRequest DEF Request
<1>10. UpWorker' /\ UpQueue'
  BY <1>1, <1>2, UpGoto, UpIdle DEF WorkerExtract, WorkerPcs, WorkerAt, UpQueue
<1>11. UpShape'
  BY <1>1, <1>2 DEF WorkerExtract, UpShape, PlatRecords, proc, tmpfs, cancels
<1>12. UpHelpers'
  BY <1>1 DEF WorkerExtract, UpHelpers
<1>13. UpCached'
  BY <1>1, <1>2, UpIdle DEF WorkerExtract, UpCached, UpShape, PlatRecords, WorkerAt, Goto,
      UpWorker
<1> QED BY <1>1, <1>2, <1>10, <1>11, <1>12, <1>13 DEF UpFrame, UpUntouched

LEMMA FrameWorkerApply ==
  ASSUME UpFrame, WorkerApply
  PROVE  UpFrame'
<1>1. /\ UpShape /\ UpQueue /\ UpWorker /\ UpHelpers /\ UpUntouched /\ UpCached
      /\ worker.pc # "idle" /\ jobs \in Seq(Requests) /\ jobs' = jobs
  BY DEF UpFrame, UpShape, WorkerAt, WorkerApply
<1>a. worker.job \in 1 .. Len(jobs)
  BY <1>1 DEF UpWorker
<1>2. Request.package \in Package /\ Request.auto \in BOOLEAN /\ worker.job \in Jobs /\ jobs # <<>>
  BY <1>1, <1>a, UpRequest DEF Request
<1>3. plat.cached \in Package
  BY DEF UpFrame, UpCached, WorkerAt, WorkerApply
<1>4. status' \in StatusFiles
  BY <1>1, <1>3, UpMainStatus DEF WorkerApply, WriteFailed, UpShape, SvcStates
<1>10. UpWorker' /\ UpQueue'
  <2>1. Goto("fail") \/ worker' = [worker EXCEPT !.pc = "burn", !.i = 1]
    BY DEF WorkerApply, WriteFailed
  <2>2. {"fail", "burn"} \subseteq WorkerPcs \ {"idle"} /\ worker.i \in Nat /\ worker.i + 1 \in Nat
    BY <1>1 DEF WorkerPcs, UpWorker
  <2>3. UpWorker'
    BY <1>1, <2>1, <2>2, UpGoto, UpCommand
  <2> QED BY <1>1, <2>3 DEF WorkerApply, UpQueue
<1>11. UpShape'
  BY <1>1, <1>4 DEF WorkerApply, UpShape, PlatRecords, proc, tmpfs, cancels
<1>12. UpHelpers'
  BY <1>1 DEF WorkerApply, UpHelpers
<1>13. UpCached'
  BY <1>1, <1>4, UpIdle DEF WorkerApply, UpCached, UpShape, PlatRecords, WorkerAt, Goto,
      UpWorker, WriteFailed
<1> QED BY <1>1, <1>2, <1>10, <1>11, <1>12, <1>13 DEF UpFrame, UpUntouched

LEMMA FrameWorkerBurn ==
  ASSUME UpFrame, WorkerBurn
  PROVE  UpFrame'
<1>1. /\ UpShape /\ UpQueue /\ UpWorker /\ UpHelpers /\ UpUntouched /\ UpCached
      /\ worker.pc # "idle" /\ jobs \in Seq(Requests) /\ jobs' = jobs
  BY DEF UpFrame, UpShape, WorkerAt, WorkerBurn
<1>a. worker.job \in 1 .. Len(jobs)
  BY <1>1 DEF UpWorker
<1>2. Request.package \in Package /\ Request.auto \in BOOLEAN /\ worker.job \in Jobs /\ jobs # <<>>
  BY <1>1, <1>a, UpRequest DEF Request
<1>3. plat.cached \in Package
  BY DEF UpFrame, UpCached, WorkerAt, WorkerBurn
<1>4. status' \in StatusFiles
  BY <1>1, <1>3, UpMainStatus DEF WorkerBurn, WriteFailed, UpShape, SvcStates
<1>5. flash' \in [Partition -> Image] /\ wrote' \subseteq Jobs
  BY <1>1, <1>2 DEF WorkerBurn, Erase, UpShape, Image
<1>10. UpWorker' /\ UpQueue'
  <2>1. Goto("fail") \/ Goto("written") \/ Goto("program")
    BY DEF WorkerBurn, WriteFailed
  <2>2. {"fail", "written", "program"} \subseteq WorkerPcs \ {"idle"} /\ worker.i \in Nat /\ worker.i + 1 \in Nat
    BY <1>1 DEF WorkerPcs, UpWorker
  <2>3. UpWorker'
    BY <1>1, <2>1, <2>2, UpGoto, UpCommand
  <2> QED BY <1>1, <2>3 DEF WorkerBurn, UpQueue
<1>11. UpShape'
  BY <1>1, <1>4, <1>5 DEF WorkerBurn, UpShape, PlatRecords, proc, tmpfs, cancels
<1>12. UpHelpers'
  BY <1>1 DEF WorkerBurn, UpHelpers
<1>13. UpCached'
  BY <1>1, <1>4, <1>5, UpIdle DEF WorkerBurn, UpCached, UpShape, PlatRecords, WorkerAt, Goto,
      UpWorker, WriteFailed
<1> QED BY <1>1, <1>2, <1>10, <1>11, <1>12, <1>13 DEF UpFrame, UpUntouched

LEMMA FrameWorkerProgram ==
  ASSUME UpFrame, WorkerProgram
  PROVE  UpFrame'
<1>1. /\ UpShape /\ UpQueue /\ UpWorker /\ UpHelpers /\ UpUntouched /\ UpCached
      /\ worker.pc # "idle" /\ jobs \in Seq(Requests) /\ jobs' = jobs
  BY DEF UpFrame, UpShape, WorkerAt, WorkerProgram
<1>a. worker.job \in 1 .. Len(jobs)
  BY <1>1 DEF UpWorker
<1>2. Request.package \in Package /\ Request.auto \in BOOLEAN /\ worker.job \in Jobs /\ jobs # <<>>
  BY <1>1, <1>a, UpRequest DEF Request
<1>3. flash' \in [Partition -> Image]
  BY <1>1, <1>2 DEF WorkerProgram, Program, UpShape, Image
<1>10. UpWorker' /\ UpQueue'
  BY <1>1, <1>2, UpGoto, UpIdle DEF WorkerProgram, WorkerPcs, WorkerAt, UpQueue
<1>11. UpShape'
  BY <1>1, <1>3 DEF WorkerProgram, UpShape, PlatRecords, proc, tmpfs, cancels
<1>12. UpHelpers'
  BY <1>1 DEF WorkerProgram, UpHelpers
<1>13. UpCached'
  BY <1>1, <1>3, UpIdle DEF WorkerProgram, UpCached, UpShape, PlatRecords, WorkerAt, Goto,
      UpWorker
<1> QED BY <1>1, <1>2, <1>10, <1>11, <1>12, <1>13 DEF UpFrame, UpUntouched

LEMMA FrameWorkerVerify ==
  ASSUME UpFrame, WorkerVerify
  PROVE  UpFrame'
<1>1. /\ UpShape /\ UpQueue /\ UpWorker /\ UpHelpers /\ UpUntouched /\ UpCached
      /\ worker.pc # "idle" /\ jobs \in Seq(Requests) /\ jobs' = jobs
  BY DEF UpFrame, UpShape, WorkerAt, WorkerVerify
<1>a. worker.job \in 1 .. Len(jobs)
  BY <1>1 DEF UpWorker
<1>2. Request.package \in Package /\ Request.auto \in BOOLEAN /\ worker.job \in Jobs /\ jobs # <<>>
  BY <1>1, <1>a, UpRequest DEF Request
<1>3. plat.cached \in Package
  BY DEF UpFrame, UpCached, WorkerAt, WorkerVerify
<1>4. status' \in StatusFiles
  BY <1>1, <1>3, UpMainStatus DEF WorkerVerify, WriteFailed, UpShape, SvcStates
<1>10. UpWorker' /\ UpQueue'
  <2>1. Goto("fail") \/ worker' = [worker EXCEPT !.pc = "burn", !.i = worker.i + 1]
    BY DEF WorkerVerify, WriteFailed
  <2>2. {"fail", "burn"} \subseteq WorkerPcs \ {"idle"} /\ worker.i \in Nat /\ worker.i + 1 \in Nat
    BY <1>1 DEF WorkerPcs, UpWorker
  <2>3. UpWorker'
    BY <1>1, <2>1, <2>2, UpGoto, UpCommand
  <2> QED BY <1>1, <2>3 DEF WorkerVerify, UpQueue
<1>11. UpShape'
  BY <1>1, <1>4 DEF WorkerVerify, UpShape, PlatRecords, proc, tmpfs, cancels
<1>12. UpHelpers'
  BY <1>1 DEF WorkerVerify, UpHelpers
<1>13. UpCached'
  BY <1>1, <1>4, UpIdle DEF WorkerVerify, UpCached, UpShape, PlatRecords, WorkerAt, Goto,
      UpWorker, WriteFailed
<1> QED BY <1>1, <1>2, <1>10, <1>11, <1>12, <1>13 DEF UpFrame, UpUntouched

LEMMA FrameWorkerWritten ==
  ASSUME UpFrame, WorkerWritten
  PROVE  UpFrame'
<1>1. /\ UpShape /\ UpQueue /\ UpWorker /\ UpHelpers /\ UpUntouched /\ UpCached
      /\ worker.pc # "idle" /\ jobs \in Seq(Requests) /\ jobs' = jobs
  BY DEF UpFrame, UpShape, WorkerAt, WorkerWritten
<1>a. worker.job \in 1 .. Len(jobs)
  BY <1>1 DEF UpWorker
<1>2. Request.package \in Package /\ Request.auto \in BOOLEAN /\ worker.job \in Jobs /\ jobs # <<>>
  BY <1>1, <1>a, UpRequest DEF Request
<1>3. [svc EXCEPT !.state = "committing"] \in SvcRecords
  BY <1>1 DEF UpShape, SvcRecords, SvcStates
<1>4. svc' \in SvcRecords /\ status' \in StatusFiles
  BY <1>1, <1>3, UpPublish DEF WorkerWritten, UpdateStatus, UpShape
<1>10. UpWorker' /\ UpQueue'
  BY <1>1, <1>2, UpGoto, UpIdle DEF WorkerWritten, WorkerPcs, WorkerAt, UpQueue
<1>11. UpShape'
  BY <1>1, <1>4 DEF WorkerWritten, UpShape, PlatRecords, proc, tmpfs, cancels
<1>12. UpHelpers'
  BY <1>1 DEF WorkerWritten, UpHelpers
<1>13. UpCached'
  BY <1>1, <1>4, UpIdle DEF WorkerWritten, UpCached, UpShape, PlatRecords, WorkerAt, Goto,
      UpWorker
<1> QED BY <1>1, <1>2, <1>10, <1>11, <1>12, <1>13 DEF UpFrame, UpUntouched

LEMMA FrameWorkerCommit ==
  ASSUME UpFrame, WorkerCommit
  PROVE  UpFrame'
<1>1. /\ UpShape /\ UpQueue /\ UpWorker /\ UpHelpers /\ UpUntouched /\ UpCached
      /\ worker.pc # "idle" /\ jobs \in Seq(Requests) /\ jobs' = jobs
  BY DEF UpFrame, UpShape, WorkerAt, WorkerCommit
<1>a. worker.job \in 1 .. Len(jobs)
  BY <1>1 DEF UpWorker
<1>2. Request.package \in Package /\ Request.auto \in BOOLEAN /\ worker.job \in Jobs /\ jobs # <<>>
  BY <1>1, <1>a, UpRequest DEF Request
<1>3. status' \in StatusFiles
  BY <1>1, <1>2, UpMainStatus DEF WorkerCommit, UpShape, SvcStates
<1>5. plat' \in PlatRecords /\ stages' \in [Jobs -> {"none", "made", "full"}] /\ plat'.cached = plat.cached
  BY <1>1 DEF WorkerCommit, CleanupStageDir, UpShape, PlatRecords
<1>10. UpWorker' /\ UpQueue'
  BY <1>1, <1>2, UpGoto, UpIdle DEF WorkerCommit, WorkerPcs, WorkerAt, UpQueue
<1>11. UpShape'
  BY <1>1, <1>3, <1>5 DEF WorkerCommit, UpShape, PlatRecords, proc, tmpfs, cancels
<1>12. UpHelpers'
  BY <1>1 DEF WorkerCommit, UpHelpers
<1>13. UpCached'
  BY <1>1, <1>3, <1>5, UpIdle DEF WorkerCommit, UpCached, UpShape, PlatRecords, WorkerAt, Goto,
      UpWorker
<1> QED BY <1>1, <1>2, <1>10, <1>11, <1>12, <1>13 DEF UpFrame, UpUntouched

LEMMA FrameWorkerFinish ==
  ASSUME UpFrame, WorkerFinish
  PROVE  UpFrame'
<1>1. /\ UpShape /\ UpQueue /\ UpWorker /\ UpHelpers /\ UpUntouched /\ UpCached
      /\ worker.pc # "idle" /\ jobs \in Seq(Requests) /\ jobs' = jobs
  BY DEF UpFrame, UpShape, WorkerAt, WorkerFinish
<1>a. worker.job \in 1 .. Len(jobs)
  BY <1>1 DEF UpWorker
<1>2. Request.package \in Package /\ Request.auto \in BOOLEAN /\ worker.job \in Jobs /\ jobs # <<>>
  BY <1>1, <1>a, UpRequest DEF Request
<1>3. \A s \in SvcStates : [svc EXCEPT !.state = s, !.path = None] \in SvcRecords
  BY <1>1 DEF UpShape, SvcRecords
<1>4. svc' \in SvcRecords /\ status' \in StatusFiles /\ files' \subseteq Package
  BY <1>1, <1>3, UpPublish DEF WorkerFinish, CleanupThen, UpShape, SvcStates
<1>5. power' \in {"on", "lost", "auto", "confirm"}
  BY <1>1 DEF WorkerFinish, RebootToApply, UpShape
<1>10. UpWorker' /\ UpQueue'
  BY <1>1, <1>2, UpGoto, UpIdle DEF WorkerFinish, WorkerPcs, WorkerAt, UpQueue
<1>11. UpShape'
  BY <1>1, <1>4, <1>5 DEF WorkerFinish, UpShape, PlatRecords, proc, tmpfs, cancels
<1>12. UpHelpers'
  BY <1>1 DEF WorkerFinish, UpHelpers
<1>13. UpCached'
  BY <1>1, <1>4, <1>5, UpIdle DEF WorkerFinish, UpCached, UpShape, PlatRecords, WorkerAt, Goto,
      UpWorker
<1> QED BY <1>1, <1>2, <1>10, <1>11, <1>12, <1>13 DEF UpFrame, UpUntouched

LEMMA UpGone ==
  ASSUME UpFrame, MainGone
  PROVE  /\ svc' \in SvcRecords /\ plat' \in PlatRecords /\ up' = FALSE /\ term' = FALSE
         /\ svc'.state = "idle" /\ api' = "idle" /\ worker' = IdleWorker /\ queue' = <<>>
  BY DEF MainGone, FreshInfo, Status, SvcRecords, PlatRecords, SvcStates, Versions

LEMMA FrameUpload ==
  ASSUME UpFrame, NEW p \in Package, Upload(p)
  PROVE  UpFrame'
<1>10. UpShape'
  BY DEF Upload, UpFrame, UpShape, ApiPcs, proc, tmpfs, cancels
<1>11. UpQueue' /\ UpWorker' /\ UpHelpers'
  BY DEF Upload, UpFrame, UpQueue, UpWorker, UpHelpers, proc
<1>12. UpUntouched'
  BY DEF Upload, ApiAt, UpFrame, UpUntouched, IsCancelableState
<1>13. UpCached'
  BY DEF Upload, UpFrame, UpShape, PlatRecords, UpCached
<1> QED BY <1>10, <1>11, <1>12, <1>13 DEF UpFrame

LEMMA FrameValidatePackage ==
  ASSUME UpFrame, NEW p \in Package, ValidatePackage(p), files' \subseteq Package,
         UNCHANGED <<jobs, helper, running, power, boots, stages, status, flash, uploads, cancels, wrote>>
  PROVE  UpFrame'
<1>1. CASE ~MainGone
  <2>1. plat' \in PlatRecords /\ plat'.cached \in Package /\ api' = "idle"
    BY <1>1 DEF ValidatePackage, UpFrame, UpShape, PlatRecords
  <2>2. UNCHANGED <<svc, queue, worker, up, term>>
    BY <1>1 DEF ValidatePackage
  <2>3. UpShape'
    BY <2>1, <2>2 DEF UpFrame, UpShape, ApiPcs, cancels
  <2>4. UpQueue' /\ UpWorker' /\ UpHelpers' /\ UpUntouched' /\ UpCached'
    BY <2>1, <2>2 DEF UpFrame, UpQueue, UpWorker, UpHelpers, UpUntouched, UpCached
  <2> QED BY <2>3, <2>4 DEF UpFrame
<1>2. CASE MainGone
  <2>1. /\ svc' \in SvcRecords /\ plat' \in PlatRecords /\ up' = FALSE /\ term' = FALSE
        /\ svc'.state = "idle" /\ api' = "idle" /\ worker' = IdleWorker /\ queue' = <<>>
    BY <1>2, UpGone
  <2>2. UpShape'
    BY <2>1 DEF UpFrame, UpShape, ApiPcs, cancels
  <2>3. UpWorker' /\ UpCached'
    BY <2>1, UpIdle DEF UpFrame, UpShape
  <2>4. UpQueue'
    BY <2>1, BoundsAssumption DEF UpQueue
  <2> QED BY <2>1, <2>2, <2>3, <2>4 DEF UpFrame, UpHelpers, UpUntouched
<1> QED BY <1>1, <1>2

LEMMA FrameUploadValidate ==
  ASSUME UpFrame, UploadValidate
  PROVE  UpFrame'
<1>1. PICK p \in files :
         IF ParseUpgradePackage(p)
         THEN ValidatePackage(p) /\ UNCHANGED files
         ELSE /\ files' = files \ {p} /\ api' = "idle"
              /\ UNCHANGED <<svc, plat, queue, worker, up, term>>
  BY DEF UploadValidate
<1>2. CASE ParseUpgradePackage(p)
  BY <1>1, <1>2, FrameValidatePackage DEF UploadValidate, UpFrame, UpShape
<1>3. CASE ~ParseUpgradePackage(p)
  <2>1. UpShape'
    BY <1>1, <1>3 DEF UploadValidate, UpFrame, UpShape, ApiPcs, cancels
  <2>2. UpQueue' /\ UpWorker' /\ UpHelpers' /\ UpUntouched' /\ UpCached'
    BY <1>1, <1>3 DEF UploadValidate, UpFrame, UpQueue, UpWorker, UpHelpers, UpUntouched, UpCached
  <2> QED BY <2>1, <2>2 DEF UpFrame
<1> QED BY <1>2, <1>3

LEMMA FrameHandleValidate ==
  ASSUME UpFrame, NEW p \in Package, HandleValidate(p)
  PROVE  UpFrame'
  BY FrameValidatePackage DEF HandleValidate, UpFrame, UpShape, tmpfs

LEMMA FrameStartUpgrade ==
  ASSUME UpFrame, NEW r \in Requests, StartUpgrade(r)
  PROVE  UpFrame'
<1> DEFINE s == [state |-> "validating", target |-> None, path |-> r.package, cancel |-> FALSE, ext |-> FALSE]
<1>1. s \in SvcRecords
  BY PackagesAssumption DEF SvcRecords, SvcStates, Versions
<1>2. Publish(s) /\ jobs' = Append(jobs, r) /\ jobs \in Seq(Requests) /\ Len(jobs) < MaxJobs
  BY DEF StartUpgrade, UpFrame, UpShape
<1> HIDE DEF s
<1>3. svc' \in SvcRecords /\ status' \in StatusFiles
  BY <1>1, <1>2, UpPublish DEF UpFrame, UpShape
<1>4. jobs' \in Seq(Requests) /\ Len(jobs') = Len(jobs) + 1 /\ Len(jobs) \in Nat /\ jobs' # <<>>
  BY <1>2
<1>5. Len(jobs') \in Jobs
  BY <1>2, <1>4, BoundsAssumption DEF Jobs
<1>6. early' \subseteq Jobs
  BY <1>4, <1>5 DEF StartUpgrade, UpFrame, UpShape
<1>7. worker \in [pc : WorkerPcs, job : 0 .. Len(jobs'), i : Nat]
  BY <1>4 DEF UpFrame, UpWorker
<1>8. \A k \in DOMAIN queue : queue[k] <= Len(jobs')
  <2> SUFFICES ASSUME NEW k \in DOMAIN queue PROVE queue[k] <= Len(jobs')
    OBVIOUS
  <2>1. queue[k] \in Jobs /\ queue[k] <= Len(jobs)
    BY DEF UpFrame, UpQueue
  <2> QED BY <2>1, <1>4 DEF Jobs
<1>12. \A j \in Jobs : helper[j].pc # "none" => j <= Len(jobs')
  BY <1>4 DEF UpFrame, UpHelpers, Jobs
<1>9. api' \in ApiPcs /\ UNCHANGED <<plat, queue, worker, helper, proc, tmpfs, flash, canceled, wrote>>
  BY DEF StartUpgrade, ApiPcs
<1>10. UpShape'
  BY <1>2, <1>3, <1>4, <1>6, <1>7, <1>9, BoundsAssumption DEF UpFrame, UpShape, proc, tmpfs
<1>11. UpQueue' /\ UpWorker' /\ UpHelpers' /\ UpUntouched' /\ UpCached'
  BY <1>4, <1>7, <1>8, <1>9, <1>12 DEF UpFrame, UpQueue, UpWorker, UpHelpers, UpUntouched,
      UpCached
<1> QED BY <1>10, <1>11 DEF UpFrame

LEMMA FrameStartPost ==
  ASSUME UpFrame, StartPost
  PROVE  UpFrame'
<1>1. /\ jobs # <<>> /\ jobs \in Seq(Requests) /\ queue \in Seq(Jobs) /\ Len(jobs) <= MaxJobs
      /\ \A k \in DOMAIN queue : queue[k] <= Len(jobs)
  BY DEF StartPost, ApiAt, UpFrame, UpShape, UpQueue, UpWorker, UpHelpers, UpUntouched
<1>2. Len(jobs) \in Jobs /\ Len(jobs) \in Nat
  BY <1>1, BoundsAssumption DEF Jobs
<1>3. [svc EXCEPT !.state = "failed"] \in SvcRecords
  BY DEF UpFrame, UpShape, SvcRecords, SvcStates
<1>4. svc' \in SvcRecords /\ status' \in StatusFiles
  BY <1>3, UpPublish DEF StartPost, UpdateStatus, UpFrame, UpShape
<1>5. queue' \in Seq(Jobs) /\ Len(queue') <= QueueCapacity
  BY <1>1, <1>2, BoundsAssumption DEF StartPost, UpFrame, UpQueue
<1>6. \A k \in DOMAIN queue' : queue'[k] <= Len(jobs)
  BY <1>1, <1>2 DEF StartPost
<1>7. /\ api' = "idle"
      /\ UNCHANGED <<plat, worker, jobs, helper, proc, tmpfs, flash, uploads, cancels, wrote>>
  BY DEF StartPost
<1> QED BY <1>1, <1>4, <1>5, <1>6, <1>7 DEF UpFrame, UpShape, UpQueue, UpWorker, UpHelpers,
    UpUntouched, UpCached, ApiPcs, proc, tmpfs, cancels

LEMMA FrameCancelUpgrade ==
  ASSUME UpFrame, CancelUpgrade
  PROVE  UpFrame'
<1>10. UpShape'
  BY DEF CancelUpgrade, UpFrame, UpShape, ApiPcs, proc, tmpfs, cancels, SvcRecords
<1>11. UpQueue' /\ UpWorker' /\ UpHelpers'
  BY DEF CancelUpgrade, UpFrame, UpQueue, UpWorker, UpHelpers, proc
<1>12. UpUntouched'
  BY DEF CancelUpgrade, ApiAt, UpFrame, UpUntouched, IsCancelableState
<1>13. UpCached'
  BY DEF CancelUpgrade, UpFrame, UpShape, PlatRecords, UpCached
<1> QED BY <1>10, <1>11, <1>12, <1>13 DEF UpFrame

LEMMA FrameCancelPlatform ==
  ASSUME UpFrame, CancelPlatform
  PROVE  UpFrame'
<1>10. UpShape'
  BY DEF CancelPlatform, UpFrame, UpShape, ApiPcs, proc, tmpfs, cancels, PlatRecords
<1>11. UpQueue' /\ UpWorker' /\ UpHelpers'
  BY DEF CancelPlatform, UpFrame, UpQueue, UpWorker, UpHelpers, proc
<1>12. UpUntouched'
  BY DEF CancelPlatform, ApiAt, UpFrame, UpUntouched, IsCancelableState
<1>13. UpCached'
  BY DEF CancelPlatform, UpFrame, UpShape, PlatRecords, UpCached
<1> QED BY <1>10, <1>11, <1>12, <1>13 DEF UpFrame

LEMMA FrameCancelFinish ==
  ASSUME UpFrame, CancelFinish
  PROVE  UpFrame'
<1>1. [svc EXCEPT !.state = "canceled", !.path = None] \in SvcRecords
  BY DEF UpFrame, UpShape, SvcRecords, SvcStates
<1>2. svc' \in SvcRecords /\ status' \in StatusFiles /\ files' \subseteq Package
  BY <1>1, UpPublish DEF CancelFinish, CleanupThen, UpFrame, UpShape
<1>3. jobs # <<>> /\ jobs \in Seq(Requests) /\ Len(jobs) <= MaxJobs
  BY DEF CancelFinish, ApiAt, UpFrame, UpShape, UpQueue, UpWorker, UpHelpers, UpUntouched
<1>4. Len(jobs) \in Jobs
  BY <1>3, BoundsAssumption DEF Jobs
<1>10. UpShape'
  BY <1>2, <1>3, <1>4 DEF CancelFinish, UpFrame, UpShape, ApiPcs, proc, tmpfs, cancels
<1>11. UpQueue' /\ UpWorker' /\ UpHelpers'
  BY DEF CancelFinish, UpFrame, UpQueue, UpWorker, UpHelpers, proc
<1>12. UpUntouched'
  BY <1>2, <1>3, <1>4 DEF CancelFinish, ApiAt, UpFrame, UpUntouched, IsCancelableState
<1>13. UpCached'
  BY DEF CancelFinish, UpFrame, UpShape, PlatRecords, UpCached
<1> QED BY <1>10, <1>11, <1>12, <1>13 DEF UpFrame

LEMMA FrameConfirmReboot ==
  ASSUME UpFrame, ConfirmReboot
  PROVE  UpFrame'
<1>1. [svc EXCEPT !.state = "failed"] \in SvcRecords
  BY DEF UpFrame, UpShape, SvcRecords, SvcStates
<1>2. svc' \in SvcRecords /\ status' \in StatusFiles /\ power' \in {"on", "lost", "auto", "confirm"}
  BY <1>1, UpPublish DEF ConfirmReboot, UpdateStatus, RebootToApply, UpFrame, UpShape
<1>3. jobs # <<>>
  BY DEF ConfirmReboot, UpFrame, UpQueue, UpWorker, UpHelpers, UpUntouched
<1> QED BY <1>2, <1>3 DEF UpFrame, UpShape, UpQueue, UpWorker, UpHelpers, UpUntouched, UpCached,
    main, proc, tmpfs, cancels, ConfirmReboot

LEMMA FrameGetUpgradeInfo ==
  ASSUME UpFrame, GetUpgradeInfo
  PROVE  UpFrame'
<1>1. svc' \in SvcRecords /\ status' \in StatusFiles
  BY UpPublish DEF GetUpgradeInfo, UpFrame, UpShape
<1>2. jobs = <<>> => status' = None /\ svc'.state = "idle"
  <2> SUFFICES ASSUME jobs = <<>> PROVE status' = None /\ svc'.state = "idle"
    OBVIOUS
  <2>1. status = None /\ svc.state = "idle"
    BY DEF UpFrame, UpQueue, UpWorker, UpHelpers, UpUntouched
  <2> QED BY <2>1 DEF GetUpgradeInfo, Publish, Refreshed, StatusAfterLoad, Persisted, Status
<1> QED BY <1>1, <1>2 DEF UpFrame, UpShape, UpQueue, UpWorker, UpHelpers, UpUntouched, UpCached,
    main, proc, tmpfs, cancels, GetUpgradeInfo

LEMMA FrameHelperRefuse ==
  ASSUME UpFrame, NEW j \in Jobs, HelperRefuse(j)
  PROVE  UpFrame'
<1>1. j \in 1 .. Len(jobs) /\ j <= Len(jobs) /\ UpShape /\ UpHelpers /\ jobs' = jobs
  BY DEF UpFrame, UpShape, UpQueue, UpWorker, UpHelpers, UpUntouched, HelperAt, Jobs, HelperRefuse
<1>2. jobs[j].package \in Package /\ jobs # <<>>
  BY <1>1, UpRequest
<1>3. status' \in StatusFiles
  BY <1>1, UpHelperWrites DEF HelperRefuse, UpShape, SvcStates, Versions
<1>7. Step(j, "exited") 
  BY DEF HelperRefuse
<1>8. {"exited"} \subseteq HelperPcs /\ helper[j].i \in Nat /\ helper[j].i + 1 \in Nat /\ 1 \in Nat
  BY <1>1 DEF HelperPcs, UpHelpers
<1>10. UpHelpers'
  BY <1>1, <1>7, <1>8, UpStep, UpAdvance DEF UpHelpers
<1>11. UpShape'
  BY <1>1, <1>2, <1>3 DEF HelperRefuse, UpShape, main, proc, tmpfs, cancels
<1> QED BY <1>1, <1>2, <1>10, <1>11 DEF HelperRefuse, UpFrame, UpUntouched, UpQueue, UpWorker,
    UpCached, main

LEMMA FrameHelperParse ==
  ASSUME UpFrame, NEW j \in Jobs, HelperParse(j)
  PROVE  UpFrame'
<1>1. j \in 1 .. Len(jobs) /\ j <= Len(jobs) /\ UpShape /\ UpHelpers /\ jobs' = jobs
  BY DEF UpFrame, UpShape, UpQueue, UpWorker, UpHelpers, UpUntouched, HelperAt, Jobs, HelperParse
<1>2. jobs[j].package \in Package /\ jobs # <<>>
  BY <1>1, UpRequest
<1>3. status' \in StatusFiles
  BY <1>1, UpHelperStatus DEF HelperParse, UpShape, SvcStates
<1>7. Step(j, "serve") 
  BY DEF HelperParse
<1>8. {"serve"} \subseteq HelperPcs /\ helper[j].i \in Nat /\ helper[j].i + 1 \in Nat /\ 1 \in Nat
  BY <1>1 DEF HelperPcs, UpHelpers
<1>10. UpHelpers'
  BY <1>1, <1>7, <1>8, UpStep, UpAdvance DEF UpHelpers
<1>11. UpShape'
  BY <1>1, <1>2, <1>3 DEF HelperParse, UpShape, main, proc, tmpfs, cancels
<1> QED BY <1>1, <1>2, <1>10, <1>11 DEF HelperParse, UpFrame, UpUntouched, UpQueue, UpWorker,
    UpCached, main

LEMMA FrameHelperServe ==
  ASSUME UpFrame, NEW j \in Jobs, HelperServe(j)
  PROVE  UpFrame'
<1>1. j \in 1 .. Len(jobs) /\ j <= Len(jobs) /\ UpShape /\ UpHelpers /\ jobs' = jobs
  BY DEF UpFrame, UpShape, UpQueue, UpWorker, UpHelpers, UpUntouched, HelperAt, Jobs, HelperServe
<1>2. jobs[j].package \in Package /\ jobs # <<>>
  BY <1>1, UpRequest
<1>3. status' \in StatusFiles
  BY <1>1, UpHelperStatus DEF HelperServe, UpShape, SvcStates
<1>7. Step(j, "prepare") \/ Step(j, "exited") 
  BY DEF HelperServe
<1>8. {"prepare", "exited"} \subseteq HelperPcs /\ helper[j].i \in Nat /\ helper[j].i + 1 \in Nat /\ 1 \in Nat
  BY <1>1 DEF HelperPcs, UpHelpers
<1>10. UpHelpers'
  BY <1>1, <1>7, <1>8, UpStep, UpAdvance DEF UpHelpers
<1>11. UpShape'
  BY <1>1, <1>2, <1>3 DEF HelperServe, UpShape, main, proc, tmpfs, cancels
<1> QED BY <1>1, <1>2, <1>10, <1>11 DEF HelperServe, UpFrame, UpUntouched, UpQueue, UpWorker,
    UpCached, main

LEMMA FrameHelperPrepare ==
  ASSUME UpFrame, NEW j \in Jobs, HelperPrepare(j)
  PROVE  UpFrame'
<1>1. j \in 1 .. Len(jobs) /\ j <= Len(jobs) /\ UpShape /\ UpHelpers /\ jobs' = jobs
  BY DEF UpFrame, UpShape, UpQueue, UpWorker, UpHelpers, UpUntouched, HelperAt, Jobs,
      HelperPrepare
<1>2. jobs[j].package \in Package /\ jobs # <<>>
  BY <1>1, UpRequest
<1>3. status' \in StatusFiles
  BY <1>1, UpHelperStatus DEF HelperPrepare, UpShape, SvcStates
<1>7. Step(j, "extract") \/ Step(j, "failed") 
  BY DEF HelperPrepare
<1>8. {"extract", "failed"} \subseteq HelperPcs /\ helper[j].i \in Nat /\ helper[j].i + 1 \in Nat /\ 1 \in Nat
  BY <1>1 DEF HelperPcs, UpHelpers
<1>10. UpHelpers'
  BY <1>1, <1>7, <1>8, UpStep, UpAdvance DEF UpHelpers
<1>11. UpShape'
  BY <1>1, <1>2, <1>3 DEF HelperPrepare, UpShape, main, proc, tmpfs, cancels
<1> QED BY <1>1, <1>2, <1>10, <1>11 DEF HelperPrepare, UpFrame, UpUntouched, UpQueue, UpWorker,
    UpCached, main

LEMMA FrameHelperExtract ==
  ASSUME UpFrame, NEW j \in Jobs, HelperExtract(j)
  PROVE  UpFrame'
<1>1. j \in 1 .. Len(jobs) /\ j <= Len(jobs) /\ UpShape /\ UpHelpers /\ jobs' = jobs
  BY DEF UpFrame, UpShape, UpQueue, UpWorker, UpHelpers, UpUntouched, HelperAt, Jobs,
      HelperExtract
<1>2. jobs[j].package \in Package /\ jobs # <<>>
  BY <1>1, UpRequest
<1>3. status' \in StatusFiles
  BY <1>1, UpHelperStatus DEF HelperExtract, UpShape, SvcStates
<1>7. Step(j, "stop") \/ Step(j, "failed") 
  BY DEF HelperExtract
<1>8. {"stop", "failed"} \subseteq HelperPcs /\ helper[j].i \in Nat /\ helper[j].i + 1 \in Nat /\ 1 \in Nat
  BY <1>1 DEF HelperPcs, UpHelpers
<1>10. UpHelpers'
  BY <1>1, <1>7, <1>8, UpStep, UpAdvance DEF UpHelpers
<1>11. UpShape'
  BY <1>1, <1>2, <1>3 DEF HelperExtract, UpShape, main, proc, tmpfs, cancels
<1> QED BY <1>1, <1>2, <1>10, <1>11 DEF HelperExtract, UpFrame, UpUntouched, UpQueue, UpWorker,
    UpCached, main

LEMMA FrameHelperStopApp ==
  ASSUME UpFrame, NEW j \in Jobs, HelperStopApp(j)
  PROVE  UpFrame'
<1>1. j \in 1 .. Len(jobs) /\ j <= Len(jobs) /\ UpShape /\ UpHelpers /\ jobs' = jobs
  BY DEF UpFrame, UpShape, UpQueue, UpWorker, UpHelpers, UpUntouched, HelperAt, Jobs,
      HelperStopApp
<1>2. jobs[j].package \in Package /\ jobs # <<>>
  BY <1>1, UpRequest
<1>3. status' \in StatusFiles
  BY <1>1, UpHelperStatus DEF HelperStopApp, UpShape, SvcStates
<1>7. helper' = [helper EXCEPT ![j].pc = "burn", ![j].i = 1] 
  BY DEF HelperStopApp
<1>8. {"burn"} \subseteq HelperPcs /\ helper[j].i \in Nat /\ helper[j].i + 1 \in Nat /\ 1 \in Nat
  BY <1>1 DEF HelperPcs, UpHelpers
<1>9. PICK n \in Nat : n = 1
  OBVIOUS
<1>a. helper' = [helper EXCEPT ![j].pc = "burn", ![j].i = n]
  BY <1>7, <1>9
<1>10. UpHelpers'
  BY <1>1, <1>a, <1>8, UpAdvance
<1>11. UpShape'
  BY <1>1, <1>2, <1>3 DEF HelperStopApp, UpShape, main, proc, tmpfs, cancels
<1> QED BY <1>1, <1>2, <1>10, <1>11 DEF HelperStopApp, UpFrame, UpUntouched, UpQueue, UpWorker,
    UpCached, main

LEMMA FrameHelperVerify ==
  ASSUME UpFrame, NEW j \in Jobs, HelperVerify(j)
  PROVE  UpFrame'
<1>1. j \in 1 .. Len(jobs) /\ j <= Len(jobs) /\ UpShape /\ UpHelpers /\ jobs' = jobs
  BY DEF UpFrame, UpShape, UpQueue, UpWorker, UpHelpers, UpUntouched, HelperAt, Jobs, HelperVerify
<1>2. jobs[j].package \in Package /\ jobs # <<>>
  BY <1>1, UpRequest
<1>3. status' \in StatusFiles
  BY <1>1, UpHelperStatus DEF HelperVerify, UpShape, SvcStates
<1>7. helper' = [helper EXCEPT ![j].pc = "burn", ![j].i = helper[j].i + 1] \/ Step(j, "failed") 
  BY DEF HelperVerify
<1>8. {"burn", "failed"} \subseteq HelperPcs /\ helper[j].i \in Nat /\ helper[j].i + 1 \in Nat /\ 1 \in Nat
  BY <1>1 DEF HelperPcs, UpHelpers
<1>10. UpHelpers'
  BY <1>1, <1>7, <1>8, UpStep, UpAdvance DEF UpHelpers
<1>11. UpShape'
  BY <1>1, <1>2, <1>3 DEF HelperVerify, UpShape, main, proc, tmpfs, cancels
<1> QED BY <1>1, <1>2, <1>10, <1>11 DEF HelperVerify, UpFrame, UpUntouched, UpQueue, UpWorker,
    UpCached, main

LEMMA FrameHelperConfirm ==
  ASSUME UpFrame, NEW j \in Jobs, HelperConfirm(j)
  PROVE  UpFrame'
<1>1. j \in 1 .. Len(jobs) /\ j <= Len(jobs) /\ UpShape /\ UpHelpers /\ jobs' = jobs
  BY DEF UpFrame, UpShape, UpQueue, UpWorker, UpHelpers, UpUntouched, HelperAt, Jobs,
      HelperConfirm
<1>2. jobs[j].package \in Package /\ jobs # <<>>
  BY <1>1, UpRequest
<1>3. status' \in StatusFiles
  BY <1>1, UpHelperStatus DEF HelperConfirm, UpShape, SvcStates
<1>7. Step(j, "reboot") 
  BY DEF HelperConfirm
<1>8. {"reboot"} \subseteq HelperPcs /\ helper[j].i \in Nat /\ helper[j].i + 1 \in Nat /\ 1 \in Nat
  BY <1>1 DEF HelperPcs, UpHelpers
<1>10. UpHelpers'
  BY <1>1, <1>7, <1>8, UpStep, UpAdvance DEF UpHelpers
<1>11. UpShape'
  BY <1>1, <1>2, <1>3 DEF HelperConfirm, UpShape, main, proc, tmpfs, cancels
<1> QED BY <1>1, <1>2, <1>10, <1>11 DEF HelperConfirm, UpFrame, UpUntouched, UpQueue, UpWorker,
    UpCached, main

LEMMA FrameHelperBurn ==
  ASSUME UpFrame, NEW j \in Jobs, HelperBurn(j)
  PROVE  UpFrame'
<1>1. j \in 1 .. Len(jobs) /\ j <= Len(jobs) /\ UpShape /\ UpHelpers /\ jobs' = jobs
  BY DEF UpFrame, UpShape, UpQueue, UpWorker, UpHelpers, UpUntouched, HelperAt, Jobs, HelperBurn
<1>2. jobs[j].package \in Package /\ jobs # <<>>
  BY <1>1, UpRequest
<1>3. status' \in StatusFiles
  BY <1>1, UpHelperStatus DEF HelperBurn, UpShape, SvcStates
<1>4. flash' \in [Partition -> Image] /\ wrote' \subseteq Jobs
  BY <1>1, <1>2 DEF HelperBurn, Erase, UpShape, Image
<1>7. Step(j, "finish") \/ Step(j, "failed") \/ Step(j, "program") 
  BY DEF HelperBurn
<1>8. {"finish", "failed", "program"} \subseteq HelperPcs /\ helper[j].i \in Nat /\ helper[j].i + 1 \in Nat /\ 1 \in Nat
  BY <1>1 DEF HelperPcs, UpHelpers
<1>10. UpHelpers'
  BY <1>1, <1>7, <1>8, UpStep, UpAdvance DEF UpHelpers
<1>11. UpShape'
  BY <1>1, <1>2, <1>3, <1>4 DEF HelperBurn, UpShape, main, proc, tmpfs, cancels
<1> QED BY <1>1, <1>2, <1>10, <1>11 DEF HelperBurn, UpFrame, UpUntouched, UpQueue, UpWorker,
    UpCached, main

LEMMA FrameHelperProgram ==
  ASSUME UpFrame, NEW j \in Jobs, HelperProgram(j)
  PROVE  UpFrame'
<1>1. j \in 1 .. Len(jobs) /\ j <= Len(jobs) /\ UpShape /\ UpHelpers /\ jobs' = jobs
  BY DEF UpFrame, UpShape, UpQueue, UpWorker, UpHelpers, UpUntouched, HelperAt, Jobs,
      HelperProgram
<1>2. jobs[j].package \in Package /\ jobs # <<>>
  BY <1>1, UpRequest
<1>3. status' \in StatusFiles
  BY <1>1, UpHelperStatus DEF HelperProgram, UpShape, SvcStates
<1>4. flash' \in [Partition -> Image]
  BY <1>1, <1>2 DEF HelperProgram, Program, UpShape, Image
<1>7. Step(j, "verify") 
  BY DEF HelperProgram
<1>8. {"verify"} \subseteq HelperPcs /\ helper[j].i \in Nat /\ helper[j].i + 1 \in Nat /\ 1 \in Nat
  BY <1>1 DEF HelperPcs, UpHelpers
<1>10. UpHelpers'
  BY <1>1, <1>7, <1>8, UpStep, UpAdvance DEF UpHelpers
<1>11. UpShape'
  BY <1>1, <1>2, <1>3, <1>4 DEF HelperProgram, UpShape, main, proc, tmpfs, cancels
<1> QED BY <1>1, <1>2, <1>10, <1>11 DEF HelperProgram, UpFrame, UpUntouched, UpQueue, UpWorker,
    UpCached, main

LEMMA FrameHelperFailed ==
  ASSUME UpFrame, NEW j \in Jobs, HelperFailed(j)
  PROVE  UpFrame'
<1>1. j \in 1 .. Len(jobs) /\ j <= Len(jobs) /\ UpShape /\ UpHelpers /\ jobs' = jobs
  BY DEF UpFrame, UpShape, UpQueue, UpWorker, UpHelpers, UpUntouched, HelperAt, Jobs, HelperFailed
<1>2. jobs[j].package \in Package /\ jobs # <<>>
  BY <1>1, UpRequest
<1>3. status' \in StatusFiles
  BY <1>1, UpHelperStatus DEF HelperFailed, UpShape, SvcStates
<1>7. Step(j, "exited") 
  BY DEF HelperFailed
<1>8. {"exited"} \subseteq HelperPcs /\ helper[j].i \in Nat /\ helper[j].i + 1 \in Nat /\ 1 \in Nat
  BY <1>1 DEF HelperPcs, UpHelpers
<1>10. UpHelpers'
  BY <1>1, <1>7, <1>8, UpStep, UpAdvance DEF UpHelpers
<1>11. UpShape'
  BY <1>1, <1>2, <1>3 DEF HelperFailed, UpShape, main, proc, tmpfs, cancels,
      CleanupTmpUpgradeFiles
<1> QED BY <1>1, <1>2, <1>10, <1>11 DEF HelperFailed, UpFrame, UpUntouched, UpQueue, UpWorker,
    UpCached, main

LEMMA FrameHelperFinish ==
  ASSUME UpFrame, NEW j \in Jobs, HelperFinish(j)
  PROVE  UpFrame'
<1>1. j \in 1 .. Len(jobs) /\ j <= Len(jobs) /\ UpShape /\ UpHelpers /\ jobs' = jobs
  BY DEF UpFrame, UpShape, UpQueue, UpWorker, UpHelpers, UpUntouched, HelperAt, Jobs, HelperFinish
<1>2. jobs[j].package \in Package /\ jobs # <<>>
  BY <1>1, UpRequest
<1>3. status' \in StatusFiles
  BY <1>1, UpHelperStatus DEF HelperFinish, UpShape, SvcStates
<1>7. Step(j, "reboot") \/ Step(j, "waiting") 
  BY DEF HelperFinish
<1>8. {"reboot", "waiting"} \subseteq HelperPcs /\ helper[j].i \in Nat /\ helper[j].i + 1 \in Nat /\ 1 \in Nat
  BY <1>1 DEF HelperPcs, UpHelpers
<1>10. UpHelpers'
  BY <1>1, <1>7, <1>8, UpStep, UpAdvance DEF UpHelpers
<1>11. UpShape'
  BY <1>1, <1>2, <1>3 DEF HelperFinish, UpShape, main, proc, tmpfs, cancels,
      CleanupTmpUpgradeFiles
<1> QED BY <1>1, <1>2, <1>10, <1>11 DEF HelperFinish, UpFrame, UpUntouched, UpQueue, UpWorker,
    UpCached, main

LEMMA FrameHelperReboot ==
  ASSUME UpFrame, NEW j \in Jobs, HelperReboot(j)
  PROVE  UpFrame'
<1>1. j \in 1 .. Len(jobs) /\ j <= Len(jobs) /\ UpShape /\ UpHelpers /\ jobs' = jobs
  BY DEF UpFrame, UpShape, UpQueue, UpWorker, UpHelpers, UpUntouched, HelperAt, Jobs, HelperReboot
<1>2. jobs[j].package \in Package /\ jobs # <<>>
  BY <1>1, UpRequest
<1>3. status' \in StatusFiles
  BY <1>1, UpHelperStatus DEF HelperReboot, UpShape, SvcStates
<1>4. power' \in {"on", "lost", "auto", "confirm"}
  BY <1>1 DEF HelperReboot, RebootToApply, UpShape
<1>7. Step(j, "exited") \/ UNCHANGED helper
  BY DEF HelperReboot
<1>8. {"exited"} \subseteq HelperPcs /\ helper[j].i \in Nat /\ helper[j].i + 1 \in Nat /\ 1 \in Nat
  BY <1>1 DEF HelperPcs, UpHelpers
<1>10. UpHelpers'
  BY <1>1, <1>7, <1>8, UpStep, UpAdvance DEF UpHelpers
<1>11. UpShape'
  BY <1>1, <1>2, <1>3, <1>4 DEF HelperReboot, UpShape, main, proc, tmpfs, cancels
<1> QED BY <1>1, <1>2, <1>10, <1>11 DEF HelperReboot, UpFrame, UpUntouched, UpQueue, UpWorker,
    UpCached, main

LEMMA FrameMainExits ==
  ASSUME UpFrame, MainExits
  PROVE  UpFrame'
<1>1. /\ svc' \in SvcRecords /\ plat' \in PlatRecords /\ up' = FALSE /\ term' = FALSE
      /\ svc'.state = "idle" /\ api' = "idle" /\ worker' = IdleWorker /\ queue' = <<>>
  BY UpGone DEF MainExits
<1>2. UpShape'
  BY <1>1 DEF MainExits, UpFrame, UpShape, ApiPcs, tmpfs, cancels
<1>3. UpWorker' /\ UpCached'
  BY <1>1, UpIdle DEF MainExits, UpFrame, UpShape
<1>4. UpQueue'
  BY <1>1, BoundsAssumption DEF UpQueue
<1> QED BY <1>1, <1>2, <1>3, <1>4 DEF MainExits, UpFrame, UpHelpers, UpUntouched

LEMMA FramePowerLoss ==
  ASSUME UpFrame, PowerLoss
  PROVE  UpFrame'
  BY DEF UpFrame, UpShape, UpQueue, UpWorker, UpHelpers, UpUntouched, UpCached, main, proc,
      tmpfs, cancels, PowerLoss

LEMMA FrameBoot ==
  ASSUME UpFrame, Boot
  PROVE  UpFrame'
<1>1. Persisted \in [state : SvcStates, version : Versions] /\ StatusAfterLoad \in StatusFiles
  BY UpPersisted DEF UpFrame, UpShape
<1>2. svc' \in SvcRecords /\ plat' \in PlatRecords /\ status' \in StatusFiles
  BY <1>1 DEF Boot, FreshInfo, SvcRecords, PlatRecords, UpFrame, UpShape
<1>3. jobs = <<>> => status' = None /\ svc'.state = "idle"
  BY DEF Boot, FreshInfo, Status, Persisted, StatusAfterLoad, UpFrame, UpQueue, UpWorker,
      UpHelpers, UpUntouched
<1>4. Version(flash["bin"]) \in Nat
  BY PackagesAssumption DEF Version, FactoryVersion
<1>5. helper' \in [Jobs -> [pc : HelperPcs, i : Nat, reboot : BOOLEAN]]
  <2>1. helper \in [Jobs -> [pc : HelperPcs, i : Nat, reboot : BOOLEAN]]
    BY DEF UpFrame, UpHelpers
  <2>2. \A j \in Jobs, l \in HelperPcs : [helper[j] EXCEPT !.pc = l] \in [pc : HelperPcs, i : Nat, reboot : BOOLEAN]
    BY <2>1
  <2>3. \A j \in Jobs : (IF helper[j].pc = "none" THEN "none" ELSE "exited") \in HelperPcs
    BY DEF HelperPcs
  <2>4. helper' = [j \in Jobs |-> [helper[j] EXCEPT !.pc = IF helper[j].pc = "none" THEN "none" ELSE "exited"]]
    BY DEF Boot
  <2>5. \A j \in Jobs : [helper[j] EXCEPT !.pc = IF helper[j].pc = "none" THEN "none" ELSE "exited"]
                              \in [pc : HelperPcs, i : Nat, reboot : BOOLEAN]
    BY <2>2, <2>3
  <2> QED BY <2>4, <2>5
<1>6. \A j \in Jobs : helper'[j].pc # "none" => j <= Len(jobs)
  BY DEF Boot, UpFrame, UpQueue, UpWorker, UpHelpers, UpUntouched, UpShape
<1>7. /\ worker' = IdleWorker /\ queue' = <<>> /\ api' = "idle" /\ files' = {} /\ power' = "on"
      /\ up' \in BOOLEAN /\ term' = FALSE /\ running' \in Nat
      /\ stages' \in [Jobs -> {"none", "made", "full"}]
      /\ UNCHANGED <<jobs, flash, cancels, wrote>>
  BY <1>4 DEF Boot, UpFrame, UpShape
<1>8. UpShape'
  BY <1>2, <1>7 DEF UpFrame, UpShape, ApiPcs, cancels
<1>9. UpWorker' /\ UpCached'
  BY <1>7, UpIdle DEF UpFrame, UpShape
<1>10. UpQueue'
  BY <1>7, BoundsAssumption DEF UpQueue
<1> QED BY <1>3, <1>5, <1>6, <1>7, <1>8, <1>9, <1>10 DEF UpFrame, UpHelpers, UpUntouched

LEMMA FrameStep ==
  ASSUME UpFrame, [Next]_vars
  PROVE  UpFrame'
<1>1. CASE WorkerStep
  BY <1>1, FrameWorkerTake, FrameWorkerValidate, FrameWorkerPolicy, FrameWorkerPreparing,
      FrameWorkerPrepare, FrameWorkerArm, FrameWorkerRecheck, FrameWorkerWriting,
      FrameWorkerGiveUp, FrameWorkerFailed, FrameWorkerWrite, FrameWorkerLaunch,
      FrameWorkerHandoff, FrameWorkerMark, FrameWorkerExtract, FrameWorkerApply,
      FrameWorkerBurn, FrameWorkerProgram, FrameWorkerVerify, FrameWorkerWritten,
      FrameWorkerCommit, FrameWorkerFinish DEF WorkerStep
<1>2. CASE ApiStep
  BY <1>2, FrameUploadValidate, FrameStartPost, FrameCancelUpgrade, FrameCancelPlatform,
      FrameCancelFinish, FrameConfirmReboot, FrameGetUpgradeInfo, FrameUpload,
      FrameHandleValidate, FrameStartUpgrade DEF ApiStep
<1>3. CASE HelperStep
  BY <1>3, FrameHelperRefuse, FrameHelperParse, FrameHelperServe, FrameHelperPrepare,
      FrameHelperExtract, FrameHelperStopApp, FrameHelperBurn, FrameHelperProgram,
      FrameHelperVerify, FrameHelperFailed, FrameHelperFinish, FrameHelperConfirm,
      FrameHelperReboot DEF HelperStep
<1>4. CASE MainExits \/ PowerLoss \/ Boot
  BY <1>4, FrameMainExits, FramePowerLoss, FrameBoot
<1>5. CASE UNCHANGED vars
  BY <1>5 DEF vars, UpFrame, UpShape, UpQueue, UpWorker, UpHelpers, UpUntouched, UpCached, main,
      proc, tmpfs, cancels
<1> QED BY <1>1, <1>2, <1>3, <1>4, <1>5 DEF Next


-----------------------------------------------------------------------------
(* Where each step of the worker and of a helper leads. *)

LEMMA MoveWorkerValidate ==
  ASSUME UpFrame, WorkerValidate
  PROVE  /\ worker.pc = "validate" /\ worker.job \in 1 .. Len(jobs) /\ jobs' = jobs /\ up
         /\ worker'.pc \in {"policy", "reject"} /\ worker'.job = worker.job /\ worker'.i = worker.i
<1>1. /\ UpWorker /\ jobs \in Seq(Requests) /\ worker.pc = "validate" /\ jobs' = jobs /\ up
      /\ worker.i \in Nat /\ worker.i + 1 \in Nat
  BY DEF UpFrame, UpShape, UpWorker, WorkerValidate, WorkerAt
<1>2. Goto("policy") \/ Goto("reject")
  BY DEF WorkerValidate, WriteFailed
<1>3. {"policy", "reject"} \subseteq WorkerPcs \ {"idle"}
  BY DEF WorkerPcs
<1>4. worker.job \in 1 .. Len(jobs)
  BY <1>1 DEF UpWorker
<1> QED BY <1>1, <1>2, <1>3, <1>4, UpGoto, UpCommand, UpIdle

LEMMA MoveWorkerPolicy ==
  ASSUME UpFrame, WorkerPolicy
  PROVE  /\ worker.pc = "policy" /\ worker.job \in 1 .. Len(jobs) /\ jobs' = jobs /\ up
         /\ \/ worker'.pc = "idle"
            \/ worker'.pc \in {"reject", "preparing"} /\ worker'.job = worker.job /\ worker'.i = worker.i
<1>1. /\ UpWorker /\ jobs \in Seq(Requests) /\ worker.pc = "policy" /\ jobs' = jobs /\ up
      /\ worker.i \in Nat /\ worker.i + 1 \in Nat
  BY DEF UpFrame, UpShape, UpWorker, WorkerPolicy, WorkerAt
<1>2. worker' = IdleWorker \/ Goto("reject") \/ Goto("preparing")
  BY DEF WorkerPolicy, WriteFailed
<1>3. {"reject", "preparing"} \subseteq WorkerPcs \ {"idle"}
  BY DEF WorkerPcs
<1>4. worker.job \in 1 .. Len(jobs)
  BY <1>1 DEF UpWorker
<1> QED BY <1>1, <1>2, <1>3, <1>4, UpGoto, UpCommand, UpIdle

LEMMA MoveWorkerPreparing ==
  ASSUME UpFrame, WorkerPreparing
  PROVE  /\ worker.pc = "preparing" /\ worker.job \in 1 .. Len(jobs) /\ jobs' = jobs /\ up
         /\ worker'.pc = "prepare" /\ worker'.job = worker.job /\ worker'.i = worker.i
<1>1. /\ UpWorker /\ jobs \in Seq(Requests) /\ worker.pc = "preparing" /\ jobs' = jobs /\ up
      /\ worker.i \in Nat /\ worker.i + 1 \in Nat
  BY DEF UpFrame, UpShape, UpWorker, WorkerPreparing, WorkerAt
<1>2. Goto("prepare")
  BY DEF WorkerPreparing, WriteFailed
<1>3. {"prepare"} \subseteq WorkerPcs \ {"idle"}
  BY DEF WorkerPcs
<1>4. worker.job \in 1 .. Len(jobs)
  BY <1>1 DEF UpWorker
<1> QED BY <1>1, <1>2, <1>3, <1>4, UpGoto, UpCommand, UpIdle

LEMMA MoveWorkerPrepare ==
  ASSUME UpFrame, WorkerPrepare
  PROVE  /\ worker.pc = "prepare" /\ worker.job \in 1 .. Len(jobs) /\ jobs' = jobs /\ up
         /\ worker'.pc \in {"arm", "fail"} /\ worker'.job = worker.job /\ worker'.i = worker.i
<1>1. /\ UpWorker /\ jobs \in Seq(Requests) /\ worker.pc = "prepare" /\ jobs' = jobs /\ up
      /\ worker.i \in Nat /\ worker.i + 1 \in Nat
  BY DEF UpFrame, UpShape, UpWorker, WorkerPrepare, WorkerAt
<1>2. Goto("arm") \/ Goto("fail")
  BY DEF WorkerPrepare, WriteFailed
<1>3. {"arm", "fail"} \subseteq WorkerPcs \ {"idle"}
  BY DEF WorkerPcs
<1>4. worker.job \in 1 .. Len(jobs)
  BY <1>1 DEF UpWorker
<1> QED BY <1>1, <1>2, <1>3, <1>4, UpGoto, UpCommand, UpIdle

LEMMA MoveWorkerArm ==
  ASSUME UpFrame, WorkerArm
  PROVE  /\ worker.pc = "arm" /\ worker.job \in 1 .. Len(jobs) /\ jobs' = jobs /\ up
         /\ worker'.pc \in {"recheck", "fail"} /\ worker'.job = worker.job /\ worker'.i = worker.i
<1>1. /\ UpWorker /\ jobs \in Seq(Requests) /\ worker.pc = "arm" /\ jobs' = jobs /\ up
      /\ worker.i \in Nat /\ worker.i + 1 \in Nat
  BY DEF UpFrame, UpShape, UpWorker, WorkerArm, WorkerAt
<1>2. Goto("recheck") \/ Goto("fail")
  BY DEF WorkerArm, WriteFailed
<1>3. {"recheck", "fail"} \subseteq WorkerPcs \ {"idle"}
  BY DEF WorkerPcs
<1>4. worker.job \in 1 .. Len(jobs)
  BY <1>1 DEF UpWorker
<1> QED BY <1>1, <1>2, <1>3, <1>4, UpGoto, UpCommand, UpIdle

LEMMA MoveWorkerRecheck ==
  ASSUME UpFrame, WorkerRecheck
  PROVE  /\ worker.pc = "recheck" /\ worker.job \in 1 .. Len(jobs) /\ jobs' = jobs /\ up
         /\ \/ worker'.pc = "idle"
            \/ worker'.pc = "writing" /\ worker'.job = worker.job /\ worker'.i = worker.i
<1>1. /\ UpWorker /\ jobs \in Seq(Requests) /\ worker.pc = "recheck" /\ jobs' = jobs /\ up
      /\ worker.i \in Nat /\ worker.i + 1 \in Nat
  BY DEF UpFrame, UpShape, UpWorker, WorkerRecheck, WorkerAt
<1>2. worker' = IdleWorker \/ Goto("writing")
  BY DEF WorkerRecheck, WriteFailed
<1>3. {"writing"} \subseteq WorkerPcs \ {"idle"}
  BY DEF WorkerPcs
<1>4. worker.job \in 1 .. Len(jobs)
  BY <1>1 DEF UpWorker
<1> QED BY <1>1, <1>2, <1>3, <1>4, UpGoto, UpCommand, UpIdle

LEMMA MoveWorkerWriting ==
  ASSUME UpFrame, WorkerWriting
  PROVE  /\ worker.pc = "writing" /\ worker.job \in 1 .. Len(jobs) /\ jobs' = jobs /\ up
         /\ worker'.pc = "write" /\ worker'.job = worker.job /\ worker'.i = worker.i
<1>1. /\ UpWorker /\ jobs \in Seq(Requests) /\ worker.pc = "writing" /\ jobs' = jobs /\ up
      /\ worker.i \in Nat /\ worker.i + 1 \in Nat
  BY DEF UpFrame, UpShape, UpWorker, WorkerWriting, WorkerAt
<1>2. Goto("write")
  BY DEF WorkerWriting, WriteFailed
<1>3. {"write"} \subseteq WorkerPcs \ {"idle"}
  BY DEF WorkerPcs
<1>4. worker.job \in 1 .. Len(jobs)
  BY <1>1 DEF UpWorker
<1> QED BY <1>1, <1>2, <1>3, <1>4, UpGoto, UpCommand, UpIdle

LEMMA MoveWorkerGiveUp ==
  ASSUME UpFrame, WorkerGiveUp
  PROVE  /\ worker.pc \in {"reject", "fail"} /\ worker.job \in 1 .. Len(jobs) /\ jobs' = jobs /\ up
         /\ \/ worker'.pc = "idle"
            \/ worker.pc = "reject" /\ worker'.pc = "rejected" /\ worker'.job = worker.job
            \/ worker.pc = "fail" /\ worker'.pc = "failed" /\ worker'.job = worker.job
<1>1. UpWorker /\ jobs \in Seq(Requests) /\ worker.pc \in {"reject", "fail"} /\ jobs' = jobs /\ up
  BY DEF UpFrame, UpShape, WorkerGiveUp, WorkerAt
<1>2. \/ worker' = IdleWorker
      \/ worker.pc = "reject" /\ Goto("rejected")
      \/ worker.pc = "fail" /\ Goto("failed")
  BY DEF WorkerGiveUp, WorkerAt
<1>3. {"rejected", "failed"} \subseteq WorkerPcs \ {"idle"}
  BY DEF WorkerPcs
<1>4. worker.job \in 1 .. Len(jobs)
  BY <1>1 DEF UpWorker
<1> QED BY <1>1, <1>2, <1>3, <1>4, UpGoto, UpIdle

LEMMA MoveWorkerFailed ==
  ASSUME UpFrame, WorkerFailed
  PROVE  /\ worker.pc \in {"rejected", "failed"} /\ worker.job \in 1 .. Len(jobs) /\ jobs' = jobs /\ up
         /\ worker'.pc = "idle"
<1>1. /\ UpWorker /\ jobs \in Seq(Requests) /\ worker.pc \in {"rejected", "failed"} /\ jobs' = jobs /\ up
      /\ worker.i \in Nat /\ worker.i + 1 \in Nat
  BY DEF UpFrame, UpShape, UpWorker, WorkerFailed, WorkerAt
<1>2. worker' = IdleWorker
  BY DEF WorkerFailed, WriteFailed
<1>4. worker.job \in 1 .. Len(jobs)
  BY <1>1 DEF UpWorker
<1> QED BY <1>1, <1>2, <1>4, UpGoto, UpCommand, UpIdle

LEMMA MoveWorkerWrite ==
  ASSUME UpFrame, WorkerWrite
  PROVE  /\ worker.pc = "write" /\ worker.job \in 1 .. Len(jobs) /\ jobs' = jobs /\ up
         /\ worker'.pc \in {"fail", "extract", "launch"} /\ worker'.job = worker.job /\ worker'.i = worker.i
<1>1. /\ UpWorker /\ jobs \in Seq(Requests) /\ worker.pc = "write" /\ jobs' = jobs /\ up
      /\ worker.i \in Nat /\ worker.i + 1 \in Nat
  BY DEF UpFrame, UpShape, UpWorker, WorkerWrite, WorkerAt
<1>2. Goto("fail") \/ Goto("extract") \/ Goto("launch")
  BY DEF WorkerWrite, WriteFailed
<1>3. {"fail", "extract", "launch"} \subseteq WorkerPcs \ {"idle"}
  BY DEF WorkerPcs
<1>4. worker.job \in 1 .. Len(jobs)
  BY <1>1 DEF UpWorker
<1> QED BY <1>1, <1>2, <1>3, <1>4, UpGoto, UpCommand, UpIdle

LEMMA MoveWorkerLaunch ==
  ASSUME UpFrame, WorkerLaunch
  PROVE  /\ worker.pc = "launch" /\ worker.job \in 1 .. Len(jobs) /\ jobs' = jobs /\ up
         /\ worker'.pc \in {"handoff", "fail"} /\ worker'.job = worker.job /\ worker'.i = worker.i
<1>1. /\ UpWorker /\ jobs \in Seq(Requests) /\ worker.pc = "launch" /\ jobs' = jobs /\ up
      /\ worker.i \in Nat /\ worker.i + 1 \in Nat
  BY DEF UpFrame, UpShape, UpWorker, WorkerLaunch, WorkerAt
<1>2. Goto("handoff") \/ Goto("fail")
  BY DEF WorkerLaunch, WriteFailed
<1>3. {"handoff", "fail"} \subseteq WorkerPcs \ {"idle"}
  BY DEF WorkerPcs
<1>4. worker.job \in 1 .. Len(jobs)
  BY <1>1 DEF UpWorker
<1> QED BY <1>1, <1>2, <1>3, <1>4, UpGoto, UpCommand, UpIdle

LEMMA MoveWorkerHandoff ==
  ASSUME UpFrame, WorkerHandoff
  PROVE  /\ worker.pc = "handoff" /\ worker.job \in 1 .. Len(jobs) /\ jobs' = jobs /\ up
         /\ worker'.pc = "mark" /\ worker'.job = worker.job /\ worker'.i = worker.i
<1>1. /\ UpWorker /\ jobs \in Seq(Requests) /\ worker.pc = "handoff" /\ jobs' = jobs /\ up
      /\ worker.i \in Nat /\ worker.i + 1 \in Nat
  BY DEF UpFrame, UpShape, UpWorker, WorkerHandoff, WorkerAt
<1>2. Goto("mark")
  BY DEF WorkerHandoff, WriteFailed
<1>3. {"mark"} \subseteq WorkerPcs \ {"idle"}
  BY DEF WorkerPcs
<1>4. worker.job \in 1 .. Len(jobs)
  BY <1>1 DEF UpWorker
<1> QED BY <1>1, <1>2, <1>3, <1>4, UpGoto, UpCommand, UpIdle

LEMMA MoveWorkerMark ==
  ASSUME UpFrame, WorkerMark
  PROVE  /\ worker.pc = "mark" /\ worker.job \in 1 .. Len(jobs) /\ jobs' = jobs /\ up
         /\ worker'.pc = "idle"
<1>1. /\ UpWorker /\ jobs \in Seq(Requests) /\ worker.pc = "mark" /\ jobs' = jobs /\ up
      /\ worker.i \in Nat /\ worker.i + 1 \in Nat
  BY DEF UpFrame, UpShape, UpWorker, WorkerMark, WorkerAt
<1>2. worker' = IdleWorker
  BY DEF WorkerMark, WriteFailed
<1>4. worker.job \in 1 .. Len(jobs)
  BY <1>1 DEF UpWorker
<1> QED BY <1>1, <1>2, <1>4, UpGoto, UpCommand, UpIdle

LEMMA MoveWorkerExtract ==
  ASSUME UpFrame, WorkerExtract
  PROVE  /\ worker.pc = "extract" /\ worker.job \in 1 .. Len(jobs) /\ jobs' = jobs /\ up
         /\ worker'.pc \in {"apply", "fail"} /\ worker'.job = worker.job /\ worker'.i = worker.i
<1>1. /\ UpWorker /\ jobs \in Seq(Requests) /\ worker.pc = "extract" /\ jobs' = jobs /\ up
      /\ worker.i \in Nat /\ worker.i + 1 \in Nat
  BY DEF UpFrame, UpShape, UpWorker, WorkerExtract, WorkerAt
<1>2. Goto("apply") \/ Goto("fail")
  BY DEF WorkerExtract, WriteFailed
<1>3. {"apply", "fail"} \subseteq WorkerPcs \ {"idle"}
  BY DEF WorkerPcs
<1>4. worker.job \in 1 .. Len(jobs)
  BY <1>1 DEF UpWorker
<1> QED BY <1>1, <1>2, <1>3, <1>4, UpGoto, UpCommand, UpIdle

LEMMA MoveWorkerApply ==
  ASSUME UpFrame, WorkerApply
  PROVE  /\ worker.pc = "apply" /\ worker.job \in 1 .. Len(jobs) /\ jobs' = jobs /\ up
         /\ \/ worker'.pc = "burn" /\ worker'.job = worker.job /\ worker'.i = 1
            \/ worker'.pc = "fail" /\ worker'.job = worker.job /\ worker'.i = worker.i
<1>1. /\ UpWorker /\ jobs \in Seq(Requests) /\ worker.pc = "apply" /\ jobs' = jobs /\ up
      /\ worker.i \in Nat /\ worker.i + 1 \in Nat
  BY DEF UpFrame, UpShape, UpWorker, WorkerApply, WorkerAt
<1>2. Goto("fail") \/ worker' = [worker EXCEPT !.pc = "burn", !.i = 1]
  BY DEF WorkerApply, WriteFailed
<1>3. {"fail", "burn"} \subseteq WorkerPcs \ {"idle"}
  BY DEF WorkerPcs
<1>4. worker.job \in 1 .. Len(jobs)
  BY <1>1 DEF UpWorker
<1> QED BY <1>1, <1>2, <1>3, <1>4, UpGoto, UpCommand, UpIdle

LEMMA MoveWorkerBurn ==
  ASSUME UpFrame, WorkerBurn
  PROVE  /\ worker.pc = "burn" /\ worker.job \in 1 .. Len(jobs) /\ jobs' = jobs /\ up
         /\ worker'.pc \in {"written", "fail", "program"} /\ worker'.job = worker.job /\ worker'.i = worker.i
<1>1. /\ UpWorker /\ jobs \in Seq(Requests) /\ worker.pc = "burn" /\ jobs' = jobs /\ up
      /\ worker.i \in Nat /\ worker.i + 1 \in Nat
  BY DEF UpFrame, UpShape, UpWorker, WorkerBurn, WorkerAt
<1>2. Goto("written") \/ Goto("fail") \/ Goto("program")
  BY DEF WorkerBurn, WriteFailed
<1>3. {"written", "fail", "program"} \subseteq WorkerPcs \ {"idle"}
  BY DEF WorkerPcs
<1>4. worker.job \in 1 .. Len(jobs)
  BY <1>1 DEF UpWorker
<1> QED BY <1>1, <1>2, <1>3, <1>4, UpGoto, UpCommand, UpIdle

LEMMA MoveWorkerProgram ==
  ASSUME UpFrame, WorkerProgram
  PROVE  /\ worker.pc = "program" /\ worker.job \in 1 .. Len(jobs) /\ jobs' = jobs /\ up
         /\ worker'.pc = "verify" /\ worker'.job = worker.job /\ worker'.i = worker.i
<1>1. /\ UpWorker /\ jobs \in Seq(Requests) /\ worker.pc = "program" /\ jobs' = jobs /\ up
      /\ worker.i \in Nat /\ worker.i + 1 \in Nat
  BY DEF UpFrame, UpShape, UpWorker, WorkerProgram, WorkerAt
<1>2. Goto("verify")
  BY DEF WorkerProgram, WriteFailed
<1>3. {"verify"} \subseteq WorkerPcs \ {"idle"}
  BY DEF WorkerPcs
<1>4. worker.job \in 1 .. Len(jobs)
  BY <1>1 DEF UpWorker
<1> QED BY <1>1, <1>2, <1>3, <1>4, UpGoto, UpCommand, UpIdle

LEMMA MoveWorkerVerify ==
  ASSUME UpFrame, WorkerVerify
  PROVE  /\ worker.pc = "verify" /\ worker.job \in 1 .. Len(jobs) /\ jobs' = jobs /\ up
         /\ \/ worker'.pc = "burn" /\ worker'.job = worker.job /\ worker'.i = worker.i + 1
            \/ worker'.pc = "fail" /\ worker'.job = worker.job /\ worker'.i = worker.i
<1>1. /\ UpWorker /\ jobs \in Seq(Requests) /\ worker.pc = "verify" /\ jobs' = jobs /\ up
      /\ worker.i \in Nat /\ worker.i + 1 \in Nat
  BY DEF UpFrame, UpShape, UpWorker, WorkerVerify, WorkerAt
<1>2. Goto("fail") \/ worker' = [worker EXCEPT !.pc = "burn", !.i = worker.i + 1]
  BY DEF WorkerVerify, WriteFailed
<1>3. {"fail", "burn"} \subseteq WorkerPcs \ {"idle"}
  BY DEF WorkerPcs
<1>4. worker.job \in 1 .. Len(jobs)
  BY <1>1 DEF UpWorker
<1> QED BY <1>1, <1>2, <1>3, <1>4, UpGoto, UpCommand, UpIdle

LEMMA MoveWorkerWritten ==
  ASSUME UpFrame, WorkerWritten
  PROVE  /\ worker.pc = "written" /\ worker.job \in 1 .. Len(jobs) /\ jobs' = jobs /\ up
         /\ \/ worker'.pc = "idle"
            \/ worker'.pc = "commit" /\ worker'.job = worker.job /\ worker'.i = worker.i
<1>1. /\ UpWorker /\ jobs \in Seq(Requests) /\ worker.pc = "written" /\ jobs' = jobs /\ up
      /\ worker.i \in Nat /\ worker.i + 1 \in Nat
  BY DEF UpFrame, UpShape, UpWorker, WorkerWritten, WorkerAt
<1>2. worker' = IdleWorker \/ Goto("commit")
  BY DEF WorkerWritten, WriteFailed
<1>3. {"commit"} \subseteq WorkerPcs \ {"idle"}
  BY DEF WorkerPcs
<1>4. worker.job \in 1 .. Len(jobs)
  BY <1>1 DEF UpWorker
<1> QED BY <1>1, <1>2, <1>3, <1>4, UpGoto, UpCommand, UpIdle

LEMMA MoveWorkerCommit ==
  ASSUME UpFrame, WorkerCommit
  PROVE  /\ worker.pc = "commit" /\ worker.job \in 1 .. Len(jobs) /\ jobs' = jobs /\ up
         /\ worker'.pc = "finish" /\ worker'.job = worker.job /\ worker'.i = worker.i
<1>1. /\ UpWorker /\ jobs \in Seq(Requests) /\ worker.pc = "commit" /\ jobs' = jobs /\ up
      /\ worker.i \in Nat /\ worker.i + 1 \in Nat
  BY DEF UpFrame, UpShape, UpWorker, WorkerCommit, WorkerAt
<1>2. Goto("finish")
  BY DEF WorkerCommit, WriteFailed
<1>3. {"finish"} \subseteq WorkerPcs \ {"idle"}
  BY DEF WorkerPcs
<1>4. worker.job \in 1 .. Len(jobs)
  BY <1>1 DEF UpWorker
<1> QED BY <1>1, <1>2, <1>3, <1>4, UpGoto, UpCommand, UpIdle

LEMMA MoveWorkerFinish ==
  ASSUME UpFrame, WorkerFinish
  PROVE  /\ worker.pc = "finish" /\ worker.job \in 1 .. Len(jobs) /\ jobs' = jobs /\ up
         /\ worker'.pc = "idle"
<1>1. /\ UpWorker /\ jobs \in Seq(Requests) /\ worker.pc = "finish" /\ jobs' = jobs /\ up
      /\ worker.i \in Nat /\ worker.i + 1 \in Nat
  BY DEF UpFrame, UpShape, UpWorker, WorkerFinish, WorkerAt
<1>2. worker' = IdleWorker
  BY DEF WorkerFinish, WriteFailed
<1>4. worker.job \in 1 .. Len(jobs)
  BY <1>1 DEF UpWorker
<1> QED BY <1>1, <1>2, <1>4, UpGoto, UpCommand, UpIdle

LEMMA MoveHelperRefuse ==
  ASSUME UpFrame, NEW j \in Jobs, HelperRefuse(j)
  PROVE  /\ helper[j].pc = "parse" /\ j \in 1 .. Len(jobs)
         /\ UNCHANGED <<jobs, svc, plat, queue, worker, api, up, running, cancels>>
         /\ \A k \in Jobs \ {j} : helper'[k] = helper[k]
         /\ helper'[j].pc = "exited" /\ helper'[j].i = helper[j].i
<1>1. /\ UpHelpers /\ helper[j].pc = "parse" /\ helper[j].i \in Nat /\ helper[j].i + 1 \in Nat
      /\ UNCHANGED <<jobs, svc, plat, queue, worker, api, up, running, cancels>>
  BY DEF UpFrame, UpHelpers, HelperRefuse, HelperAt, main, proc
<1>2. j <= Len(jobs) /\ j \in 1 .. Len(jobs)
  BY <1>1 DEF UpFrame, UpShape, UpHelpers, Jobs
<1>3. Step(j, "exited")
  BY DEF HelperRefuse
<1>4. {"exited"} \subseteq HelperPcs
  BY DEF HelperPcs
<1> QED BY <1>1, <1>2, <1>3, <1>4, UpStep, UpAdvance

LEMMA MoveHelperParse ==
  ASSUME UpFrame, NEW j \in Jobs, HelperParse(j)
  PROVE  /\ helper[j].pc = "parse" /\ j \in 1 .. Len(jobs)
         /\ UNCHANGED <<jobs, svc, plat, queue, worker, api, up, running, cancels>>
         /\ \A k \in Jobs \ {j} : helper'[k] = helper[k]
         /\ helper'[j].pc = "serve" /\ helper'[j].i = helper[j].i
<1>1. /\ UpHelpers /\ helper[j].pc = "parse" /\ helper[j].i \in Nat /\ helper[j].i + 1 \in Nat
      /\ UNCHANGED <<jobs, svc, plat, queue, worker, api, up, running, cancels>>
  BY DEF UpFrame, UpHelpers, HelperParse, HelperAt, main, proc
<1>2. j <= Len(jobs) /\ j \in 1 .. Len(jobs)
  BY <1>1 DEF UpFrame, UpShape, UpHelpers, Jobs
<1>3. Step(j, "serve")
  BY DEF HelperParse
<1>4. {"serve"} \subseteq HelperPcs
  BY DEF HelperPcs
<1> QED BY <1>1, <1>2, <1>3, <1>4, UpStep, UpAdvance

LEMMA MoveHelperServe ==
  ASSUME UpFrame, NEW j \in Jobs, HelperServe(j)
  PROVE  /\ helper[j].pc = "serve" /\ j \in 1 .. Len(jobs)
         /\ UNCHANGED <<jobs, svc, plat, queue, worker, api, up, running, cancels>>
         /\ \A k \in Jobs \ {j} : helper'[k] = helper[k]
         /\ helper'[j].pc \in {"prepare", "exited"} /\ helper'[j].i = helper[j].i
<1>1. /\ UpHelpers /\ helper[j].pc = "serve" /\ helper[j].i \in Nat /\ helper[j].i + 1 \in Nat
      /\ UNCHANGED <<jobs, svc, plat, queue, worker, api, up, running, cancels>>
  BY DEF UpFrame, UpHelpers, HelperServe, HelperAt, main, proc
<1>2. j <= Len(jobs) /\ j \in 1 .. Len(jobs)
  BY <1>1 DEF UpFrame, UpShape, UpHelpers, Jobs
<1>3. Step(j, "prepare") \/ Step(j, "exited")
  BY DEF HelperServe
<1>4. {"prepare", "exited"} \subseteq HelperPcs
  BY DEF HelperPcs
<1> QED BY <1>1, <1>2, <1>3, <1>4, UpStep, UpAdvance

LEMMA MoveHelperPrepare ==
  ASSUME UpFrame, NEW j \in Jobs, HelperPrepare(j)
  PROVE  /\ helper[j].pc = "prepare" /\ j \in 1 .. Len(jobs)
         /\ UNCHANGED <<jobs, svc, plat, queue, worker, api, up, running, cancels>>
         /\ \A k \in Jobs \ {j} : helper'[k] = helper[k]
         /\ helper'[j].pc \in {"extract", "failed"} /\ helper'[j].i = helper[j].i
<1>1. /\ UpHelpers /\ helper[j].pc = "prepare" /\ helper[j].i \in Nat /\ helper[j].i + 1 \in Nat
      /\ UNCHANGED <<jobs, svc, plat, queue, worker, api, up, running, cancels>>
  BY DEF UpFrame, UpHelpers, HelperPrepare, HelperAt, main, proc
<1>2. j <= Len(jobs) /\ j \in 1 .. Len(jobs)
  BY <1>1 DEF UpFrame, UpShape, UpHelpers, Jobs
<1>3. Step(j, "extract") \/ Step(j, "failed")
  BY DEF HelperPrepare
<1>4. {"extract", "failed"} \subseteq HelperPcs
  BY DEF HelperPcs
<1> QED BY <1>1, <1>2, <1>3, <1>4, UpStep, UpAdvance

LEMMA MoveHelperExtract ==
  ASSUME UpFrame, NEW j \in Jobs, HelperExtract(j)
  PROVE  /\ helper[j].pc = "extract" /\ j \in 1 .. Len(jobs)
         /\ UNCHANGED <<jobs, svc, plat, queue, worker, api, up, running, cancels>>
         /\ \A k \in Jobs \ {j} : helper'[k] = helper[k]
         /\ helper'[j].pc \in {"stop", "failed"} /\ helper'[j].i = helper[j].i
<1>1. /\ UpHelpers /\ helper[j].pc = "extract" /\ helper[j].i \in Nat /\ helper[j].i + 1 \in Nat
      /\ UNCHANGED <<jobs, svc, plat, queue, worker, api, up, running, cancels>>
  BY DEF UpFrame, UpHelpers, HelperExtract, HelperAt, main, proc
<1>2. j <= Len(jobs) /\ j \in 1 .. Len(jobs)
  BY <1>1 DEF UpFrame, UpShape, UpHelpers, Jobs
<1>3. Step(j, "stop") \/ Step(j, "failed")
  BY DEF HelperExtract
<1>4. {"stop", "failed"} \subseteq HelperPcs
  BY DEF HelperPcs
<1> QED BY <1>1, <1>2, <1>3, <1>4, UpStep, UpAdvance

LEMMA MoveHelperStopApp ==
  ASSUME UpFrame, NEW j \in Jobs, HelperStopApp(j)
  PROVE  /\ helper[j].pc = "stop" /\ j \in 1 .. Len(jobs)
         /\ UNCHANGED <<jobs, svc, plat, queue, worker, api, up, running, cancels>>
         /\ \A k \in Jobs \ {j} : helper'[k] = helper[k]
         /\ helper'[j].pc = "burn" /\ helper'[j].i = 1
<1>1. /\ UpHelpers /\ helper[j].pc = "stop" /\ helper[j].i \in Nat /\ helper[j].i + 1 \in Nat
      /\ UNCHANGED <<jobs, svc, plat, queue, worker, api, up, running, cancels>>
  BY DEF UpFrame, UpHelpers, HelperStopApp, HelperAt, main, proc
<1>2. j <= Len(jobs) /\ j \in 1 .. Len(jobs)
  BY <1>1 DEF UpFrame, UpShape, UpHelpers, Jobs
<1>3. helper' = [helper EXCEPT ![j].pc = "burn", ![j].i = 1]
  BY DEF HelperStopApp
<1>4. {"burn"} \subseteq HelperPcs
  BY DEF HelperPcs
<1>5. PICK n \in Nat : n = 1
  OBVIOUS
<1>6. helper' = [helper EXCEPT ![j].pc = "burn", ![j].i = n]
  BY <1>3, <1>5
<1>7. /\ helper'[j].pc = "burn" /\ helper'[j].i = n
      /\ \A k \in Jobs \ {j} : helper'[k] = helper[k]
  BY <1>1, <1>2, <1>4, <1>6, UpAdvance
<1> QED BY <1>1, <1>2, <1>5, <1>7

LEMMA MoveHelperBurn ==
  ASSUME UpFrame, NEW j \in Jobs, HelperBurn(j)
  PROVE  /\ helper[j].pc = "burn" /\ j \in 1 .. Len(jobs)
         /\ UNCHANGED <<jobs, svc, plat, queue, worker, api, up, running, cancels>>
         /\ \A k \in Jobs \ {j} : helper'[k] = helper[k]
         /\ helper'[j].pc \in {"finish", "failed", "program"} /\ helper'[j].i = helper[j].i
<1>1. /\ UpHelpers /\ helper[j].pc = "burn" /\ helper[j].i \in Nat /\ helper[j].i + 1 \in Nat
      /\ UNCHANGED <<jobs, svc, plat, queue, worker, api, up, running, cancels>>
  BY DEF UpFrame, UpHelpers, HelperBurn, HelperAt, main, proc
<1>2. j <= Len(jobs) /\ j \in 1 .. Len(jobs)
  BY <1>1 DEF UpFrame, UpShape, UpHelpers, Jobs
<1>3. Step(j, "finish") \/ Step(j, "failed") \/ Step(j, "program")
  BY DEF HelperBurn
<1>4. {"finish", "failed", "program"} \subseteq HelperPcs
  BY DEF HelperPcs
<1> QED BY <1>1, <1>2, <1>3, <1>4, UpStep, UpAdvance

LEMMA MoveHelperProgram ==
  ASSUME UpFrame, NEW j \in Jobs, HelperProgram(j)
  PROVE  /\ helper[j].pc = "program" /\ j \in 1 .. Len(jobs)
         /\ UNCHANGED <<jobs, svc, plat, queue, worker, api, up, running, cancels>>
         /\ \A k \in Jobs \ {j} : helper'[k] = helper[k]
         /\ helper'[j].pc = "verify" /\ helper'[j].i = helper[j].i
<1>1. /\ UpHelpers /\ helper[j].pc = "program" /\ helper[j].i \in Nat /\ helper[j].i + 1 \in Nat
      /\ UNCHANGED <<jobs, svc, plat, queue, worker, api, up, running, cancels>>
  BY DEF UpFrame, UpHelpers, HelperProgram, HelperAt, main, proc
<1>2. j <= Len(jobs) /\ j \in 1 .. Len(jobs)
  BY <1>1 DEF UpFrame, UpShape, UpHelpers, Jobs
<1>3. Step(j, "verify")
  BY DEF HelperProgram
<1>4. {"verify"} \subseteq HelperPcs
  BY DEF HelperPcs
<1> QED BY <1>1, <1>2, <1>3, <1>4, UpStep, UpAdvance

LEMMA MoveHelperVerify ==
  ASSUME UpFrame, NEW j \in Jobs, HelperVerify(j)
  PROVE  /\ helper[j].pc = "verify" /\ j \in 1 .. Len(jobs)
         /\ UNCHANGED <<jobs, svc, plat, queue, worker, api, up, running, cancels>>
         /\ \A k \in Jobs \ {j} : helper'[k] = helper[k]
         /\ \/ helper'[j].pc = "burn" /\ helper'[j].i = helper[j].i + 1
            \/ helper'[j].pc = "failed" /\ helper'[j].i = helper[j].i
<1>1. /\ UpHelpers /\ helper[j].pc = "verify" /\ helper[j].i \in Nat /\ helper[j].i + 1 \in Nat
      /\ UNCHANGED <<jobs, svc, plat, queue, worker, api, up, running, cancels>>
  BY DEF UpFrame, UpHelpers, HelperVerify, HelperAt, main, proc
<1>2. j <= Len(jobs) /\ j \in 1 .. Len(jobs)
  BY <1>1 DEF UpFrame, UpShape, UpHelpers, Jobs
<1>3. helper' = [helper EXCEPT ![j].pc = "burn", ![j].i = helper[j].i + 1] \/ Step(j, "failed")
  BY DEF HelperVerify
<1>4. {"burn", "failed"} \subseteq HelperPcs
  BY DEF HelperPcs
<1> QED BY <1>1, <1>2, <1>3, <1>4, UpStep, UpAdvance

LEMMA MoveHelperFailed ==
  ASSUME UpFrame, NEW j \in Jobs, HelperFailed(j)
  PROVE  /\ helper[j].pc = "failed" /\ j \in 1 .. Len(jobs)
         /\ UNCHANGED <<jobs, svc, plat, queue, worker, api, up, running, cancels>>
         /\ \A k \in Jobs \ {j} : helper'[k] = helper[k]
         /\ helper'[j].pc = "exited" /\ helper'[j].i = helper[j].i
<1>1. /\ UpHelpers /\ helper[j].pc = "failed" /\ helper[j].i \in Nat /\ helper[j].i + 1 \in Nat
      /\ UNCHANGED <<jobs, svc, plat, queue, worker, api, up, running, cancels>>
  BY DEF UpFrame, UpHelpers, HelperFailed, HelperAt, main, proc
<1>2. j <= Len(jobs) /\ j \in 1 .. Len(jobs)
  BY <1>1 DEF UpFrame, UpShape, UpHelpers, Jobs
<1>3. Step(j, "exited")
  BY DEF HelperFailed
<1>4. {"exited"} \subseteq HelperPcs
  BY DEF HelperPcs
<1> QED BY <1>1, <1>2, <1>3, <1>4, UpStep, UpAdvance

LEMMA MoveHelperFinish ==
  ASSUME UpFrame, NEW j \in Jobs, HelperFinish(j)
  PROVE  /\ helper[j].pc = "finish" /\ j \in 1 .. Len(jobs)
         /\ UNCHANGED <<jobs, svc, plat, queue, worker, api, up, running, cancels>>
         /\ \A k \in Jobs \ {j} : helper'[k] = helper[k]
         /\ helper'[j].pc \in {"reboot", "waiting"} /\ helper'[j].i = helper[j].i
<1>1. /\ UpHelpers /\ helper[j].pc = "finish" /\ helper[j].i \in Nat /\ helper[j].i + 1 \in Nat
      /\ UNCHANGED <<jobs, svc, plat, queue, worker, api, up, running, cancels>>
  BY DEF UpFrame, UpHelpers, HelperFinish, HelperAt, main, proc
<1>2. j <= Len(jobs) /\ j \in 1 .. Len(jobs)
  BY <1>1 DEF UpFrame, UpShape, UpHelpers, Jobs
<1>3. Step(j, "reboot") \/ Step(j, "waiting")
  BY DEF HelperFinish
<1>4. {"reboot", "waiting"} \subseteq HelperPcs
  BY DEF HelperPcs
<1> QED BY <1>1, <1>2, <1>3, <1>4, UpStep, UpAdvance

LEMMA MoveHelperConfirm ==
  ASSUME UpFrame, NEW j \in Jobs, HelperConfirm(j)
  PROVE  /\ helper[j].pc = "waiting" /\ j \in 1 .. Len(jobs)
         /\ UNCHANGED <<jobs, svc, plat, queue, worker, api, up, running, cancels>>
         /\ \A k \in Jobs \ {j} : helper'[k] = helper[k]
         /\ helper'[j].pc = "reboot" /\ helper'[j].i = helper[j].i
<1>1. /\ UpHelpers /\ helper[j].pc = "waiting" /\ helper[j].i \in Nat /\ helper[j].i + 1 \in Nat
      /\ UNCHANGED <<jobs, svc, plat, queue, worker, api, up, running, cancels>>
  BY DEF UpFrame, UpHelpers, HelperConfirm, HelperAt, main, proc
<1>2. j <= Len(jobs) /\ j \in 1 .. Len(jobs)
  BY <1>1 DEF UpFrame, UpShape, UpHelpers, Jobs
<1>3. Step(j, "reboot")
  BY DEF HelperConfirm
<1>4. {"reboot"} \subseteq HelperPcs
  BY DEF HelperPcs
<1> QED BY <1>1, <1>2, <1>3, <1>4, UpStep, UpAdvance

LEMMA MoveHelperReboot ==
  ASSUME UpFrame, NEW j \in Jobs, HelperReboot(j)
  PROVE  /\ helper[j].pc = "reboot" /\ j \in 1 .. Len(jobs)
         /\ UNCHANGED <<jobs, svc, plat, queue, worker, api, up, running, cancels>>
         /\ \A k \in Jobs \ {j} : helper'[k] = helper[k]
         /\ \/ helper'[j].pc = "exited" /\ helper'[j].i = helper[j].i
            \/ helper'[j] = helper[j]
<1>1. /\ UpHelpers /\ helper[j].pc = "reboot" /\ helper[j].i \in Nat /\ helper[j].i + 1 \in Nat
      /\ UNCHANGED <<jobs, svc, plat, queue, worker, api, up, running, cancels>>
  BY DEF UpFrame, UpHelpers, HelperReboot, HelperAt, main, proc
<1>2. j <= Len(jobs) /\ j \in 1 .. Len(jobs)
  BY <1>1 DEF UpFrame, UpShape, UpHelpers, Jobs
<1>3. Step(j, "exited") \/ helper' = helper
  BY DEF HelperReboot
<1>4. {"exited"} \subseteq HelperPcs
  BY DEF HelperPcs
<1> QED BY <1>1, <1>2, <1>3, <1>4, UpStep, UpAdvance

-----------------------------------------------------------------------------
(* What is in the flash: signed images, an application that runs, versions that were asked for. *)

PolicyPcs == WorkerPcs \ {"idle", "validate", "policy", "reject", "rejected"}
OpenPcs == {"program", "verify"}

\* Job j holds a partition of its own signed package open.
OpenFor(j, i) ==
    /\ Manifest[jobs[j].package].signed
    /\ i \in 1 .. Len(Manifest[jobs[j].package].parts)

\* Images are extracted, and partitions opened, for signed packages alone.
UpSigned ==
    /\ \A j \in Jobs : stages[j] = "full" => j <= Len(jobs) /\ Manifest[jobs[j].package].signed
    /\ worker.pc = "burn" => worker.i >= 1
    /\ worker.pc \in OpenPcs => OpenFor(worker.job, worker.i)
    /\ \A j \in Jobs : helper[j].pc = "burn" => helper[j].i >= 1
    /\ \A j \in Jobs : helper[j].pc \in OpenPcs => OpenFor(j, helper[j].i)

\* Job j may go down from the running version if it does.
PolicyOk(j) == Manifest[jobs[j].package].version < running => jobs[j].down

\* The policy was checked against the version that still runs, and what is in the
\* application's partition went through it.
UpPolicy ==
    /\ worker.pc \in PolicyPcs => PolicyOk(worker.job)
    /\ \A j \in Jobs : HelperRuns(j) => PolicyOk(j)
    /\ flash["bin"] \in Package /\ Manifest[flash["bin"]].version < running =>
          \E k \in 1 .. Len(jobs) : jobs[k].down /\ jobs[k].package = flash["bin"]
    /\ flash["bin"] = "factory" => running = FactoryVersion

UpSafe == UpSigned /\ FlashAuthentic /\ RunningPartitionIntact /\ UpPolicy

\* A step that neither extracts, opens, writes, launches nor boots.
UpQuiet ==
    /\ UNCHANGED <<flash, running>>
    /\ jobs' = jobs \/ \E r \in Requests : jobs' = Append(jobs, r)
    /\ \A j \in Jobs : stages'[j] = "full" => stages[j] = "full"
    /\ worker'.pc \in OpenPcs => worker' = worker
    /\ worker'.pc \in PolicyPcs => worker.pc \in PolicyPcs /\ worker'.job = worker.job
    /\ worker'.pc = "burn" => worker' = worker \/ worker'.i >= 1
    /\ \A j \in Jobs : helper'[j].pc \in OpenPcs => helper'[j] = helper[j]
    /\ \A j \in Jobs : helper'[j].pc = "burn" => helper'[j] = helper[j] \/ helper'[j].i >= 1
    /\ \A j \in Jobs : HelperRuns(j)' => HelperRuns(j)
    /\ (up' => up) /\ (power' = "on" => power = "on")

\* What was asked for stays on record.
LEMMA JobsKept ==
  ASSUME UpFrame, jobs' = jobs \/ \E r \in Requests : jobs' = Append(jobs, r)
  PROVE  /\ Len(jobs) \in Nat /\ Len(jobs') \in Nat /\ Len(jobs) <= Len(jobs')
         /\ \A k \in 1 .. Len(jobs) : jobs'[k] = jobs[k]
<1>1. jobs \in Seq(Requests)
  BY DEF UpFrame, UpShape
<1> QED BY <1>1

LEMMA QuietIsSafe ==
  ASSUME UpFrame, UpFrame', UpSafe, UpQuiet
  PROVE  UpSafe'
<1>1. /\ Len(jobs) \in Nat /\ Len(jobs') \in Nat /\ Len(jobs) <= Len(jobs')
      /\ \A k \in 1 .. Len(jobs) : jobs'[k] = jobs[k]
  BY JobsKept DEF UpQuiet
<1>2. \A j \in Jobs : j <= Len(jobs) => j \in 1 .. Len(jobs)
  BY <1>1 DEF Jobs
<1>3. \A j \in 1 .. Len(jobs) : \A i : (OpenFor(j, i) => OpenFor(j, i)') /\ (PolicyOk(j) => PolicyOk(j)')
  BY <1>1 DEF OpenFor, PolicyOk, UpQuiet
<1>4. worker.pc # "idle" => worker.job \in 1 .. Len(jobs)
  BY DEF UpFrame, UpWorker
<1>5. \A j \in Jobs : helper[j].pc # "none" => j \in 1 .. Len(jobs)
  BY <1>2 DEF UpFrame, UpHelpers
<1>6. UpSigned'
  <2>1. \A j \in Jobs : stages'[j] = "full" => j <= Len(jobs') /\ Manifest[jobs'[j].package].signed
    BY <1>1, <1>2 DEF UpSafe, UpSigned, UpQuiet, Jobs
  <2>2. worker'.pc \in OpenPcs => OpenFor(worker.job, worker.i)'
    BY <1>3, <1>4 DEF UpSafe, UpSigned, UpQuiet, OpenPcs
  <2>3. ASSUME NEW j \in Jobs, helper'[j].pc \in OpenPcs
        PROVE  OpenFor(j, helper[j].i)'
    <3>1. helper'[j] = helper[j] /\ j \in 1 .. Len(jobs) /\ OpenFor(j, helper[j].i)
      BY <2>3, <1>5 DEF UpSafe, UpSigned, UpQuiet, OpenPcs
    <3> QED BY <3>1, <1>3
  <2>4. worker'.pc = "burn" => worker'.i >= 1
    BY DEF UpSafe, UpSigned, UpQuiet
  <2>5. \A j \in Jobs : helper'[j].pc = "burn" => helper'[j].i >= 1
    BY DEF UpSafe, UpSigned, UpQuiet
  <2> QED BY <2>1, <2>2, <2>3, <2>4, <2>5 DEF UpSigned
<1>7. FlashAuthentic' /\ RunningPartitionIntact'
  BY DEF UpSafe, UpQuiet, FlashAuthentic, RunningPartitionIntact
<1>8. UpPolicy'
  <2>1. worker'.pc \in PolicyPcs => PolicyOk(worker.job)'
    BY <1>3, <1>4 DEF UpSafe, UpPolicy, UpQuiet, PolicyPcs
  <2>2. ASSUME NEW j \in Jobs, HelperRuns(j)' PROVE PolicyOk(j)'
    <3>1. HelperRuns(j) /\ j \in 1 .. Len(jobs) /\ PolicyOk(j)
      BY <2>2, <1>5 DEF UpSafe, UpPolicy, UpQuiet, HelperRuns
    <3> QED BY <3>1, <1>3
  <2>3. ASSUME flash["bin"] \in Package, Manifest[flash["bin"]].version < running
        PROVE  \E k \in 1 .. Len(jobs') : jobs'[k].down /\ jobs'[k].package = flash["bin"]
    <3>1. PICK k \in 1 .. Len(jobs) : jobs[k].down /\ jobs[k].package = flash["bin"]
      BY <2>3 DEF UpSafe, UpPolicy
    <3> QED BY <3>1, <1>1
  <2> QED BY <2>1, <2>2, <2>3 DEF UpPolicy, UpSafe, UpQuiet
<1> QED BY <1>6, <1>7, <1>8 DEF UpSafe

LEMMA QuietByWorker ==
  ASSUME UpFrame, UNCHANGED <<jobs, helper, up, running, flash>>,
         \A j \in Jobs : stages'[j] = "full" => stages[j] = "full",
         power' = "on" => power = "on",
         \/ worker'.pc = "idle"
         \/ /\ worker'.job = worker.job /\ worker'.pc \notin OpenPcs
            /\ worker'.pc \in PolicyPcs => worker.pc \in PolicyPcs
            /\ worker'.pc = "burn" => worker'.i >= 1
  PROVE  UpQuiet
  BY DEF UpQuiet, HelperRuns, PolicyPcs, OpenPcs

LEMMA QuietWorker ==
  ASSUME UpFrame, WorkerStep, ~WorkerPolicy, ~WorkerLaunch, ~WorkerExtract, ~WorkerBurn,
         ~WorkerProgram
  PROVE  UpQuiet
<1>0. UpShape /\ worker.i \in Nat
  BY DEF UpFrame, UpWorker
<1>1. CASE WorkerTake
  <2>1. worker'.pc = "validate"
    BY <1>1 DEF WorkerTake
  <2> QED BY <1>1, <2>1 DEF WorkerTake, UpQuiet, PolicyPcs, OpenPcs, proc, tmpfs, HelperRuns
<1>2. CASE WorkerValidate
  <2>1. /\ UNCHANGED <<jobs, helper, up, running, flash>> /\ (power' = "on" => power = "on")
        /\ \A j \in Jobs : stages'[j] = "full" => stages[j] = "full"
    BY <1>0, <1>2 DEF WorkerValidate, proc, tmpfs, CleanupStageDir, WorkerAt, UpShape
  <2> QED BY <1>0, <1>2, <2>1, MoveWorkerValidate, QuietByWorker DEF PolicyPcs, OpenPcs, WorkerPcs
<1>3. CASE WorkerPreparing
  <2>1. /\ UNCHANGED <<jobs, helper, up, running, flash>> /\ (power' = "on" => power = "on")
        /\ \A j \in Jobs : stages'[j] = "full" => stages[j] = "full"
    BY <1>0, <1>3 DEF WorkerPreparing, proc, tmpfs, CleanupStageDir, WorkerAt, UpShape
  <2> QED BY <1>0, <1>3, <2>1, MoveWorkerPreparing, QuietByWorker DEF PolicyPcs, OpenPcs,
      WorkerPcs
<1>4. CASE WorkerPrepare
  <2>1. /\ UNCHANGED <<jobs, helper, up, running, flash>> /\ (power' = "on" => power = "on")
        /\ \A j \in Jobs : stages'[j] = "full" => stages[j] = "full"
    BY <1>0, <1>4 DEF WorkerPrepare, proc, tmpfs, CleanupStageDir, WorkerAt, UpShape
  <2> QED BY <1>0, <1>4, <2>1, MoveWorkerPrepare, QuietByWorker DEF PolicyPcs, OpenPcs, WorkerPcs
<1>5. CASE WorkerArm
  <2>1. /\ UNCHANGED <<jobs, helper, up, running, flash>> /\ (power' = "on" => power = "on")
        /\ \A j \in Jobs : stages'[j] = "full" => stages[j] = "full"
    BY <1>0, <1>5 DEF WorkerArm, proc, tmpfs, CleanupStageDir, WorkerAt, UpShape
  <2> QED BY <1>0, <1>5, <2>1, MoveWorkerArm, QuietByWorker DEF PolicyPcs, OpenPcs, WorkerPcs
<1>6. CASE WorkerRecheck
  <2>1. /\ UNCHANGED <<jobs, helper, up, running, flash>> /\ (power' = "on" => power = "on")
        /\ \A j \in Jobs : stages'[j] = "full" => stages[j] = "full"
    BY <1>0, <1>6 DEF WorkerRecheck, proc, tmpfs, CleanupStageDir, WorkerAt, UpShape
  <2> QED BY <1>0, <1>6, <2>1, MoveWorkerRecheck, QuietByWorker DEF PolicyPcs, OpenPcs, WorkerPcs
<1>7. CASE WorkerWriting
  <2>1. /\ UNCHANGED <<jobs, helper, up, running, flash>> /\ (power' = "on" => power = "on")
        /\ \A j \in Jobs : stages'[j] = "full" => stages[j] = "full"
    BY <1>0, <1>7 DEF WorkerWriting, proc, tmpfs, CleanupStageDir, WorkerAt, UpShape
  <2> QED BY <1>0, <1>7, <2>1, MoveWorkerWriting, QuietByWorker DEF PolicyPcs, OpenPcs, WorkerPcs
<1>8. CASE WorkerGiveUp
  <2>1. /\ UNCHANGED <<jobs, helper, up, running, flash>> /\ (power' = "on" => power = "on")
        /\ \A j \in Jobs : stages'[j] = "full" => stages[j] = "full"
    BY <1>0, <1>8 DEF WorkerGiveUp, proc, tmpfs, CleanupStageDir, WorkerAt, UpShape
  <2> QED BY <1>0, <1>8, <2>1, MoveWorkerGiveUp, QuietByWorker DEF PolicyPcs, OpenPcs, WorkerPcs
<1>9. CASE WorkerFailed
  <2>1. /\ UNCHANGED <<jobs, helper, up, running, flash>> /\ (power' = "on" => power = "on")
        /\ \A j \in Jobs : stages'[j] = "full" => stages[j] = "full"
    BY <1>0, <1>9 DEF WorkerFailed, proc, tmpfs, CleanupStageDir, WorkerAt, UpShape
  <2> QED BY <1>0, <1>9, <2>1, MoveWorkerFailed, QuietByWorker DEF PolicyPcs, OpenPcs, WorkerPcs
<1>10. CASE WorkerWrite
  <2>1. /\ UNCHANGED <<jobs, helper, up, running, flash>> /\ (power' = "on" => power = "on")
        /\ \A j \in Jobs : stages'[j] = "full" => stages[j] = "full"
    BY <1>0, <1>10 DEF WorkerWrite, proc, tmpfs, CleanupStageDir, WorkerAt, UpShape
  <2> QED BY <1>0, <1>10, <2>1, MoveWorkerWrite, QuietByWorker DEF PolicyPcs, OpenPcs, WorkerPcs
<1>11. CASE WorkerHandoff
  <2>1. /\ UNCHANGED <<jobs, helper, up, running, flash>> /\ (power' = "on" => power = "on")
        /\ \A j \in Jobs : stages'[j] = "full" => stages[j] = "full"
    BY <1>0, <1>11 DEF WorkerHandoff, proc, tmpfs, CleanupStageDir, WorkerAt, UpShape
  <2> QED BY <1>0, <1>11, <2>1, MoveWorkerHandoff, QuietByWorker DEF PolicyPcs, OpenPcs, WorkerPcs
<1>12. CASE WorkerMark
  <2>1. /\ UNCHANGED <<jobs, helper, up, running, flash>> /\ (power' = "on" => power = "on")
        /\ \A j \in Jobs : stages'[j] = "full" => stages[j] = "full"
    BY <1>0, <1>12 DEF WorkerMark, proc, tmpfs, CleanupStageDir, WorkerAt, UpShape
  <2> QED BY <1>0, <1>12, <2>1, MoveWorkerMark, QuietByWorker DEF PolicyPcs, OpenPcs, WorkerPcs
<1>13. CASE WorkerApply
  <2>1. /\ UNCHANGED <<jobs, helper, up, running, flash>> /\ (power' = "on" => power = "on")
        /\ \A j \in Jobs : stages'[j] = "full" => stages[j] = "full"
    BY <1>0, <1>13 DEF WorkerApply, proc, tmpfs, CleanupStageDir, WorkerAt, UpShape
  <2> QED BY <1>0, <1>13, <2>1, MoveWorkerApply, QuietByWorker DEF PolicyPcs, OpenPcs, WorkerPcs
<1>14. CASE WorkerVerify
  <2>1. /\ UNCHANGED <<jobs, helper, up, running, flash>> /\ (power' = "on" => power = "on")
        /\ \A j \in Jobs : stages'[j] = "full" => stages[j] = "full"
    BY <1>0, <1>14 DEF WorkerVerify, proc, tmpfs, CleanupStageDir, WorkerAt, UpShape
  <2> QED BY <1>0, <1>14, <2>1, MoveWorkerVerify, QuietByWorker DEF PolicyPcs, OpenPcs, WorkerPcs
<1>15. CASE WorkerWritten
  <2>1. /\ UNCHANGED <<jobs, helper, up, running, flash>> /\ (power' = "on" => power = "on")
        /\ \A j \in Jobs : stages'[j] = "full" => stages[j] = "full"
    BY <1>0, <1>15 DEF WorkerWritten, proc, tmpfs, CleanupStageDir, WorkerAt, UpShape
  <2> QED BY <1>0, <1>15, <2>1, MoveWorkerWritten, QuietByWorker DEF PolicyPcs, OpenPcs, WorkerPcs
<1>16. CASE WorkerCommit
  <2>1. /\ UNCHANGED <<jobs, helper, up, running, flash>> /\ (power' = "on" => power = "on")
        /\ \A j \in Jobs : stages'[j] = "full" => stages[j] = "full"
    BY <1>0, <1>16 DEF WorkerCommit, proc, tmpfs, CleanupStageDir, WorkerAt, UpShape
  <2> QED BY <1>0, <1>16, <2>1, MoveWorkerCommit, QuietByWorker DEF PolicyPcs, OpenPcs, WorkerPcs
<1>17. CASE WorkerFinish
  <2>1. /\ UNCHANGED <<jobs, helper, up, running, flash>> /\ (power' = "on" => power = "on")
        /\ \A j \in Jobs : stages'[j] = "full" => stages[j] = "full"
    BY <1>0, <1>17 DEF WorkerFinish, proc, tmpfs, CleanupStageDir, WorkerAt, UpShape
  <2> QED BY <1>0, <1>17, <2>1, MoveWorkerFinish, QuietByWorker DEF PolicyPcs, OpenPcs, WorkerPcs
<1> QED BY <1>1, <1>2, <1>3, <1>4, <1>5, <1>6, <1>7, <1>8, <1>9, <1>10, <1>11, <1>12, <1>13,
    <1>14, <1>15, <1>16, <1>17 DEF WorkerStep

LEMMA QuietMainGone ==
  ASSUME UpFrame, MainGone, UNCHANGED <<jobs, helper, running, power, stages, flash>>
  PROVE  UpQuiet
<1>1. worker'.pc = "idle" /\ up' = FALSE
  BY DEF MainGone, IdleWorker
<1> QED BY <1>1 DEF UpQuiet, PolicyPcs, OpenPcs, HelperRuns

LEMMA QuietValidatePackage ==
  ASSUME UpFrame, NEW p \in Package, ValidatePackage(p),
         UNCHANGED <<jobs, helper, running, power, stages, flash>>
  PROVE  UpQuiet
<1>1. CASE MainGone
  BY <1>1, QuietMainGone
<1>2. CASE ~MainGone
  BY <1>2 DEF ValidatePackage, UpQuiet, HelperRuns
<1> QED BY <1>1, <1>2

LEMMA QuietApi ==
  ASSUME UpFrame, ApiStep
  PROVE  UpQuiet
<1>1. CASE UploadValidate
  <2>1. PICK p \in files :
          IF ParseUpgradePackage(p)
          THEN ValidatePackage(p) /\ UNCHANGED files
          ELSE /\ files' = files \ {p} /\ api' = "idle"
               /\ UNCHANGED <<svc, plat, queue, worker, up, term>>
    BY <1>1 DEF UploadValidate
  <2>2. p \in Package
    BY DEF UpFrame, UpShape
  <2>3. CASE ParseUpgradePackage(p)
    BY <1>1, <2>1, <2>2, <2>3, QuietValidatePackage DEF UploadValidate
  <2>4. CASE ~ParseUpgradePackage(p)
    BY <1>1, <2>1, <2>4 DEF UploadValidate, UpQuiet, HelperRuns
  <2> QED BY <2>3, <2>4
<1>2. ASSUME NEW p \in Package, HandleValidate(p) PROVE UpQuiet
  BY <1>2, QuietValidatePackage DEF HandleValidate, tmpfs
<1>3. ASSUME NEW p \in Package, Upload(p) PROVE UpQuiet
  BY <1>3 DEF Upload, UpQuiet, HelperRuns, proc
<1>4. ASSUME NEW r \in Requests, StartUpgrade(r) PROVE UpQuiet
  BY <1>4 DEF StartUpgrade, UpQuiet, HelperRuns, proc, tmpfs
<1>5. CASE StartPost
  BY <1>5 DEF StartPost, UpQuiet, HelperRuns, ApiAt, proc, tmpfs
<1>6. CASE CancelUpgrade
  BY <1>6 DEF CancelUpgrade, UpQuiet, HelperRuns, ApiAt, proc, tmpfs
<1>7. CASE CancelPlatform
  BY <1>7 DEF CancelPlatform, UpQuiet, HelperRuns, ApiAt, proc, tmpfs
<1>8. CASE CancelFinish
  BY <1>8 DEF CancelFinish, UpQuiet, HelperRuns, ApiAt, proc, tmpfs
<1>9. CASE ConfirmReboot
  BY <1>9 DEF ConfirmReboot, UpQuiet, HelperRuns, ApiAt, proc, tmpfs
<1>10. CASE GetUpgradeInfo
  BY <1>10 DEF GetUpgradeInfo, UpQuiet, HelperRuns, ApiAt, proc, tmpfs
<1> QED BY <1>1, <1>2, <1>3, <1>4, <1>5, <1>6, <1>7, <1>8, <1>9, <1>10 DEF ApiStep

LEMMA QuietByHelper ==
  ASSUME UpFrame, NEW j \in Jobs, HelperRuns(j), helper'[j].pc \notin OpenPcs,
         helper'[j].pc = "burn" => helper'[j].i >= 1,
         \A k \in Jobs \ {j} : helper'[k] = helper[k],
         UNCHANGED <<jobs, worker, up, running, flash>>,
         \A k \in Jobs : stages'[k] = "full" => stages[k] = "full",
         power' = "on" => power = "on"
  PROVE  UpQuiet
  BY DEF UpQuiet, HelperRuns

LEMMA QuietHelper ==
  ASSUME UpFrame, NEW j \in Jobs,
         \/ HelperRefuse(j) \/ HelperParse(j) \/ HelperServe(j) \/ HelperPrepare(j)
         \/ HelperStopApp(j) \/ HelperVerify(j) \/ HelperFailed(j) \/ HelperFinish(j)
         \/ HelperConfirm(j) \/ HelperReboot(j)
  PROVE  UpQuiet
<1>0. UpShape /\ helper[j].i \in Nat
  BY DEF UpFrame, UpHelpers
<1>1. CASE HelperRefuse(j)
  <2>1. /\ flash' = flash /\ (power' = "on" => power = "on")
        /\ \A k \in Jobs : stages'[k] = "full" => stages[k] = "full"
    BY <1>0, <1>1 DEF HelperRefuse, proc, tmpfs, CleanupTmpUpgradeFiles, HelperAt, UpShape
  <2> QED BY <1>0, <1>1, <2>1, MoveHelperRefuse, QuietByHelper DEF HelperRuns, OpenPcs
<1>2. CASE HelperParse(j)
  <2>1. /\ flash' = flash /\ (power' = "on" => power = "on")
        /\ \A k \in Jobs : stages'[k] = "full" => stages[k] = "full"
    BY <1>0, <1>2 DEF HelperParse, proc, tmpfs, CleanupTmpUpgradeFiles, HelperAt, UpShape
  <2> QED BY <1>0, <1>2, <2>1, MoveHelperParse, QuietByHelper DEF HelperRuns, OpenPcs
<1>3. CASE HelperServe(j)
  <2>1. /\ flash' = flash /\ (power' = "on" => power = "on")
        /\ \A k \in Jobs : stages'[k] = "full" => stages[k] = "full"
    BY <1>0, <1>3 DEF HelperServe, proc, tmpfs, CleanupTmpUpgradeFiles, HelperAt, UpShape
  <2> QED BY <1>0, <1>3, <2>1, MoveHelperServe, QuietByHelper DEF HelperRuns, OpenPcs
<1>4. CASE HelperPrepare(j)
  <2>1. /\ flash' = flash /\ (power' = "on" => power = "on")
        /\ \A k \in Jobs : stages'[k] = "full" => stages[k] = "full"
    BY <1>0, <1>4 DEF HelperPrepare, proc, tmpfs, CleanupTmpUpgradeFiles, HelperAt, UpShape
  <2> QED BY <1>0, <1>4, <2>1, MoveHelperPrepare, QuietByHelper DEF HelperRuns, OpenPcs
<1>5. CASE HelperStopApp(j)
  <2>1. /\ flash' = flash /\ (power' = "on" => power = "on")
        /\ \A k \in Jobs : stages'[k] = "full" => stages[k] = "full"
    BY <1>0, <1>5 DEF HelperStopApp, proc, tmpfs, CleanupTmpUpgradeFiles, HelperAt, UpShape
  <2> QED BY <1>0, <1>5, <2>1, MoveHelperStopApp, QuietByHelper DEF HelperRuns, OpenPcs
<1>6. CASE HelperVerify(j)
  <2>1. /\ flash' = flash /\ (power' = "on" => power = "on")
        /\ \A k \in Jobs : stages'[k] = "full" => stages[k] = "full"
    BY <1>0, <1>6 DEF HelperVerify, proc, tmpfs, CleanupTmpUpgradeFiles, HelperAt, UpShape
  <2> QED BY <1>0, <1>6, <2>1, MoveHelperVerify, QuietByHelper DEF HelperRuns, OpenPcs
<1>7. CASE HelperFailed(j)
  <2>1. /\ flash' = flash /\ (power' = "on" => power = "on")
        /\ \A k \in Jobs : stages'[k] = "full" => stages[k] = "full"
    BY <1>0, <1>7 DEF HelperFailed, proc, tmpfs, CleanupTmpUpgradeFiles, HelperAt, UpShape
  <2> QED BY <1>0, <1>7, <2>1, MoveHelperFailed, QuietByHelper DEF HelperRuns, OpenPcs
<1>8. CASE HelperFinish(j)
  <2>1. /\ flash' = flash /\ (power' = "on" => power = "on")
        /\ \A k \in Jobs : stages'[k] = "full" => stages[k] = "full"
    BY <1>0, <1>8 DEF HelperFinish, proc, tmpfs, CleanupTmpUpgradeFiles, HelperAt, UpShape
  <2> QED BY <1>0, <1>8, <2>1, MoveHelperFinish, QuietByHelper DEF HelperRuns, OpenPcs
<1>9. CASE HelperConfirm(j)
  <2>1. /\ flash' = flash /\ (power' = "on" => power = "on")
        /\ \A k \in Jobs : stages'[k] = "full" => stages[k] = "full"
    BY <1>0, <1>9 DEF HelperConfirm, proc, tmpfs, CleanupTmpUpgradeFiles, HelperAt, UpShape
  <2> QED BY <1>0, <1>9, <2>1, MoveHelperConfirm, QuietByHelper DEF HelperRuns, OpenPcs
<1>10. CASE HelperReboot(j)
  <2>1. /\ flash' = flash /\ (power' = "on" => power = "on")
        /\ \A k \in Jobs : stages'[k] = "full" => stages[k] = "full"
    BY <1>0, <1>10 DEF HelperReboot, proc, tmpfs, CleanupTmpUpgradeFiles, HelperAt, UpShape
  <2> QED BY <1>0, <1>10, <2>1, MoveHelperReboot, QuietByHelper DEF HelperRuns, OpenPcs
<1> QED BY <1>1, <1>2, <1>3, <1>4, <1>5, <1>6, <1>7, <1>8, <1>9, <1>10

\* The steps that are not quiet.
LEMMA SafePolicy ==
  ASSUME UpFrame, UpSafe, WorkerPolicy
  PROVE  UpSafe'
<1>1. UpWorker /\ worker.pc = "policy" /\ jobs' = jobs
  BY DEF UpFrame, WorkerPolicy, WorkerAt
<1>2. worker' = IdleWorker \/ Goto("reject") \/ (ValidateVersionPolicy(Request) /\ Goto("preparing"))
  BY DEF WorkerPolicy
<1>3. {"reject", "preparing"} \subseteq WorkerPcs \ {"idle"} /\ jobs \in Seq(Requests)
  BY DEF WorkerPcs, UpFrame, UpShape
<1>4. \/ worker'.pc \in {"idle", "reject"}
      \/ ValidateVersionPolicy(Request) /\ worker'.pc = "preparing" /\ worker'.job = worker.job
  BY <1>1, <1>2, <1>3, UpGoto, UpIdle
<1>5. UNCHANGED <<jobs, helper, up, running, flash, stages, power>>
  BY DEF WorkerPolicy, proc, tmpfs
<1>6. worker'.pc \in PolicyPcs => PolicyOk(worker.job)'
  BY <1>4, <1>5 DEF PolicyPcs, ValidateVersionPolicy, PolicyOk, Request
<1>7. worker'.pc \notin OpenPcs /\ worker'.pc # "burn"
  BY <1>4 DEF OpenPcs
<1>8. UpSigned' /\ FlashAuthentic' /\ RunningPartitionIntact'
  BY <1>5, <1>7 DEF UpSafe, UpSigned, FlashAuthentic, RunningPartitionIntact, OpenFor
<1>9. UpPolicy'
  BY <1>5, <1>6 DEF UpSafe, UpPolicy, PolicyOk, HelperRuns
<1> QED BY <1>8, <1>9 DEF UpSafe

LEMMA SafeLaunch ==
  ASSUME UpFrame, UpSafe, WorkerLaunch
  PROVE  UpSafe'
<1>1. UpWorker /\ UpHelpers /\ worker.pc = "launch" /\ jobs' = jobs
  BY DEF UpFrame, WorkerLaunch, WorkerAt
<1>2. Goto("handoff") \/ Goto("fail")
  BY DEF WorkerLaunch
<1>3. {"handoff", "fail"} \subseteq WorkerPcs \ {"idle"}
  BY DEF WorkerPcs
<1>4. worker'.pc \in {"handoff", "fail"} /\ worker'.job = worker.job
  BY <1>1, <1>2, <1>3, UpGoto
<1>5. UNCHANGED <<jobs, up, running, flash, stages, power>>
  BY DEF WorkerLaunch, proc, tmpfs
<1>6. worker.job \in Jobs
  BY <1>1, BoundsAssumption DEF UpWorker, UpFrame, UpShape, Jobs
<1>7. \A j \in Jobs : j # worker.job => helper'[j] = helper[j]
  BY <1>1, <1>6 DEF WorkerLaunch, UpHelpers
<1>8. helper' = helper \/ helper'[worker.job].pc = "parse"
  BY <1>1, <1>6 DEF WorkerLaunch, UpHelpers
<1>9. PolicyOk(worker.job)
  BY <1>1 DEF UpSafe, UpPolicy, PolicyPcs, WorkerPcs
<1>10. UpSigned'
  <2>1. \A j \in Jobs : helper'[j].pc \in OpenPcs \cup {"burn"} => helper'[j] = helper[j]
    BY <1>7, <1>8 DEF OpenPcs
  <2>2. worker'.pc \notin OpenPcs /\ worker'.pc # "burn"
    BY <1>4 DEF OpenPcs
  <2> QED BY <1>5, <2>1, <2>2 DEF UpSafe, UpSigned, OpenFor
<1>11. FlashAuthentic' /\ RunningPartitionIntact'
  BY <1>5 DEF UpSafe, FlashAuthentic, RunningPartitionIntact
<1>12. UpPolicy'
  <2>1. worker'.pc \in PolicyPcs => PolicyOk(worker.job)'
    BY <1>4, <1>5, <1>9 DEF PolicyOk
  <2>2. \A j \in Jobs : HelperRuns(j)' => PolicyOk(j)'
    BY <1>5, <1>7, <1>8, <1>9 DEF UpSafe, UpPolicy, HelperRuns, PolicyOk
  <2> QED BY <1>5, <2>1, <2>2 DEF UpSafe, UpPolicy
<1> QED BY <1>10, <1>11, <1>12 DEF UpSafe

LEMMA SafeExtract ==
  ASSUME UpFrame, UpSafe, WorkerExtract
  PROVE  UpSafe'
<1>1. UpWorker /\ UpShape /\ worker.pc = "extract" /\ jobs' = jobs
  BY DEF UpFrame, WorkerExtract, WorkerAt
<1>2. Goto("apply") \/ Goto("fail")
  BY DEF WorkerExtract
<1>3. {"apply", "fail"} \subseteq WorkerPcs \ {"idle"}
  BY DEF WorkerPcs
<1>4. worker'.pc \in {"apply", "fail"} /\ worker'.job = worker.job
  BY <1>1, <1>2, <1>3, UpGoto
<1>5. UNCHANGED <<jobs, helper, up, running, flash, power>>
  BY DEF WorkerExtract, proc
<1>6. worker.job \in 1 .. Len(jobs)
  BY <1>1 DEF UpWorker
<1>7. \A j \in Jobs : stages'[j] = "full" => stages[j] = "full" \/ (j = worker.job /\ Manifest[jobs[j].package].signed)
  BY <1>1 DEF WorkerExtract, UpShape, CanExtract, ParseUpgradePackage, Request
<1>8. UpSigned'
  <2>1. worker'.pc \notin OpenPcs /\ worker'.pc # "burn"
    BY <1>4 DEF OpenPcs
  <2> QED BY <1>5, <1>6, <1>7, <2>1 DEF UpSafe, UpSigned, OpenFor
<1>9. FlashAuthentic' /\ RunningPartitionIntact'
  BY <1>5 DEF UpSafe, FlashAuthentic, RunningPartitionIntact
<1>10. UpPolicy'
  BY <1>1, <1>4, <1>5 DEF UpSafe, UpPolicy, PolicyOk, HelperRuns, PolicyPcs, WorkerPcs
<1> QED BY <1>8, <1>9, <1>10 DEF UpSafe

\* An erase takes a partition from under nobody, and only for a signed package.
LEMMA EraseIsSafe ==
  ASSUME UpFrame, UpSafe, NEW part, CanUnmount(part), NEW j, Erase(part, j), UNCHANGED <<jobs, running, up, power>>
  PROVE  FlashAuthentic' /\ RunningPartitionIntact'
         /\ (flash'["bin"] \in Package => flash'["bin"] = flash["bin"])
         /\ (flash'["bin"] = "factory" => flash["bin"] = "factory")
<1>1. flash \in [Partition -> Image] /\ flash' = [flash EXCEPT ![part] = "blank"]
  BY DEF UpFrame, UpShape, Erase
<1>2. \A q \in Partition : flash'[q] = flash[q] \/ (q = part /\ flash'[q] = "blank")
  BY <1>1
<1>3. "blank" \notin Package
  BY PackagesAssumption
<1>4. "bin" \in Partition
  BY DEF Partition
<1> QED BY <1>2, <1>3, <1>4 DEF UpSafe, FlashAuthentic, RunningPartitionIntact, CanUnmount

LEMMA ProgramIsSafe ==
  ASSUME UpFrame, UpSafe, NEW j \in 1 .. Len(jobs), NEW i, OpenFor(j, i), PolicyOk(j),
         Program(OpenPart(j, i), jobs[j].package), UNCHANGED <<jobs, running, up, power>>
  PROVE  /\ FlashAuthentic' /\ RunningPartitionIntact'
         /\ flash'["bin"] \in Package /\ Manifest[flash'["bin"]].version < running =>
               \E k \in 1 .. Len(jobs) : jobs[k].down /\ jobs[k].package = flash'["bin"]
         /\ flash'["bin"] = "factory" => running = FactoryVersion
<1>1. PICK p : p = jobs[j].package
  OBVIOUS
<1>2. PICK part : part = OpenPart(j, i)
  OBVIOUS
<1>3. p \in Package /\ flash \in [Partition -> Image]
  BY <1>1, UpRequest DEF UpFrame, UpShape
<1>4. part \in Parts(p) /\ Manifest[p].signed
  <2>1. PICK parts : parts = Manifest[p].parts
    OBVIOUS
  <2>2. parts \in Seq(Partition)
    BY <1>3, <2>1, PackagesAssumption
  <2>3. Manifest[p].signed /\ i \in 1 .. Len(parts) /\ part = parts[i]
    BY <1>1, <1>2, <2>1 DEF OpenFor, OpenPart
  <2>4. i \in DOMAIN parts
    BY <2>2, <2>3
  <2> QED BY <2>1, <2>3, <2>4 DEF Parts
<1>5. flash' = flash \/ flash' = [flash EXCEPT ![part] = p]
  BY <1>1, <1>2 DEF Program
<1>6. \A q \in Partition : flash'[q] = flash[q] \/ (q = part /\ flash'[q] = p)
  BY <1>3, <1>5
<1>7. {"factory", "blank"} \cap Package = {} /\ "bin" \in Partition
  BY PackagesAssumption DEF Partition
<1>8. FlashAuthentic' /\ RunningPartitionIntact'
  BY <1>3, <1>4, <1>6, <1>7 DEF UpSafe, FlashAuthentic, RunningPartitionIntact
<1>9. flash'["bin"] = flash["bin"] \/ flash'["bin"] = p
  BY <1>6, <1>7
<1>10. flash'["bin"] = p /\ Manifest[p].version < running => jobs[j].down
  BY <1>1 DEF PolicyOk
<1> QED BY <1>1, <1>3, <1>7, <1>8, <1>9, <1>10 DEF UpSafe, UpPolicy

LEMMA SafeBurn ==
  ASSUME UpFrame, UpSafe, WorkerBurn
  PROVE  UpSafe'
<1>1. UpWorker /\ UpCached /\ worker.pc = "burn" /\ jobs' = jobs /\ worker.job \in 1 .. Len(jobs)
      /\ worker.job \in Jobs
  BY BoundsAssumption DEF UpFrame, UpShape, UpWorker, WorkerBurn, WorkerAt, Jobs
<1>2. UNCHANGED <<jobs, helper, up, running, stages, power>>
  BY DEF WorkerBurn, proc, tmpfs
<1>3. PICK parts : parts = Manifest[plat.cached].parts
  OBVIOUS
<1>4. PICK part : part = parts[worker.i]
  OBVIOUS
<1>5. \/ (Goto("written") \/ Goto("fail")) /\ flash' = flash
      \/ /\ Goto("fail") \/ (Goto("program") /\ worker.i <= Len(parts))
         /\ plat.cached = Request.package /\ stages[worker.job] = "full"
         /\ CanUnmount(part) /\ Erase(part, worker.job)
  BY <1>3, <1>4 DEF WorkerBurn, WriteFailed
<1>6. {"written", "fail", "program"} \subseteq WorkerPcs \ {"idle"}
  BY DEF WorkerPcs
<1>7. /\ worker'.pc \in {"written", "fail", "program"}
      /\ worker'.job = worker.job /\ worker'.i = worker.i
  BY <1>1, <1>5, <1>6, UpGoto
<1>8. worker'.pc = "program" => OpenFor(worker.job, worker.i)
  <2> SUFFICES ASSUME worker'.pc = "program" PROVE OpenFor(worker.job, worker.i)
    OBVIOUS
  <2>1. /\ worker.i <= Len(parts) /\ plat.cached = Request.package /\ stages[worker.job] = "full"
    BY <1>1, <1>5, <1>6, UpGoto
  <2>2. worker.i >= 1
    BY <1>1 DEF UpSafe, UpSigned, UpWorker
  <2> QED BY <1>1, <1>3, <2>1, <2>2 DEF OpenFor, UpSafe, UpSigned, Request, UpWorker
<1>9. /\ FlashAuthentic' /\ RunningPartitionIntact'
      /\ flash'["bin"] \in Package => flash'["bin"] = flash["bin"]
      /\ flash'["bin"] = "factory" => flash["bin"] = "factory"
  <2>1. CASE flash' = flash
    BY <1>2, <2>1 DEF UpSafe, FlashAuthentic, RunningPartitionIntact
  <2>2. CASE CanUnmount(part) /\ Erase(part, worker.job)
    BY <1>2, <2>2, EraseIsSafe
  <2> QED BY <1>5, <2>1, <2>2
<1>10. UpSigned'
  BY <1>2, <1>7, <1>8 DEF UpSafe, UpSigned, OpenFor, OpenPcs
<1>11. UpPolicy'
  BY <1>1, <1>2, <1>7, <1>9 DEF UpSafe, UpPolicy, PolicyOk, HelperRuns, PolicyPcs, WorkerPcs
<1> QED BY <1>9, <1>10, <1>11 DEF UpSafe

LEMMA SafeProgram ==
  ASSUME UpFrame, UpSafe, WorkerProgram
  PROVE  UpSafe'
<1>1. UpWorker /\ worker.pc = "program" /\ jobs' = jobs /\ worker.job \in 1 .. Len(jobs)
  BY DEF UpFrame, UpWorker, WorkerProgram, WorkerAt
<1>2. UNCHANGED <<jobs, helper, up, running, stages, power>>
  BY DEF WorkerProgram, proc, tmpfs
<1>3. Goto("verify") /\ "verify" \in WorkerPcs \ {"idle"}
  BY DEF WorkerProgram, WorkerPcs
<1>4. worker'.pc = "verify" /\ worker'.job = worker.job /\ worker'.i = worker.i
  BY <1>1, <1>3, UpGoto
<1>5. OpenFor(worker.job, worker.i) /\ PolicyOk(worker.job)
  BY <1>1 DEF UpSafe, UpSigned, UpPolicy, OpenPcs, PolicyPcs, WorkerPcs
<1>6. Program(OpenPart(worker.job, worker.i), jobs[worker.job].package)
  BY DEF WorkerProgram, Request
<1>7. /\ FlashAuthentic' /\ RunningPartitionIntact'
      /\ flash'["bin"] \in Package /\ Manifest[flash'["bin"]].version < running =>
            \E k \in 1 .. Len(jobs) : jobs[k].down /\ jobs[k].package = flash'["bin"]
      /\ flash'["bin"] = "factory" => running = FactoryVersion
  BY <1>1, <1>2, <1>5, <1>6, ProgramIsSafe
<1>8. UpSigned'
  BY <1>2, <1>4, <1>5 DEF UpSafe, UpSigned, OpenFor
<1>9. UpPolicy'
  BY <1>2, <1>4, <1>5, <1>7 DEF UpSafe, UpPolicy, PolicyOk, HelperRuns
<1> QED BY <1>7, <1>8, <1>9 DEF UpSafe

LEMMA SafeHelperExtract ==
  ASSUME UpFrame, UpSafe, NEW j \in Jobs, HelperExtract(j)
  PROVE  UpSafe'
<1>1. UpHelpers /\ UpShape /\ helper[j].pc = "extract" /\ jobs' = jobs /\ j \in 1 .. Len(jobs)
  BY DEF UpFrame, UpHelpers, UpShape, HelperExtract, HelperAt, Jobs
<1>2. UNCHANGED <<jobs, worker, up, running, flash, power>>
  BY DEF HelperExtract, main, proc
<1>3. (Step(j, "stop") \/ Step(j, "failed")) /\ {"stop", "failed"} \subseteq HelperPcs
  BY DEF HelperExtract, HelperPcs
<1>4. helper'[j].pc \in {"stop", "failed"} /\ \A k \in Jobs \ {j} : helper'[k] = helper[k]
  BY <1>1, <1>3, UpStep
<1>5. \A k \in Jobs : stages'[k] = "full" => stages[k] = "full" \/ (k = j /\ Manifest[jobs[k].package].signed)
  BY <1>1 DEF HelperExtract, UpShape, CanExtract, ParseUpgradePackage
<1>6. UpSigned'
  BY <1>1, <1>2, <1>4, <1>5 DEF UpSafe, UpSigned, OpenFor, OpenPcs
<1>7. FlashAuthentic' /\ RunningPartitionIntact'
  BY <1>2 DEF UpSafe, FlashAuthentic, RunningPartitionIntact
<1>8. UpPolicy'
  BY <1>1, <1>2, <1>4 DEF UpSafe, UpPolicy, PolicyOk, HelperRuns
<1> QED BY <1>6, <1>7, <1>8 DEF UpSafe

LEMMA SafeHelperBurn ==
  ASSUME UpFrame, UpSafe, NEW j \in Jobs, HelperBurn(j)
  PROVE  UpSafe'
<1>1. UpHelpers /\ helper[j].pc = "burn" /\ jobs' = jobs /\ j \in 1 .. Len(jobs) /\ helper[j].i \in Nat
  BY DEF UpFrame, UpHelpers, UpShape, HelperBurn, HelperAt, Jobs
<1>2. UNCHANGED <<jobs, worker, up, running, stages, power>>
  BY DEF HelperBurn, main, proc, tmpfs
<1>3. PICK parts : parts = Manifest[jobs[j].package].parts
  OBVIOUS
<1>4. PICK part : part = parts[helper[j].i]
  OBVIOUS
<1>5. \/ (Step(j, "finish") \/ Step(j, "failed")) /\ flash' = flash
      \/ /\ Step(j, "failed") \/ Step(j, "program")
         /\ helper[j].i <= Len(parts) /\ stages[j] = "full"
         /\ CanUnmount(part) /\ Erase(part, j)
  BY <1>3, <1>4 DEF HelperBurn
<1>6. {"finish", "failed", "program"} \subseteq HelperPcs
  BY DEF HelperPcs
<1>7. /\ helper'[j].pc \in {"finish", "failed", "program"} /\ helper'[j].i = helper[j].i
      /\ \A k \in Jobs \ {j} : helper'[k] = helper[k]
      /\ helper'[j].pc = "program" => helper[j].i <= Len(parts) /\ stages[j] = "full"
  BY <1>1, <1>5, <1>6, UpStep
<1>8. helper'[j].pc = "program" => OpenFor(j, helper[j].i)
  BY <1>1, <1>3, <1>7 DEF OpenFor, UpSafe, UpSigned
<1>9. /\ FlashAuthentic' /\ RunningPartitionIntact'
      /\ flash'["bin"] \in Package => flash'["bin"] = flash["bin"]
      /\ flash'["bin"] = "factory" => flash["bin"] = "factory"
  <2>1. CASE flash' = flash
    BY <1>2, <2>1 DEF UpSafe, FlashAuthentic, RunningPartitionIntact
  <2>2. CASE CanUnmount(part) /\ Erase(part, j)
    BY <1>2, <2>2, EraseIsSafe
  <2> QED BY <1>5, <2>1, <2>2
<1>10. UpSigned'
  BY <1>2, <1>7, <1>8 DEF UpSafe, UpSigned, OpenFor, OpenPcs
<1>11. UpPolicy'
  BY <1>1, <1>2, <1>7, <1>9 DEF UpSafe, UpPolicy, PolicyOk, HelperRuns
<1> QED BY <1>9, <1>10, <1>11 DEF UpSafe

LEMMA SafeHelperProgram ==
  ASSUME UpFrame, UpSafe, NEW j \in Jobs, HelperProgram(j)
  PROVE  UpSafe'
<1>1. UpHelpers /\ helper[j].pc = "program" /\ jobs' = jobs /\ j \in 1 .. Len(jobs)
  BY DEF UpFrame, UpHelpers, UpShape, HelperProgram, HelperAt, Jobs
<1>2. UNCHANGED <<jobs, worker, up, running, stages, power>>
  BY DEF HelperProgram, main, proc, tmpfs
<1>3. Step(j, "verify") /\ "verify" \in HelperPcs
  BY DEF HelperProgram, HelperPcs
<1>4. /\ helper'[j].pc = "verify" /\ helper'[j].i = helper[j].i
      /\ \A k \in Jobs \ {j} : helper'[k] = helper[k]
  BY <1>1, <1>3, UpStep
<1>5. OpenFor(j, helper[j].i) /\ PolicyOk(j)
  BY <1>1 DEF UpSafe, UpSigned, UpPolicy, OpenPcs, HelperRuns
<1>6. Program(OpenPart(j, helper[j].i), jobs[j].package)
  BY DEF HelperProgram
<1>7. /\ FlashAuthentic' /\ RunningPartitionIntact'
      /\ flash'["bin"] \in Package /\ Manifest[flash'["bin"]].version < running =>
            \E k \in 1 .. Len(jobs) : jobs[k].down /\ jobs[k].package = flash'["bin"]
      /\ flash'["bin"] = "factory" => running = FactoryVersion
  BY <1>1, <1>2, <1>5, <1>6, ProgramIsSafe
<1>8. UpSigned'
  BY <1>2, <1>4, <1>5 DEF UpSafe, UpSigned, OpenFor, OpenPcs
<1>9. UpPolicy'
  BY <1>1, <1>2, <1>4, <1>5, <1>7 DEF UpSafe, UpPolicy, PolicyOk, HelperRuns
<1> QED BY <1>7, <1>8, <1>9 DEF UpSafe

\* A boot runs what the flash holds, or nothing.
LEMMA SafeBoot ==
  ASSUME UpFrame, UpSafe, Boot
  PROVE  UpSafe' /\ (running' < running =>
           \E k \in 1 .. Len(jobs) : jobs[k].down /\ jobs[k].package = flash["bin"])
<1>1. /\ UNCHANGED <<jobs, flash>> /\ worker'.pc = "idle" /\ power' = "on"
      /\ up' = (flash["bin"] # "blank" /\ flash["kernel"] # "blank")
      /\ running' = IF up' THEN Version(flash["bin"]) ELSE running
  BY DEF Boot, IdleWorker
<1>2. \A j \in Jobs : helper'[j].pc \in {"none", "exited"} /\ stages'[j] = "none"
  <2>1. helper' = [j \in Jobs |-> [helper[j] EXCEPT !.pc = IF helper[j].pc = "none" THEN "none" ELSE "exited"]]
    BY DEF Boot
  <2>2. \A j \in Jobs : helper[j] \in [pc : HelperPcs, i : Nat, reboot : BOOLEAN]
    BY DEF UpFrame, UpHelpers
  <2>3. \A j \in Jobs : helper'[j].pc = IF helper[j].pc = "none" THEN "none" ELSE "exited"
    BY <2>1, <2>2
  <2>4. \A j \in Jobs : stages'[j] = "none"
    BY DEF Boot
  <2> QED BY <2>3, <2>4
<1>3. flash["bin"] \in Image /\ running \in Nat /\ {"factory", "blank"} \cap Package = {}
  BY PackagesAssumption DEF UpFrame, UpShape, Partition
<1>4. UpSigned'
  BY <1>1, <1>2 DEF UpSigned, OpenPcs
<1>5. FlashAuthentic' /\ RunningPartitionIntact'
  BY <1>1 DEF UpSafe, FlashAuthentic, RunningPartitionIntact
<1>6. up' /\ flash["bin"] \in Package => running' = Manifest[flash["bin"]].version
                                         /\ Manifest[flash["bin"]].version \in Nat
  BY <1>1, PackagesAssumption DEF Version
<1>7. up' /\ flash["bin"] \notin Package => running' = FactoryVersion /\ flash["bin"] = "factory"
                                            /\ running = FactoryVersion
  BY <1>1, <1>3 DEF Version, Image, UpSafe, UpPolicy
<1>8. running' < running =>
        \E k \in 1 .. Len(jobs) : jobs[k].down /\ jobs[k].package = flash["bin"]
  <2> SUFFICES ASSUME running' < running
               PROVE  \E k \in 1 .. Len(jobs) : jobs[k].down /\ jobs[k].package = flash["bin"]
    OBVIOUS
  <2>1. up' /\ flash["bin"] \in Package
    BY <1>1, <1>3, <1>7 DEF FactoryVersion
  <2> QED BY <1>6, <2>1 DEF UpSafe, UpPolicy
<1>9. UpPolicy'
  <2>1. worker'.pc \notin PolicyPcs /\ \A j \in Jobs : ~HelperRuns(j)'
    BY <1>1, <1>2 DEF PolicyPcs, HelperRuns
  <2>2. CASE up'
    <3>1. CASE flash["bin"] \in Package
      BY <1>1, <1>3, <1>6, <2>1, <2>2, <3>1 DEF UpPolicy
    <3>2. CASE flash["bin"] \notin Package
      BY <1>1, <1>7, <2>1, <2>2, <3>2 DEF UpPolicy
    <3> QED BY <3>1, <3>2
  <2>3. CASE ~up'
    BY <1>1, <2>1, <2>3 DEF UpPolicy, UpSafe
  <2> QED BY <2>2, <2>3
<1> QED BY <1>4, <1>5, <1>8, <1>9 DEF UpSafe

LEMMA SafeStep ==
  ASSUME UpFrame, UpSafe, [Next]_vars
  PROVE  UpSafe'
<1>0. UpFrame'
  BY FrameStep
<1>1. CASE WorkerStep
  BY <1>0, <1>1, QuietWorker, QuietIsSafe, SafePolicy, SafeLaunch, SafeExtract, SafeBurn,
      SafeProgram
<1>2. CASE ApiStep
  BY <1>0, <1>2, QuietApi, QuietIsSafe
<1>3. CASE HelperStep
  <2>1. PICK j \in Jobs :
          \/ HelperRefuse(j) \/ HelperParse(j) \/ HelperServe(j)
          \/ HelperPrepare(j) \/ HelperExtract(j) \/ HelperStopApp(j)
          \/ HelperBurn(j) \/ HelperProgram(j) \/ HelperVerify(j)
          \/ HelperFailed(j) \/ HelperFinish(j) \/ HelperConfirm(j)
          \/ HelperReboot(j)
    BY <1>3 DEF HelperStep
  <2> QED BY <1>0, <2>1, QuietHelper, QuietIsSafe, SafeHelperExtract, SafeHelperBurn,
      SafeHelperProgram
<1>4. CASE MainExits
  <2>1. UpQuiet
    BY <1>4, QuietMainGone DEF MainExits, tmpfs
  <2> QED BY <1>0, <2>1, QuietIsSafe
<1>5. CASE PowerLoss
  <2>1. UpQuiet
    BY <1>5 DEF PowerLoss, UpQuiet, HelperRuns, main, tmpfs
  <2> QED BY <1>0, <2>1, QuietIsSafe
<1>6. CASE Boot
  BY <1>6, SafeBoot
<1>7. CASE UNCHANGED vars
  <2>1. UpQuiet
    BY <1>7 DEF vars, main, proc, tmpfs, UpQuiet, HelperRuns
  <2> QED BY <1>0, <2>1, QuietIsSafe
<1> QED BY <1>1, <1>2, <1>3, <1>4, <1>5, <1>6, <1>7 DEF Next


-----------------------------------------------------------------------------
(* One package at a time in the upload directory, so the worker burns what it validated. *)

\* There is one uploaded package at a time, and a package that is gone does not come back.
UpFiles ==
    /\ \A p, q \in files : p = q
    /\ files \subseteq uploads
    /\ \A k \in 1 .. Len(jobs) : jobs[k].package \in uploads

\* So the worker burns web-only packages alone: while its package is there, cached_package_ is
\* its manifest, whatever the HTTP thread validates.
UpWeb ==
    /\ worker.pc \in {"recheck", "writing", "write", "extract"} /\ Request.package \in files =>
          plat.cached = Request.package
    /\ worker.pc = "extract" /\ Request.package \in files => WebOnly(Request.package)
    /\ worker.pc \in {"apply", "burn", "program", "verify", "written", "commit"} =>
          WebOnly(Request.package)

UpSources == UpFiles /\ UpWeb

LEMMA FilesKept ==
  ASSUME UpFiles, files' \subseteq files, UNCHANGED <<uploads, jobs>>
  PROVE  UpFiles'
  BY DEF UpFiles

\* Steps of others than the worker, as long as it keeps its request and its package.
LEMMA WebKept ==
  ASSUME UpFrame, UpWeb,
         \/ worker'.pc = "idle"
         \/ /\ worker' = worker /\ jobs'[worker.job] = jobs[worker.job]
            /\ Request.package \in files' => Request.package \in files
            /\ Request.package \in files /\ plat.cached = Request.package => plat'.cached = Request.package
  PROVE  UpWeb'
  BY DEF UpWeb, Request

LEMMA SourcesWorker ==
  ASSUME UpFrame, UpSources, WorkerStep
  PROVE  UpSources'
<1> USE DEF UpSources
<1>1. /\ UNCHANGED <<uploads, jobs>> /\ files' \subseteq files
  BY DEF WorkerStep, WorkerTake, WorkerValidate, WorkerPolicy, WorkerPreparing, WorkerPrepare,
         WorkerArm, WorkerRecheck, WorkerWriting, WorkerGiveUp, WorkerFailed, WorkerWrite,
         WorkerLaunch, WorkerHandoff, WorkerMark, WorkerExtract, WorkerApply, WorkerBurn,
         WorkerProgram, WorkerVerify, WorkerWritten, WorkerCommit, WorkerFinish, CleanupThen, tmpfs
<1>2. UpFiles'
  BY <1>1, FilesKept
<1>3. ASSUME worker'.job = worker.job PROVE Request' = Request
  BY <1>1, <1>3 DEF Request
<1> DEFINE armed == {"recheck", "writing", "write", "extract"}
           web == {"apply", "burn", "program", "verify", "written", "commit"}
<1>4. ASSUME worker'.pc \notin armed, worker'.pc \notin web PROVE UpWeb'
  BY <1>4 DEF UpWeb
<1>5. ASSUME worker.pc \in web, worker'.pc \in web, worker'.job = worker.job PROVE UpWeb'
  BY <1>3, <1>5 DEF UpWeb
<1>6. ASSUME WorkerTake PROVE UpWeb'
  BY <1>4, <1>6 DEF WorkerTake
<1>7. ASSUME WorkerArm PROVE UpWeb'
  <2>1. plat'.cached = Request.package
    BY <1>7 DEF WorkerArm
  <2> QED BY <1>3, <1>7, <2>1, MoveWorkerArm DEF UpWeb
<1>8. ASSUME WorkerRecheck \/ WorkerWriting PROVE UpWeb'
  <2>1. plat'.cached = plat.cached
    BY <1>8 DEF WorkerRecheck, WorkerWriting, UpFrame, UpShape, PlatRecords
  <2>2. worker.pc \in armed /\ (worker'.pc = "idle" \/ (worker'.pc \in {"writing", "write"} /\ worker'.job = worker.job))
    BY <1>8, MoveWorkerRecheck, MoveWorkerWriting
  <2> QED BY <1>1, <1>3, <2>1, <2>2 DEF UpWeb
<1>9. ASSUME WorkerWrite PROVE UpWeb'
  <2>1. plat' = plat /\ (worker'.pc = "extract" => WebOnly(plat.cached))
    <3>1. worker \in [pc : WorkerPcs, job : 0 .. Len(jobs), i : Nat]
      BY DEF UpFrame, UpWorker
    <3> QED BY <1>9, <3>1 DEF WorkerWrite, Goto
  <2> QED BY <1>1, <1>3, <1>9, <2>1, MoveWorkerWrite DEF UpWeb
<1>10. ASSUME WorkerExtract PROVE UpWeb'
  <2>1. worker'.pc = "apply" => Request.package \in files
    <3>1. worker \in [pc : WorkerPcs, job : 0 .. Len(jobs), i : Nat]
      BY DEF UpFrame, UpWorker
    <3>2. Goto("fail") => worker'.pc = "fail"
      BY <3>1 DEF Goto
    <3>3. Goto("fail") \/ CanExtract(Request.package, plat.cached)
      BY <1>10 DEF WorkerExtract
    <3> QED BY <3>2, <3>3 DEF CanExtract, ParseUpgradePackage
  <2> QED BY <1>3, <1>10, <2>1, MoveWorkerExtract DEF UpWeb
<1>11. ASSUME WorkerApply PROVE UpWeb'
  BY <1>4, <1>5, <1>11, MoveWorkerApply
<1>12. ASSUME WorkerBurn PROVE UpWeb'
  BY <1>4, <1>5, <1>12, MoveWorkerBurn
<1>13. ASSUME WorkerProgram PROVE UpWeb'
  BY <1>4, <1>5, <1>13, MoveWorkerProgram
<1>14. ASSUME WorkerVerify PROVE UpWeb'
  BY <1>4, <1>5, <1>14, MoveWorkerVerify
<1>15. ASSUME WorkerWritten PROVE UpWeb'
  BY <1>4, <1>5, <1>15, MoveWorkerWritten
<1>16. ASSUME WorkerValidate \/ WorkerPolicy \/ WorkerPreparing \/ WorkerPrepare PROVE UpWeb'
  BY <1>4, <1>16, MoveWorkerValidate, MoveWorkerPolicy, MoveWorkerPreparing, MoveWorkerPrepare
<1>17. ASSUME WorkerGiveUp \/ WorkerFailed \/ WorkerLaunch \/ WorkerHandoff PROVE UpWeb'
  BY <1>4, <1>17, MoveWorkerGiveUp, MoveWorkerFailed, MoveWorkerLaunch, MoveWorkerHandoff
<1>18. ASSUME WorkerMark \/ WorkerCommit \/ WorkerFinish PROVE UpWeb'
  BY <1>4, <1>18, MoveWorkerMark, MoveWorkerCommit, MoveWorkerFinish
<1> QED BY <1>2, <1>6, <1>7, <1>8, <1>9, <1>10, <1>11, <1>12, <1>13, <1>14, <1>15, <1>16, <1>17, <1>18
        DEF WorkerStep

LEMMA SourcesValidate ==
  ASSUME UpFrame, UpSources, NEW p \in files, ValidatePackage(p), UNCHANGED <<files, jobs, uploads>>
  PROVE  UpSources'
<1>1. UpFiles'
  BY FilesKept DEF UpSources
<1>2. CASE MainGone
  BY <1>1, <1>2, WebKept DEF UpSources, MainGone, IdleWorker
<1>3. CASE ~MainGone
  <2>1. worker' = worker /\ plat'.cached = p
    BY <1>3 DEF ValidatePackage, UpFrame, UpShape, PlatRecords
  <2>2. Request.package \in files => p = Request.package
    BY DEF UpSources, UpFiles
  <2> QED BY <1>1, <2>1, <2>2, WebKept DEF UpSources
<1> QED BY <1>2, <1>3

LEMMA SourcesApi ==
  ASSUME UpFrame, UpSources, ApiStep
  PROVE  UpSources'
<1> USE DEF UpSources
<1>0. worker.pc # "idle" => worker.job \in 1 .. Len(jobs)
  BY DEF UpFrame, UpWorker
<1>1. ASSUME NEW p \in Package, Upload(p) PROVE UpSources'
  <2>1. /\ UNCHANGED <<jobs, worker, plat>> /\ p \notin uploads
        /\ \/ files' = {p} /\ uploads' = uploads \cup {p}
           \/ files' = {} /\ uploads' = uploads
    BY <1>1 DEF Upload
  <2>2. UpFiles'
    BY <2>1 DEF UpFiles
  <2>3. worker.pc # "idle" => Request.package \in uploads
    BY <1>0 DEF UpFiles, Request
  <2>4. worker.pc # "idle" => Request.package \notin files'
    BY <2>1, <2>3 DEF UpFiles
  <2> QED BY <2>1, <2>2, <2>4, WebKept
<1>2. ASSUME NEW p \in Package, HandleValidate(p) PROVE UpSources'
  BY <1>2, SourcesValidate DEF HandleValidate, ParseUpgradePackage, tmpfs
<1>3. ASSUME NEW r \in Requests, StartUpgrade(r) PROVE UpSources'
  <2>1. /\ UNCHANGED <<worker, plat, files, uploads>> /\ jobs' = Append(jobs, r)
        /\ r.package \in files /\ jobs \in Seq(Requests)
    BY <1>3 DEF StartUpgrade, tmpfs, UpFrame, UpShape
  <2>2. /\ Len(jobs') = Len(jobs) + 1 /\ jobs'[Len(jobs) + 1] = r /\ Len(jobs) \in Nat
        /\ \A k \in 1 .. Len(jobs) : jobs'[k] = jobs[k]
    BY <2>1
  <2>3. \A k \in 1 .. Len(jobs') : jobs'[k].package \in uploads
    <3> SUFFICES ASSUME NEW k \in 1 .. Len(jobs') PROVE jobs'[k].package \in uploads
      OBVIOUS
    <3>1. k \in 1 .. Len(jobs) \/ k = Len(jobs) + 1
      BY <2>2
    <3> QED BY <2>1, <2>2, <3>1 DEF UpFiles
  <2>4. UpFiles'
    BY <2>1, <2>3 DEF UpFiles
  <2>5. CASE worker.pc = "idle"
    BY <2>1, <2>4, <2>5, WebKept
  <2>6. CASE worker.pc # "idle"
    BY <1>0, <2>1, <2>2, <2>4, <2>6, WebKept
  <2> QED BY <2>5, <2>6
<1>4. CASE UploadValidate
  <2>1. PICK p \in files :
          IF ParseUpgradePackage(p)
          THEN ValidatePackage(p) /\ UNCHANGED files
          ELSE /\ files' = files \ {p} /\ api' = "idle"
               /\ UNCHANGED <<svc, plat, queue, worker, up, term>>
    BY <1>4 DEF UploadValidate
  <2>2. UNCHANGED <<jobs, uploads>>
    BY <1>4 DEF UploadValidate
  <2>3. CASE ParseUpgradePackage(p)
    BY <2>1, <2>2, <2>3, SourcesValidate
  <2>4. CASE ~ParseUpgradePackage(p)
    BY <2>1, <2>2, <2>4, FilesKept, WebKept
  <2> QED BY <2>3, <2>4
<1>5. ASSUME StartPost \/ CancelUpgrade \/ CancelPlatform \/ CancelFinish \/ ConfirmReboot \/ GetUpgradeInfo
      PROVE  UpSources'
  <2>1. UNCHANGED <<jobs, uploads, worker>> /\ files' \subseteq files /\ plat'.cached = plat.cached
    BY <1>5 DEF StartPost, CancelUpgrade, CancelPlatform, CancelFinish, ConfirmReboot, GetUpgradeInfo,
           CleanupThen, tmpfs, UpFrame, UpShape, PlatRecords
  <2> QED BY <2>1, FilesKept, WebKept
<1> QED BY <1>1, <1>2, <1>3, <1>4, <1>5 DEF ApiStep

LEMMA SourcesHelper ==
  ASSUME UpFrame, UpSources, HelperStep
  PROVE  UpSources'
<1>1. UNCHANGED <<jobs, uploads, worker, plat>> /\ files' \subseteq files
  BY DEF HelperStep, HelperRefuse, HelperParse, HelperServe, HelperPrepare, HelperExtract,
         HelperStopApp, HelperBurn, HelperProgram, HelperVerify, HelperFailed, HelperFinish,
         HelperConfirm, HelperReboot, CleanupTmpUpgradeFiles, main, tmpfs
<1> QED BY <1>1, FilesKept, WebKept DEF UpSources

LEMMA SourcesStep ==
  ASSUME UpFrame, UpSources, [Next]_vars
  PROVE  UpSources'
<1>1. CASE MainExits \/ Boot
  <2>1. UNCHANGED <<jobs, uploads>> /\ files' \subseteq files /\ worker'.pc = "idle"
    BY <1>1 DEF MainExits, Boot, MainGone, IdleWorker, tmpfs
  <2> QED BY <2>1, FilesKept, WebKept DEF UpSources
<1>2. CASE PowerLoss \/ UNCHANGED vars
  <2>1. UNCHANGED <<jobs, uploads, worker, plat, files>>
    BY <1>2 DEF PowerLoss, vars, main, tmpfs
  <2> QED BY <2>1, FilesKept, WebKept DEF UpSources
<1> QED BY <1>1, <1>2, SourcesWorker, SourcesApi, SourcesHelper DEF Next


-----------------------------------------------------------------------------
(* One job at a time, until one is accepted next to a cancelled one. *)

\* The last job is the only one that is queued, in the worker or with a helper, and it is in
\* one of them, except around the handoff.
UpAlone ==
    /\ \A j \in Jobs : JobAlive(j) => j = Len(jobs)
    /\ api = "post" => svc.state = "validating" /\ ~svc.ext /\ \A j \in Jobs : ~JobAlive(j)
    /\ queue # <<>> => worker.pc = "idle" /\ Len(queue) = 1 /\ \A j \in Jobs : ~HelperRuns(j)
    /\ \A j \in Jobs : HelperRuns(j) => worker.pc \in {"idle", "handoff", "mark"}

\* What the status file may say while helper j runs.
TellsOf(j) ==
    /\ Persisted.state \notin {"failed", "canceled"}
    /\ Persisted.state = "waiting_reboot" => helper[j].pc = "waiting"

\* The file is about the running helper as soon as that or the parent has reported.
UpTells ==
    up => \A j \in Jobs :
             HelperRuns(j) /\ (helper[j].pc # "parse" \/ worker.pc # "handoff") => TellsOf(j)

BusyStates == {"validating", "preparing", "writing", "committing"}

\* Unless it was cancelled, a job that is alive keeps the service busy: before the handoff by
\* the state the worker sets, after it by the status file.
UpBusy ==
    up /\ Len(jobs) \notin canceled =>
       /\ worker.pc # "idle" \/ queue # <<>> => svc.state \in BusyStates /\ ~svc.ext
       /\ \A j \in Jobs : HelperRuns(j) /\ worker.pc = "idle" =>
             /\ svc.ext /\ ~IsTerminalState(svc.state)
             /\ svc.state = "waiting_reboot" => Persisted = Status("waiting_reboot", svc.target)

UpOrder == UpAlone /\ UpTells /\ UpBusy

\* Who is alive, and who holds up whom.
LEMMA AliveFacts ==
  ASSUME UpFrame, UpAlone
  PROVE  /\ worker.pc # "idle" =>
               /\ api # "post" /\ queue = <<>> /\ worker.job = Len(jobs) /\ Len(jobs) \in Jobs
         /\ queue # <<>> =>
               /\ api # "post" /\ DOMAIN queue = {1} /\ queue[1] = Len(jobs) /\ Len(jobs) \in Jobs
         /\ \A j \in Jobs : HelperRuns(j) => api # "post" /\ queue = <<>> /\ j = Len(jobs)
<1>1. /\ worker.pc # "idle" => worker.job \in 1 .. Len(jobs)
      /\ jobs \in Seq(Requests) /\ Len(jobs) <= MaxJobs /\ queue \in Seq(Jobs)
  BY DEF UpFrame, UpShape, UpWorker, UpQueue
<1>2. worker.pc # "idle" => JobAlive(worker.job) /\ worker.job \in Jobs
  BY <1>1, BoundsAssumption DEF JobAlive, Jobs
<1>3. queue # <<>> => DOMAIN queue = {1} /\ queue[1] \in Jobs /\ JobAlive(queue[1])
  <2> HAVE queue # <<>>
  <2>1. Len(queue) = 1
    BY DEF UpAlone
  <2>2. DOMAIN queue = {1} /\ queue[1] \in Jobs
    BY <1>1, <2>1
  <2> QED BY <2>2 DEF JobAlive
<1>4. \A j \in Jobs : HelperRuns(j) => JobAlive(j)
  BY DEF JobAlive
<1> QED BY <1>2, <1>3, <1>4 DEF UpAlone

LEMMA AloneKept ==
  ASSUME UpFrame, UpAlone, jobs' = jobs, api' # "post" \/ (api' = api /\ svc' = svc),
         queue' = queue \/ queue' = <<>>,
         \A j \in Jobs : HelperRuns(j)' => HelperRuns(j),
         worker'.pc = "idle" \/ (worker.pc # "idle" /\ worker'.job = worker.job),
         \A j \in Jobs : HelperRuns(j)' => worker'.pc \in {"idle", "handoff", "mark"}
  PROVE  UpAlone'
<1>1. \A j \in Jobs : JobAlive(j)' => JobAlive(j)
  BY DEF JobAlive
<1>2. queue' # <<>> => worker'.pc = "idle" /\ Len(queue') = 1 /\ \A j \in Jobs : ~HelperRuns(j)'
  BY DEF UpAlone
<1> QED BY <1>1, <1>2 DEF UpAlone

\* Reading the status file does not change what it says.
LEMMA PersistedKept ==
  ASSUME status \in StatusFiles, status' = status \/ status' = StatusAfterLoad
  PROVE  Persisted' = Persisted /\ (status' # status => status.state = "completed")
<1>1. CASE status = None
  BY <1>1 DEF Persisted, StatusAfterLoad
<1>2. CASE status # None /\ status.state = "completed"
  BY <1>2 DEF Persisted, StatusAfterLoad
<1>3. CASE status # None /\ status.state # "completed"
  BY <1>3 DEF Persisted, StatusAfterLoad
<1> QED BY <1>1, <1>2, <1>3

LEMMA TellsKept ==
  ASSUME UpTells, Persisted' = Persisted, helper' = helper,
         up' => up /\ (worker.pc = "handoff" => worker'.pc = "handoff")
  PROVE  UpTells'
  BY DEF UpTells, TellsOf, HelperRuns

LEMMA TellsNothing ==
  ASSUME \A j \in Jobs : ~HelperRuns(j)'
  PROVE  UpTells'
  BY DEF UpTells

LEMMA BusyKept ==
  ASSUME UpBusy, UNCHANGED <<jobs, canceled, queue>>, up' => up,
         svc'.state = svc.state, svc'.target = svc.target, svc'.ext = svc.ext,
         worker'.pc = "idle" <=> worker.pc = "idle",
         \A j \in Jobs : HelperRuns(j)' => HelperRuns(j),
         svc.state = "waiting_reboot" => Persisted' = Persisted
  PROVE  UpBusy'
  BY DEF UpBusy

LEMMA NothingBusy ==
  ASSUME ~up' \/ (worker'.pc = "idle" /\ queue' = <<>> /\ \A j \in Jobs : ~HelperRuns(j)')
  PROVE  UpBusy'
  BY DEF UpBusy

\* Steps that touch neither the executor, the processes nor what the service says.
LEMMA OrderKept ==
  ASSUME UpFrame, UpOrder, UNCHANGED <<jobs, canceled, queue, worker, helper, status>>,
         svc'.state = svc.state, svc'.target = svc.target, svc'.ext = svc.ext,
         up' => up, api' # "post" \/ (api' = api /\ svc' = svc)
  PROVE  UpOrder'
<1>1. \A j \in Jobs : HelperRuns(j)' => HelperRuns(j)
  BY DEF HelperRuns
<1>2. Persisted' = Persisted
  BY DEF Persisted
<1>3. UpAlone'
  BY <1>1, AloneKept DEF UpOrder, UpAlone
<1>4. UpTells'
  BY <1>2, TellsKept DEF UpOrder
<1>5. UpBusy'
  BY <1>1, <1>2, BusyKept DEF UpOrder
<1> QED BY <1>3, <1>4, <1>5 DEF UpOrder

\* The main process dies.
LEMMA OrderGone ==
  ASSUME UpFrame, UpOrder, MainGone, UNCHANGED <<jobs, helper>>
  PROVE  UpOrder'
<1>1. ~up' /\ worker'.pc = "idle" /\ queue' = <<>> /\ api' = "idle"
  BY DEF MainGone, IdleWorker
<1>2. \A j \in Jobs : HelperRuns(j)' => HelperRuns(j)
  BY DEF HelperRuns
<1>3. UpAlone'
  BY <1>1, <1>2, AloneKept DEF UpOrder
<1>4. UpTells'
  BY <1>1 DEF UpTells
<1> QED BY <1>1, <1>3, <1>4, NothingBusy DEF UpOrder

\* A step of the worker on its own: validation, preparation, a web-only burn.
WorkerAlone ==
    /\ UNCHANGED <<jobs, queue, api, helper, up, canceled>>
    /\ worker.pc \notin {"idle", "handoff", "mark"}
    /\ worker'.pc = "idle" \/ worker'.job = worker.job
    /\ worker'.pc # "idle" /\ ~svc.ext /\ svc.state \in BusyStates =>
          ~svc'.ext /\ svc'.state \in BusyStates

LEMMA OrderWorkerAlone ==
  ASSUME UpFrame, UpOrder, WorkerAlone
  PROVE  UpOrder'
<1>1. \A j \in Jobs : ~HelperRuns(j) /\ ~HelperRuns(j)'
  BY DEF UpOrder, UpAlone, WorkerAlone, HelperRuns
<1>2. api # "post" /\ queue = <<>>
  BY AliveFacts DEF WorkerAlone, UpOrder
<1>3. UpAlone'
  BY <1>1, <1>2, AloneKept DEF UpOrder, WorkerAlone
<1>4. UpTells'
  BY <1>1, TellsNothing
<1>5. UpBusy'
  BY <1>1, <1>2 DEF UpOrder, UpBusy, WorkerAlone
<1> QED BY <1>3, <1>4, <1>5 DEF UpOrder


LEMMA AloneQuiet ==
  ASSUME UpFrame, NEW l, WorkerAt(l), l \notin {"idle", "handoff", "mark"},
         UNCHANGED <<jobs, queue, api, helper, up, canceled, svc>>,
         worker'.pc = "idle" \/ worker'.job = worker.job
  PROVE  WorkerAlone
  BY DEF WorkerAlone, WorkerAt

\* An update of the service's own state by the worker.
LEMMA AlonePublish ==
  ASSUME UpFrame, NEW s \in BusyStates, NEW t \in Versions,
         Publish([svc EXCEPT !.state = s, !.target = t])
  PROVE  ~svc.ext => ~svc'.ext /\ svc'.state \in BusyStates
<1>1. PICK r : r = [svc EXCEPT !.state = s, !.target = t]
  OBVIOUS
<1>2. svc \in SvcRecords /\ status \in StatusFiles /\ s \in SvcStates
  BY DEF UpFrame, UpShape, BusyStates, SvcStates
<1>3. r \in SvcRecords /\ r.state = s /\ r.ext = svc.ext
  BY <1>1, <1>2 DEF SvcRecords
<1>4. Publish(r)
  BY <1>1
<1> HIDE <1>1
<1>5. ~r.ext => svc' = r
  BY <1>2, <1>3, <1>4, UpPublish
<1> QED BY <1>3, <1>5

LEMMA WorkerIsAlone ==
  ASSUME UpFrame, WorkerStep, ~WorkerTake, ~WorkerLaunch, ~WorkerHandoff, ~WorkerMark
  PROVE  WorkerAlone
<1> USE DEF proc, cancels
<1>0. svc \in SvcRecords
  BY DEF UpFrame, UpShape
<1>1. CASE WorkerValidate
  <2>1. UNCHANGED <<jobs, queue, api, helper, up, canceled, svc>> /\ WorkerAt("validate")
    BY <1>1 DEF WorkerValidate
  <2> QED BY <1>1, <2>1, MoveWorkerValidate, AloneQuiet
<1>2. CASE WorkerPolicy
  <2>1. UNCHANGED <<jobs, queue, api, helper, up, canceled, svc>> /\ WorkerAt("policy")
    BY <1>2 DEF WorkerPolicy
  <2> QED BY <1>2, <2>1, MoveWorkerPolicy, AloneQuiet
<1>3. CASE WorkerPrepare
  <2>1. UNCHANGED <<jobs, queue, api, helper, up, canceled, svc>> /\ WorkerAt("prepare")
    BY <1>3 DEF WorkerPrepare
  <2> QED BY <1>3, <2>1, MoveWorkerPrepare, AloneQuiet
<1>4. CASE WorkerArm
  <2>1. UNCHANGED <<jobs, queue, api, helper, up, canceled, svc>> /\ WorkerAt("arm")
    BY <1>4 DEF WorkerArm
  <2> QED BY <1>4, <2>1, MoveWorkerArm, AloneQuiet
<1>5. CASE WorkerRecheck
  <2>1. UNCHANGED <<jobs, queue, api, helper, up, canceled, svc>> /\ WorkerAt("recheck")
    BY <1>5 DEF WorkerRecheck
  <2> QED BY <1>5, <2>1, MoveWorkerRecheck, AloneQuiet
<1>6. CASE WorkerGiveUp
  <2>1. UNCHANGED <<jobs, queue, api, helper, up, canceled, svc>> /\ (WorkerAt("reject") \/ WorkerAt("fail"))
    BY <1>6 DEF WorkerGiveUp
  <2> QED BY <1>6, <2>1, MoveWorkerGiveUp, AloneQuiet
<1>7. CASE WorkerWrite
  <2>1. UNCHANGED <<jobs, queue, api, helper, up, canceled, svc>> /\ WorkerAt("write")
    BY <1>7 DEF WorkerWrite
  <2> QED BY <1>7, <2>1, MoveWorkerWrite, AloneQuiet
<1>8. CASE WorkerExtract
  <2>1. UNCHANGED <<jobs, queue, api, helper, up, canceled, svc>> /\ WorkerAt("extract")
    BY <1>8 DEF WorkerExtract
  <2> QED BY <1>8, <2>1, MoveWorkerExtract, AloneQuiet
<1>9. CASE WorkerApply
  <2>1. UNCHANGED <<jobs, queue, api, helper, up, canceled, svc>> /\ WorkerAt("apply")
    BY <1>9 DEF WorkerApply
  <2> QED BY <1>9, <2>1, MoveWorkerApply, AloneQuiet
<1>10. CASE WorkerBurn
  <2>1. UNCHANGED <<jobs, queue, api, helper, up, canceled, svc>> /\ WorkerAt("burn")
    BY <1>10 DEF WorkerBurn
  <2> QED BY <1>10, <2>1, MoveWorkerBurn, AloneQuiet
<1>11. CASE WorkerProgram
  <2>1. UNCHANGED <<jobs, queue, api, helper, up, canceled, svc>> /\ WorkerAt("program")
    BY <1>11 DEF WorkerProgram
  <2> QED BY <1>11, <2>1, MoveWorkerProgram, AloneQuiet
<1>12. CASE WorkerVerify
  <2>1. UNCHANGED <<jobs, queue, api, helper, up, canceled, svc>> /\ WorkerAt("verify")
    BY <1>12 DEF WorkerVerify
  <2> QED BY <1>12, <2>1, MoveWorkerVerify, AloneQuiet
<1>13. CASE WorkerCommit
  <2>1. UNCHANGED <<jobs, queue, api, helper, up, canceled, svc>> /\ WorkerAt("commit")
    BY <1>13 DEF WorkerCommit
  <2> QED BY <1>13, <2>1, MoveWorkerCommit, AloneQuiet
<1>14. CASE WorkerFailed
  <2>1. UNCHANGED <<jobs, queue, api, helper, up, canceled>>
    BY <1>14 DEF WorkerFailed
  <2> QED BY <1>14, <2>1, MoveWorkerFailed DEF WorkerAlone
<1>15. CASE WorkerFinish
  <2>1. UNCHANGED <<jobs, queue, api, helper, up, canceled>>
    BY <1>15 DEF WorkerFinish
  <2> QED BY <1>15, <2>1, MoveWorkerFinish DEF WorkerAlone
<1>16. CASE WorkerPreparing
  <2>1. UNCHANGED <<jobs, queue, api, helper, up, canceled>>
    BY <1>16 DEF WorkerPreparing
  <2>2. PICK v : v = Manifest[Request.package].version
    OBVIOUS
  <2>3. v \in Versions
    BY <1>16, <2>2, MoveWorkerPreparing, UpRequest DEF UpFrame, Request, Versions
  <2>4. Publish([svc EXCEPT !.state = "preparing", !.target = v])
    <3>1. [svc EXCEPT !.target = v, !.state = "preparing"] = [svc EXCEPT !.state = "preparing", !.target = v]
      BY <1>0 DEF SvcRecords
    <3> QED BY <1>16, <2>2, <3>1 DEF WorkerPreparing
  <2>5. ~svc.ext => ~svc'.ext /\ svc'.state \in BusyStates
    BY <2>3, <2>4, AlonePublish DEF BusyStates
  <2> QED BY <1>16, <2>1, <2>5, MoveWorkerPreparing DEF WorkerAlone
<1>17. CASE WorkerWriting
  <2>1. UNCHANGED <<jobs, queue, api, helper, up, canceled>>
    BY <1>17 DEF WorkerWriting
  <2>2. UpdateStatus("writing") /\ ~svc.ext => ~svc'.ext /\ svc'.state \in BusyStates
    <3>1. [svc EXCEPT !.state = "writing"] = [svc EXCEPT !.state = "writing", !.target = svc.target]
      BY <1>0 DEF SvcRecords
    <3>2. svc.target \in Versions
      BY <1>0 DEF SvcRecords
    <3> QED BY <3>1, <3>2, AlonePublish DEF UpdateStatus, BusyStates
  <2>3. UpdateStatus("writing") \/ svc' = svc
    BY <1>17 DEF WorkerWriting
  <2> QED BY <1>17, <2>1, <2>2, <2>3, MoveWorkerWriting DEF WorkerAlone
<1>18. CASE WorkerWritten
  <2>1. UNCHANGED <<jobs, queue, api, helper, up, canceled>>
    BY <1>18 DEF WorkerWritten
  <2>2. UpdateStatus("committing") /\ ~svc.ext => ~svc'.ext /\ svc'.state \in BusyStates
    <3>1. [svc EXCEPT !.state = "committing"] = [svc EXCEPT !.state = "committing", !.target = svc.target]
      BY <1>0 DEF SvcRecords
    <3>2. svc.target \in Versions
      BY <1>0 DEF SvcRecords
    <3> QED BY <3>1, <3>2, AlonePublish DEF UpdateStatus, BusyStates
  <2>3. UpdateStatus("committing") \/ svc' = svc
    BY <1>18 DEF WorkerWritten
  <2> QED BY <1>18, <2>1, <2>2, <2>3, MoveWorkerWritten DEF WorkerAlone
<1> QED BY <1>1, <1>2, <1>3, <1>4, <1>5, <1>6, <1>7, <1>8, <1>9, <1>10, <1>11, <1>12, <1>13, <1>14, <1>15, <1>16, <1>17, <1>18
        DEF WorkerStep

LEMMA OrderTake ==
  ASSUME UpFrame, UpOrder, WorkerTake
  PROVE  UpOrder'
<1>1. /\ worker.pc = "idle" /\ queue # <<>> /\ up
      /\ worker' = [pc |-> "validate", job |-> Head(queue), i |-> 0] /\ queue' = Tail(queue)
      /\ UNCHANGED <<svc, api, jobs, helper, up, status, canceled>>
  BY DEF WorkerTake, WorkerAt, proc, cancels
<1>2. api # "post" /\ DOMAIN queue = {1} /\ queue[1] = Len(jobs) /\ Len(jobs) \in Jobs
  BY <1>1, AliveFacts DEF UpOrder
<1>3. queue' = <<>> /\ worker'.pc = "validate" /\ worker'.job = Len(jobs)
  <2>1. queue \in Seq(Jobs) /\ Len(queue) = 1
    BY <1>1 DEF UpFrame, UpQueue, UpOrder, UpAlone
  <2> QED BY <1>1, <1>2, <2>1
<1>4. \A j \in Jobs : ~HelperRuns(j) /\ ~HelperRuns(j)'
  BY <1>1 DEF UpOrder, UpAlone, HelperRuns
<1>5. UpAlone'
  <2>1. \A j \in Jobs : JobAlive(j)' => j = Len(jobs)'
    BY <1>1, <1>3, <1>4 DEF JobAlive
  <2> QED BY <1>1, <1>2, <1>3, <1>4, <2>1 DEF UpAlone
<1>6. UpBusy'
  BY <1>1, <1>3, <1>4 DEF UpOrder, UpBusy
<1> QED BY <1>4, <1>5, <1>6, TellsNothing DEF UpOrder

LEMMA OrderLaunch ==
  ASSUME UpFrame, UpOrder, WorkerLaunch
  PROVE  UpOrder'
<1>1. /\ UNCHANGED <<svc, queue, api, jobs, up, canceled>> /\ worker.pc = "launch"
      /\ worker'.pc \in {"handoff", "fail"} /\ worker'.job = worker.job
  BY MoveWorkerLaunch DEF WorkerLaunch, proc, cancels
<1>2. CASE helper' = helper
  <2>1. WorkerAlone
    BY <1>1, <1>2 DEF WorkerAlone
  <2> QED BY <2>1, OrderWorkerAlone
<1>3. CASE helper' # helper
  <2>1. PICK start : /\ start = [pc |-> "parse", i |-> 0, reboot |-> RequiresReboot(plat.cached) /\ plat.auto]
                     /\ helper' = [helper EXCEPT ![worker.job] = start] /\ Goto("handoff")
    BY <1>3 DEF WorkerLaunch
  <2>2. start.pc = "parse" /\ worker'.pc = "handoff"
    <3>1. worker \in [pc : WorkerPcs, job : 0 .. Len(jobs), i : Nat]
      BY DEF UpFrame, UpWorker
    <3> QED BY <2>1, <3>1 DEF Goto
  <2>3. api # "post" /\ queue = <<>> /\ worker.job = Len(jobs) /\ Len(jobs) \in Jobs
    BY <1>1, AliveFacts DEF UpOrder
  <2>4. \A j \in Jobs : ~HelperRuns(j)
    BY <1>1 DEF UpOrder, UpAlone
  <2>5. \A j \in Jobs : (HelperRuns(j)' => j = Len(jobs)) /\ (j = Len(jobs) => helper'[j].pc = "parse")
    BY <2>1, <2>2, <2>3, <2>4 DEF HelperRuns, UpFrame, UpHelpers
  <2>6. UpAlone'
    <3>1. \A j \in Jobs : JobAlive(j)' => j = Len(jobs)'
      BY <1>1, <2>3, <2>5 DEF JobAlive
    <3> QED BY <1>1, <2>2, <2>3, <3>1 DEF UpAlone
  <2>7. UpTells'
    BY <2>2, <2>5 DEF UpTells
  <2>8. UpBusy'
    BY <1>1, <2>2, <2>3 DEF UpOrder, UpBusy
  <2> QED BY <2>6, <2>7, <2>8 DEF UpOrder
<1> QED BY <1>2, <1>3

\* A report about a running helper.
LEMMA TellsReport ==
  ASSUME NEW j, NEW s, NEW v, s \in {"preparing", "writing", "completed"},
         status' = Status(s, v) \/ status' = Torn
  PROVE  TellsOf(j)'
<1>1. CASE status' = Torn
  <2>1. status' # None => status'.state = "torn"
    BY <1>1 DEF Torn
  <2>2. Persisted' = Status("idle", None)
    BY <2>1 DEF Persisted
  <2> QED BY <2>2 DEF TellsOf, Status
<1>2. CASE status' = Status(s, v)
  <2>1. status'.state = s
    BY <1>2 DEF Status
  <2>2. Persisted'.state \in {"idle", "preparing", "writing"}
    BY <2>1 DEF Persisted, Status
  <2> QED BY <2>2 DEF TellsOf
<1> QED BY <1>1, <1>2

LEMMA OrderHandoff ==
  ASSUME UpFrame, UpOrder, WorkerHandoff
  PROVE  UpOrder'
<1>1. /\ UNCHANGED <<svc, queue, api, jobs, helper, up, canceled>> /\ worker.pc = "handoff"
      /\ worker'.pc = "mark" /\ worker'.job = worker.job /\ up
  BY MoveWorkerHandoff DEF WorkerHandoff, proc, cancels
<1>2. \A j \in Jobs : HelperRuns(j)' <=> HelperRuns(j)
  BY <1>1 DEF HelperRuns
<1>3. api # "post" /\ queue = <<>> /\ worker.job = Len(jobs) /\ Len(jobs) \in Jobs
  BY <1>1, AliveFacts DEF UpOrder
<1>4. UpAlone'
  BY <1>1, <1>2, <1>3, AloneKept DEF UpOrder
<1>5. UpTells'
  <2> SUFFICES ASSUME NEW j \in Jobs, HelperRuns(j) PROVE TellsOf(j)'
    BY <1>2 DEF UpTells
  <2>1. j = Len(jobs)
    BY AliveFacts DEF UpOrder
  <2>2. PICK v : v = Manifest[plat.cached].version
    OBVIOUS
  <2>3. \A k \in Jobs : HelperRuns(k) \/ (k = worker.job /\ helper[k].pc # "none") => k = j
    BY <1>3, <2>1, AliveFacts DEF UpOrder
  <2>4. status' \in {Status("writing", v), Torn} \/ (status' = status /\ helper[j].pc # "parse")
    BY <2>2, <2>3 DEF WorkerHandoff, MainStatus, WriteUpgradeStatusFile
  <2>5. CASE status' \in {Status("writing", v), Torn}
    BY <2>5, TellsReport
  <2>6. CASE status' = status /\ helper[j].pc # "parse"
    BY <1>1, <2>6 DEF UpOrder, UpTells, TellsOf, Persisted
  <2> QED BY <2>4, <2>5, <2>6
<1>6. UpBusy'
  BY <1>1 DEF UpOrder, UpBusy
<1> QED BY <1>4, <1>5, <1>6 DEF UpOrder

\* Reading the status file of a running helper: the upgrade is still under way.
LEMMA RefreshedBusy ==
  ASSUME UpFrame, NEW s \in SvcRecords, Publish(s), s.ext, NEW j \in Jobs, TellsOf(j),
         \/ s.state = "writing"
         \/ ~IsTerminalState(s.state) /\ (s.state = "waiting_reboot" => Persisted = Status("waiting_reboot", s.target))
         \/ Persisted = Status("waiting_reboot", s.target)
  PROVE  /\ svc'.ext /\ ~IsTerminalState(svc'.state)
         /\ svc'.state = "waiting_reboot" => Persisted' = Status("waiting_reboot", svc'.target)
<1>0. status \in StatusFiles
  BY DEF UpFrame, UpShape
<1>1. PICK st : st = Persisted
  OBVIOUS
<1>2. /\ st \in [state : SvcStates, version : Versions]
      /\ st.state \notin {"failed", "canceled"}
  BY <1>0, <1>1, UpPersisted DEF TellsOf
<1>3. st.state # "completed"
  BY <1>1 DEF Persisted, Status
<1>4. Persisted' = st
  BY <1>0, <1>1, PersistedKept DEF Publish
<1>5. svc' = Refreshed(s)
  BY DEF Publish
<1>6. ASSUME st.state # "idle", s.target = None \/ st.version = None \/ s.target = st.version
      PROVE  svc'.state = st.state /\ svc'.target = st.version /\ svc'.ext
  <2>1. ~IsTerminalState(st.state)
    BY <1>2, <1>3, <1>6 DEF IsTerminalState
  <2> QED BY <1>1, <1>5, <1>6, <2>1 DEF Refreshed, SvcRecords
<1>7. ASSUME ~(st.state # "idle" /\ (s.target = None \/ st.version = None \/ s.target = st.version))
      PROVE  svc' = s
  BY <1>1, <1>5, <1>7 DEF Refreshed
<1>8. CASE st.state # "idle" /\ (s.target = None \/ st.version = None \/ s.target = st.version)
  <2>1. svc'.state = st.state /\ svc'.target = st.version /\ svc'.ext
    BY <1>6, <1>8
  <2>2. st.state = "waiting_reboot" => st = Status("waiting_reboot", st.version)
    BY <1>2 DEF Status
  <2> QED BY <1>2, <1>3, <1>4, <1>8, <2>1, <2>2 DEF IsTerminalState
<1>9. CASE ~(st.state # "idle" /\ (s.target = None \/ st.version = None \/ s.target = st.version))
  <2>1. svc' = s
    BY <1>7, <1>9
  <2>2. Persisted # Status("waiting_reboot", s.target)
    BY <1>1, <1>9 DEF Status
  <2> QED BY <2>1, <2>2 DEF IsTerminalState
<1> QED BY <1>8, <1>9


LEMMA OrderMark ==
  ASSUME UpFrame, UpOrder, WorkerMark
  PROVE  UpOrder'
<1>1. /\ UNCHANGED <<queue, api, jobs, helper, up, canceled>> /\ worker.pc = "mark"
      /\ worker'.pc = "idle" /\ up
  BY MoveWorkerMark DEF WorkerMark, proc, cancels
<1>2. \A j \in Jobs : HelperRuns(j)' <=> HelperRuns(j)
  BY <1>1 DEF HelperRuns
<1>3. PICK s : s = [svc EXCEPT !.ext = TRUE, !.state = "writing"]
  OBVIOUS
<1>4. Publish(s)
  BY <1>3 DEF WorkerMark
<1>5. s \in SvcRecords /\ s.ext /\ s.state = "writing"
  BY <1>3 DEF UpFrame, UpShape, SvcRecords, SvcStates
<1> HIDE <1>3
<1>6. api # "post" /\ queue = <<>>
  BY <1>1, AliveFacts DEF UpOrder
<1>7. UpAlone'
  BY <1>1, <1>2, <1>6, AloneKept DEF UpOrder
<1>8. UpTells'
  <2>1. Persisted' = Persisted
    BY <1>4, PersistedKept DEF Publish, UpFrame, UpShape
  <2> QED BY <1>1, <2>1, TellsKept DEF UpOrder
<1>9. UpBusy'
  <2>1. ASSUME NEW j \in Jobs, HelperRuns(j)
        PROVE  /\ svc'.ext /\ ~IsTerminalState(svc'.state)
               /\ svc'.state = "waiting_reboot" => Persisted' = Status("waiting_reboot", svc'.target)
    <3>1. TellsOf(j)
      BY <1>1, <2>1 DEF UpOrder, UpTells
    <3> QED BY <1>4, <1>5, <3>1, RefreshedBusy
  <2> QED BY <1>1, <1>2, <1>6, <2>1 DEF UpBusy
<1> QED BY <1>7, <1>8, <1>9 DEF UpOrder

LEMMA OrderWorker ==
  ASSUME UpFrame, UpOrder, WorkerStep
  PROVE  UpOrder'
  BY WorkerIsAlone, OrderWorkerAlone, OrderTake, OrderLaunch, OrderHandoff, OrderMark

\* A progress event while the helper runs.
LEMMA BusyPublish ==
  ASSUME UpFrame, UpOrder, NEW s \in SvcRecords, Publish(s),
         UNCHANGED <<jobs, canceled, queue, worker, helper, up>>,
         s.ext = svc.ext, s.target = svc.target,
         s.state = svc.state \/ svc.state = "waiting_reboot",
         svc.ext \/ svc.state = "waiting_reboot"
  PROVE  UpBusy'
<1>1. \A j \in Jobs : HelperRuns(j)' <=> HelperRuns(j)
  BY DEF HelperRuns
<1> SUFFICES ASSUME up, Len(jobs) \notin canceled
             PROVE  /\ worker.pc = "idle" /\ queue = <<>>
                    /\ \A j \in Jobs : HelperRuns(j) =>
                          /\ svc'.ext /\ ~IsTerminalState(svc'.state)
                          /\ svc'.state = "waiting_reboot" =>
                                Persisted' = Status("waiting_reboot", svc'.target)
  BY <1>1 DEF UpBusy
<1>2. worker.pc = "idle" /\ queue = <<>>
  BY DEF UpOrder, UpBusy, BusyStates
<1>3. ASSUME NEW j \in Jobs, HelperRuns(j)
      PROVE  /\ svc'.ext /\ ~IsTerminalState(svc'.state)
             /\ svc'.state = "waiting_reboot" => Persisted' = Status("waiting_reboot", svc'.target)
  <2>1. /\ svc.ext /\ ~IsTerminalState(svc.state)
        /\ svc.state = "waiting_reboot" => Persisted = Status("waiting_reboot", svc.target)
    BY <1>2, <1>3 DEF UpOrder, UpBusy
  <2>2. TellsOf(j)
    BY <1>2, <1>3 DEF UpOrder, UpTells
  <2> QED BY <2>1, <2>2, RefreshedBusy
<1> QED BY <1>2, <1>3

LEMMA OrderStart ==
  ASSUME UpFrame, UpFrame', UpOrder, NEW r \in Requests, StartUpgrade(r), early' = {}
  PROVE  UpOrder'
<1>1. /\ up /\ api = "idle" /\ api' = "post" /\ IsTerminalState(svc.state) /\ jobs' = Append(jobs, r)
      /\ early' = early \cup {j \in {Len(jobs) + 1} : \E k \in canceled : JobAlive(k)}
      /\ UNCHANGED <<queue, worker, helper, up, canceled>>
  BY DEF StartUpgrade, ApiAt, proc
<1>2. \A k \in canceled : ~JobAlive(k)
  BY <1>1
<1>3. \A k \in Jobs : ~JobAlive(k)
  <2> SUFFICES ASSUME NEW k \in Jobs, JobAlive(k) PROVE FALSE
    OBVIOUS
  <2>1. k = Len(jobs) /\ k \notin canceled
    BY <1>2 DEF UpOrder, UpAlone
  <2>2. worker.pc = "idle" /\ queue = <<>>
    BY <1>1, <2>1 DEF UpOrder, UpBusy, IsTerminalState, BusyStates
  <2>3. HelperRuns(k)
    BY <2>2 DEF JobAlive
  <2> QED BY <1>1, <2>1, <2>2, <2>3 DEF UpOrder, UpBusy
<1>4. worker.pc = "idle" /\ queue = <<>> /\ \A j \in Jobs : ~HelperRuns(j)
  <2>1. worker.pc = "idle"
    BY <1>3, AliveFacts DEF UpOrder, JobAlive
  <2>2. queue = <<>>
    BY <1>3, AliveFacts DEF UpOrder, JobAlive
  <2> QED BY <1>3, <2>1, <2>2 DEF JobAlive
<1>5. \A j \in Jobs : ~JobAlive(j)' /\ ~HelperRuns(j)'
  BY <1>1, <1>4 DEF JobAlive, HelperRuns
<1>6. svc'.state = "validating" /\ ~svc'.ext
  <2>1. PICK s : s = [state |-> "validating", target |-> None, path |-> r.package,
                      cancel |-> FALSE, ext |-> FALSE]
    OBVIOUS
  <2>2. Publish(s)
    BY <2>1 DEF StartUpgrade
  <2>3. s \in SvcRecords /\ ~s.ext /\ s.state = "validating"
    BY <2>1, PackagesAssumption DEF SvcRecords, SvcStates, Versions
  <2> HIDE <2>1
  <2> QED BY <2>2, <2>3, UpPublish DEF UpFrame, UpShape
<1>7. UpAlone'
  BY <1>1, <1>4, <1>5, <1>6 DEF UpAlone
<1>8. UpBusy'
  BY <1>1, <1>4, <1>5, NothingBusy
<1> QED BY <1>5, <1>7, <1>8, TellsNothing DEF UpOrder

LEMMA OrderPost ==
  ASSUME UpFrame, UpOrder, StartPost
  PROVE  UpOrder'
<1>1. /\ api = "post" /\ api' = "idle" /\ UNCHANGED <<jobs, worker, helper, up, canceled>>
      /\ \/ queue' = Append(queue, Len(jobs)) /\ svc' = svc
         \/ queue' = queue
  BY DEF StartPost, ApiAt, proc, cancels
<1>2. worker.pc = "idle" /\ queue = <<>> /\ \A j \in Jobs : ~JobAlive(j) /\ ~HelperRuns(j)
  <2>1. \A j \in Jobs : ~JobAlive(j)
    BY <1>1 DEF UpOrder, UpAlone
  <2> QED BY <1>1, <2>1, AliveFacts DEF UpOrder, JobAlive
<1>3. \A j \in Jobs : ~HelperRuns(j)'
  BY <1>1, <1>2 DEF HelperRuns
<1>4. CASE queue' = queue
  <2>1. UpAlone'
    BY <1>1, <1>2, <1>3, <1>4, AloneKept DEF UpOrder
  <2> QED BY <1>1, <1>2, <1>3, <1>4, <2>1, TellsNothing, NothingBusy DEF UpOrder
<1>5. CASE queue' = Append(queue, Len(jobs)) /\ svc' = svc
  <2>1. queue' = <<Len(jobs)>> /\ DOMAIN queue' = {1} /\ Len(queue') = 1 /\ queue'[1] = Len(jobs)
    BY <1>2, <1>5
  <2>2. \A j \in Jobs : JobAlive(j)' => j = Len(jobs)
    BY <1>1, <1>2, <1>3, <2>1 DEF JobAlive
  <2>3. UpAlone'
    BY <1>1, <1>2, <1>3, <2>1, <2>2 DEF UpAlone
  <2>4. svc'.state \in BusyStates /\ ~svc'.ext
    BY <1>1, <1>5 DEF UpOrder, UpAlone, BusyStates
  <2>5. UpBusy'
    BY <1>3, <2>4 DEF UpBusy
  <2> QED BY <1>3, <2>3, <2>5, TellsNothing DEF UpOrder
<1> QED BY <1>1, <1>4, <1>5

LEMMA OrderCancelFinish ==
  ASSUME UpFrame, UpOrder, CancelFinish
  PROVE  UpOrder'
<1>1. /\ api' = "idle" /\ UNCHANGED <<jobs, queue, worker, helper, up>>
      /\ canceled' = canceled \cup {Len(jobs)} /\ CleanupThen("canceled")
  BY DEF CancelFinish, proc
<1>2. \A j \in Jobs : HelperRuns(j)' <=> HelperRuns(j)
  BY <1>1 DEF HelperRuns
<1>3. UpAlone'
  <2>1. \A j \in Jobs : HelperRuns(j)' => worker'.pc \in {"idle", "handoff", "mark"}
    BY <1>1, <1>2 DEF UpOrder, UpAlone
  <2> QED BY <1>1, <1>2, <2>1, AloneKept DEF UpOrder
<1>4. UpTells'
  <2>1. Persisted' = Persisted
    BY <1>1, PersistedKept DEF CleanupThen, Publish, UpFrame, UpShape
  <2> QED BY <1>1, <2>1, TellsKept DEF UpOrder
<1>5. UpBusy'
  BY <1>1 DEF UpBusy
<1> QED BY <1>3, <1>4, <1>5 DEF UpOrder

\* ConfirmReboot whose reboot(2) fails, and GetUpgradeInfo.
LEMMA OrderPublish ==
  ASSUME UpFrame, UpOrder, NEW s \in SvcRecords, Publish(s), api' = "idle",
         UNCHANGED <<jobs, canceled, queue, worker, helper, up>>,
         s.ext = svc.ext, s.target = svc.target,
         s.state = svc.state \/ svc.state = "waiting_reboot",
         svc.ext \/ svc.state = "waiting_reboot"
  PROVE  UpOrder'
<1>1. \A j \in Jobs : HelperRuns(j)' <=> HelperRuns(j)
  BY DEF HelperRuns
<1>2. UpAlone'
  <2>1. \A j \in Jobs : HelperRuns(j)' => worker'.pc \in {"idle", "handoff", "mark"}
    BY <1>1 DEF UpOrder, UpAlone
  <2> QED BY <1>1, <2>1, AloneKept DEF UpOrder
<1>3. UpTells'
  <2>1. Persisted' = Persisted
    BY PersistedKept DEF Publish, UpFrame, UpShape
  <2> QED BY <2>1, TellsKept DEF UpOrder
<1> QED BY <1>2, <1>3, BusyPublish DEF UpOrder

LEMMA OrderValidate ==
  ASSUME UpFrame, UpOrder, NEW p, ValidatePackage(p), UNCHANGED <<jobs, helper, status, canceled>>
  PROVE  UpOrder'
  BY OrderKept, OrderGone DEF ValidatePackage

LEMMA OrderApi ==
  ASSUME UpFrame, UpFrame', UpOrder, ApiStep, early' = {}
  PROVE  UpOrder'
<1> USE DEF proc, cancels
<1>0. svc \in SvcRecords
  BY DEF UpFrame, UpShape
<1>1. ASSUME NEW p \in Package, Upload(p) PROVE UpOrder'
  <2>1. UNCHANGED <<jobs, canceled, svc, queue, worker, helper, status, up>> /\ api' \in {"idle", "uploaded"}
    BY <1>1 DEF Upload, ApiAt
  <2> QED BY <2>1, OrderKept
<1>2. ASSUME NEW p \in Package, HandleValidate(p) PROVE UpOrder'
  BY <1>2, OrderValidate DEF HandleValidate
<1>3. CASE UploadValidate
  <2>1. UNCHANGED <<jobs, helper, status, canceled>>
    BY <1>3 DEF UploadValidate
  <2>2. PICK p \in files :
          \/ ValidatePackage(p)
          \/ api' = "idle" /\ UNCHANGED <<svc, plat, queue, worker, up, term>>
    BY <1>3 DEF UploadValidate
  <2> QED BY <2>1, <2>2, OrderValidate, OrderKept
<1>4. CASE CancelUpgrade
  <2>1. UNCHANGED <<jobs, canceled, queue, worker, helper, status, up>> /\ api' = "cancel_platform"
    BY <1>4 DEF CancelUpgrade
  <2>2. svc'.state = svc.state /\ svc'.target = svc.target /\ svc'.ext = svc.ext
    BY <1>0, <1>4 DEF CancelUpgrade, SvcRecords
  <2> QED BY <2>1, <2>2, OrderKept
<1>5. CASE CancelPlatform
  <2>1. UNCHANGED <<jobs, canceled, svc, queue, worker, helper, status, up>> /\ api' = "cancel_finish"
    BY <1>5 DEF CancelPlatform
  <2> QED BY <2>1, OrderKept
<1>6. CASE ConfirmReboot
  <2>1. UNCHANGED <<jobs, canceled, queue, worker, helper, up>> /\ api' = "idle" /\ svc.state = "waiting_reboot"
    BY <1>6 DEF ConfirmReboot, ApiAt
  <2>2. CASE UNCHANGED <<svc, status>>
    BY <2>1, <2>2, OrderKept
  <2>3. CASE UpdateStatus("failed")
    <3>1. PICK s : s = [svc EXCEPT !.state = "failed"]
      OBVIOUS
    <3>2. s \in SvcRecords /\ s.ext = svc.ext /\ s.target = svc.target
      BY <1>0, <3>1 DEF SvcRecords, SvcStates
    <3>3. Publish(s)
      BY <2>3, <3>1 DEF UpdateStatus
    <3> HIDE <3>1
    <3> QED BY <2>1, <3>2, <3>3, OrderPublish
  <2> QED BY <1>6, <2>2, <2>3 DEF ConfirmReboot
<1>7. CASE GetUpgradeInfo
  <2>1. UNCHANGED <<jobs, canceled, queue, worker, helper, up>> /\ api' = "idle" /\ svc.ext /\ Publish(svc)
    BY <1>7 DEF GetUpgradeInfo, ApiAt
  <2> QED BY <1>0, <2>1, OrderPublish
<1> QED BY <1>1, <1>2, <1>3, <1>4, <1>5, <1>6, <1>7, OrderStart, OrderPost, OrderCancelFinish
        DEF ApiStep


\* The only helper that runs has the status file to itself, but for the parent's handoff.
LEMMA HelperReports ==
  ASSUME UpFrame, UpAlone, NEW j \in Jobs, HelperRuns(j), NEW st, HelperWrites(j, st)
  PROVE  status' = st \/ status' = Torn
<1>1. \A k \in Jobs \ {j} : ~HelperRuns(k)
  BY AliveFacts
<1> QED BY <1>1 DEF HelperWrites, WriteUpgradeStatusFile

\* A step of helper j.
HelperMoves(j) ==
    /\ UNCHANGED <<jobs, svc, queue, worker, api, up, canceled>>
    /\ HelperRuns(j) /\ (up => helper[j].pc # "waiting")
    /\ \A k \in Jobs \ {j} : helper'[k] = helper[k]

LEMMA OrderHelperMoves ==
  ASSUME UpFrame, UpOrder, NEW j \in Jobs, HelperMoves(j),
         up /\ HelperRuns(j)' => TellsOf(j)'
  PROVE  UpOrder'
<1>1. api # "post" /\ queue = <<>> /\ j = Len(jobs) /\ \A k \in Jobs : HelperRuns(k) => k = j
  BY AliveFacts DEF UpOrder, HelperMoves
<1>2. \A k \in Jobs : HelperRuns(k)' => k = j
  <2> SUFFICES ASSUME NEW k \in Jobs \ {j} PROVE ~HelperRuns(k)'
    OBVIOUS
  <2>1. helper'[k] = helper[k] /\ ~HelperRuns(k)
    BY <1>1 DEF HelperMoves
  <2> QED BY <2>1 DEF HelperRuns
<1>3. \A k \in Jobs : HelperRuns(k)' => HelperRuns(k)
  BY <1>2 DEF HelperMoves
<1>4. UpAlone'
  <2>1. worker.pc \in {"idle", "handoff", "mark"}
    BY DEF UpOrder, UpAlone, HelperMoves
  <2> QED BY <1>1, <1>3, <2>1, AloneKept DEF UpOrder, HelperMoves
<1>5. UpTells'
  BY <1>2 DEF UpTells, HelperMoves
<1>6. UpBusy'
  <2> SUFFICES ASSUME up, Len(jobs) \notin canceled
               PROVE  /\ worker.pc # "idle" => svc.state \in BusyStates /\ ~svc.ext
                      /\ worker.pc = "idle" => svc.ext /\ ~IsTerminalState(svc.state) /\ svc.state # "waiting_reboot"
    BY <1>1, <1>2 DEF UpBusy, HelperMoves
  <2>1. worker.pc # "idle" => svc.state \in BusyStates /\ ~svc.ext
    BY DEF UpOrder, UpBusy
  <2>2. ASSUME worker.pc = "idle"
        PROVE  svc.ext /\ ~IsTerminalState(svc.state) /\ svc.state # "waiting_reboot"
    <3>1. /\ svc.ext /\ ~IsTerminalState(svc.state)
          /\ svc.state = "waiting_reboot" => Persisted = Status("waiting_reboot", svc.target)
      BY <2>2 DEF UpOrder, UpBusy, HelperMoves
    <3>2. TellsOf(j) /\ helper[j].pc # "waiting"
      BY <2>2 DEF UpOrder, UpTells, HelperMoves
    <3>3. svc.state # "waiting_reboot"
      BY <3>1, <3>2 DEF TellsOf, Status
    <3> QED BY <3>1, <3>3
  <2> QED BY <2>1, <2>2
<1> QED BY <1>4, <1>5, <1>6 DEF UpOrder

LEMMA TellsUnchanged ==
  ASSUME UpOrder, NEW j \in Jobs, HelperMoves(j), helper[j].pc # "parse", up, status' = status
  PROVE  TellsOf(j)'
<1>1. TellsOf(j) /\ helper[j].pc # "waiting"
  BY DEF UpOrder, UpTells, HelperMoves
<1>2. Persisted' = Persisted
  BY DEF Persisted
<1> QED BY <1>1, <1>2 DEF TellsOf

LEMMA TellsWaiting ==
  ASSUME NEW j, NEW v, helper'[j].pc = "waiting",
         status' = Status("waiting_reboot", v) \/ status' = Torn
  PROVE  TellsOf(j)'
<1>1. Persisted'.state \in {"idle", "waiting_reboot"}
  BY DEF Persisted, Status, Torn
<1> QED BY <1>1 DEF TellsOf

LEMMA OrderHelper ==
  ASSUME UpFrame, UpOrder, HelperStep
  PROVE  UpOrder'
<1> USE DEF cancels
<1>1. PICK j \in Jobs :
        \/ HelperRefuse(j) \/ HelperParse(j) \/ HelperServe(j)
        \/ HelperPrepare(j) \/ HelperExtract(j) \/ HelperStopApp(j)
        \/ HelperBurn(j) \/ HelperProgram(j) \/ HelperVerify(j)
        \/ HelperFailed(j) \/ HelperFinish(j) \/ HelperConfirm(j)
        \/ HelperReboot(j)
  BY DEF HelperStep
<1>2. PICK v : v = Manifest[jobs[j].package].version
  OBVIOUS
<1>3. ASSUME NEW s, HelperStatus(j, s), HelperRuns(j) PROVE status' = Status(s, v) \/ status' = Torn
  BY <1>2, <1>3, HelperReports DEF HelperStatus, UpOrder
<1>4. CASE HelperRefuse(j)
  <2>1. HelperMoves(j)
    BY <1>4, MoveHelperRefuse DEF HelperMoves, HelperRuns
  <2>2. ~HelperRuns(j)'
    BY <1>4, MoveHelperRefuse DEF HelperRuns
  <2> QED BY <2>1, <2>2, OrderHelperMoves
<1>5. CASE HelperFailed(j)
  <2>1. HelperMoves(j)
    BY <1>5, MoveHelperFailed DEF HelperMoves, HelperRuns
  <2>2. ~HelperRuns(j)'
    BY <1>5, MoveHelperFailed DEF HelperRuns
  <2> QED BY <2>1, <2>2, OrderHelperMoves
<1>6. CASE HelperExtract(j)
  <2>1. HelperMoves(j)
    BY <1>6, MoveHelperExtract DEF HelperMoves, HelperRuns
  <2>2. status' = status /\ helper[j].pc # "parse"
    BY <1>6, MoveHelperExtract DEF HelperExtract
  <2> QED BY <2>1, <2>2, TellsUnchanged, OrderHelperMoves
<1>7. CASE HelperStopApp(j)
  <2>1. HelperMoves(j)
    BY <1>7, MoveHelperStopApp DEF HelperMoves, HelperRuns
  <2>2. status' = status /\ helper[j].pc # "parse"
    BY <1>7, MoveHelperStopApp DEF HelperStopApp
  <2> QED BY <2>1, <2>2, TellsUnchanged, OrderHelperMoves
<1>8. CASE HelperProgram(j)
  <2>1. HelperMoves(j)
    BY <1>8, MoveHelperProgram DEF HelperMoves, HelperRuns
  <2>2. status' = status /\ helper[j].pc # "parse"
    BY <1>8, MoveHelperProgram DEF HelperProgram
  <2> QED BY <2>1, <2>2, TellsUnchanged, OrderHelperMoves
<1>9. CASE HelperVerify(j)
  <2>1. HelperMoves(j)
    BY <1>9, MoveHelperVerify DEF HelperMoves, HelperRuns
  <2>2. status' = status /\ helper[j].pc # "parse"
    BY <1>9, MoveHelperVerify DEF HelperVerify
  <2> QED BY <2>1, <2>2, TellsUnchanged, OrderHelperMoves
<1>10. CASE HelperServe(j)
  <2>1. HelperMoves(j)
    BY <1>10, MoveHelperServe DEF HelperMoves, HelperRuns
  <2>2. helper[j].pc = "serve" /\ (status' = status \/ ~HelperRuns(j)')
    <3>1. Step(j, "exited") => ~HelperRuns(j)'
      BY DEF Step, HelperRuns, UpFrame, UpHelpers
    <3> QED BY <1>10, <3>1, MoveHelperServe DEF HelperServe
  <2> QED BY <2>1, <2>2, TellsUnchanged, OrderHelperMoves
<1>11. CASE HelperReboot(j)
  <2>1. HelperMoves(j)
    BY <1>11, MoveHelperReboot DEF HelperMoves, HelperRuns
  <2>2. helper[j].pc = "reboot" /\ (status' = status \/ ~HelperRuns(j)')
    <3>1. Step(j, "exited") => ~HelperRuns(j)'
      BY DEF Step, HelperRuns, UpFrame, UpHelpers
    <3> QED BY <1>11, <3>1, MoveHelperReboot DEF HelperReboot
  <2> QED BY <2>1, <2>2, TellsUnchanged, OrderHelperMoves
<1>12. CASE HelperParse(j)
  <2>1. HelperMoves(j)
    BY <1>12, MoveHelperParse DEF HelperMoves, HelperRuns
  <2>2. status' = Status("preparing", v) \/ status' = Torn
    BY <1>12, <1>3, <2>1 DEF HelperParse, HelperMoves
  <2> QED BY <2>1, <2>2, TellsReport, OrderHelperMoves
<1>13. CASE HelperPrepare(j)
  <2>1. HelperMoves(j)
    BY <1>13, MoveHelperPrepare DEF HelperMoves, HelperRuns
  <2>2. helper[j].pc = "prepare" /\ (status' = Status("writing", v) \/ status' = Torn \/ status' = status)
    BY <1>13, <1>3, <2>1, MoveHelperPrepare DEF HelperPrepare, HelperMoves
  <2> QED BY <2>1, <2>2, TellsReport, TellsUnchanged, OrderHelperMoves
<1>14. CASE HelperBurn(j)
  <2>1. HelperMoves(j)
    BY <1>14, MoveHelperBurn DEF HelperMoves, HelperRuns
  <2>2. status' = Status("writing", v) \/ status' = Torn
    BY <1>14, <1>3, <2>1 DEF HelperBurn, HelperMoves
  <2> QED BY <2>1, <2>2, TellsReport, OrderHelperMoves
<1>15. CASE HelperFinish(j)
  <2>1. HelperMoves(j)
    BY <1>15, MoveHelperFinish DEF HelperMoves, HelperRuns
  <2>2. CASE helper[j].reboot
    <3>1. status' = Status("completed", v) \/ status' = Torn
      BY <1>15, <1>3, <2>1, <2>2 DEF HelperFinish, HelperMoves
    <3> QED BY <2>1, <3>1, TellsReport, OrderHelperMoves
  <2>3. CASE ~helper[j].reboot
    <3>1. status' = Status("waiting_reboot", v) \/ status' = Torn
      BY <1>15, <1>3, <2>1, <2>3 DEF HelperFinish, HelperMoves
    <3>2. helper'[j].pc = "waiting"
      BY <1>15, <2>3 DEF HelperFinish, Step, UpFrame, UpHelpers
    <3> QED BY <2>1, <3>1, <3>2, TellsWaiting, OrderHelperMoves
  <2> QED BY <2>2, <2>3
<1>16. CASE HelperConfirm(j)
  <2>1. HelperMoves(j) /\ ~up
    BY <1>16, MoveHelperConfirm DEF HelperMoves, HelperRuns, HelperConfirm
  <2> QED BY <2>1, OrderHelperMoves
<1> QED BY <1>1, <1>4, <1>5, <1>6, <1>7, <1>8, <1>9, <1>10, <1>11, <1>12, <1>13, <1>14, <1>15, <1>16

LEMMA OrderStep ==
  ASSUME UpFrame, UpOrder, [Next]_vars, early' = {}
  PROVE  UpOrder'
<1>1. CASE WorkerStep
  BY <1>1, OrderWorker
<1>2. CASE ApiStep
  BY <1>2, FrameStep, OrderApi
<1>3. CASE HelperStep
  BY <1>3, OrderHelper
<1>4. CASE MainExits
  BY <1>4, OrderGone DEF MainExits
<1>5. CASE PowerLoss \/ UNCHANGED vars
  <2>1. UNCHANGED <<jobs, canceled, svc, queue, worker, helper, status, up, api>>
    BY <1>5 DEF PowerLoss, vars, main, proc, cancels
  <2> QED BY <2>1, OrderKept
<1>6. CASE Boot
  <2>1. worker'.pc = "idle" /\ queue' = <<>> /\ api' = "idle"
    BY <1>6 DEF Boot, IdleWorker
  <2>2. \A j \in Jobs : ~HelperRuns(j)'
    <3>1. helper' = [j \in Jobs |-> [helper[j] EXCEPT !.pc = IF helper[j].pc = "none" THEN "none" ELSE "exited"]]
      BY <1>6 DEF Boot
    <3>2. \A j \in Jobs : helper[j] \in [pc : HelperPcs, i : Nat, reboot : BOOLEAN]
      BY DEF UpFrame, UpHelpers
    <3>3. \A j \in Jobs : helper'[j].pc = IF helper[j].pc = "none" THEN "none" ELSE "exited"
      BY <3>1, <3>2
    <3> QED BY <3>3 DEF HelperRuns
  <2>3. UpAlone'
    BY <2>1, <2>2 DEF UpAlone, JobAlive
  <2> QED BY <2>1, <2>2, <2>3, TellsNothing, NothingBusy DEF UpOrder
<1> QED BY <1>1, <1>2, <1>3, <1>4, <1>5, <1>6 DEF Next


-----------------------------------------------------------------------------
(* What the job that writes has written is still there. *)

\* The first n partitions of package p hold its images.
BurntTo(p, n) ==
    \A k \in DOMAIN Manifest[p].parts : k <= n => flash[Manifest[p].parts[k]] = p

WritePcs == {"burn", "program", "verify"}
DonePcs == {"finish", "waiting", "reboot"}

UpBurnt ==
    /\ worker.pc \in WritePcs => BurntTo(Request.package, worker.i - 1)
    /\ worker.pc \in {"written", "commit"} => Burnt(Request.package)
    /\ \A j \in Jobs :
          /\ helper[j].pc \in WritePcs => BurntTo(jobs[j].package, helper[j].i - 1)
          /\ helper[j].pc \in DonePcs => Burnt(jobs[j].package)

LEMMA PartsFacts ==
  ASSUME NEW p \in Package
  PROVE  /\ Len(Manifest[p].parts) \in Nat \ {0}
         /\ DOMAIN Manifest[p].parts = 1 .. Len(Manifest[p].parts)
         /\ \A k \in DOMAIN Manifest[p].parts : Manifest[p].parts[k] \in Partition
         /\ \A k, l \in DOMAIN Manifest[p].parts : Manifest[p].parts[k] = Manifest[p].parts[l] => k = l
         /\ WebOnly(p) => Len(Manifest[p].parts) = 1
<1>1. PICK s : s = Manifest[p].parts
  OBVIOUS
<1>2. s \in Seq(Partition) /\ s # <<>> /\ \A k, l \in DOMAIN s : s[k] = s[l] => k = l
  BY <1>1, PackagesAssumption
<1>3. Len(s) \in Nat \ {0} /\ DOMAIN s = 1 .. Len(s) /\ \A k \in DOMAIN s : s[k] \in Partition
  BY <1>2
<1>4. ASSUME WebOnly(p) PROVE Len(s) = 1
  <2>1. \A k \in DOMAIN s : s[k] = "web"
    BY <1>1, <1>4 DEF WebOnly, Parts
  <2> QED BY <1>2, <1>3, <2>1
<1> QED BY <1>1, <1>2, <1>3, <1>4

\* A package is burnt when the loop has gone past its last command.
LEMMA BurntAll ==
  ASSUME NEW p \in Package, NEW n \in Int, n >= Len(Manifest[p].parts), BurntTo(p, n)
  PROVE  Burnt(p)
  BY PartsFacts DEF BurntTo, Burnt, Parts

\* Writing partition i leaves the ones before it.
LEMMA BurntBefore ==
  ASSUME NEW p \in Package, NEW i \in 1 .. Len(Manifest[p].parts), BurntTo(p, i - 1),
         flash \in [Partition -> Image], NEW x,
         flash' = flash \/ flash' = [flash EXCEPT ![Manifest[p].parts[i]] = x]
  PROVE  BurntTo(p, i - 1)'
<1> SUFFICES ASSUME NEW k \in DOMAIN Manifest[p].parts, k <= i - 1
             PROVE  flash'[Manifest[p].parts[k]] = p
  BY DEF BurntTo
<1>1. /\ k \in Int /\ i \in DOMAIN Manifest[p].parts
      /\ Manifest[p].parts[k] \in Partition /\ Manifest[p].parts[k] # Manifest[p].parts[i]
  BY PartsFacts
<1>2. flash[Manifest[p].parts[k]] = p
  BY DEF BurntTo
<1> QED BY <1>1, <1>2

LEMMA BurntNext ==
  ASSUME NEW p \in Package, NEW i \in Nat, BurntTo(p, i - 1), flash' = flash,
         flash[Manifest[p].parts[i]] = p
  PROVE  BurntTo(p, (i + 1) - 1)'
<1> SUFFICES ASSUME NEW k \in DOMAIN Manifest[p].parts, k <= i
             PROVE  flash'[Manifest[p].parts[k]] = p
  BY DEF BurntTo
<1>1. k \in Int
  BY PartsFacts
<1>2. k <= i - 1 \/ k = i
  BY <1>1
<1> QED BY <1>2 DEF BurntTo

LEMMA BurntStart ==
  ASSUME NEW p \in Package
  PROVE  BurntTo(p, 1 - 1)
  BY PartsFacts DEF BurntTo

\* Steps that write nothing.
LEMMA BurntKept ==
  ASSUME UpFrame, UpFrame', UpBurnt, flash' = flash, \A k \in 1 .. Len(jobs) : jobs'[k] = jobs[k],
         worker'.pc \in WritePcs \cup {"written", "commit"} =>
            /\ worker'.job = worker.job /\ worker.pc # "idle"
            /\ worker'.pc \in WritePcs => (worker.pc \in WritePcs /\ worker'.i = worker.i) \/ worker'.i = 1
            /\ worker'.pc \in {"written", "commit"} => worker.pc \in {"written", "commit"},
         \A j \in Jobs : helper'[j].pc \in WritePcs =>
            (helper[j].pc \in WritePcs /\ helper'[j].i = helper[j].i) \/ (helper[j].pc # "none" /\ helper'[j].i = 1),
         \A j \in Jobs : helper'[j].pc \in DonePcs => helper[j].pc \in DonePcs
  PROVE  UpBurnt'
<1>1. worker.pc # "idle" => worker.job \in 1 .. Len(jobs) /\ Request.package \in Package
  <2>1. worker.pc # "idle" => worker.job \in 1 .. Len(jobs)
    BY DEF UpFrame, UpWorker
  <2> QED BY <2>1, UpRequest DEF UpFrame, Request
<1>2. \A j \in Jobs : helper[j].pc # "none" => j \in 1 .. Len(jobs) /\ jobs[j].package \in Package
  <2>1. \A j \in Jobs : helper[j].pc # "none" => j \in 1 .. Len(jobs)
    BY DEF UpFrame, UpHelpers, UpShape, Jobs
  <2> QED BY <2>1, UpRequest DEF UpFrame
<1>3. \A p \in Package : \A n : (BurntTo(p, n) => BurntTo(p, n)') /\ (Burnt(p) => Burnt(p)')
  BY DEF BurntTo, Burnt
<1>4. \A p \in Package : BurntTo(p, 1 - 1)
  BY BurntStart
<1>5. ASSUME worker'.pc \in WritePcs PROVE BurntTo(Request.package, worker.i - 1)'
  <2>1. Request' = Request /\ Request.package \in Package
    BY <1>1, <1>5 DEF Request
  <2>2. BurntTo(Request.package, worker'.i - 1)
    BY <1>4, <1>5, <2>1 DEF UpBurnt
  <2> QED BY <1>3, <2>1, <2>2
<1>6. ASSUME worker'.pc \in {"written", "commit"} PROVE Burnt(Request.package)'
  <2>1. Request' = Request /\ Request.package \in Package
    BY <1>1, <1>6 DEF Request
  <2> QED BY <1>3, <1>6, <2>1 DEF UpBurnt
<1>7. ASSUME NEW j \in Jobs, helper'[j].pc \in WritePcs PROVE BurntTo(jobs[j].package, helper[j].i - 1)'
  <2>1. jobs'[j] = jobs[j] /\ jobs[j].package \in Package
    BY <1>2, <1>7 DEF WritePcs
  <2>2. BurntTo(jobs[j].package, helper'[j].i - 1)
    BY <1>4, <1>7, <2>1 DEF UpBurnt
  <2> QED BY <1>3, <2>1, <2>2
<1>8. ASSUME NEW j \in Jobs, helper'[j].pc \in DonePcs PROVE Burnt(jobs[j].package)'
  <2>1. jobs'[j] = jobs[j] /\ jobs[j].package \in Package
    BY <1>2, <1>8 DEF DonePcs
  <2> QED BY <1>3, <1>8, <2>1 DEF UpBurnt
<1> QED BY <1>5, <1>6, <1>7, <1>8 DEF UpBurnt

\* The worker's writes: no helper runs.
LEMMA BurntByWorker ==
  ASSUME UpFrame, UpAlone, worker.pc \in WritePcs, helper' = helper,
         worker'.pc \in WritePcs => BurntTo(Request.package, worker.i - 1)',
         worker'.pc \in {"written", "commit"} => Burnt(Request.package)'
  PROVE  UpBurnt'
<1>1. \A j \in Jobs : helper[j].pc \in {"none", "exited"}
  BY DEF UpAlone, HelperRuns, WritePcs
<1>2. \A j \in Jobs : helper'[j].pc \notin WritePcs /\ helper'[j].pc \notin DonePcs
  BY <1>1 DEF WritePcs, DonePcs
<1> QED BY <1>2 DEF UpBurnt

LEMMA BurntWorkerBurn ==
  ASSUME UpFrame, UpSafe, UpSources, UpAlone, UpBurnt, WorkerBurn
  PROVE  UpBurnt'
<1>1. /\ worker.pc = "burn" /\ worker.job \in 1 .. Len(jobs) /\ jobs' = jobs
      /\ worker'.pc \in {"written", "fail", "program"} /\ worker'.job = worker.job /\ worker'.i = worker.i
  BY MoveWorkerBurn
<1>2. PICK p : p = Request.package
  OBVIOUS
<1>3. p \in Package /\ Request' = Request
  BY <1>1, <1>2, UpRequest DEF UpFrame, Request
<1>4. /\ WebOnly(p) /\ BurntTo(p, worker.i - 1) /\ worker.i \in Nat /\ worker.i >= 1
      /\ plat.cached \in Package /\ flash \in [Partition -> Image]
  BY <1>1, <1>2 DEF UpSources, UpWeb, UpBurnt, WritePcs, UpSafe, UpSigned, UpFrame, UpWorker, UpCached, UpShape
<1>5. worker \in [pc : WorkerPcs, job : 0 .. Len(jobs), i : Nat]
  BY DEF UpFrame, UpWorker
<1>6. /\ Goto("written") => worker'.pc = "written"
      /\ Goto("fail") => worker'.pc = "fail"
      /\ Goto("program") => worker'.pc = "program"
  BY <1>5 DEF Goto
<1>7. CASE worker'.pc = "written"
  <2>1. worker.i > Len(Manifest[plat.cached].parts) /\ flash' = flash
    BY <1>6, <1>7 DEF WorkerBurn, WriteFailed
  <2>2. worker.i - 1 >= Len(Manifest[p].parts)
    <3>1. Len(Manifest[p].parts) = 1 /\ Len(Manifest[plat.cached].parts) \in Nat \ {0}
      BY <1>3, <1>4, PartsFacts
    <3> QED BY <1>4, <2>1, <3>1
  <2>3. Burnt(p)
    BY <1>3, <1>4, <2>2, BurntAll
  <2>4. Burnt(p)'
    BY <2>1, <2>3 DEF Burnt
  <2> QED BY <1>1, <1>2, <1>3, <1>7, <2>4, BurntByWorker DEF WorkerBurn, WritePcs
<1>8. CASE worker'.pc = "program"
  <2>1. /\ worker.i <= Len(Manifest[p].parts)
        /\ flash' = [flash EXCEPT ![Manifest[p].parts[worker.i]] = "blank"]
    BY <1>2, <1>6, <1>8 DEF WorkerBurn, WriteFailed, Erase
  <2>2. worker.i \in 1 .. Len(Manifest[p].parts)
    BY <1>3, <1>4, <2>1, PartsFacts
  <2>3. BurntTo(p, worker.i - 1)'
    BY <1>1, <1>3, <1>4, <2>1, <2>2, BurntBefore DEF BurntTo
  <2> QED BY <1>1, <1>2, <1>3, <1>8, <2>3, BurntByWorker DEF WorkerBurn, WritePcs
<1>9. CASE worker'.pc = "fail"
  BY <1>1, <1>9, BurntByWorker DEF WorkerBurn, WritePcs
<1> QED BY <1>1, <1>7, <1>8, <1>9

LEMMA BurntWorkerProgram ==
  ASSUME UpFrame, UpSafe, UpAlone, UpBurnt, WorkerProgram
  PROVE  UpBurnt'
<1>1. /\ worker.pc = "program" /\ worker.job \in 1 .. Len(jobs) /\ jobs' = jobs
      /\ worker'.pc = "verify" /\ worker'.job = worker.job /\ worker'.i = worker.i
  BY MoveWorkerProgram
<1>2. PICK p : p = Request.package
  OBVIOUS
<1>3. p \in Package /\ Request' = Request
  BY <1>1, <1>2, UpRequest DEF UpFrame, Request
<1>i. PICK i : i = worker.i
  OBVIOUS
<1>4. /\ BurntTo(p, i - 1) /\ i \in 1 .. Len(Manifest[p].parts)
      /\ flash \in [Partition -> Image]
  BY <1>1, <1>2, <1>i DEF UpBurnt, WritePcs, UpSafe, UpSigned, OpenPcs, OpenFor, Request, UpFrame, UpShape
<1>5. flash' = flash \/ flash' = [flash EXCEPT ![Manifest[p].parts[i]] = p]
  BY <1>2, <1>i DEF WorkerProgram, Program, OpenPart, Request
<1>7. BurntTo(p, i - 1)'
  BY <1>3, <1>4, <1>5, BurntBefore
<1>6. BurntTo(p, worker.i - 1)'
  BY <1>1, <1>i, <1>7 DEF BurntTo
<1> QED BY <1>1, <1>2, <1>3, <1>6, BurntByWorker DEF WorkerProgram, WritePcs

LEMMA BurntWorkerVerify ==
  ASSUME UpFrame, UpSafe, UpAlone, UpBurnt, WorkerVerify
  PROVE  UpBurnt'
<1>1. /\ worker.pc = "verify" /\ worker.job \in 1 .. Len(jobs) /\ jobs' = jobs
      /\ worker'.pc \in {"burn", "fail"} /\ worker'.job = worker.job
      /\ worker'.pc = "burn" => worker'.i = worker.i + 1
  BY MoveWorkerVerify
<1>2. PICK p : p = Request.package
  OBVIOUS
<1>3. p \in Package /\ Request' = Request
  BY <1>1, <1>2, UpRequest DEF UpFrame, Request
<1>i. PICK i : i = worker.i
  OBVIOUS
<1>4. BurntTo(p, i - 1) /\ i \in Nat /\ flash' = flash /\ helper' = helper
  BY <1>1, <1>2, <1>i DEF UpBurnt, WritePcs, UpFrame, UpWorker, WorkerVerify
<1>5. worker \in [pc : WorkerPcs, job : 0 .. Len(jobs), i : Nat]
  BY DEF UpFrame, UpWorker
<1>6. Goto("fail") => worker'.pc = "fail"
  BY <1>5 DEF Goto
<1>7. CASE worker'.pc = "burn"
  <2>1. flash[Manifest[p].parts[i]] = p
    BY <1>2, <1>i, <1>6, <1>7 DEF WorkerVerify, WriteFailed, OpenPart, Request
  <2>2. BurntTo(p, (i + 1) - 1)'
    BY <1>3, <1>4, <2>1, BurntNext
  <2>3. BurntTo(p, worker.i - 1)'
    BY <1>1, <1>i, <1>7, <2>2 DEF BurntTo
  <2> QED BY <1>1, <1>2, <1>3, <1>4, <1>7, <2>3, BurntByWorker DEF WritePcs
<1>8. CASE worker'.pc = "fail"
  BY <1>1, <1>4, <1>8, BurntByWorker DEF WritePcs
<1> QED BY <1>1, <1>7, <1>8

LEMMA BurntWorker ==
  ASSUME UpFrame, UpSafe, UpSources, UpAlone, UpBurnt, WorkerStep
  PROVE  UpBurnt'
<1>1. CASE WorkerBurn \/ WorkerProgram \/ WorkerVerify
  BY <1>1, BurntWorkerBurn, BurntWorkerProgram, BurntWorkerVerify
<1>2. ASSUME UNCHANGED <<jobs, flash>>, \A j \in Jobs : helper'[j] = helper[j] \/ helper'[j].pc = "parse",
             \/ worker'.pc \notin WritePcs \cup {"written", "commit"}
             \/ /\ worker'.job = worker.job /\ worker.pc # "idle"
                /\ worker'.pc \in WritePcs => (worker.pc \in WritePcs /\ worker'.i = worker.i) \/ worker'.i = 1
                /\ worker'.pc \in {"written", "commit"} => worker.pc \in {"written", "commit"}
      PROVE  UpBurnt'
  <2>1. UpFrame'
    BY FrameStep DEF Next
  <2> QED BY <1>2, <2>1, BurntKept DEF WritePcs, DonePcs
<1>3. CASE WorkerTake
  <2>1. UNCHANGED <<jobs, flash, helper>>
    BY <1>3 DEF WorkerTake
  <2> QED BY <1>2, <1>3, <2>1 DEF WritePcs, WorkerTake
<1>4. CASE WorkerValidate
  <2>1. UNCHANGED <<jobs, flash, helper>>
    BY <1>4 DEF WorkerValidate
  <2> QED BY <1>2, <1>4, <2>1, MoveWorkerValidate DEF WritePcs
<1>5. CASE WorkerPolicy
  <2>1. UNCHANGED <<jobs, flash, helper>>
    BY <1>5 DEF WorkerPolicy
  <2> QED BY <1>2, <1>5, <2>1, MoveWorkerPolicy DEF WritePcs
<1>6. CASE WorkerPreparing
  <2>1. UNCHANGED <<jobs, flash, helper>>
    BY <1>6 DEF WorkerPreparing
  <2> QED BY <1>2, <1>6, <2>1, MoveWorkerPreparing DEF WritePcs
<1>7. CASE WorkerPrepare
  <2>1. UNCHANGED <<jobs, flash, helper>>
    BY <1>7 DEF WorkerPrepare
  <2> QED BY <1>2, <1>7, <2>1, MoveWorkerPrepare DEF WritePcs
<1>8. CASE WorkerArm
  <2>1. UNCHANGED <<jobs, flash, helper>>
    BY <1>8 DEF WorkerArm
  <2> QED BY <1>2, <1>8, <2>1, MoveWorkerArm DEF WritePcs
<1>9. CASE WorkerRecheck
  <2>1. UNCHANGED <<jobs, flash, helper>>
    BY <1>9 DEF WorkerRecheck
  <2> QED BY <1>2, <1>9, <2>1, MoveWorkerRecheck DEF WritePcs
<1>10. CASE WorkerWriting
  <2>1. UNCHANGED <<jobs, flash, helper>>
    BY <1>10 DEF WorkerWriting
  <2> QED BY <1>2, <1>10, <2>1, MoveWorkerWriting DEF WritePcs
<1>11. CASE WorkerGiveUp
  <2>1. UNCHANGED <<jobs, flash, helper>>
    BY <1>11 DEF WorkerGiveUp
  <2> QED BY <1>2, <1>11, <2>1, MoveWorkerGiveUp DEF WritePcs
<1>12. CASE WorkerFailed
  <2>1. UNCHANGED <<jobs, flash, helper>>
    BY <1>12 DEF WorkerFailed
  <2> QED BY <1>2, <1>12, <2>1, MoveWorkerFailed DEF WritePcs
<1>13. CASE WorkerWrite
  <2>1. UNCHANGED <<jobs, flash, helper>>
    BY <1>13 DEF WorkerWrite
  <2> QED BY <1>2, <1>13, <2>1, MoveWorkerWrite DEF WritePcs
<1>14. CASE WorkerHandoff
  <2>1. UNCHANGED <<jobs, flash, helper>>
    BY <1>14 DEF WorkerHandoff
  <2> QED BY <1>2, <1>14, <2>1, MoveWorkerHandoff DEF WritePcs
<1>15. CASE WorkerMark
  <2>1. UNCHANGED <<jobs, flash, helper>>
    BY <1>15 DEF WorkerMark
  <2> QED BY <1>2, <1>15, <2>1, MoveWorkerMark DEF WritePcs
<1>16. CASE WorkerExtract
  <2>1. UNCHANGED <<jobs, flash, helper>>
    BY <1>16 DEF WorkerExtract
  <2> QED BY <1>2, <1>16, <2>1, MoveWorkerExtract DEF WritePcs
<1>17. CASE WorkerApply
  <2>1. UNCHANGED <<jobs, flash, helper>>
    BY <1>17 DEF WorkerApply
  <2> QED BY <1>2, <1>17, <2>1, MoveWorkerApply DEF WritePcs
<1>18. CASE WorkerWritten
  <2>1. UNCHANGED <<jobs, flash, helper>>
    BY <1>18 DEF WorkerWritten
  <2> QED BY <1>2, <1>18, <2>1, MoveWorkerWritten DEF WritePcs
<1>19. CASE WorkerCommit
  <2>1. UNCHANGED <<jobs, flash, helper>>
    BY <1>19 DEF WorkerCommit
  <2> QED BY <1>2, <1>19, <2>1, MoveWorkerCommit DEF WritePcs
<1>20. CASE WorkerFinish
  <2>1. UNCHANGED <<jobs, flash, helper>>
    BY <1>20 DEF WorkerFinish
  <2> QED BY <1>2, <1>20, <2>1, MoveWorkerFinish DEF WritePcs
<1>21. CASE WorkerLaunch
  <2>1. UNCHANGED <<jobs, flash>>
    BY <1>21 DEF WorkerLaunch
  <2>2. \A j \in Jobs : helper'[j] = helper[j] \/ helper'[j].pc = "parse"
    <3>1. \/ helper' = helper
          \/ \E start : start.pc = "parse" /\ helper' = [helper EXCEPT ![worker.job] = start]
      BY <1>21 DEF WorkerLaunch
    <3>2. helper \in [Jobs -> [pc : HelperPcs, i : Nat, reboot : BOOLEAN]]
      BY DEF UpFrame, UpHelpers
    <3> QED BY <3>1, <3>2
  <2> QED BY <1>2, <1>21, <2>1, <2>2, MoveWorkerLaunch DEF WritePcs
<1> QED BY <1>1, <1>3, <1>4, <1>5, <1>6, <1>7, <1>8, <1>9, <1>10, <1>11, <1>12, <1>13, <1>14, <1>15, <1>16, <1>17, <1>18, <1>19, <1>20, <1>21
        DEF WorkerStep

\* A helper's writes: the worker is not writing, and no other helper runs.
LEMMA BurntByHelper ==
  ASSUME UpFrame, UpAlone, NEW j \in Jobs, HelperRuns(j), worker' = worker,
         \A k \in Jobs \ {j} : helper'[k] = helper[k],
         helper'[j].pc \in WritePcs => BurntTo(jobs[j].package, helper[j].i - 1)',
         helper'[j].pc \in DonePcs => Burnt(jobs[j].package)'
  PROVE  UpBurnt'
<1>1. \A k \in Jobs \ {j} : helper'[k].pc \notin WritePcs /\ helper'[k].pc \notin DonePcs
  BY AliveFacts DEF HelperRuns, WritePcs, DonePcs
<1>2. worker'.pc \notin WritePcs \cup {"written", "commit"}
  BY DEF UpAlone, WritePcs
<1> QED BY <1>1, <1>2 DEF UpBurnt

LEMMA BurntHelperBurn ==
  ASSUME UpFrame, UpSafe, UpAlone, UpBurnt, NEW j \in Jobs, HelperBurn(j)
  PROVE  UpBurnt'
<1>1. /\ helper[j].pc = "burn" /\ j \in 1 .. Len(jobs) /\ UNCHANGED <<jobs, worker>>
      /\ \A k \in Jobs \ {j} : helper'[k] = helper[k]
      /\ helper'[j].pc \in {"finish", "failed", "program"} /\ helper'[j].i = helper[j].i
  BY MoveHelperBurn
<1>2. PICK p : p = jobs[j].package
  OBVIOUS
<1>3. p \in Package /\ HelperRuns(j)
  BY <1>1, <1>2, UpRequest DEF UpFrame, HelperRuns
<1>4. PICK i : i = helper[j].i
  OBVIOUS
<1>5. i \in Nat /\ i >= 1 /\ BurntTo(p, i - 1) /\ flash \in [Partition -> Image]
  BY <1>1, <1>2, <1>4 DEF UpBurnt, WritePcs, UpSafe, UpSigned, UpFrame, UpHelpers, UpShape
<1>6. /\ Step(j, "finish") => helper'[j].pc = "finish"
      /\ Step(j, "failed") => helper'[j].pc = "failed"
      /\ Step(j, "program") => helper'[j].pc = "program"
  BY DEF Step, UpFrame, UpHelpers
<1>7. CASE helper'[j].pc = "finish"
  <2>1. i > Len(Manifest[p].parts) /\ flash' = flash
    BY <1>2, <1>4, <1>6, <1>7 DEF HelperBurn
  <2>2. i - 1 >= Len(Manifest[p].parts)
    BY <1>3, <1>5, <2>1, PartsFacts
  <2>3. Burnt(p)
    BY <1>3, <1>5, <2>2, BurntAll
  <2>4. Burnt(jobs[j].package)'
    BY <1>1, <1>2, <2>1, <2>3 DEF Burnt
  <2> QED BY <1>1, <1>3, <1>7, <2>4, BurntByHelper DEF WritePcs
<1>8. CASE helper'[j].pc = "program"
  <2>1. /\ i <= Len(Manifest[p].parts)
        /\ flash' = [flash EXCEPT ![Manifest[p].parts[i]] = "blank"]
    BY <1>2, <1>4, <1>6, <1>8 DEF HelperBurn, Erase
  <2>2. i \in 1 .. Len(Manifest[p].parts)
    BY <1>3, <1>5, <2>1, PartsFacts
  <2>3. BurntTo(p, i - 1)'
    BY <1>3, <1>5, <2>1, <2>2, BurntBefore
  <2>4. BurntTo(jobs[j].package, helper[j].i - 1)'
    BY <1>1, <1>2, <1>4, <2>3 DEF BurntTo
  <2> QED BY <1>1, <1>3, <1>8, <2>4, BurntByHelper DEF DonePcs
<1>9. CASE helper'[j].pc = "failed"
  BY <1>1, <1>3, <1>9, BurntByHelper DEF WritePcs, DonePcs
<1> QED BY <1>1, <1>7, <1>8, <1>9

LEMMA BurntHelperProgram ==
  ASSUME UpFrame, UpSafe, UpAlone, UpBurnt, NEW j \in Jobs, HelperProgram(j)
  PROVE  UpBurnt'
<1>1. /\ helper[j].pc = "program" /\ j \in 1 .. Len(jobs) /\ UNCHANGED <<jobs, worker>>
      /\ \A k \in Jobs \ {j} : helper'[k] = helper[k]
      /\ helper'[j].pc = "verify" /\ helper'[j].i = helper[j].i
  BY MoveHelperProgram
<1>2. PICK p : p = jobs[j].package
  OBVIOUS
<1>3. p \in Package /\ HelperRuns(j)
  BY <1>1, <1>2, UpRequest DEF UpFrame, HelperRuns
<1>4. PICK i : i = helper[j].i
  OBVIOUS
<1>5. /\ i \in 1 .. Len(Manifest[p].parts) /\ BurntTo(p, i - 1) /\ flash \in [Partition -> Image]
  BY <1>1, <1>2, <1>4 DEF UpBurnt, WritePcs, UpSafe, UpSigned, OpenPcs, OpenFor, UpFrame, UpShape
<1>6. flash' = flash \/ flash' = [flash EXCEPT ![Manifest[p].parts[i]] = p]
  BY <1>2, <1>4 DEF HelperProgram, Program, OpenPart
<1>7. BurntTo(p, i - 1)'
  BY <1>3, <1>5, <1>6, BurntBefore
<1>8. BurntTo(jobs[j].package, helper[j].i - 1)'
  BY <1>1, <1>2, <1>4, <1>7 DEF BurntTo
<1> QED BY <1>1, <1>3, <1>8, BurntByHelper DEF DonePcs

LEMMA BurntHelperVerify ==
  ASSUME UpFrame, UpSafe, UpAlone, UpBurnt, NEW j \in Jobs, HelperVerify(j)
  PROVE  UpBurnt'
<1>1. /\ helper[j].pc = "verify" /\ j \in 1 .. Len(jobs) /\ UNCHANGED <<jobs, worker>>
      /\ \A k \in Jobs \ {j} : helper'[k] = helper[k]
      /\ helper'[j].pc \in {"burn", "failed"} /\ (helper'[j].pc = "burn" => helper'[j].i = helper[j].i + 1)
  BY MoveHelperVerify
<1>2. PICK p : p = jobs[j].package
  OBVIOUS
<1>3. p \in Package /\ HelperRuns(j)
  BY <1>1, <1>2, UpRequest DEF UpFrame, HelperRuns
<1>4. PICK i : i = helper[j].i
  OBVIOUS
<1>5. i \in Nat /\ BurntTo(p, i - 1) /\ flash' = flash
  BY <1>1, <1>2, <1>4 DEF UpBurnt, WritePcs, UpFrame, UpHelpers, HelperVerify
<1>6. Step(j, "failed") => helper'[j].pc = "failed"
  BY DEF Step, UpFrame, UpHelpers
<1>7. CASE helper'[j].pc = "burn"
  <2>1. flash[Manifest[p].parts[i]] = p
    BY <1>2, <1>4, <1>6, <1>7 DEF HelperVerify, OpenPart
  <2>2. BurntTo(p, (i + 1) - 1)'
    BY <1>3, <1>5, <2>1, BurntNext
  <2>3. BurntTo(jobs[j].package, helper[j].i - 1)'
    BY <1>1, <1>2, <1>4, <1>7, <2>2 DEF BurntTo
  <2> QED BY <1>1, <1>3, <1>7, <2>3, BurntByHelper DEF DonePcs
<1>8. CASE helper'[j].pc = "failed"
  BY <1>1, <1>3, <1>8, BurntByHelper DEF WritePcs, DonePcs
<1> QED BY <1>1, <1>7, <1>8

LEMMA BurntHelper ==
  ASSUME UpFrame, UpSafe, UpAlone, UpBurnt, HelperStep
  PROVE  UpBurnt'
<1>1. PICK j \in Jobs :
        \/ HelperRefuse(j) \/ HelperParse(j) \/ HelperServe(j)
        \/ HelperPrepare(j) \/ HelperExtract(j) \/ HelperStopApp(j)
        \/ HelperBurn(j) \/ HelperProgram(j) \/ HelperVerify(j)
        \/ HelperFailed(j) \/ HelperFinish(j) \/ HelperConfirm(j)
        \/ HelperReboot(j)
  BY DEF HelperStep
<1>2. ASSUME UNCHANGED <<jobs, flash, worker>>, \A k \in Jobs \ {j} : helper'[k] = helper[k],
             helper'[j].pc \in WritePcs =>
                (helper[j].pc \in WritePcs /\ helper'[j].i = helper[j].i) \/ (helper[j].pc # "none" /\ helper'[j].i = 1),
             helper'[j].pc \in DonePcs => helper[j].pc \in DonePcs
      PROVE  UpBurnt'
  <2>1. UpFrame'
    BY FrameStep DEF Next
  <2>2. worker.pc \in WritePcs \cup {"written", "commit"} => worker.pc # "idle"
    BY DEF WritePcs
  <2> QED BY <1>2, <2>1, <2>2, BurntKept
<1>3. CASE HelperBurn(j) \/ HelperProgram(j) \/ HelperVerify(j)
  BY <1>3, BurntHelperBurn, BurntHelperProgram, BurntHelperVerify
<1>4. CASE HelperRefuse(j)
  <2>1. flash' = flash
    BY <1>4 DEF HelperRefuse
  <2> QED BY <1>2, <1>4, <2>1, MoveHelperRefuse DEF WritePcs, DonePcs
<1>5. CASE HelperParse(j)
  <2>1. flash' = flash
    BY <1>5 DEF HelperParse
  <2> QED BY <1>2, <1>5, <2>1, MoveHelperParse DEF WritePcs, DonePcs
<1>6. CASE HelperServe(j)
  <2>1. flash' = flash
    BY <1>6 DEF HelperServe
  <2> QED BY <1>2, <1>6, <2>1, MoveHelperServe DEF WritePcs, DonePcs
<1>7. CASE HelperPrepare(j)
  <2>1. flash' = flash
    BY <1>7 DEF HelperPrepare
  <2> QED BY <1>2, <1>7, <2>1, MoveHelperPrepare DEF WritePcs, DonePcs
<1>8. CASE HelperExtract(j)
  <2>1. flash' = flash
    BY <1>8 DEF HelperExtract
  <2> QED BY <1>2, <1>8, <2>1, MoveHelperExtract DEF WritePcs, DonePcs
<1>9. CASE HelperStopApp(j)
  <2>1. flash' = flash
    BY <1>9 DEF HelperStopApp
  <2> QED BY <1>2, <1>9, <2>1, MoveHelperStopApp DEF WritePcs, DonePcs
<1>10. CASE HelperFailed(j)
  <2>1. flash' = flash
    BY <1>10 DEF HelperFailed
  <2> QED BY <1>2, <1>10, <2>1, MoveHelperFailed DEF WritePcs, DonePcs
<1>11. CASE HelperFinish(j)
  <2>1. flash' = flash
    BY <1>11 DEF HelperFinish
  <2> QED BY <1>2, <1>11, <2>1, MoveHelperFinish DEF WritePcs, DonePcs
<1>12. CASE HelperConfirm(j)
  <2>1. flash' = flash
    BY <1>12 DEF HelperConfirm
  <2> QED BY <1>2, <1>12, <2>1, MoveHelperConfirm DEF WritePcs, DonePcs
<1>13. CASE HelperReboot(j)
  <2>1. flash' = flash
    BY <1>13 DEF HelperReboot
  <2> QED BY <1>2, <1>13, <2>1, MoveHelperReboot DEF WritePcs, DonePcs
<1> QED BY <1>1, <1>3, <1>4, <1>5, <1>6, <1>7, <1>8, <1>9, <1>10, <1>11, <1>12, <1>13

LEMMA BurntStep ==
  ASSUME UpFrame, UpSafe, UpSources, UpAlone, UpBurnt, [Next]_vars
  PROVE  UpBurnt'
<1>0. UpFrame'
  BY FrameStep
<1>1. CASE WorkerStep
  BY <1>1, BurntWorker
<1>2. CASE HelperStep
  BY <1>2, BurntHelper
<1>3. CASE ApiStep
  <2>0. UpQuiet
    BY <1>3, QuietApi
  <2>1. helper' = helper /\ (worker' = worker \/ worker'.pc = "idle")
    <3>1. ASSUME NEW p, ValidatePackage(p) PROVE worker' = worker \/ worker'.pc = "idle"
      BY <3>1 DEF ValidatePackage, MainGone, IdleWorker
    <3>2. ASSUME NEW p \in Package, Upload(p) \/ HandleValidate(p)
          PROVE  helper' = helper /\ (worker' = worker \/ worker'.pc = "idle")
      BY <3>1, <3>2 DEF Upload, HandleValidate
    <3>3. ASSUME UploadValidate
          PROVE  helper' = helper /\ (worker' = worker \/ worker'.pc = "idle")
      BY <3>1, <3>3 DEF UploadValidate
    <3>4. ASSUME NEW r \in Requests, StartUpgrade(r)
          PROVE  helper' = helper /\ (worker' = worker \/ worker'.pc = "idle")
      BY <3>4 DEF StartUpgrade
    <3>5. ASSUME \/ StartPost \/ CancelUpgrade \/ CancelPlatform \/ CancelFinish
                 \/ ConfirmReboot \/ GetUpgradeInfo
          PROVE  helper' = helper /\ (worker' = worker \/ worker'.pc = "idle")
      BY <3>5 DEF StartPost, CancelUpgrade, CancelPlatform, CancelFinish, ConfirmReboot, GetUpgradeInfo
    <3> QED BY <1>3, <3>2, <3>3, <3>4, <3>5 DEF ApiStep
  <2>2. \A k \in 1 .. Len(jobs) : jobs'[k] = jobs[k]
    BY <2>0, JobsKept DEF UpQuiet
  <2> QED BY <1>0, <2>0, <2>1, <2>2, BurntKept DEF WritePcs, UpQuiet
<1>4. CASE MainExits \/ PowerLoss \/ UNCHANGED vars
  <2>1. UNCHANGED <<flash, helper, jobs>> /\ (worker' = worker \/ worker'.pc = "idle")
    BY <1>4 DEF MainExits, PowerLoss, vars, main, MainGone, IdleWorker
  <2> QED BY <1>0, <2>1, BurntKept DEF WritePcs
<1>5. CASE Boot
  <2>1. worker'.pc = "idle"
    BY <1>5 DEF Boot, IdleWorker
  <2>2. \A j \in Jobs : helper'[j].pc \in {"none", "exited"}
    <3>1. helper' = [j \in Jobs |-> [helper[j] EXCEPT !.pc = IF helper[j].pc = "none" THEN "none" ELSE "exited"]]
      BY <1>5 DEF Boot
    <3>2. \A j \in Jobs : helper[j] \in [pc : HelperPcs, i : Nat, reboot : BOOLEAN]
      BY DEF UpFrame, UpHelpers
    <3>3. \A j \in Jobs : helper'[j].pc = IF helper[j].pc = "none" THEN "none" ELSE "exited"
      BY <3>1, <3>2
    <3> QED BY <3>3
  <2> QED BY <2>1, <2>2 DEF UpBurnt, WritePcs, DonePcs
<1> QED BY <1>1, <1>2, <1>3, <1>4, <1>5 DEF Next


-----------------------------------------------------------------------------
(* The theorems. *)

\* The inductive invariant: the shape of the state, what the flash holds, where the worker's
\* images come from and, until a job is accepted next to a cancelled one, one job at a time
\* whose writes stay.
UpInv == UpFrame /\ UpSafe /\ UpSources /\ (early = {} => UpOrder /\ UpBurnt)

LEMMA UpInit == Init => UpInv
<1> SUFFICES ASSUME Init PROVE UpInv
  OBVIOUS
<1>1. UpShape
  <2>1. svc \in SvcRecords /\ plat \in PlatRecords
    BY DEF Init, SvcRecords, PlatRecords, FreshInfo, Status, SvcStates, Versions
  <2>2. jobs = <<>> /\ Len(jobs) <= MaxJobs /\ jobs \in Seq(Requests)
    BY BoundsAssumption DEF Init
  <2>3. api \in ApiPcs /\ status \in StatusFiles /\ files \subseteq Package
    BY DEF Init, ApiPcs, StatusFiles
  <2>4. stages \in [Jobs -> {"none", "made", "full"}] /\ flash \in [Partition -> Image]
    BY DEF Init, Image
  <2>5. /\ power \in {"on", "lost", "auto", "confirm"}
        /\ canceled \subseteq Jobs /\ early \subseteq Jobs /\ wrote \subseteq Jobs
        /\ up \in BOOLEAN /\ term \in BOOLEAN /\ running \in Nat
    BY DEF Init, FactoryVersion
  <2> QED BY <2>1, <2>2, <2>3, <2>4, <2>5 DEF UpShape
<1>2. UpQueue /\ UpHelpers /\ UpUntouched
  BY BoundsAssumption DEF Init, UpQueue, UpHelpers, UpUntouched, HelperPcs, FreshInfo, Status
<1>3. UpWorker /\ UpCached
  BY DEF Init, UpWorker, UpCached, IdleWorker, WorkerPcs
<1>4. \A j \in Jobs : ~HelperRuns(j) /\ helper[j].pc = "none"
  BY DEF Init, HelperRuns
<1>5. worker.pc = "idle" /\ queue = <<>> /\ api = "idle"
  BY DEF Init, IdleWorker
<1>6. UpSafe
  <2>1. UpSigned
    BY <1>4, <1>5 DEF UpSigned, OpenPcs, Init
  <2>2. FlashAuthentic /\ RunningPartitionIntact
    BY PackagesAssumption DEF FlashAuthentic, RunningPartitionIntact, Init, Partition
  <2>3. UpPolicy
    BY <1>4, <1>5, PackagesAssumption DEF UpPolicy, PolicyPcs, Init, Partition
  <2> QED BY <2>1, <2>2, <2>3 DEF UpSafe
<1>7. UpSources
  BY <1>5 DEF UpSources, UpFiles, UpWeb, Init
<1>8. UpOrder
  <2>1. UpAlone
    BY <1>4, <1>5 DEF UpAlone, JobAlive
  <2>2. UpTells /\ UpBusy
    BY <1>4, <1>5 DEF UpTells, UpBusy
  <2> QED BY <2>1, <2>2 DEF UpOrder
<1>9. UpBurnt
  BY <1>4, <1>5 DEF UpBurnt, WritePcs, DonePcs
<1> QED BY <1>1, <1>2, <1>3, <1>6, <1>7, <1>8, <1>9 DEF UpInv, UpFrame

\* A start accepted next to a cancelled job stays on record.
LEMMA EarlyKept == ASSUME [Next]_vars PROVE early \subseteq early'
<1>1. ASSUME WorkerStep PROVE early' = early
  BY <1>1 DEF WorkerStep, WorkerTake, WorkerValidate, WorkerPolicy, WorkerPreparing, WorkerPrepare,
         WorkerArm, WorkerRecheck, WorkerWriting, WorkerGiveUp, WorkerFailed, WorkerWrite,
         WorkerLaunch, WorkerHandoff, WorkerMark, WorkerExtract, WorkerApply, WorkerBurn,
         WorkerProgram, WorkerVerify, WorkerWritten, WorkerCommit, WorkerFinish, cancels
<1>2. ASSUME ApiStep PROVE early \subseteq early'
  BY <1>2 DEF ApiStep, Upload, HandleValidate, StartUpgrade, UploadValidate, StartPost, CancelUpgrade,
         CancelPlatform, CancelFinish, ConfirmReboot, GetUpgradeInfo, cancels
<1>3. ASSUME HelperStep PROVE early' = early
  BY <1>3 DEF HelperStep, HelperRefuse, HelperParse, HelperServe, HelperPrepare, HelperExtract,
         HelperStopApp, HelperBurn, HelperProgram, HelperVerify, HelperFailed, HelperFinish,
         HelperConfirm, HelperReboot, cancels
<1>4. ASSUME MainExits \/ PowerLoss \/ Boot \/ UNCHANGED vars PROVE early' = early
  BY <1>4 DEF MainExits, PowerLoss, Boot, vars, cancels
<1> QED BY <1>1, <1>2, <1>3, <1>4 DEF Next

LEMMA UpInvStep == UpInv /\ [Next]_vars => UpInv'
<1> SUFFICES ASSUME UpInv, [Next]_vars PROVE UpInv'
  OBVIOUS
<1>1. UpFrame' /\ UpSafe' /\ UpSources'
  BY FrameStep, SafeStep, SourcesStep DEF UpInv
<1>2. ASSUME early' = {} PROVE UpOrder' /\ UpBurnt'
  <2>1. early = {}
    BY <1>2, EarlyKept
  <2>2. UpOrder'
    BY <1>2, <2>1, OrderStep DEF UpInv
  <2>3. UpBurnt'
    BY <2>1, BurntStep DEF UpInv, UpOrder
  <2> QED BY <2>2, <2>3
<1> QED BY <1>1, <1>2 DEF UpInv

LEMMA UpInvHolds == Spec => []UpInv
  BY UpInit, UpInvStep, PTL DEF Spec

LEMMA UpInvIsSafe == UpInv => FlashSafe
<1> SUFFICES ASSUME UpInv PROVE FlashSafe
  OBVIOUS
<1>1. TypeOK
  BY UpFrameIsTypeOK DEF UpInv
<1>2. OneFlashWriter
  <2> SUFFICES ASSUME early = {}, NEW j \in Writers, NEW k \in Writers PROVE j = k
    BY DEF OneFlashWriter
  <2>1. UpAlone
    BY DEF UpInv, UpOrder
  <2>2. \A l \in Writers : l = Len(jobs)
    <3> SUFFICES ASSUME NEW l \in Writers PROVE l = Len(jobs)
      OBVIOUS
    <3>1. CASE l \in Jobs /\ helper[l].pc \in {"program", "verify"}
      <4>1. HelperRuns(l)
        BY <3>1 DEF HelperRuns
      <4> QED BY <2>1, <3>1, <4>1, AliveFacts DEF UpInv
    <3>2. CASE worker.pc \in {"program", "verify"} /\ l = worker.job
      BY <2>1, <3>2, AliveFacts DEF UpInv
    <3> QED BY <3>1, <3>2 DEF Writers
  <2> QED BY <2>2
<1> QED BY <1>1, <1>2 DEF FlashSafe, UpInv, UpSafe

\* FlashSafe, for any packages, requests, queue capacity, numbers of jobs, uploads and boots:
\* whatever is uploaded, cancelled, started again, raced or cut off by power loss, a partition
\* only holds its factory image, an image of a signed package for it, or nothing; the
\* application's partition is never erased under the running process; and two upgrades never
\* write flash at once unless a start was accepted while a cancelled upgrade was alive.
THEOREM FlashSafeHolds == Spec => []FlashSafe
  BY UpInvHolds, UpInvIsSafe, PTL

-----------------------------------------------------------------------------
\* The step leaves a new claim of success in the status file.
Claims ==
    /\ status' # status /\ status' # None
    /\ status'.state \in {"completed", "waiting_reboot"}

LEMMA NoClaim ==
  ASSUME NEW s, NEW v, s \in {"failed", "writing", "preparing"},
         status' \in {status, None, Torn, Status(s, v)}
  PROVE  ~Claims
  BY DEF Claims, Torn, Status

LEMMA PublishClaims ==
  ASSUME NEW s, Publish(s)
  PROVE  ~Claims
<1>1. status' = status \/ status' = None
  BY DEF Publish, StatusAfterLoad
<1> QED BY <1>1 DEF Claims

LEMMA MainClaims ==
  ASSUME NEW s, NEW p, MainStatus(s, p)
  PROVE  /\ s \in {"failed", "writing"} => ~Claims
         /\ Claims => status' = Status(s, Manifest[p].version)
<1>1. status' \in {Status(s, Manifest[p].version), Torn, status}
  BY DEF MainStatus, WriteUpgradeStatusFile
<1> QED BY <1>1 DEF Claims, Torn, Status

LEMMA HelperClaims ==
  ASSUME NEW j, NEW s, NEW v, HelperWrites(j, Status(s, v))
  PROVE  /\ s \in {"failed", "writing", "preparing"} => ~Claims
         /\ Claims => status' = Status(s, v)
<1>1. status' \in {Status(s, v), Torn, status}
  BY DEF HelperWrites, WriteUpgradeStatusFile
<1> QED BY <1>1 DEF Claims, Torn, Status

\* Success is claimed by CommitUpgrade and by a helper that has burnt everything.
LEMMA WorkerClaims ==
  ASSUME WorkerStep, Claims
  PROVE  WorkerCommit
<1> SUFFICES ASSUME ~WorkerCommit PROVE FALSE
  OBVIOUS
<1>1. ASSUME status' = status PROVE FALSE
  BY <1>1 DEF Claims
<1>2. CASE WorkerTake
  BY <1>1, <1>2 DEF WorkerTake
<1>3. CASE WorkerValidate
  BY <1>1, <1>3 DEF WorkerValidate
<1>4. CASE WorkerPolicy
  BY <1>1, <1>4 DEF WorkerPolicy
<1>5. CASE WorkerArm
  BY <1>1, <1>5 DEF WorkerArm
<1>6. CASE WorkerRecheck
  BY <1>1, <1>6 DEF WorkerRecheck
<1>7. CASE WorkerGiveUp
  BY <1>1, <1>7 DEF WorkerGiveUp
<1>8. CASE WorkerWrite
  BY <1>1, <1>8 DEF WorkerWrite
<1>9. CASE WorkerExtract
  BY <1>1, <1>9 DEF WorkerExtract
<1>10. CASE WorkerProgram
  BY <1>1, <1>10 DEF WorkerProgram
<1>11. CASE WorkerPreparing
  BY <1>11, PublishClaims DEF WorkerPreparing
<1>12. CASE WorkerMark
  BY <1>12, PublishClaims DEF WorkerMark
<1>13. CASE WorkerWriting
  BY <1>13, PublishClaims DEF WorkerWriting, UpdateStatus
<1>14. CASE WorkerFailed
  BY <1>14, PublishClaims DEF WorkerFailed, CleanupThen
<1>15. CASE WorkerWritten
  BY <1>1, <1>15, PublishClaims DEF WorkerWritten, UpdateStatus
<1>16. CASE WorkerFinish
  <2>1. CASE \E s : CleanupThen(s)
    BY <2>1, PublishClaims DEF CleanupThen
  <2>2. CASE status' = status
    BY <1>1, <2>2
  <2> QED BY <1>16, <2>1, <2>2 DEF WorkerFinish
<1>17. CASE WorkerPrepare
  BY <1>1, <1>17, MainClaims DEF WorkerPrepare
<1>18. CASE WorkerLaunch
  BY <1>1, <1>18, MainClaims DEF WorkerLaunch
<1>19. CASE WorkerHandoff
  BY <1>1, <1>19, MainClaims DEF WorkerHandoff
<1>20. CASE WorkerApply
  <2>1. WriteFailed \/ status' = status
    BY <1>20 DEF WorkerApply
  <2> QED BY <1>1, <2>1, MainClaims DEF WriteFailed
<1>21. CASE WorkerBurn
  <2>1. WriteFailed \/ status' = status
    BY <1>21 DEF WorkerBurn
  <2> QED BY <1>1, <2>1, MainClaims DEF WriteFailed
<1>22. CASE WorkerVerify
  <2>1. WriteFailed \/ status' = status
    BY <1>22 DEF WorkerVerify
  <2> QED BY <1>1, <2>1, MainClaims DEF WriteFailed
<1> QED BY <1>2, <1>3, <1>4, <1>5, <1>6, <1>7, <1>8, <1>9, <1>10, <1>11, <1>12, <1>13, <1>14, <1>15, <1>16, <1>17, <1>18, <1>19, <1>20, <1>21, <1>22
        DEF WorkerStep

LEMMA ApiClaims ==
  ASSUME ApiStep
  PROVE  ~Claims
<1>1. ASSUME status' = status PROVE ~Claims
  BY <1>1 DEF Claims
<1>2. ASSUME NEW p \in Package, Upload(p) \/ HandleValidate(p) PROVE ~Claims
  BY <1>1, <1>2 DEF Upload, HandleValidate
<1>3. ASSUME NEW r \in Requests, StartUpgrade(r) PROVE ~Claims
  BY <1>3, PublishClaims DEF StartUpgrade
<1>4. CASE UploadValidate \/ CancelUpgrade \/ CancelPlatform
  BY <1>1, <1>4 DEF UploadValidate, CancelUpgrade, CancelPlatform
<1>5. CASE StartPost
  BY <1>1, <1>5, PublishClaims DEF StartPost, UpdateStatus
<1>6. CASE CancelFinish
  BY <1>6, PublishClaims DEF CancelFinish, CleanupThen
<1>7. CASE ConfirmReboot
  BY <1>1, <1>7, PublishClaims DEF ConfirmReboot, UpdateStatus
<1>8. CASE GetUpgradeInfo
  BY <1>8, PublishClaims DEF GetUpgradeInfo
<1> QED BY <1>2, <1>3, <1>4, <1>5, <1>6, <1>7, <1>8 DEF ApiStep

LEMMA HelperStepClaims ==
  ASSUME UpFrame, UpBurnt, HelperStep, Claims
  PROVE  \E p \in Package : Manifest[p].version = status'.version /\ Burnt(p)
<1>1. PICK j \in Jobs :
        \/ HelperRefuse(j) \/ HelperParse(j) \/ HelperServe(j)
        \/ HelperPrepare(j) \/ HelperExtract(j) \/ HelperStopApp(j)
        \/ HelperBurn(j) \/ HelperProgram(j) \/ HelperVerify(j)
        \/ HelperFailed(j) \/ HelperFinish(j) \/ HelperConfirm(j)
        \/ HelperReboot(j)
  BY DEF HelperStep
<1>2. status' # status
  BY DEF Claims
<1>3. ASSUME NEW s, HelperStatus(j, s) PROVE s \notin {"failed", "writing", "preparing"}
  BY <1>3, HelperClaims DEF HelperStatus
<1>4. ~HelperRefuse(j) /\ ~HelperParse(j) /\ ~HelperServe(j)
  <2>1. ~HelperRefuse(j)
    BY HelperClaims DEF HelperRefuse
  <2> QED BY <1>2, <1>3, <2>1 DEF HelperParse, HelperServe
<1>5. ~HelperPrepare(j) /\ ~HelperExtract(j) /\ ~HelperStopApp(j)
  BY <1>2, <1>3 DEF HelperPrepare, HelperExtract, HelperStopApp
<1>6. ~HelperBurn(j) /\ ~HelperProgram(j) /\ ~HelperVerify(j)
  BY <1>2, <1>3 DEF HelperBurn, HelperProgram, HelperVerify
<1>7. ~HelperFailed(j) /\ ~HelperReboot(j)
  BY <1>2, <1>3 DEF HelperFailed, HelperReboot
<1>8. HelperFinish(j) \/ HelperConfirm(j)
  BY <1>1, <1>4, <1>5, <1>6, <1>7
<1>9. helper[j].pc \in DonePcs /\ j \in 1 .. Len(jobs)
  BY <1>8, MoveHelperFinish, MoveHelperConfirm DEF DonePcs
<1>10. Burnt(jobs[j].package) /\ jobs[j].package \in Package
  BY <1>9, UpRequest DEF UpBurnt, UpFrame
<1>11. PICK s : HelperStatus(j, s)
  BY <1>8 DEF HelperFinish, HelperConfirm
<1>12. status'.version = Manifest[jobs[j].package].version
  BY <1>11, HelperClaims DEF HelperStatus, Status
<1> QED BY <1>10, <1>12

LEMMA ClaimsAreTrue ==
  ASSUME UpInv, [Next]_vars, Claims, early = {}
  PROVE  \E p \in Package : Manifest[p].version = status'.version /\ Burnt(p)
<1>1. CASE WorkerStep
  <2>1. WorkerCommit
    BY <1>1, WorkerClaims
  <2>2. worker.pc = "commit" /\ worker.job \in 1 .. Len(jobs)
    BY <2>1, MoveWorkerCommit DEF UpInv
  <2>3. Request.package \in Package /\ Burnt(Request.package)
    BY <2>2, UpRequest DEF UpInv, UpBurnt, UpFrame, Request
  <2>4. status'.version = Manifest[Request.package].version
    <3>1. PICK s : MainStatus(s, Request.package)
      BY <2>1 DEF WorkerCommit
    <3>2. status' = Status(s, Manifest[Request.package].version)
      BY <3>1, MainClaims
    <3> QED BY <3>2 DEF Status
  <2> QED BY <2>3, <2>4
<1>2. CASE HelperStep
  BY <1>2, HelperStepClaims DEF UpInv
<1>3. CASE ApiStep
  BY <1>3, ApiClaims
<1>4. CASE MainExits \/ PowerLoss \/ Boot \/ UNCHANGED vars
  <2>1. status' = status \/ status' = None
    BY <1>4 DEF MainExits, PowerLoss, Boot, vars, StatusAfterLoad
  <2> QED BY <2>1 DEF Claims
<1> QED BY <1>1, <1>2, <1>3, <1>4 DEF Next

LEMMA DowngradesAllowed ==
  ASSUME UpInv, [Next]_vars, running' < running
  PROVE  \E k \in DOMAIN jobs : jobs[k].down /\ jobs[k].package = flash["bin"]
<1>0. running \in Nat /\ jobs \in Seq(Requests)
  BY DEF UpInv, UpFrame, UpShape
<1>1. CASE Boot
  BY <1>0, <1>1, SafeBoot DEF UpInv
<1>2. CASE ~Boot
  <2>1. ASSUME WorkerStep PROVE running' = running
    BY <2>1 DEF WorkerStep, WorkerTake, WorkerValidate, WorkerPolicy, WorkerPreparing, WorkerPrepare,
         WorkerArm, WorkerRecheck, WorkerWriting, WorkerGiveUp, WorkerFailed, WorkerWrite,
         WorkerLaunch, WorkerHandoff, WorkerMark, WorkerExtract, WorkerApply, WorkerBurn,
         WorkerProgram, WorkerVerify, WorkerWritten, WorkerCommit, WorkerFinish, proc
  <2>2. ASSUME ApiStep PROVE running' = running
    BY <2>2, QuietApi DEF UpQuiet, UpInv
  <2>3. ASSUME HelperStep PROVE running' = running
    BY <2>3 DEF HelperStep, HelperRefuse, HelperParse, HelperServe, HelperPrepare, HelperExtract,
         HelperStopApp, HelperBurn, HelperProgram, HelperVerify, HelperFailed, HelperFinish,
         HelperConfirm, HelperReboot, proc
  <2>4. ASSUME MainExits \/ PowerLoss \/ UNCHANGED vars PROVE running' = running
    BY <2>4 DEF MainExits, PowerLoss, vars, proc
  <2>5. running' = running
    BY <1>2, <2>1, <2>2, <2>3, <2>4 DEF Next
  <2> QED BY <1>0, <2>5
<1> QED BY <1>1, <1>2

\* UpgradeHonest, for any packages, requests and bounds: the status file is set to "completed" or
\* "waiting_reboot" only when every partition of a package of that version holds its image
\* (unless a start was accepted while a cancelled upgrade was alive), and the running version
\* goes down only through a request that allowed it, across helpers, reboots and power losses.
THEOREM UpgradeHonestHolds == Spec => UpgradeHonest
<1>1. UpInv /\ [Next]_vars =>
        [(status' # status /\ status' # None
            /\ status'.state \in {"completed", "waiting_reboot"} /\ early = {})
         => \E p \in Package : Manifest[p].version = status'.version /\ Burnt(p)]_vars
  BY ClaimsAreTrue DEF Claims
<1>2. UpInv /\ [Next]_vars =>
        [running' < running =>
           \E k \in DOMAIN jobs : jobs[k].down /\ jobs[k].package = flash["bin"]]_vars
  BY DowngradesAllowed
<1>3. Spec => StatusTruthful
  BY <1>1, UpInvHolds, PTL DEF Spec, StatusTruthful
<1>4. Spec => DowngradeAllowed
  BY <1>2, UpInvHolds, PTL DEF Spec, DowngradeAllowed
<1> QED BY <1>3, <1>4 DEF UpgradeHonest
=============================================================================
