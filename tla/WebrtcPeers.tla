---------------------------- MODULE WebrtcPeers ----------------------------
(***************************************************************************)
(* libs/webrtc: peers, their ICE/DTLS session in the peer host, and the    *)
(* media subscription and send timer of a connected peer.                  *)
(*                                                                         *)
(* HTTP workers create, offer and close peers; "cb", the callback loop of  *)
(* socket_io, delivers UDP packets; "net", the IO loop, runs DTLS timeouts *)
(* and send timers; "ctl" starts, stops and reconfigures the service.      *)
(* They share WebrtcImpl::mutex_ and the mutex of the peer host, and hold  *)
(* neither across a call: a thread is the list of critical sections it has *)
(* still to run, each for one peer, and a section may put others in front  *)
(* of the list (a notification of the host calls back into the service).   *)
(***************************************************************************)
EXTENDS Naturals, Sequences, FiniteSets, SequencesExt

CONSTANTS
    HttpWorkers,       \* threads of the HTTP API
    WebrtcPeerIds,     \* 1 .. the number of peers a run creates
    WebrtcClients,     \* client ids; a client's new peer replaces its old ones
    WebrtcMaxPeers,    \* WebrtcOptions::max_peers before a reconfiguration
    MaxWebrtcCalls     \* calls of the API, ApplyOptions and Stop in a run

ASSUME WebrtcLimits == WebrtcMaxPeers > 0

VARIABLES
    wrUp,          \* phase_ = kStarted
    wrMax,         \* options_.max_peers, 0 when the service is disabled
    wrPeer,        \* peer_table_: state and client of a peer
    wrNext,        \* next_peer_id_
    wrQueued,      \* peers with candidates in pending_candidates_
    wrHost,        \* the session in the peer host: how far its transport is
    wrDtls,        \* the timer that dtls_timer_id_ of the transport names is armed
    wrStray,       \* armed DTLS timers that no dtls_timer_id_ names any more
    wrVideo,       \* peer_video_
    wrSubs,        \* subscriptions MediaStreams holds for a peer
    wrSends,       \* send timers the loop holds for a peer
    wrThread,      \* the critical sections each thread has still to run
    wrCalls,       \* calls so far
    wrClosed,      \* history: peers whose ClosePeerByService() has returned
    wrLate,        \* history: peers marked connected after their session had gone
    wrRearmed,     \* history: peers whose DTLS timeout ran after another timer was armed
    wrDropped      \* history: peers erased by a CreatePeer() that then failed

wrVars == <<wrUp, wrMax, wrPeer, wrNext, wrQueued, wrHost, wrDtls, wrStray,
            wrVideo, wrSubs, wrSends, wrThread, wrCalls, wrClosed, wrLate, wrRearmed,
            wrDropped>>
wrTable == <<wrPeer, wrQueued>>
wrSession == <<wrHost, wrDtls, wrStray>>
wrMedia == <<wrVideo, wrSubs, wrSends>>
wrService == <<wrUp, wrMax, wrNext, wrCalls>>
wrHistory == <<wrClosed, wrLate, wrRearmed, wrDropped>>

WebrtcThreads == HttpWorkers \union {"cb", "net", "ctl"}
NoVideo == [open |-> FALSE, timer |-> FALSE, sending |-> FALSE, closing |-> FALSE]
NoPeer == [st |-> "none", client |-> "none"]

WebrtcInit ==
    /\ wrUp = FALSE /\ wrMax = WebrtcMaxPeers
    /\ wrPeer = [p \in WebrtcPeerIds |-> NoPeer]
    /\ wrNext = 1
    /\ wrQueued = {}
    /\ wrHost = [p \in WebrtcPeerIds |-> "none"]
    /\ wrDtls = [p \in WebrtcPeerIds |-> FALSE]
    /\ wrStray = [p \in WebrtcPeerIds |-> 0]
    /\ wrVideo = [p \in WebrtcPeerIds |-> NoVideo]
    /\ wrSubs = [p \in WebrtcPeerIds |-> 0]
    /\ wrSends = [p \in WebrtcPeerIds |-> 0]
    /\ wrThread = [t \in WebrtcThreads |-> <<>>]
    /\ wrCalls = 0
    /\ wrClosed = {} /\ wrLate = {} /\ wrRearmed = {} /\ wrDropped = {}

-----------------------------------------------------------------------------
(* Threads and the peer table *)

\* Peers in the order in which a map of their ids is walked.
InOrder(S) == SetToSortSeq(S, LAMBDA a, b : a < b)
StepFor(s, p) == <<[step |-> s, p |-> p]>>
Steps(names, p) == [i \in 1 .. Len(names) |-> [step |-> names[i], p |-> p]]
StepsForAll(names, S) == FoldSeq(LAMBDA p, acc : acc \o Steps(names, p), <<>>, InOrder(S))

IdleThread(t) == wrThread[t] = <<>>
BusyThreads == {t \in WebrtcThreads : ~IdleThread(t)}
\* Thread t is at step s for peer p.
AtStep(t, s, p) == ~IdleThread(t) /\ Head(wrThread[t]).step = s /\ Head(wrThread[t]).p = p
\* The step is done; those in `more` come first.
Then(t, more) == wrThread' = [wrThread EXCEPT ![t] = more \o Tail(@)]
Begins(t, more) == wrThread' = [wrThread EXCEPT ![t] = more]

\* Threads that have still to run one of the steps in `names` for p.
Ahead(names, p) ==
    {t \in WebrtcThreads : \E i \in 1 .. Len(wrThread[t]) :
        wrThread[t][i].p = p /\ wrThread[t][i].step \in names}

OpenStates == {"created", "offered", "connecting", "connected"}
SetupStates == OpenStates \ {"connected"}
IsOpenPeer(p) == wrPeer[p].st \in OpenStates
InTable(p) == wrPeer[p].st # "none"
ActivePeers(taken) == Cardinality({p \in WebrtcPeerIds : IsOpenPeer(p)} \ taken)
SetPeer(p, st) == wrPeer' = [wrPeer EXCEPT ![p].st = st]
ForgetPeers(S) == wrQueued' = wrQueued \ S

\* A call of the API or of the owner, on an idle thread.
Called(t) == IdleThread(t) /\ wrCalls < MaxWebrtcCalls /\ wrCalls' = wrCalls + 1

\* ClosePeerByService(): the sections after the lookup.
CloseSteps == <<"takeVideo", "hostClose", "applyClosed">>
ClosePeerSteps == <<"markClosing">>

-----------------------------------------------------------------------------
(* Peer table sections *)

\* Closed and failed differ in what they report only.  A peer stays in the
\* table after it is closed.
MarkClosing(t, p) ==
    /\ AtStep(t, "markClosing", p)
    /\ IF InTable(p) THEN SetPeer(p, "closed") /\ Then(t, Steps(CloseSteps, p))
       ELSE UNCHANGED wrPeer /\ Then(t, <<>>)
    /\ UNCHANGED <<wrService, wrQueued, wrSession, wrMedia, wrHistory>>

ApplyClosed(t, p) ==
    /\ AtStep(t, "applyClosed", p)
    /\ wrPeer' = [wrPeer EXCEPT ![p].st = IF InTable(p) THEN "closed" ELSE "none"]
    /\ ForgetPeers({p})
    /\ wrClosed' = wrClosed \union {p}
    /\ Then(t, <<>>)
    /\ UNCHANGED <<wrService, wrSession, wrMedia, wrLate, wrRearmed, wrDropped>>

\* HandlePeerHostPeerStateChanged(closed or failed).
NotifyClosed(t, p) ==
    /\ AtStep(t, "notifyClosed", p)
    /\ wrPeer' = [wrPeer EXCEPT ![p].st = IF InTable(p) THEN "closed" ELSE "none"]
    /\ IF InTable(p) THEN ForgetPeers({p}) ELSE UNCHANGED wrQueued
    /\ Then(t, StepFor("takeVideo", p))
    /\ UNCHANGED <<wrService, wrSession, wrMedia, wrHistory>>

NotifyConnecting(t, p) ==
    /\ AtStep(t, "notifyConnecting", p)
    /\ IF IsOpenPeer(p) /\ wrPeer[p].st # "connected"
       THEN SetPeer(p, "connecting")
       ELSE UNCHANGED wrPeer
    /\ Then(t, <<>>)
    /\ UNCHANGED <<wrService, wrQueued, wrSession, wrMedia, wrHistory>>

\* kConnected is applied to any peer in the table, a closed one included.
NotifyConnected(t, p) ==
    /\ AtStep(t, "notifyConnected", p)
    /\ IF InTable(p) THEN SetPeer(p, "connected") ELSE UNCHANGED wrPeer
    /\ wrLate' = IF wrHost[p] # "secure" \/ ~IsOpenPeer(p) THEN wrLate \union {p} ELSE wrLate
    /\ Then(t, StepFor("openVideo", p))
    /\ UNCHANGED <<wrService, wrQueued, wrSession, wrMedia, wrClosed, wrRearmed, wrDropped>>

RemovePeer(t, p) ==
    /\ AtStep(t, "removePeer", p)
    /\ wrPeer' = [wrPeer EXCEPT ![p] = NoPeer]
    /\ ForgetPeers({p})
    /\ Then(t, <<>>)
    /\ UNCHANGED <<wrService, wrSession, wrMedia, wrHistory>>

-----------------------------------------------------------------------------
(* Peer host: sessions and transports, under the host's mutex *)

\* dtls_timer_id_ = 0, without a cancel: an armed timer has no name any more.
ForgetDtlsTimer(p) ==
    /\ wrDtls' = [wrDtls EXCEPT ![p] = FALSE]
    /\ wrStray' = [wrStray EXCEPT ![p] = IF wrDtls[p] THEN @ + 1 ELSE @]
\* Mutant: the timer is not cancelled.
CancelDtlsTimerNot(p) == UNCHANGED <<wrDtls, wrStray>>
\* WebrtcTransport::Close() and CancelDtlsTimer(): the timer it knows is
\* cancelled, which does nothing to one that has fired.
CancelDtlsTimer(p) == wrDtls' = [wrDtls EXCEPT ![p] = FALSE] /\ UNCHANGED wrStray
\* Bound on the timers of a peer that are armed at once.
MaxDtlsTimers == 2
\* StartDtlsTimer() cancels the timer it knows first.
StartDtlsTimer(p) == wrDtls' = [wrDtls EXCEPT ![p] = TRUE] /\ UNCHANGED wrStray
TimersBounded(p) == wrStray[p] + 1 < MaxDtlsTimers \/ ~wrDtls[p]
\* The same when the id was set to 0 before.
StartNextDtlsTimer(p) ==
    /\ wrDtls' = [wrDtls EXCEPT ![p] = TRUE]
    /\ wrStray' = [wrStray EXCEPT ![p] = IF wrDtls[p] THEN @ + 1 ELSE @]

SetHost(p, h) == wrHost' = [wrHost EXCEPT ![p] = h]
\* What follows once a session has left the host.
SessionLost(p) == StepFor("notifyClosed", p)

FailSession(t, p) ==
    /\ SetHost(p, "none") /\ CancelDtlsTimer(p)
    /\ Then(t, SessionLost(p))

HostClose(t, p) ==
    /\ AtStep(t, "hostClose", p)
    /\ IF wrHost[p] = "none" THEN UNCHANGED wrSession /\ Then(t, <<>>) ELSE FailSession(t, p)
    /\ UNCHANGED <<wrService, wrTable, wrMedia, wrHistory>>

\* The host refuses a peer whose codec it does not send or whose id it has;
\* the service then only takes it out of its table.
HostCreate(t, p) ==
    /\ AtStep(t, "hostCreate", p)
    /\ \/ SetHost(p, "new") /\ Then(t, StepFor("confirm", p))
       \/ UNCHANGED wrHost /\ Then(t, StepFor("removePeer", p))
    /\ UNCHANGED <<wrService, wrTable, wrDtls, wrStray, wrMedia, wrHistory>>

\* A new transport replaces the session's old one; it fails on a bad SDP or
\* when no UDP port is free, and the old transport stays.
HostOffer(t, p) ==
    /\ AtStep(t, "hostOffer", p)
    /\ \/ /\ wrHost[p] # "none"
          /\ SetHost(p, "sdp") /\ CancelDtlsTimer(p)
          /\ wrLate' = IF wrPeer[p].st = "connected" THEN wrLate \union {p} ELSE wrLate
          /\ Then(t, StepFor("notifyConnecting", p) \o StepFor("completeOffer", p))
       \/ /\ UNCHANGED <<wrSession, wrLate>>
          /\ Then(t, Steps(ClosePeerSteps, p))
    /\ UNCHANGED <<wrService, wrTable, wrMedia, wrClosed, wrRearmed, wrDropped>>

\* An authenticated STUN request selects the pair.
IcePacket(p) ==
    /\ IdleThread("cb")
    /\ wrHost[p] = "sdp"
    /\ SetHost(p, "ice")
    /\ Begins("cb", StepFor("notifyConnecting", p))
    /\ UNCHANGED <<wrService, wrTable, wrDtls, wrStray, wrMedia, wrHistory>>

\* The handshake goes on; or it ends with the fingerprint of the offer and
\* SRTP starts; or it fails.  A connected session fails on an alert.
DtlsPacket(p) ==
    /\ IdleThread("cb")
    /\ \/ /\ wrHost[p] = "ice"
          /\ StartDtlsTimer(p)
          /\ UNCHANGED <<wrHost, wrThread>>
       \/ /\ wrHost[p] = "ice"
          /\ SetHost(p, "secure") /\ CancelDtlsTimer(p)
          /\ Begins("cb", StepFor("notifyConnected", p))
       \/ /\ wrHost[p] \in {"ice", "secure"}
          /\ SetHost(p, "none") /\ CancelDtlsTimer(p)
          /\ Begins("cb", SessionLost(p))
    /\ UNCHANGED <<wrService, wrTable, wrMedia, wrHistory>>

DtlsTimerFires(p) ==
    /\ IdleThread("net")
    /\ \/ wrDtls[p] /\ wrDtls' = [wrDtls EXCEPT ![p] = FALSE] /\ UNCHANGED wrStray
       \/ wrStray[p] > 0 /\ wrStray' = [wrStray EXCEPT ![p] = @ - 1] /\ UNCHANGED wrDtls
    /\ Begins("net", StepFor("dtlsTimeout", p))
    /\ UNCHANGED <<wrService, wrTable, wrHost, wrMedia, wrHistory>>

\* The id was set for the timer that fired, or for another by now: it is
\* set to 0 whichever it was.  OpenSSL sends its flight again and may have
\* another timeout, or finds the handshake finished.  It may give up, and a
\* transport that is not in its handshake any more fails.
HandleDtlsTimeout(t, p) ==
    /\ AtStep(t, "dtlsTimeout", p)
    /\ \/ /\ wrHost[p] = "none"
          /\ Then(t, <<>>) /\ UNCHANGED wrSession
       \/ /\ wrHost[p] \in {"sdp", "ice"} /\ TimersBounded(p)
          /\ StartNextDtlsTimer(p) \/ ForgetDtlsTimer(p)
          /\ Then(t, <<>>) /\ UNCHANGED wrHost
       \/ /\ wrHost[p] = "ice" /\ TimersBounded(p)
          /\ SetHost(p, "secure")
          /\ ForgetDtlsTimer(p)
          /\ Then(t, StepFor("notifyConnected", p))
       \/ /\ wrHost[p] # "none"
          /\ SetHost(p, "none")
          /\ ForgetDtlsTimer(p)
          /\ Then(t, SessionLost(p))
    /\ wrRearmed' = IF wrDtls[p] THEN wrRearmed \union {p} ELSE wrRearmed
    /\ UNCHANGED <<wrService, wrTable, wrMedia, wrClosed, wrLate, wrDropped>>

-----------------------------------------------------------------------------
(* Video of a connected peer *)

SetVideo(p, v) == wrVideo' = [wrVideo EXCEPT ![p] = v]
More(f, p) == [f EXCEPT ![p] = @ + 1]
Less(f, p) == [f EXCEPT ![p] = @ - 1]

OpenPeerVideo(t, p) ==
    /\ AtStep(t, "openVideo", p)
    /\ Then(t, CASE wrPeer[p].st # "connected" -> Steps(ClosePeerSteps, p)
                 [] wrPeer[p].st = "connected" /\ wrVideo[p].open -> <<>>
                 [] OTHER -> StepFor("subscribe", p))
    /\ UNCHANGED <<wrService, wrTable, wrSession, wrMedia, wrHistory>>

\* Fails when there are too many subscribers or no track.
SubscribeVideo(t, p) ==
    /\ AtStep(t, "subscribe", p)
    /\ \/ wrSubs' = More(wrSubs, p) /\ Then(t, StepFor("insertVideo", p))
       \/ UNCHANGED wrSubs /\ Then(t, Steps(ClosePeerSteps, p))
    /\ UNCHANGED <<wrService, wrTable, wrSession, wrVideo, wrSends, wrHistory>>

\* Mutant: the subscription is stored whatever became of the peer.
StillWantedAlways(p) == ~wrVideo[p].open
StillWanted(p) == wrPeer[p].st = "connected" /\ ~wrVideo[p].open
Unwanted(p) == Less(wrSubs, p)
InsertVideo(t, p) ==
    /\ AtStep(t, "insertVideo", p)
    /\ IF StillWanted(p)
       THEN /\ SetVideo(p, [NoVideo EXCEPT !.open = TRUE])
            /\ UNCHANGED wrSubs
            /\ Then(t, Steps(<<"startTimer", "beginSend">>, p))
       ELSE /\ wrSubs' = Unwanted(p)
            /\ UNCHANGED wrVideo
            /\ Then(t, Steps(ClosePeerSteps, p))
    /\ UNCHANGED <<wrService, wrTable, wrSession, wrSends, wrHistory>>

StartPeerSendTimer(t, p) ==
    /\ AtStep(t, "startTimer", p)
    /\ \/ wrSends' = More(wrSends, p) /\ Then(t, StepFor("keepTimer", p))
       \/ UNCHANGED wrSends /\ Then(t, StepFor("takeVideo", p))
    /\ UNCHANGED <<wrService, wrTable, wrSession, wrVideo, wrSubs, wrHistory>>

Keeps(p) == wrVideo[p].open /\ ~wrVideo[p].closing /\ ~wrVideo[p].timer
KeepTimer(t, p) ==
    /\ AtStep(t, "keepTimer", p)
    /\ IF Keeps(p) THEN SetVideo(p, [wrVideo[p] EXCEPT !.timer = wrVideo[p].open])
                        /\ UNCHANGED wrSends
       ELSE wrSends' = Less(wrSends, p) /\ UNCHANGED wrVideo
    /\ Then(t, <<>>)
    /\ UNCHANGED <<wrService, wrTable, wrSession, wrSubs, wrHistory>>

\* The periodic timer; the callback guard is open until Release().
SendTimerFires(p) ==
    /\ IdleThread("net")
    /\ wrSends[p] > 0
    /\ Begins("net", StepFor("beginSend", p))
    /\ UNCHANGED <<wrService, wrTable, wrSession, wrMedia, wrHistory>>

MaySend(p) ==
    /\ wrVideo[p].open /\ ~wrVideo[p].sending /\ ~wrVideo[p].closing
    /\ wrPeer[p].st = "connected"
BeginPeerSend(t, p) ==
    /\ AtStep(t, "beginSend", p)
    /\ IF MaySend(p)
       THEN SetVideo(p, [wrVideo[p] EXCEPT !.sending = TRUE]) /\ Then(t, StepFor("endSend", p))
       ELSE UNCHANGED wrVideo /\ Then(t, <<>>)
    /\ UNCHANGED <<wrService, wrTable, wrSession, wrSubs, wrSends, wrHistory>>

\* Frames go out between the two; SendPeerFrame() looks at the entry again.
EndPeerSend(t, p) ==
    /\ AtStep(t, "endSend", p)
    /\ SetVideo(p, [wrVideo[p] EXCEPT !.sending = FALSE])
    /\ Then(t, <<>>)
    /\ UNCHANGED <<wrService, wrTable, wrSession, wrSubs, wrSends, wrHistory>>

TakePeerVideo(t, p) ==
    /\ AtStep(t, "takeVideo", p)
    /\ IF wrVideo[p].open
       THEN SetVideo(p, [wrVideo[p] EXCEPT !.closing = TRUE]) /\ Then(t, StepFor("waitVideo", p))
       ELSE UNCHANGED wrVideo /\ Then(t, <<>>)
    /\ UNCHANGED <<wrService, wrTable, wrSession, wrSubs, wrSends, wrHistory>>

\* The condition variable: the sender must be out.
Drained(p) == ~wrVideo[p].sending
DropSteps(p) ==
    (IF wrVideo[p].timer THEN StepFor("dropTimer", p) ELSE <<>>) \o StepFor("dropSub", p)
WaitVideo(t, p) ==
    /\ AtStep(t, "waitVideo", p)
    /\ Drained(p)
    /\ IF wrVideo[p].open
       THEN SetVideo(p, NoVideo) /\ Then(t, DropSteps(p))
       ELSE UNCHANGED wrVideo /\ Then(t, <<>>)
    /\ UNCHANGED <<wrService, wrTable, wrSession, wrSubs, wrSends, wrHistory>>

ReleaseClosedPeerVideo(t, p) ==
    /\ \/ /\ AtStep(t, "dropTimer", p)
          /\ wrSends' = Less(wrSends, p) /\ UNCHANGED wrSubs
       \/ /\ AtStep(t, "dropSub", p)
          /\ wrSubs' = Less(wrSubs, p) /\ UNCHANGED wrSends
    /\ Then(t, <<>>)
    /\ UNCHANGED <<wrService, wrTable, wrSession, wrVideo, wrHistory>>

-----------------------------------------------------------------------------
(* The API, on HTTP workers *)

\* CreatePeer(): first the peers whose setup takes too long are closed.
\* Any of them may be stale: the model has no clock, and enough time may have
\* passed since a peer was last touched.
SetupPeers == {p \in WebrtcPeerIds : wrPeer[p].st \in SetupStates}
StaleSetup == SUBSET SetupPeers
ReserveFor(c) == <<[step |-> "reserve", p |-> 0, client |-> c]>>
CreatePeer(w, c) ==
    /\ Called(w)
    /\ wrUp
    /\ \E stale \in StaleSetup : Begins(w, StepsForAll(ClosePeerSteps, stale) \o ReserveFor(c))
    /\ UNCHANGED <<wrUp, wrMax, wrNext, wrTable, wrSession, wrMedia, wrHistory>>

\* The client's peers leave the table before the limit is looked at.
Reserve(w, c) ==
    LET old == {p \in WebrtcPeerIds : wrPeer[p].client = c}
        table == [p \in WebrtcPeerIds |-> IF p \in old THEN NoPeer ELSE wrPeer[p]]
    IN  /\ ~IdleThread(w) /\ <<Head(wrThread[w])>> = ReserveFor(c)
        /\ wrNext \in WebrtcPeerIds
        /\ IF ~wrUp \/ wrMax = 0
           THEN Then(w, <<>>) /\ UNCHANGED <<wrNext, wrTable, wrDropped>>
           ELSE /\ ForgetPeers(old)
                /\ IF ActivePeers(old) >= wrMax
                   THEN /\ wrPeer' = table
                        /\ wrDropped' = wrDropped \union old
                        /\ Then(w, <<>>) /\ UNCHANGED wrNext
                   ELSE /\ wrPeer' = [table EXCEPT ![wrNext] = [st |-> "created", client |-> c]]
                        /\ wrNext' = wrNext + 1
                        /\ Then(w, StepsForAll(<<"takeVideo", "hostClose">>, old)
                                   \o StepFor("hostCreate", wrNext))
                        /\ UNCHANGED wrDropped
        /\ UNCHANGED <<wrUp, wrMax, wrCalls, wrSession, wrMedia, wrClosed, wrLate, wrRearmed>>

\* The service may have stopped, or the peer gone, in the meantime.
Interrupted(p) == ~wrUp \/ ~IsOpenPeer(p)
ConfirmPeer(w, p) ==
    /\ AtStep(w, "confirm", p)
    /\ Then(w, IF Interrupted(p) THEN Steps(<<"hostClose", "removePeer">>, p) ELSE <<>>)
    /\ UNCHANGED <<wrService, wrTable, wrSession, wrMedia, wrHistory>>

\* A client learns the id of its peer from the answer of CreatePeer().
Published(p) == Ahead({"hostCreate", "confirm", "removePeer"}, p) = {}

HandleOffer(w, p) ==
    /\ Called(w)
    /\ Published(p)
    /\ wrUp /\ IsOpenPeer(p)
    /\ SetPeer(p, "offered")
    /\ Begins(w, StepFor("hostOffer", p))
    /\ UNCHANGED <<wrUp, wrMax, wrNext, wrQueued, wrSession, wrMedia, wrHistory>>

\* A peer that was closed meanwhile is connecting again.
CompleteOffer(w, p) ==
    /\ AtStep(w, "completeOffer", p)
    /\ IF InTable(p)
       THEN /\ SetPeer(p, IF wrPeer[p].st = "connected" THEN "connected" ELSE "connecting")
            /\ ForgetPeers({p})
            /\ wrClosed' = wrClosed \ {p}
            /\ Then(w, <<>>)
       ELSE /\ UNCHANGED <<wrTable, wrClosed>>
            /\ Then(w, StepFor("hostClose", p))
    /\ UNCHANGED <<wrService, wrSession, wrMedia, wrLate, wrRearmed, wrDropped>>

QueueStates == {"created", "offered"}
AddIceCandidate(w, p) ==
    /\ Called(w)
    /\ Published(p)
    /\ wrUp /\ IsOpenPeer(p)
    /\ wrQueued' = IF wrPeer[p].st \in QueueStates THEN wrQueued \union {p} ELSE wrQueued
    /\ UNCHANGED <<wrUp, wrMax, wrNext, wrPeer, wrSession, wrMedia, wrThread, wrHistory>>

ClosePeer(w, p) ==
    /\ Called(w)
    /\ Published(p)
    /\ InTable(p)
    /\ Begins(w, Steps(ClosePeerSteps, p))
    /\ UNCHANGED <<wrUp, wrMax, wrNext, wrTable, wrSession, wrMedia, wrHistory>>

-----------------------------------------------------------------------------
(* Start, stop and options, on the control thread *)

StartWebrtc ==
    /\ IdleThread("ctl")
    /\ ~wrUp
    /\ wrUp' = TRUE
    /\ UNCHANGED <<wrMax, wrNext, wrCalls, wrTable, wrSession, wrMedia, wrThread, wrHistory>>

StopWebrtc ==
    LET ids == {p \in WebrtcPeerIds : InTable(p)}
    IN  /\ Called("ctl")
        /\ wrUp
        /\ wrUp' = FALSE
        /\ wrPeer' = [p \in WebrtcPeerIds |->
                        IF p \in ids THEN [wrPeer[p] EXCEPT !.st = "closed"] ELSE wrPeer[p]]
        /\ wrQueued' = {}
        /\ Begins("ctl", StepFor("closeAll", 0) \o StepsForAll(<<"hostClose">>, ids)
                         \o StepFor("hostStop", 0) \o StepFor("clearTable", 0))
        /\ UNCHANGED <<wrMax, wrNext, wrSession, wrMedia, wrHistory>>

CloseAllPeerVideo ==
    \/ /\ AtStep("ctl", "closeAll", 0)
       /\ wrVideo' = [p \in WebrtcPeerIds |-> [wrVideo[p] EXCEPT !.closing = wrVideo[p].open]]
       /\ Then("ctl", StepFor("waitAll", 0))
       /\ UNCHANGED <<wrService, wrTable, wrSession, wrSubs, wrSends, wrHistory>>
    \/ LET open == {p \in WebrtcPeerIds : wrVideo[p].open}
       IN  /\ AtStep("ctl", "waitAll", 0)
           /\ \A p \in open : Drained(p)
           /\ wrVideo' = [p \in WebrtcPeerIds |-> NoVideo]
           /\ Then("ctl", FoldSeq(LAMBDA p, acc : acc \o DropSteps(p), <<>>, InOrder(open)))
           /\ UNCHANGED <<wrService, wrTable, wrSession, wrSubs, wrSends, wrHistory>>

HostStop ==
    /\ AtStep("ctl", "hostStop", 0)
    /\ wrHost' = [p \in WebrtcPeerIds |-> "none"]
    /\ wrDtls' = [p \in WebrtcPeerIds |-> FALSE] /\ UNCHANGED wrStray
    /\ Then("ctl", <<>>)
    /\ UNCHANGED <<wrService, wrTable, wrMedia, wrHistory>>

ClearPeers ==
    /\ AtStep("ctl", "clearTable", 0)
    /\ wrPeer' = [p \in WebrtcPeerIds |-> NoPeer]
    /\ ForgetPeers(WebrtcPeerIds)
    /\ Then("ctl", <<>>)
    /\ UNCHANGED <<wrService, wrSession, wrMedia, wrHistory>>

\* max_peers of 0 stands for a disabled service: its peers are closed.
ApplyWebrtcOptions(max) ==
    /\ Called("ctl")
    /\ wrMax # max
    /\ wrMax' = max
    /\ Begins("ctl", IF max > 0 THEN <<>>
                     ELSE StepsForAll(ClosePeerSteps, {p \in WebrtcPeerIds : IsOpenPeer(p)}))
    /\ UNCHANGED <<wrUp, wrNext, wrTable, wrSession, wrMedia, wrHistory>>

-----------------------------------------------------------------------------
WebrtcNext ==
    \/ StartWebrtc \/ StopWebrtc \/ CloseAllPeerVideo \/ HostStop \/ ClearPeers
    \/ \E max \in {0, 1, WebrtcMaxPeers} : ApplyWebrtcOptions(max)
    \/ \E p \in WebrtcPeerIds :
        \/ IcePacket(p) \/ DtlsPacket(p) \/ DtlsTimerFires(p) \/ SendTimerFires(p)
        \/ \E w \in HttpWorkers : HandleOffer(w, p) \/ AddIceCandidate(w, p) \/ ClosePeer(w, p)
    \/ \E t \in BusyThreads : \E p \in WebrtcPeerIds \cap {Head(wrThread[t]).p} :
        \/ HostCreate(t, p) \/ ConfirmPeer(t, p) \/ RemovePeer(t, p) \/ HostOffer(t, p)
        \/ CompleteOffer(t, p) \/ HandleDtlsTimeout(t, p)
        \/ MarkClosing(t, p) \/ ApplyClosed(t, p) \/ NotifyClosed(t, p) \/ HostClose(t, p)
        \/ NotifyConnecting(t, p) \/ NotifyConnected(t, p)
        \/ OpenPeerVideo(t, p) \/ SubscribeVideo(t, p) \/ InsertVideo(t, p)
        \/ StartPeerSendTimer(t, p) \/ KeepTimer(t, p) \/ BeginPeerSend(t, p)
        \/ EndPeerSend(t, p) \/ TakePeerVideo(t, p) \/ WaitVideo(t, p)
        \/ ReleaseClosedPeerVideo(t, p)
    \/ \E w \in HttpWorkers, c \in WebrtcClients : CreatePeer(w, c) \/ Reserve(w, c)

WebrtcSpec == WebrtcInit /\ [][WebrtcNext]_wrVars

-----------------------------------------------------------------------------
(* Properties *)

Busy(p) == \E t \in WebrtcThreads : \E i \in 1 .. Len(wrThread[t]) :
    wrThread[t][i].p = p \/ wrThread[t][i].step = "hostStop"
Known(t, b) == IF b THEN t ELSE 0

\* The tables and the counters have their types; a counter is never driven
\* below zero, which a second cancel of one timer or subscription would do.
WebrtcTypeOK ==
    /\ wrUp \in BOOLEAN /\ wrMax \in Nat /\ wrNext \in Nat /\ wrCalls \in 0 .. MaxWebrtcCalls
    /\ wrPeer \in [WebrtcPeerIds -> [st : OpenStates \union {"none", "closed"},
                                     client : WebrtcClients \union {"none"}]]
    /\ wrHost \in [WebrtcPeerIds -> {"none", "new", "sdp", "ice", "secure"}]
    /\ wrDtls \in [WebrtcPeerIds -> BOOLEAN] /\ wrStray \in [WebrtcPeerIds -> 0 .. MaxDtlsTimers]
    /\ wrVideo \in [WebrtcPeerIds -> [open : BOOLEAN, timer : BOOLEAN, sending : BOOLEAN,
                                      closing : BOOLEAN]]
    /\ wrSubs \in [WebrtcPeerIds -> Nat] /\ wrSends \in [WebrtcPeerIds -> Nat]
    /\ (wrQueued \union wrClosed \union wrLate
        \union wrRearmed \union wrDropped)
          \subseteq WebrtcPeerIds

\* However opening a peer's video races with closing it, each subscription
\* is either the one of the peer's entry or in the hands of the one thread
\* that will store or close it (OpenPeerVideo, ReleaseClosedPeerVideo).
VideoSubscriptionsOwned ==
    \A p \in WebrtcPeerIds :
        wrSubs[p] = Known(1, wrVideo[p].open) + Cardinality(Ahead({"insertVideo", "dropSub"}, p))

\* The same of the send timers (StartPeerSendTimer): a timer that lost the
\* race against the closing of the video does not go on firing.
SendTimersKept ==
    \A p \in WebrtcPeerIds :
        wrSends[p] = Known(1, wrVideo[p].timer) + Cardinality(Ahead({"keepTimer", "dropTimer"}, p))

\* Frames of a peer are sent by one thread at a time, and its video is not
\* released while that thread is at work (video_condition_).
SendersExclusive ==
    \A p \in WebrtcPeerIds :
        Cardinality(Ahead({"endSend"}, p)) = Known(1, wrVideo[p].open /\ wrVideo[p].sending)

\* A session of the peer host belongs to an open peer of the table, or a
\* thread is about to close it: a session nobody knows would keep its UDP
\* port until Stop().  It does for a peer that CreatePeer() took out of the
\* table before it failed on the limit: its session is closed by nobody, and
\* such peers are excepted (wrDropped).
SessionsKnown ==
    \A p \in WebrtcPeerIds :
        wrHost[p] # "none" /\ p \notin wrDropped =>
            IsOpenPeer(p) \/ Ahead({"hostClose", "confirm", "notifyClosed", "markClosing"}, p) # {}
                          \/ Ahead({"hostStop"}, 0) # {}

\* A peer shown as connected has a transport whose handshake ended, or a
\* thread is about to change the one or the other; except when a
\* notification came after the session it spoke of.
ConnectedIsSecure ==
    \A p \in WebrtcPeerIds :
        wrPeer[p].st = "connected" /\ p \notin wrLate =>
            wrHost[p] = "secure" \/ Ahead({"notifyClosed", "hostClose", "clearTable"}, p) # {}
                                 \/ Ahead({"clearTable"}, 0) # {}

\* The DTLS timer a transport knows is armed only while its handshake is
\* under way: whatever packet, timeout, offer, close or Stop() ends the
\* handshake cancels it.  So a timeout that meets a connected session, and
\* fails it ("dtls_not_running"), is one of two: its timer had fired before
\* the handshake ended, and the timeout then waited for the mutex; or the
\* timer was forgotten.  Both happen.  A timer is forgotten only by a timeout
\* that waited while a packet armed the next one: HandleDtlsTimeout() sets
\* dtls_timer_id_ to 0 whichever timer it names (wrRearmed).
DtlsTimersKnown ==
    \A p \in WebrtcPeerIds :
        /\ wrDtls[p] => wrHost[p] \in {"sdp", "ice"}
        /\ wrStray[p] > 0 => p \in wrRearmed

\* Once ClosePeerByService() has returned and no thread is busy with the
\* peer, its subscription, timers and session are gone; with the exception
\* of ConnectedIsSecure.
ClosedReleases ==
    \A p \in wrClosed \ wrLate :
        ~Busy(p) => wrSubs[p] = 0 /\ wrSends[p] = 0 /\ wrHost[p] = "none"

\* A candidate is queued only until an offer is answered: one that is queued
\* is either ahead of an offer or will be taken by the one in progress.
CandidatesDelivered ==
    \A p \in wrQueued : wrPeer[p].st \in {"created", "offered"} \/ Busy(p)

\* However creating, answering, sending and closing a peer race: its video
\* subscription, timer and session belong to the peer or to the one thread that
\* will release them, one thread sends at a time, and a closed peer holds nothing.
PeerResourcesOwned ==
    /\ WebrtcTypeOK /\ VideoSubscriptionsOwned /\ SendTimersKept
    /\ SendersExclusive /\ SessionsKnown /\ ClosedReleases

\* What the service says of a peer is true of its transport, however packets,
\* timeouts, offers and closes interleave: connected means the handshake ended,
\* the timer a transport knows ends with its handshake, and no candidate is
\* forgotten in the queue.
PeerStateTruthful ==
    /\ ConnectedIsSecure /\ DtlsTimersKnown /\ CandidatesDelivered
=============================================================================
