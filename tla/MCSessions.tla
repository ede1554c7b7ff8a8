---------------------------- MODULE MCSessions ----------------------------
(* Small instances of the streaming protocols for TLC: RTSP sessions, WebRTC *)
(* peers, one peer's transport and one peer's RTP sender.  They share no     *)
(* state, so one moves while the others are in their initial states.         *)
EXTENDS RtspServer, WebrtcPeers, WebrtcTransport, RtpSending, TLC

CONSTANTS w1, w2, client1, client2

\* HTTP workers are interchangeable, and so are clients.
SessionSymmetry == Permutations(HttpWorkers) \union Permutations(WebrtcClients)

\* Frames around the fragmentation boundary, with and without bytes that need
\* emulation prevention, and keyframes with parameter sets.
Body(n) == [i \in 1..n |-> 9]
Vps == <<9, 0, 0, 3, 0, 0, 1, 0, 0, 3, 9, 9, 9, 9, 0, 77>>
Slice(header, rbsp, code, zeros) ==
    [header |-> header, rbsp |-> rbsp, code |-> code, zeros |-> zeros]
MCEncodedFrames ==
    UNION {LET P     == IF c = "h264" THEN <<1>> ELSE <<2, 1>>
               IDR   == IF c = "h264" THEN <<5>> ELSE <<38, 1>>
               sets  == IF c = "h264" THEN <<Slice(<<7>>, Body(3), 4, 0), Slice(<<8>>, Body(1), 3, 1)>>
                        ELSE <<Slice(<<64, 1>>, Vps, 4, 0), Slice(<<66, 1>>, Body(2), 4, 1),
                               Slice(<<68, 1>>, Body(1), 4, 0)>>
               again == IF c = "h264" THEN <<Slice(<<7>>, Body(2), 4, 0)>>
                        ELSE <<Slice(<<64, 1>>, Body(2), 4, 0)>>
               tail  == <<Slice(P, Body(1), 4, 0)>>
               idr   == {<<Slice(IDR, r, 3, 0)>> : r \in {Body(4), Body(5), Body(6), Body(8), <<0, 0, 1>>}}
           IN  {[codec |-> c, key |-> TRUE, parts |-> p] :
                    p \in idr \union {<<Slice(IDR, <<9, 0, 0, 0, 3, 0, 0, 9>>, 4, 1)>> \o tail,
                                      sets \o <<Slice(IDR, Body(5), 4, 0)>>,
                                      sets \o again \o tail,
                                      again \o sets}}
               \union {[codec |-> c, key |-> FALSE, parts |-> p] :
                          p \in {tail, <<Slice(P, Body(6), 4, 2)>>, <<>>}}
           : c \in {"h264", "h265"}}

\* Offers: attributes at session level, in the video section or in both, other
\* sections before and after it, codecs in either order.
Line(k, v) == [k |-> k, v |-> v]
Shared(fp, setup) ==
    <<Line("ufrag", "u"), Line("pwd", "p")>>
    \o (IF fp = "" THEN <<>> ELSE <<Line("fingerprint", fp)>>)
    \o (IF setup = "" THEN <<>> ELSE <<Line("setup", setup)>>)
AudioPart ==
    <<Line("m", [media |-> "audio", pts |-> <<0>>]), Line("mid", "a"), Line("fingerprint", "f3")>>
Payload(pt, codec, mode1) ==
    <<Line("rtpmap", [pt |-> pt, codec |-> codec, clock |-> 90000]),
      Line("fmtp", [pt |-> pt, mode1 |-> mode1])>>
CodecLists == {Payload(96, "h264", FALSE) \o Payload(97, "h264", TRUE),
               Payload(97, "h265", FALSE) \o Payload(96, "h264", TRUE)}
VideoPart(fp, codecs) ==
    <<Line("m", [media |-> "video", pts |-> <<96, 97>>]), Line("mid", "v"), Line("mux", "")>>
    \o (IF fp = "" THEN <<>> ELSE <<Line("fingerprint", fp)>>) \o codecs
    \o <<Line("fb", [pt |-> 96, kind |-> "nack pli"]),
         Line("fb", [pt |-> -1, kind |-> "transport-cc"]),
         Line("fb", [pt |-> -1, kind |-> "ccm fir"])>>
MCOffers ==
    {Shared(sf, su) \o VideoPart(vf, c) :
        sf \in {"", "f1"}, su \in {"", "actpass", "passive"}, vf \in {"", "f2", "bad"}, c \in CodecLists}
    \union {Shared("f1", "active") \o AudioPart \o VideoPart(vf, c) : vf \in {"", "f2"}, c \in CodecLists}
    \union {Shared("f1", "active") \o VideoPart("f2", c) \o AudioPart \o VideoPart("f3", c) : c \in CodecLists}
Username(n) == [type |-> "username", name |-> n]
Mi(key, over) == [type |-> "integrity", key |-> key, over |-> over]
Fp(good) == [type |-> "fingerprint", good |-> good]
Use == [type |-> "use"]
MCStun == {[header |-> "request", attrs |-> x] : x \in
   {<<Username("local"), Mi("local", 1), Fp(TRUE)>>, <<Username("local"), Use, Mi("local", 2)>>,
    <<Username("local"), Use, Mi("local", 1)>>, <<Username("other"), Mi("local", 1)>>,
    <<Username("local"), Mi("other", 1)>>, <<Username("local"), Mi("local", 1), Fp(FALSE)>>,
    <<Username("local"), [type |-> "cut"]>>, <<Username("local")>>}}
   \union {[header |-> "response", attrs |-> <<>>]}
Rp(kind, words, fits) == [kind |-> kind, words |-> words, fits |-> fits]
MCRtcp == {[packets |-> p, rest |-> r] : r \in {0, 2},
   p \in {<<Rp("rr", 8, TRUE), Rp("pli", 3, TRUE)>>, <<Rp("nack", 4, TRUE), Rp("fir", 5, TRUE)>>,
      <<Rp("pli", 2, TRUE)>>, <<Rp("pli", 3, TRUE), Rp("cc", 5, FALSE)>>, <<Rp("nack", 4, TRUE)>>}}

SessionsInit == RtspInit /\ WebrtcInit /\ TransportInit /\ RtpSendInit

\* Three RTSP requests with authentication and without Stop(), or two with both;
\* two calls of the WebRTC API at once, or a forgotten DTLS timer of a peer.  Each
\* mixture is explored in full, their product is too large.
RtspScenario == (rtspAuth /\ rtspUp = "on") \/ \A c \in RtspConns : rtspAsked[c] <= 2
PeerScenario ==
    \/ \A p \in WebrtcPeerIds : wrStray[p] = 0
    \/ \E w \in HttpWorkers : IdleThread(w)

SessionsNext ==
    \/ /\ WebrtcInit /\ TransportInit /\ RtpSendInit
       /\ RtspNext /\ RtspScenario'
       /\ UNCHANGED <<wrVars, tpVars, rtpSendVars>>
    \/ /\ RtspInit /\ TransportInit /\ RtpSendInit
       /\ WebrtcNext /\ PeerScenario'
       /\ UNCHANGED <<rtspVars, tpVars, rtpSendVars>>
    \/ /\ RtspInit /\ WebrtcInit /\ RtpSendInit
       /\ TransportNext
       /\ UNCHANGED <<rtspVars, wrVars, rtpSendVars>>
    \/ /\ RtspInit /\ WebrtcInit /\ TransportInit
       /\ RtpSendNext
       /\ UNCHANGED <<rtspVars, wrVars, tpVars>>

SessionsSpec ==
    SessionsInit /\ [][SessionsNext]_<<rtspVars, wrVars, tpVars, rtpSendVars>>
=============================================================================
