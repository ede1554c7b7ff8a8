--------------------------- MODULE WebrtcTransport ---------------------------
(* One WebRTC session below the peer table: the offer and the answer         *)
(* (webrtc_sdp.cpp, webrtc_session.cpp), the UDP port, the ICE checks        *)
(* (stun_packet.cpp, ice_transport.cpp), the DTLS handshake                  *)
(* (dtls_transport.cpp) and the protected RTCP (srtp_session.cpp).           *)
(*                                                                           *)
(* An offer is the sequence of its lines, a line [k, v] its key and value;   *)
(* a STUN request is its sequence of attributes, a compound RTCP packet the  *)
(* sequence of its packets.  OpenSSL and libsrtp are external: what they     *)
(* return is chosen, a digest is known by what it was computed over.         *)
EXTENDS Integers, Sequences, FiniteSets
LOCAL INSTANCE SequencesExt
LOCAL INSTANCE FiniteSetsExt

CONSTANTS
    Offers,          \* offers clients send: sequences of lines
    StunRequests,    \* STUN packets that arrive: [header, attrs]
    RtcpCompounds,   \* decrypted RTCP packets: [packets, rest]
    RemoteAddresses, \* addresses packets come from
    Certificates,    \* fingerprints of the certificates clients hold
    PortSpan,        \* max_peers: ports the sessions share
    MaxTransportSteps \* bound: inputs a session handles

VARIABLES
    tpCodec,    \* codec of the peer's stream
    tpBusy,     \* ports of the range other sockets hold
    tpNext,     \* next_port_offset
    tpSession,  \* what the accepted offer set up; NoSession before
    tpRtcp,     \* last compound packet and whether it asked for a keyframe
    tpSteps

tpVars == <<tpCodec, tpBusy, tpNext, tpSession, tpRtcp, tpSteps>>

LocalCodecs == {"h264", "h265"}

NoSession ==
    [offer |-> <<>>, answer |-> <<>>, port |-> -1, pair |-> "none", nominated |-> FALSE,
     request |-> <<>>, dtls |-> "new", expected |-> "", cert |-> "", srtp |-> FALSE]
-----------------------------------------------------------------------------
(* The offer.                                                                *)

SharedKeys == {"ufrag", "pwd", "fingerprint", "setup"}

EmptyOffer ==
    [ok |-> TRUE, section |-> "session", saw |-> FALSE, pts |-> <<>>,
     session |-> [k \in SharedKeys |-> ""], video |-> [k \in SharedKeys |-> ""],
     mid |-> FALSE, mux |-> FALSE, rtpmap |-> <<>>, fmtp |-> <<>>, fb |-> {}]

\* Mutant: attributes of every media section count as the video section's.
MediaLineAll(acc, v) ==
    LET video == v.media = "video" /\ ~acc.saw
    IN  [acc EXCEPT !.section = "video", !.saw = @ \/ video,
                    !.pts = IF video THEN v.pts ELSE @, !.ok = @ /\ (video => v.pts # <<>>)]

\* m=: only the first video section is read.
MediaLine(acc, v) ==
    LET video == v.media = "video" /\ ~acc.saw
    IN  [acc EXCEPT !.section = IF video THEN "video" ELSE "other", !.saw = @ \/ video,
                    !.pts = IF video THEN v.pts ELSE @, !.ok = @ /\ (video => v.pts # <<>>)]

SharedLine(acc, k, v) ==
    [acc EXCEPT !.ok = @ /\ ~(k = "fingerprint" /\ v = "bad"),
                !.video[k]   = IF acc.section = "video" THEN v ELSE @,
                !.session[k] = IF acc.section = "session" THEN v ELSE @]

Offered(acc, pt) == \E i \in 1..Len(acc.pts) : acc.pts[i] = pt

\* Lines that only the video section may have; the last one for a payload wins.
VideoLine(acc, k, v) ==
    CASE acc.section # "video" -> acc
      [] k = "mid"    -> [acc EXCEPT !.mid = TRUE]
      [] k = "mux"    -> [acc EXCEPT !.mux = TRUE]
      [] k = "rtpmap" -> [acc EXCEPT !.rtpmap = IF Offered(acc, v.pt) THEN Append(@, v) ELSE @]
      [] k = "fmtp"   -> [acc EXCEPT !.fmtp = IF Offered(acc, v.pt) THEN Append(@, v) ELSE @]
      [] k = "fb"     -> [acc EXCEPT !.fb =
                             IF v.pt = -1 \/ Offered(acc, v.pt) THEN @ \union {v} ELSE @]

ParseLine(acc, line) ==
    CASE ~acc.ok -> acc
      [] line.k = "m" -> MediaLine(acc, line.v)
      [] line.k \in SharedKeys -> SharedLine(acc, line.k, line.v)
      [] OTHER -> VideoLine(acc, line.k, line.v)

LastFor(entries, pt, default) ==
    LET hits == {i \in 1..Len(entries) : entries[i].pt = pt}
    IN  IF hits = {} THEN default ELSE entries[Max(hits)]

\* A payload type of the stream's codec; H.264 needs packetization-mode=1.
Usable(acc, pt, codec) ==
    LET map == LastFor(acc.rtpmap, pt, [codec |-> "none", clock |-> 0])
    IN  /\ map.codec = codec /\ map.clock = 90000
        /\ codec = "h264" => LastFor(acc.fmtp, pt, [mode1 |-> FALSE]).mode1

SupportedFeedback == {"nack pli", "ccm fir"}

FeedbackFor(acc, pt) == {f.kind : f \in {g \in acc.fb : g.pt \in {-1, pt}}} \cap SupportedFeedback

\* The first usable payload type in the order of the m= line.
SelectCodec(acc, codec) ==
    LET usable == {i \in 1..Len(acc.pts) : Usable(acc, acc.pts[i], codec)}
    IN  IF usable = {} THEN <<>>
        ELSE LET pt == acc.pts[Min(usable)]
             IN  <<[pt |-> pt, codec |-> codec, fb |-> FeedbackFor(acc, pt)]>>

\* The video section's value, else the session's.
Value(acc, k) == IF acc.video[k] # "" THEN acc.video[k] ELSE acc.session[k]

ParseWebrtcOffer(lines, codec) ==
    LET acc == FoldLeft(ParseLine, EmptyOffer, lines)
        sel == SelectCodec(acc, codec)
    IN  [ok |-> /\ acc.ok /\ acc.saw /\ acc.mid /\ acc.mux /\ sel # <<>>
                /\ \A k \in SharedKeys : Value(acc, k) # "",
         values |-> [k \in SharedKeys |-> Value(acc, k)], codec |-> sel]

\* What each offer says, for each codec: computed once.
ParsedOffers == [o \in Offers, c \in LocalCodecs |-> ParseWebrtcOffer(o, c)]

\* ParseRemoteFingerprint reads the offer again, as H.264 and then as H.265.
RemoteFingerprint(offer) ==
    IF ParsedOffers[offer, "h264"].ok THEN ParsedOffers[offer, "h264"].values["fingerprint"]
                                      ELSE ParsedOffers[offer, "h265"].values["fingerprint"]

\* The camera is the DTLS server: it refuses a passive offerer.
AnswerSetupRole(setup) == IF setup \in {"actpass", "active"} THEN "passive" ELSE ""

BuildWebrtcAnswer(parsed, port) ==
    IF AnswerSetupRole(parsed.values["setup"]) = "" THEN <<>>
    ELSE <<[codec |-> parsed.codec[1], port |-> port,
            setup |-> AnswerSetupRole(parsed.values["setup"])]>>
-----------------------------------------------------------------------------
(* Starting the transport.                                                   *)

\* Offsets tried, in the order next_port_offset, next_port_offset + 1, ...
ScanOffsets == 0..(PortSpan - 1)

\* The first port of the range that can be bound, starting at next_port_offset.
StartIceTransport ==
    LET free == {i \in ScanOffsets : (tpNext + i) % PortSpan \notin tpBusy}
    IN  IF free = {} THEN -1 ELSE (tpNext + Min(free)) % PortSpan

NextOffset(port) == (port + 1) % PortSpan

\* HandleOffer: nothing of the session changes unless an answer can be built.
HandleSdpOffer(offer, starts) ==
    LET parsed   == ParsedOffers[offer, tpCodec]
        expected == RemoteFingerprint(offer)
        port     == StartIceTransport
        answer   == BuildWebrtcAnswer(parsed, port)
        ok       == parsed.ok /\ expected # "" /\ starts /\ port # -1 /\ answer # <<>>
    IN  /\ tpCodec # "none"
        /\ tpSteps' = tpSteps + 1
        /\ IF ok
           THEN /\ tpSession' = [NoSession EXCEPT !.offer = offer, !.answer = answer,
                                    !.port = port, !.dtls = "connecting", !.expected = expected]
                /\ tpNext' = NextOffset(port)
                /\ tpBusy' = (tpBusy \ {tpSession.port}) \union {port}
           ELSE UNCHANGED <<tpSession, tpNext, tpBusy>>
        /\ UNCHANGED <<tpCodec, tpRtcp>>

\* Close: the socket, the keys and the handshake go together.
CloseTransport ==
    /\ tpSession.port # -1
    /\ tpBusy' = tpBusy \ {tpSession.port}
    /\ tpSession' = NoSession
    /\ tpSteps' = tpSteps + 1
    /\ UNCHANGED <<tpCodec, tpNext, tpRtcp>>

\* Another process takes or frees a port of the range (external).
PortTaken(p) == tpBusy' = tpBusy \union {p}
PortFreed(p) == p # tpSession.port /\ tpBusy' = tpBusy \ {p}

OtherSocket(p) ==
    /\ tpSession.port = -1
    /\ PortTaken(p) \/ PortFreed(p)
    /\ tpBusy' # tpBusy
    /\ tpSteps' = tpSteps + 1
    /\ UNCHANGED <<tpCodec, tpNext, tpSession, tpRtcp>>
-----------------------------------------------------------------------------
(* ICE.                                                                      *)

LastAttr(attrs, type) ==
    LET hits == {i \in 1..Len(attrs) : attrs[i].type = type}
    IN  IF hits = {} THEN 0 ELSE Max(hits)

\* HMAC with the local password over everything before the attribute: over is
\* the number of attributes the sender computed it over.
IntegrityHolds(attrs, i) == i # 0 /\ attrs[i].key = "local" /\ attrs[i].over = i - 1

ParseStunBindingRequest(p) ==
    LET user == LastAttr(p.attrs, "username")
        mi   == LastAttr(p.attrs, "integrity")
        fp   == LastAttr(p.attrs, "fingerprint")
    IN  CASE p.header # "request" -> "unsupported"
          [] \E i \in 1..Len(p.attrs) : p.attrs[i].type = "cut" -> "malformed"
          [] user = 0 -> "bad_username"
          [] user # 0 /\ p.attrs[user].name # "local" -> "bad_username"
          [] ~IntegrityHolds(p.attrs, mi) -> "bad_integrity"
          [] fp # 0 /\ (fp # Len(p.attrs) \/ ~p.attrs[fp].good) -> "bad_fingerprint"
          [] OTHER -> "ok"

\* HandleIcePacket: an accepted check answers and selects the pair.
HandleIcePacket(p, from, answered) ==
    /\ tpSession.port # -1
    /\ ParseStunBindingRequest(p) = "ok" /\ answered
    /\ tpSession' = [tpSession EXCEPT !.pair = from, !.request = p.attrs,
                        !.nominated = LastAttr(p.attrs, "use") # 0]
    /\ tpSteps' = tpSteps + 1
    /\ UNCHANGED <<tpCodec, tpBusy, tpNext, tpRtcp>>
-----------------------------------------------------------------------------
(* DTLS and SRTP.                                                            *)

CheckRemoteFingerprint(cert) == cert # "" /\ cert = tpSession.expected

Failed(s) == [s EXCEPT !.dtls = "failed", !.srtp = FALSE, !.port = -1, !.pair = "none"]

\* FinishHandshake and StartSrtp: the certificate, the SRTP profile and both
\* directions must be good.
FinishHandshake(cert, keys) ==
    IF CheckRemoteFingerprint(cert) /\ keys
    THEN [tpSession EXCEPT !.dtls = "connected", !.cert = cert, !.srtp = TRUE]
    ELSE Failed(tpSession)

\* The host ignores DTLS until ICE has a pair.
IceConnected == tpSession.pair # "none"

\* ProcessDtlsPacket: what OpenSSL says of a packet that arrives.  A session
\* that fails is closed by its host.
ProcessDtlsPacket(result, cert, keys) ==
    /\ IceConnected
    /\ tpSession.dtls \in {"connecting", "connected"}
    /\ tpSession' =
           CASE result = "error" -> Failed(tpSession)
             [] result = "closed" -> [Failed(tpSession) EXCEPT !.dtls = "closed"]
             [] result = "done" /\ tpSession.dtls = "connecting" -> FinishHandshake(cert, keys)
             [] OTHER -> tpSession
    /\ tpBusy' = IF tpSession'.port = -1 THEN tpBusy \ {tpSession.port} ELSE tpBusy
    /\ tpSteps' = tpSteps + 1
    /\ UNCHANGED <<tpCodec, tpNext, tpRtcp>>

\* HandleDtlsTimeout: OpenSSL sends its flight again, finds the handshake
\* finished, or gives up.  A timeout of a handshake that is over fails the
\* session.  Only packets, which need a pair, bring a handshake to its end.
HandleHandshakeTimeout(result, cert, keys) ==
    /\ tpSession.dtls \in {"connecting", "connected"}
    /\ result = "done" => IceConnected
    /\ tpSession' =
           CASE tpSession.dtls = "connected" \/ result = "error" -> Failed(tpSession)
             [] tpSession.dtls = "connecting" /\ result = "done" -> FinishHandshake(cert, keys)
             [] OTHER -> tpSession
    /\ tpBusy' = IF tpSession'.port = -1 THEN tpBusy \ {tpSession.port} ELSE tpBusy
    /\ tpSteps' = tpSteps + 1
    /\ UNCHANGED <<tpCodec, tpNext, tpRtcp>>

FeedbackKinds == {"pli", "fir", "nack", "cc"}

\* The walk over a compound packet, words at a time: a packet of fewer than
\* three words has no feedback; one longer than what is left, or bytes left at
\* the end, void the whole packet.
ReadRtcpFeedbackStats(c) ==
    LET fits == \A i \in 1..Len(c.packets) : c.packets[i].fits
    IN  [ok |-> fits /\ c.rest = 0 /\ c.packets # <<>>,
         count |-> [k \in FeedbackKinds |->
             Cardinality({i \in 1..Len(c.packets) :
                             c.packets[i].kind = k /\ c.packets[i].words >= 3})]]

\* HandleSrtcpPacket: only packets the inbound keys authenticate are read.
HandleSrtcpPacket(c) ==
    LET stats == ReadRtcpFeedbackStats(c)
    IN  /\ tpSession.srtp
        /\ tpRtcp' = [packet |-> c,
                      keyframe |-> stats.ok /\ (stats.count["pli"] # 0 \/ stats.count["fir"] # 0)]
        /\ tpSteps' = tpSteps + 1
        /\ UNCHANGED <<tpCodec, tpBusy, tpNext, tpSession>>
-----------------------------------------------------------------------------
NoRtcp == [packet |-> [packets |-> <<>>, rest |-> 0], keyframe |-> FALSE]

TransportInit ==
    /\ tpCodec = "none"
    /\ tpBusy = {}
    /\ tpNext = 0
    /\ tpSession = NoSession
    /\ tpRtcp = NoRtcp
    /\ tpSteps = 0

\* The session is made for a peer whose stream has this codec.
NewTransportSession(codec) ==
    /\ tpCodec = "none"
    /\ tpCodec' = codec
    /\ UNCHANGED <<tpBusy, tpNext, tpSession, tpRtcp, tpSteps>>

TransportNext ==
    /\ tpSteps < MaxTransportSteps
    /\ \/ \E codec \in LocalCodecs : NewTransportSession(codec)
       \/ \E o \in Offers, starts \in BOOLEAN : HandleSdpOffer(o, starts)
       \/ CloseTransport
       \/ \E p \in 0..(PortSpan - 1) : OtherSocket(p)
       \/ \E p \in StunRequests, from \in RemoteAddresses, sent \in BOOLEAN :
              HandleIcePacket(p, from, sent)
       \/ \E r \in {"want", "done", "closed", "error"}, cert \in Certificates,
             keys \in BOOLEAN : ProcessDtlsPacket(r, cert, keys)
       \/ \E r \in {"want", "done", "error"}, cert \in Certificates, keys \in BOOLEAN :
              HandleHandshakeTimeout(r, cert, keys)
       \/ \E c \in RtcpCompounds : HandleSrtcpPacket(c)
-----------------------------------------------------------------------------
(* Properties.                                                               *)

TransportTypeOK ==
    /\ tpCodec \in LocalCodecs \union {"none"}
    /\ tpBusy \subseteq 0..(PortSpan - 1)
    /\ tpNext \in 0..(PortSpan - 1)
    /\ tpSession.port \in -1..(PortSpan - 1)
    /\ tpSession.dtls \in {"new", "connecting", "connected", "failed", "closed"}
    /\ tpRtcp.keyframe \in BOOLEAN

\* The lines of an offer's sections, cut at the m= lines.
SectionOf(lines, i) ==
    LET ms == {j \in 1..i : lines[j].k = "m"}
    IN  IF ms = {} THEN 0 ELSE Max(ms)

FirstVideo(lines) ==
    Min({j \in 1..Len(lines) : lines[j].k = "m" /\ lines[j].v.media = "video"})

\* The last line with key k in the section that starts at line j.
LastLine(lines, j, k) ==
    LET hits == {i \in 1..Len(lines) : lines[i].k = k /\ SectionOf(lines, i) = j}
    IN  IF hits = {} THEN "" ELSE lines[Max(hits)].v

\* The certificate the camera expects is the one of the first video section,
\* or of the session part when that section names none: never one of another
\* section, and never the one of the other parse (ParseRemoteFingerprint).
FingerprintOfVideo ==
    tpSession.offer # <<>> =>
        LET o     == tpSession.offer
            video == LastLine(o, FirstVideo(o), "fingerprint")
        IN  tpSession.expected = IF video # "" THEN video ELSE LastLine(o, 0, "fingerprint")

\* The answer takes a payload type the client offered for the codec of the
\* stream, and an H.264 one only in the mode the packetizer produces.
AnswerIsOffered ==
    tpSession.answer # <<>> =>
        LET a == tpSession.answer[1]
            o == tpSession.offer
            v == FirstVideo(o)
            Names(k, test(_)) == \E i \in 1..Len(o) : o[i].k = k /\ SectionOf(o, i) = v
                                     /\ o[i].v.pt = a.codec.pt /\ test(o[i].v)
        IN  /\ a.codec.codec = tpCodec
            /\ \E i \in 1..Len(o[v].v.pts) : o[v].v.pts[i] = a.codec.pt
            /\ Names("rtpmap", LAMBDA x : x.codec = tpCodec /\ x.clock = 90000)
            /\ tpCodec = "h264" => Names("fmtp", LAMBDA x : x.mode1)

\* The answer promises only feedback the client offered for that payload type
\* and that the camera acts on.
FeedbackIsOffered ==
    tpSession.answer # <<>> =>
        \A k \in tpSession.answer[1].codec.fb :
            /\ k \in SupportedFeedback
            /\ \E i \in 1..Len(tpSession.offer) :
                   /\ tpSession.offer[i].k = "fb"
                   /\ tpSession.offer[i].v.kind = k
                   /\ tpSession.offer[i].v.pt \in {-1, tpSession.answer[1].codec.pt}

\* An acceptable offer is refused for lack of a port only when every port of
\* the range is taken, wherever the scan starts (StartIceTransport).
PortFoundIfFree ==
    (\E p \in 0..(PortSpan - 1) : p \notin tpBusy) => StartIceTransport \notin tpBusy \union {-1}

\* Media is encrypted only for the holder of the certificate the accepted offer
\* named: SRTP keys exist only when that certificate finished the handshake.
KeysBoundToOffer ==
    tpSession.srtp => tpSession.dtls = "connected" /\ tpSession.cert = tpSession.expected

\* The address media goes to was named by a check whose integrity covers all
\* attributes before it and was computed with the password of this session.
PairAuthenticated ==
    tpSession.pair # "none" =>
        \E i \in 1..Len(tpSession.request) :
            /\ tpSession.request[i].type = "integrity"
            /\ tpSession.request[i].key = "local" /\ tpSession.request[i].over = i - 1

\* A well-formed compound packet asks for a keyframe exactly when one of its
\* packets, at any place, is a PLI or a FIR; a malformed one never does.
KeyframeRequestSeen ==
    LET c == tpRtcp.packet
    IN  tpRtcp.keyframe <=>
            /\ c.rest = 0
            /\ \A i \in 1..Len(c.packets) : c.packets[i].fits
            /\ \E i \in 1..Len(c.packets) :
                   c.packets[i].kind \in {"pli", "fir"} /\ c.packets[i].words >= 3

\* Everything the transport of a peer does follows from the offer it accepted and
\* from authenticated packets: the answer, the port, the media address, the SRTP
\* keys and the keyframe requests.
TransportBoundToOffer ==
    /\ TransportTypeOK /\ FingerprintOfVideo /\ AnswerIsOffered
    /\ FeedbackIsOffered /\ PortFoundIfFree /\ KeysBoundToOffer
    /\ PairAuthenticated /\ KeyframeRequestSeen
=============================================================================
