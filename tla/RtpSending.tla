----------------------------- MODULE RtpSending -----------------------------
(* From an encoded frame to RTP packets: the Annex B reader and the H.264    *)
(* and H.265 parsers of libs/media_codec, the RTP packetizer, the decoder    *)
(* configuration record and one peer's WebrtcRtpSender.                      *)
(*                                                                           *)
(* Bytes are numbers, and a frame is a sequence of them: the start code      *)
(* search, the trailing zeros and the emulation prevention bytes are what    *)
(* these functions are about.  RTP headers are records; FU prefixes keep the *)
(* NAL header and the start and end bits.                                    *)
EXTENDS Integers, Sequences
LOCAL INSTANCE SequencesExt
LOCAL INSTANCE FiniteSetsExt

CONSTANTS
    RtpRoom,        \* mtu_bytes - kRtpHeaderSize
    MaxNalUnits,    \* kMaxNalUnitsPerFrame
    SequenceSpan,   \* 2^16 sequence numbers
    TimestampSpan,  \* 2^32 RTP timestamps
    ConfigBytes,    \* bytes of a VPS up to its level (16)
    EncodedFrames,  \* frames the encoder emits: [codec, key, parts]
    RtpTimes,       \* their presentation times, in microseconds
    MaxSendFrames   \* bound: frames offered to the sender

\* The second FU header byte needs room for at least one byte of the NAL unit.
ASSUME RoomAssumption == RtpRoom \in Nat /\ RtpRoom > 3
ASSUME SpanAssumption == SequenceSpan \in Nat \ {0} /\ TimestampSpan \div 2 \in Nat \ {0}

VARIABLES
    rtpPeer,    \* PeerRtpState of the peer
    rtpFrame,   \* the frame last offered, or NoEncoded
    rtpOut,     \* packets of that frame handed to the transport
    rtpOk,      \* whether SendFrame returned true for it
    rtpTail,    \* the receiver: last packet that arrived and packets lost since
    rtpConfig,  \* the decoder configuration of the last frame that carried one
    rtpCount

rtpSendVars == <<rtpPeer, rtpFrame, rtpOut, rtpOk, rtpTail, rtpConfig, rtpCount>>

NoEncoded == [codec |-> "none", key |-> FALSE, parts |-> <<>>, pts |-> 0]
-----------------------------------------------------------------------------
(* The encoder (external): parts are units with a three- or four-byte start  *)
(* code, emulation prevention and trailing zeros.                            *)

Escape(rbsp) ==
    LET step(acc, byte) ==
            LET stuff == acc.zeros = 2 /\ byte <= 3
                zeros == IF stuff THEN 0 ELSE acc.zeros
            IN  [zeros |-> IF byte = 0 THEN zeros + 1 ELSE 0,
                 out   |-> acc.out \o (IF stuff THEN <<3, byte>> ELSE <<byte>>)]
    IN  FoldLeft(step, [zeros |-> 0, out |-> <<>>], rbsp).out

NalOf(part) == part.header \o Escape(part.rbsp)

StartCodeOf(n) == IF n = 3 THEN <<0, 0, 1>> ELSE <<0, 0, 0, 1>>

FrameBytes(frame) ==
    FlattenSeq([i \in 1..Len(frame.parts) |->
        StartCodeOf(frame.parts[i].code) \o NalOf(frame.parts[i])
            \o [z \in 1..frame.parts[i].zeros |-> 0]])
-----------------------------------------------------------------------------
(* Annex B.                                                                  *)

\* The first start code at or after position o; 0 when there is none.
FindStartCode(d, o) ==
    LET found == {i \in o..(Len(d) - 2) :
                     /\ d[i] = 0 /\ d[i + 1] = 0
                     /\ \/ d[i + 2] = 1
                        \/ i + 3 <= Len(d) /\ d[i + 2] = 0 /\ d[i + 3] = 1}
    IN  IF found = {} THEN 0 ELSE Min(found)

\* Zeros between a unit and the next start code are not part of the unit.
TrimZeros(d, begin, end) ==
    LET kept == {i \in begin..end : d[i] # 0}
    IN  IF kept = {} THEN begin - 1 ELSE Max(kept)

\* The units of an access unit; the whole frame is refused for an empty unit.
ForEachAnnexBNalUnit(d) ==
    LET walk[o \in 1..(Len(d) + 1)] ==
            LET start  == FindStartCode(d, o)
                prefix == IF start + 3 <= Len(d) /\ d[start + 2] = 0 /\ d[start + 3] = 1
                          THEN 4 ELSE 3
                begin  == start + prefix
                next   == FindStartCode(d, begin)
                end    == TrimZeros(d, begin, IF next = 0 THEN Len(d) ELSE next - 1)
                unit   == <<SubSeq(d, begin, end)>>
            IN  IF start = 0 \/ begin > Len(d) \/ end < begin
                THEN [ok |-> FALSE, units |-> <<>>]
                ELSE IF next = 0 THEN [ok |-> TRUE, units |-> unit]
                ELSE LET rest == walk[next]
                     IN  [ok |-> rest.ok, units |-> unit \o rest.units]
    IN  walk[1]

\* H.265 units of one byte have no header and are skipped.
ParseNalUnits(codec, d) ==
    LET all   == ForEachAnnexBNalUnit(d)
        units == SelectSeq(all.units, LAMBDA u : codec = "h264" \/ Len(u) > 1)
    IN  [ok |-> all.ok /\ Len(units) \in 1..MaxNalUnits, units |-> units]

NalType(codec, unit) == IF codec = "h265" THEN (unit[1] \div 2) % 64 ELSE unit[1] % 32

ParameterTypes(codec) == IF codec = "h265" THEN {32, 33, 34} ELSE {7, 8}

ContainsCompleteParameterSets(codec, units) ==
    \A t \in ParameterTypes(codec) : \E i \in 1..Len(units) : NalType(codec, units[i]) = t

\* A later unit of the same type replaces an earlier one.
ExtractParameterSet(codec, units, t) ==
    units[Max({i \in 1..Len(units) : NalType(codec, units[i]) = t})]
-----------------------------------------------------------------------------
(* The decoder configuration record (avcC, hvcC).                            *)

\* The payload of a NAL unit without its two header bytes and without the
\* emulation prevention bytes.
H265NalRbsp(nal) ==
    LET step(acc, byte) ==
            IF acc.zeros >= 2 /\ byte = 3 THEN [acc EXCEPT !.zeros = 0]
            ELSE [zeros |-> IF byte = 0 THEN acc.zeros + 1 ELSE 0,
                  out   |-> Append(acc.out, byte)]
    IN  FoldLeft(step, [zeros |-> 0, out |-> <<>>], SubSeq(nal, 3, Len(nal))).out

DefaultLevel == 93   \* DefaultH265MainProfile: 0x5d

\* The level of a VPS long enough to hold one, else the default profile's.
ExtractH265ProfileFromVps(vps) ==
    IF Len(H265NalRbsp(vps)) < ConfigBytes THEN DefaultLevel
                                           ELSE H265NalRbsp(vps)[ConfigBytes]

\* avcC takes its profile bytes from the SPS.
BuildAvccRecord(units) ==
    [codec |-> "h264",
     sets  |-> [t \in {7, 8} |-> ExtractParameterSet("h264", units, t)],
     level |-> LET sps == ExtractParameterSet("h264", units, 7)
               IN  IF Len(sps) > 3 THEN sps[4] ELSE 31]

BuildHvccRecord(units) ==
    [codec |-> "h265",
     sets  |-> [t \in {32, 33, 34} |-> ExtractParameterSet("h265", units, t)],
     level |-> ExtractH265ProfileFromVps(ExtractParameterSet("h265", units, 32))]

NoConfig == [codec |-> "none", sets |-> <<>>, level |-> 0]

ConfigOf(codec, units, old) ==
    IF ~ContainsCompleteParameterSets(codec, units) THEN old
    ELSE IF codec = "h265" THEN BuildHvccRecord(units) ELSE BuildAvccRecord(units)
-----------------------------------------------------------------------------
(* RTP.                                                                      *)

\* What a fragment may hold besides the FU header.
MaxFragment(codec) == RtpRoom - (IF codec = "h265" THEN 3 ELSE 2)

HeaderBytes(codec) == IF codec = "h265" THEN 2 ELSE 1

IsLastFragment(codec, left) == left <= MaxFragment(codec)

\* FU-A of H.264 and FU of H.265: the NAL header is replaced by the FU
\* prefix; the marker sits on the end fragment of the last unit.
Fragments(codec, unit, marker) ==
    LET head == SubSeq(unit, 1, HeaderBytes(codec))
        from[o \in 1..(Len(unit) + 1)] ==
            LET left  == Len(unit) - o + 1
                chunk == Min({MaxFragment(codec), left})
                last  == IsLastFragment(codec, left)
            IN  IF left <= 0 THEN <<>>
                ELSE <<[prefix |-> head, start |-> o = HeaderBytes(codec) + 1, end |-> last,
                        payload |-> SubSeq(unit, o, o + chunk - 1),
                        marker |-> marker /\ last]>> \o from[o + chunk]
    IN  from[HeaderBytes(codec) + 1]

PacketizeNal(codec, unit, marker) ==
    IF Len(unit) <= RtpRoom
    THEN <<[prefix |-> <<>>, start |-> TRUE, end |-> TRUE, payload |-> unit,
            marker |-> marker]>>
    ELSE Fragments(codec, unit, marker)

\* 90000 ticks in 1000000 microseconds, rounded down.
ClockTicks == 9
ClockUs == 100
RtpTimestampFromPtsUs(pts) ==
    IF pts <= 0 THEN 0 ELSE ((pts * ClockTicks) \div ClockUs) % TimestampSpan

\* The signed 32-bit difference is negative.
IsRtpTimestampBackwards(timestamp, previous) ==
    (timestamp - previous) % TimestampSpan >= TimestampSpan \div 2

\* What each frame parses into, and the packets it is cut into: computed once.
ParsedFrames == [f \in EncodedFrames |-> ParseNalUnits(f.codec, FrameBytes(f))]

PacketBodies ==
    [f \in EncodedFrames |->
        LET units == ParsedFrames[f].units
        IN  FlattenSeq([i \in 1..Len(units) |->
                PacketizeNal(f.codec, units[i], i = Len(units))])]

\* The packets of a frame, numbered from the peer's sequence number.
Packetize(f, pts, sequence) ==
    [k \in 1..Len(PacketBodies[f]) |->
        [body |-> PacketBodies[f][k], sequence |-> (sequence + k - 1) % SequenceSpan,
         timestamp |-> RtpTimestampFromPtsUs(pts)]]
-----------------------------------------------------------------------------
(* WebrtcRtpSender for one peer.                                             *)

NoRtpPeer ==
    [codec |-> "none", sequence |-> 1, keyframe_seen |-> FALSE,
     has_last |-> FALSE, last |-> 0, last_pts |-> 0]

\* AddPeer: the sequence starts at 1 and a keyframe is awaited.
AddPeer(codec) ==
    /\ rtpPeer.codec = "none"
    /\ rtpPeer' = [NoRtpPeer EXCEPT !.codec = codec]
    /\ UNCHANGED <<rtpFrame, rtpOut, rtpOk, rtpTail, rtpConfig, rtpCount>>

\* The checks made under the mutex before the frame is packetized.
MayPacketize(peer, frame) ==
    /\ peer.codec = frame.codec
    /\ ~(peer.has_last /\ IsRtpTimestampBackwards(RtpTimestampFromPtsUs(frame.pts), peer.last))
    /\ peer.keyframe_seen \/ frame.key

\* Mutant: a sequence number whose packet failed is used again.
RenumberAfterFailure(peer, sent, failed) == (peer.sequence + sent) % SequenceSpan

\* SendRtpPacket takes the number before the sink can fail.
NextSequence(peer, sent, failed) ==
    (peer.sequence + sent + (IF failed THEN 1 ELSE 0)) % SequenceSpan

\* Only a keyframe whose packets were all accepted opens the stream.
OpensStream(packetized, frame) == packetized /\ frame.key

\* SendFrame: sent packets reach the transport, then one may fail; the rest of
\* that frame is not sent.
SendFrame(f, pts) ==
    LET frame == [codec |-> f.codec, key |-> f.key, pts |-> pts]
    IN  /\ rtpPeer.codec # "none"
        /\ rtpCount < MaxSendFrames
        /\ rtpCount' = rtpCount + 1
        /\ rtpFrame' = [codec |-> f.codec, key |-> f.key, parts |-> f.parts, pts |-> pts]
        /\ \E parsed \in {ParsedFrames[f]} :
              /\ rtpConfig' = IF parsed.ok THEN ConfigOf(f.codec, parsed.units, rtpConfig)
                                           ELSE rtpConfig
              /\ \E pass \in {MayPacketize(rtpPeer, frame) /\ parsed.ok} :
                 \E all \in {IF pass THEN Packetize(f, pts, rtpPeer.sequence) ELSE <<>>} :
                 \E sent \in 0..Len(all) :
                    LET failed == sent < Len(all)
                        done   == pass /\ ~failed
                    IN  /\ rtpOut' = SubSeq(all, 1, sent)
                        /\ rtpOk' = done
                        /\ rtpTail' = [sequence |-> IF sent > 0 THEN all[sent].sequence
                                                                ELSE rtpTail.sequence,
                                       lost |-> (IF sent > 0 THEN 0 ELSE rtpTail.lost)
                                                    + (IF failed THEN 1 ELSE 0)]
                        /\ rtpPeer' = [rtpPeer EXCEPT
                               !.sequence = NextSequence(rtpPeer, sent, failed),
                               !.keyframe_seen = @ \/ OpensStream(done, frame),
                               !.has_last = @ \/ done,
                               !.last = IF done THEN RtpTimestampFromPtsUs(frame.pts) ELSE @,
                               !.last_pts = IF done THEN frame.pts ELSE @]

RtpSendInit ==
    /\ rtpPeer = NoRtpPeer
    /\ rtpTail = [sequence |-> 0, lost |-> 0]
    /\ rtpFrame = NoEncoded
    /\ rtpOut = <<>>
    /\ rtpOk = FALSE
    /\ rtpConfig = NoConfig
    /\ rtpCount = 0

RtpSendNext ==
    \/ \E codec \in {"h264", "h265"} : AddPeer(codec)
    \/ \E f \in EncodedFrames, pts \in RtpTimes : SendFrame(f, pts)
-----------------------------------------------------------------------------
(* Properties.                                                               *)

RtpSendTypeOK ==
    /\ rtpPeer.codec \in {"none", "h264", "h265"}
    /\ rtpPeer.sequence \in 0..(SequenceSpan - 1)
    /\ rtpPeer.last \in 0..(TimestampSpan - 1)
    /\ rtpPeer.keyframe_seen \in BOOLEAN /\ rtpPeer.has_last \in BOOLEAN
    /\ rtpOk \in BOOLEAN /\ rtpCount \in 0..MaxSendFrames

\* What a receiver rebuilds from the packets of a frame, by the rules of the
\* payload formats: a unit is one packet, or starts at a start bit and ends at
\* an end bit; FALSE when a packet does not fit.
Rebuild(packets) ==
    LET step(acc, p) ==
            IF ~acc.ok \/ p.body.start # (acc.open = <<>>) THEN [acc EXCEPT !.ok = FALSE]
            ELSE LET unit == (IF acc.open = <<>> THEN p.body.prefix ELSE acc.open)
                                 \o p.body.payload
                 IN  IF p.body.end
                     THEN [ok |-> TRUE, open |-> <<>>, units |-> Append(acc.units, unit)]
                     ELSE [acc EXCEPT !.open = unit]
    IN  FoldLeft(step, [ok |-> TRUE, open |-> <<>>, units |-> <<>>], packets)

\* A receiver that gets every packet of a frame rebuilds exactly the units the
\* encoder emitted, whatever start codes, trailing zeros and sizes they have
\* (Packetize and ForEachAnnexBNalUnit against the payload formats).
ReceiverRebuildsUnits ==
    rtpOk => LET got == Rebuild(rtpOut)
             IN  /\ got.ok /\ got.open = <<>>
                 /\ got.units = [i \in 1..Len(rtpFrame.parts) |-> NalOf(rtpFrame.parts[i])]

\* The access unit's marker is on its last packet and on no other, so a
\* receiver never decodes half a frame or waits for the next one
\* (PacketizeNal, PacketizeH264, PacketizeH265).
MarkerEndsFrame ==
    rtpOk => \A k \in 1..Len(rtpOut) : rtpOut[k].body.marker <=> k = Len(rtpOut)

\* No packet is larger than the MTU, headers included.
PacketsFit ==
    \A k \in 1..Len(rtpOut) :
        LET b == rtpOut[k].body
        IN  Len(b.payload) + (IF b.prefix = <<>> THEN 0 ELSE Len(b.prefix) + 1) <= RtpRoom

\* A receiver sees every loss: between two packets that arrive, the sequence
\* numbers skip exactly the packets that failed, across frames and wrap-around
\* (SendRtpPacket advances the number before the sink runs).
LossIsVisible ==
    rtpPeer.sequence = (rtpTail.sequence + 1 + rtpTail.lost) % SequenceSpan

\* No packet of a P frame leaves before a keyframe has been sent completely
\* (keyframe_seen of WebrtcRtpSender::SendFrame).
KeyframeSentFirst ==
    rtpOut # <<>> /\ ~rtpFrame.key => rtpPeer.keyframe_seen

\* The timestamp gate agrees with the presentation times, although both are
\* rounded to clock ticks and the timestamp wraps (IsRtpTimestampBackwards): a
\* frame that is not older than the last one sent, and less than half the range
\* ahead of it, is never dropped for its timestamp; one that is older by a tick
\* or more is never sent.  Frames less than a tick apart may share a timestamp.
FreshFramesPass ==
    [][rtpPeer.has_last /\ rtpCount' # rtpCount =>
          LET ahead == (rtpFrame'.pts - rtpPeer.last_pts) * ClockTicks
              half  == TimestampSpan \div 2
          IN  /\ ahead <= -ClockUs /\ ahead >= -(half * ClockUs) => rtpOut' = <<>>
              /\ /\ ahead >= 0 /\ ahead <= (half - 1) * ClockUs
                 /\ rtpFrame'.codec = rtpPeer.codec /\ rtpPeer.keyframe_seen
                 => MayPacketize(rtpPeer, rtpFrame')]_rtpSendVars

\* The decoder configuration of a frame names the last parameter set of each
\* type and the level the encoder wrote in the
\* VPS, wherever emulation prevention bytes were inserted before it
\* (ExtractH265ParameterSetsFromUnits, H265NalRbsp).
ConfigMatchesFrame ==
    LET types   == ParameterTypes(rtpFrame.codec)
        all(t)  == {i \in 1..Len(rtpFrame.parts) :
                       NalType(rtpFrame.codec, rtpFrame.parts[i].header) = t}
        last(t) == rtpFrame.parts[Max(all(t))]
    IN  rtpOk /\ (\A t \in types : all(t) # {}) =>
            /\ rtpConfig.codec = rtpFrame.codec
            /\ \A t \in types : rtpConfig.sets[t] = NalOf(last(t))
            /\ rtpFrame.codec = "h265" /\ Len(last(32).rbsp) >= ConfigBytes =>
                   rtpConfig.level = last(32).rbsp[ConfigBytes]

\* A receiver can rebuild what the encoder emitted: units, frame ends, losses,
\* configuration and time order are all visible in the packets, across frame
\* sizes, failures and both wraps.
RtpReceivable ==
    /\ [](RtpSendTypeOK /\ ReceiverRebuildsUnits /\ MarkerEndsFrame /\ PacketsFit
          /\ LossIsVisible /\ KeyframeSentFirst /\ ConfigMatchesFrame)
    /\ FreshFramesPass
=============================================================================
