------------------------------ MODULE HlsMaker ------------------------------
(***************************************************************************)
(* The HLS segmenter of one stream (libs/media hls_maker.cpp) and a player  *)
(* that fetches its playlist and segments over HTTP (http_media            *)
(* hls_handler.cpp).  H.264 goes into MPEG-TS segments, H.265 into         *)
(* fragmented MP4 with one init segment.                                   *)
(*                                                                         *)
(* Sizes are bytes and times abstract ticks.  Packets and boxes are        *)
(* represented by the number of bytes they take, which is what decides     *)
(* whether a frame fits; every allocation from the media buffer pool may   *)
(* fail.                                                                   *)
(***************************************************************************)
EXTENDS Integers, Sequences, FiniteSetsExt, SequencesExt

CONSTANTS
    MaxSegmentBytes, MaxSegments, MaxCachedBytes,  \* HlsMakerOptions
    InitialSegmentBytes,   \* kInitialHlsSegmentBytes
    CapacitySlack,         \* kHlsSegmentCapacitySlackBytes
    SegmentDuration,       \* hls_segment_duration_ms
    ForceFinalizeFloor,    \* kNoKeyframeSegmentDurationFloorUs
    DefaultFrameDuration,
    PlaylistDepth,
    NalReserve,            \* 4 bytes for each of kMaxNalUnitsPerFrame units
    MoofBytes,             \* moof and mdat headers of a finished fMP4 segment
    PayloadSizes, FrameGaps, HlsCodecs,
    MaxHlsFrames, MaxHlsResets   \* bounds: frames, resets

ASSUME HlsConstants ==
    /\ {MaxSegmentBytes, MaxSegments, MaxCachedBytes, InitialSegmentBytes,
        SegmentDuration, DefaultFrameDuration} \subseteq Nat \ {0}
    /\ {CapacitySlack, ForceFinalizeFloor, PlaylistDepth, NalReserve, MoofBytes,
        MaxHlsFrames, MaxHlsResets} \subseteq Nat
    /\ PayloadSizes \subseteq Nat /\ FrameGaps \subseteq Nat \ {0}
    /\ HlsCodecs \subseteq {"h264", "h265"}

VARIABLES
    hls,      \* the HlsMaker object
    hframes,  \* frames appended so far (bounded)
    hresets,  \* resets so far: one life of the cache after the other
    player    \* the playlist an HTTP client holds, and in which life it got it

hlsVars == <<hls, hframes, hresets, player>>

TsPacket == 188

----------------------------------------------------------------------------
(* MPEG-TS sizes *)

\* Full packets only.
TsBytesForPesFull(pes) == ((pes + 183) \div 184) * TsPacket

\* What is reserved for a PES packet: 176 bytes of payload in every TS packet.
TsBytesForPes(pes) == ((pes + 175) \div 176) * TsPacket

\* Payload of a TS packet when r bytes of the PES packet remain.  The first
\* packet carries a PCR; 183 bytes would leave one byte for the adaptation
\* field, which needs two, so one byte less is sent.
TsPayload(r, first) ==
    IF first THEN Min({r, 176})
    ELSE IF r = 183 THEN 182 ELSE Min({r, 184})

\* TS packets the loop of AppendTsPayloadToBuffer emits after the first one.
TsPacketsAfter[r \in Nat] ==
    IF r = 0 THEN 0 ELSE 1 + TsPacketsAfter[r - TsPayload(r, FALSE)]

TsPackets(pes) ==
    IF pes = 0 THEN 0 ELSE 1 + TsPacketsAfter[pes - TsPayload(pes, TRUE)]

----------------------------------------------------------------------------
(* Segment bodies *)

ClampCapacity(capacity) ==
    Min({MaxSegmentBytes, Max({capacity, Min({InitialSegmentBytes, MaxSegmentBytes})})})

\* Doubling the capacity until extra bytes fit, never above MaxSegmentBytes.
GrownCapacity(cap, need) ==
    Min({c \in {Min({cap * 2^k, MaxSegmentBytes}) : k \in 0..12} : c >= need})

\* ValidateCacheLimits: what Start() asks of the options.
HlsLimitsValid == MaxSegmentBytes >= 3 * TsPacket /\ MaxCachedBytes >= MaxSegmentBytes

NoSegment == [started |-> FALSE]

\* A TS segment begins with a PAT and a PMT packet.
TsSegmentHeader == 2 * TsPacket

\* StartSegment: a sequence number is used up even if the allocation fails.
StartSegment(h, f, ok) ==
    LET cap == ClampCapacity(h.nextCap)
        head == IF f.codec = "h264" THEN TsSegmentHeader ELSE 0
    IN  [h EXCEPT
           !.nextSeq = @ + 1,
           !.cur = IF ok /\ head <= cap
                   THEN [started |-> TRUE, codec |-> f.codec, seq |-> h.nextSeq,
                         start |-> f.dts, last |-> f.dts, size |-> head,
                         cap |-> cap, frames |-> <<>>]
                   ELSE NoSegment]

\* An fMP4 segment needs the init segment, built once from the parameter sets.
NeedsInit(h, f) == f.codec = "h265" /\ ~h.init

\* It needs all parameter sets in the frame and a buffer.
BuildInitSegment(f, ok) == f.psets /\ ok.init

\* Units are copied with a length; a frame of parameter sets alone is empty.
Fmp4SampleBytes(f) == IF f.pes = 0 THEN 0 ELSE f.pes + 4

\* A finished fMP4 segment gets its moof and mdat headers in front.
Fmp4SegmentBytes(size) == size + MoofBytes

\* EnsureSegmentCapacity and the copy of one frame.  Nothing of the segment is
\* kept when the frame does not fit.
AppendToSegment(h, f, ok) ==
    LET need  == IF f.codec = "h264" THEN TsBytesForPes(f.pes) ELSE f.pes + NalReserve
        bytes == IF f.codec = "h264" THEN TsPackets(f.pes) * TsPacket
                 ELSE Fmp4SampleBytes(f)
        fits  == h.cur.size + need <= MaxSegmentBytes
        grow  == h.cur.size + need > h.cur.cap
        inits == NeedsInit(h, f)
        init  == IF inits THEN BuildInitSegment(f, ok) ELSE h.init
    IN  IF (inits /\ ~init) \/ ~fits \/ (grow /\ ~ok.grow) \/ bytes = 0
        THEN [h EXCEPT !.init = init, !.cur = NoSegment]
        ELSE [h EXCEPT !.init = init,
                       !.cur.size = @ + bytes,
                       !.cur.cap = IF grow THEN GrownCapacity(@, h.cur.size + need) ELSE @,
                       !.cur.last = f.dts,
                       !.cur.frames = Append(@, f.key)]

CurrentDuration(h) == Max({h.lastDur, h.cur.last - h.cur.start + h.lastDur})

\* The oldest segments go until both limits hold.
Evict(segs) ==
    LET total(n) == FoldSeq(LAMBDA seg, sum : seg.size + sum, 0, SubSeq(segs, n, Len(segs)))
        keep == {n \in 1..Len(segs) + 1 :
                    /\ Len(segs) - n + 1 <= MaxSegments
                    /\ total(n) <= MaxCachedBytes}
    IN  SubSeq(segs, Min(keep), Len(segs))

RememberCapacity(size) ==
    LET slack == Max({size \div 8, CapacitySlack})
    IN  ClampCapacity(IF MaxSegmentBytes > slack /\ size <= MaxSegmentBytes - slack
                      THEN size + slack ELSE MaxSegmentBytes)

\* An fMP4 segment is built in a second buffer.
BuildFinalizedSegment(h, ok) == h.cur.codec = "h264" \/ ok.fin

FinalSize(h) == IF h.cur.codec = "h265" THEN Fmp4SegmentBytes(h.cur.size) ELSE h.cur.size

\* PushFinalizedSegment: lost when it is too large for the cache or its fMP4
\* form cannot be allocated.
Pushed(h, ok) == BuildFinalizedSegment(h, ok) /\ FinalSize(h) <= MaxCachedBytes

\* FinalizeCurrentSegment: pushed or lost, no segment is current afterwards.
FinalizeSegment(h, ok) ==
    LET seg == [seq |-> h.cur.seq, codec |-> h.cur.codec, size |-> FinalSize(h),
                dur |-> CurrentDuration(h), frames |-> h.cur.frames]
        all == Append(h.segs, seg)
        kept == Evict(all)
        done == [h EXCEPT !.cur = NoSegment, !.nextCap = RememberCapacity(h.cur.size)]
    IN  IF Pushed(h, ok)
        THEN [done EXCEPT
                !.segs = kept,
                !.bytes = FoldSeq(LAMBDA s, sum : s.size + sum, 0, kept),
                !.evicted = @ + Len(all) - Len(kept)]
        ELSE done

NewHls ==
    [segs |-> <<>>, cur |-> NoSegment, init |-> FALSE, nextCap |-> 0, nextSeq |-> 1,
     bytes |-> 0, evicted |-> 0, lastPts |-> -1, lastDur |-> DefaultFrameDuration]

NoPlaylist == [life |-> -1, target |-> 0, entries |-> <<>>, reply |-> <<>>]

HlsInit ==
    /\ HlsLimitsValid
    /\ hls = NewHls
    /\ hframes = 0 /\ hresets = 0
    /\ player = NoPlaylist

----------------------------------------------------------------------------
(* Operations *)

ObserveFrameTiming(h, f) ==
    [h EXCEPT !.lastDur = IF h.lastPts > 0 /\ f.dts > h.lastPts
                          THEN f.dts - h.lastPts ELSE @,
              !.lastPts = f.dts]

\* A keyframe closes a segment that is long enough; without keyframes it is
\* closed later, and no segment is opened before the next keyframe.
DueFor(h, f) ==
    /\ h.cur.started
    /\ f.dts - h.cur.start >=
          IF f.key THEN SegmentDuration
          ELSE Max({2 * SegmentDuration, ForceFinalizeFloor})

\* A keyframe that closed a segment opens the next one, and tries again at
\* once when that failed; each attempt uses up a sequence number.
HlsAppendFrame(h, f, ok) ==
    LET seen  == ObserveFrameTiming(h, f)
        due   == DueFor(seen, f)
        cut   == IF due THEN FinalizeSegment(seen, ok) ELSE seen
        next  == f.key /\ due /\ Pushed(seen, ok)
        first == IF next THEN StartSegment(cut, f, ok.seg) ELSE cut
        open  == IF f.key /\ ~first.cur.started
                 THEN StartSegment(first, f, IF next THEN ok.again ELSE ok.seg)
                 ELSE first
    IN  IF open.cur.started THEN AppendToSegment(open, f, ok) ELSE open

\* Which buffers the pool grants: at most one request of a call fails, and the
\* second attempt for a segment may fail like the first.
AllocOutcomes ==
    {o \in [seg : BOOLEAN, again : BOOLEAN, grow : BOOLEAN, init : BOOLEAN, fin : BOOLEAN] :
        /\ Quantify({"seg", "grow", "init", "fin"}, LAMBDA b : ~o[b]) <= 1
        /\ ~o.again => ~o.seg}

HlsAppend == \E key \in BOOLEAN, pes \in PayloadSizes, gap \in FrameGaps,
                ok \in AllocOutcomes,
                codec \in HlsCodecs, psets \in BOOLEAN :
    /\ hframes < MaxHlsFrames
    /\ hls.cur.started => codec = hls.cur.codec   \* a codec change resets the stream
    /\ hls.segs # <<>> => codec = hls.segs[1].codec
    /\ hls' = HlsAppendFrame(hls, [key |-> key, pes |-> pes, codec |-> codec,
                                psets |-> psets,
                                dts |-> IF hls.lastPts < 0 THEN 0
                                        ELSE hls.lastPts + gap], ok)
    /\ hframes' = hframes + 1
    /\ UNCHANGED <<hresets, player>>

\* Reset: with the caches of its stream; sequence numbers start again at 1.
HlsReset ==
    /\ hresets < MaxHlsResets
    /\ hls' = NewHls
    /\ hresets' = hresets + 1
    /\ UNCHANGED <<hframes, player>>

\* The last PlaylistDepth segments, at least one.
PlaylistEntries(h) ==
    LET depth == Max({1, PlaylistDepth})
        first == Max({1, Len(h.segs) - depth + 1})
    IN  SubSeq(h.segs, first, Len(h.segs))

\* EXT-X-TARGETDURATION.
TargetDuration(h) ==
    Max({SegmentDuration} \cup {e.dur : e \in Range(PlaylistEntries(h))})

\* GET index.m3u8, media.m3u8: the playlist, empty while there is no segment.
HlsPlaylist ==
    /\ player' = [life |-> hresets, target |-> TargetDuration(hls),
                  entries |-> PlaylistEntries(hls), reply |-> <<>>]
    /\ UNCHANGED <<hls, hframes, hresets>>

\* FindSegmentRef: the cached segment with this sequence number, if any.
FindSegment(h, seq) == {h.segs[n] : n \in {m \in DOMAIN h.segs : h.segs[m].seq = seq}}

\* GET seg-<n>: an entry of the player's playlist, found or 404.
HlsSegment == \E n \in DOMAIN player.entries :
    /\ player' = [player EXCEPT !.reply =
           <<[want |-> player.entries[n], init |-> hls.init,
              same |-> player.life = hresets,
              have |-> FindSegment(hls, player.entries[n].seq)]>>]
    /\ UNCHANGED <<hls, hframes, hresets>>

HlsNext == HlsAppend \/ HlsReset \/ HlsPlaylist \/ HlsSegment

----------------------------------------------------------------------------
(* Properties *)

\* Every variable has its type.
HlsTypeOK ==
    /\ hls.nextSeq \in Nat \ {0} /\ hls.evicted \in Nat /\ hls.bytes \in Nat
    /\ hls.init \in BOOLEAN /\ hls.cur.started \in BOOLEAN
    /\ hframes \in 0..MaxHlsFrames /\ hresets \in 0..MaxHlsResets
    /\ player.life \in -1..MaxHlsResets

\* The cache stays within its limits, its byte count is exact, and the segment
\* being filled never outgrows its buffer: the bytes reserved for a frame
\* suffice for the TS packets that are written (TsPacketBytesForPesSize counts
\* 176 bytes a packet, the loop packs up to 184 but splits a remainder of 183),
\* so a frame that was let in is never lost to a short buffer.
HlsBounded ==
    /\ Len(hls.segs) <= MaxSegments
    /\ hls.bytes = FoldSeq(LAMBDA s, sum : s.size + sum, 0, hls.segs)
    /\ hls.bytes <= MaxCachedBytes
    /\ hls.cur.started => hls.cur.size <= hls.cur.cap /\ hls.cur.cap <= MaxSegmentBytes

\* The playlist announces EXT-X-INDEPENDENT-SEGMENTS: every segment, the one
\* being filled too, starts with a keyframe and is not empty, whatever was
\* dropped before it (AppendFrame, StartSegment).
SegmentsIndependent ==
    /\ hls.cur.started => hls.cur.frames # <<>> /\ hls.cur.frames[1] /\ hls.cur.size > 0
    /\ \A n \in DOMAIN hls.segs : hls.segs[n].frames # <<>> /\ hls.segs[n].frames[1]

\* A fragmented MP4 segment is never cached without its init segment
\* (AppendFrameToSegment builds it before the first sample).
InitBeforeFmp4 ==
    \A n \in DOMAIN hls.segs : hls.segs[n].codec = "h265" => hls.init

\* A player that asks for a segment its playlist lists gets that segment, with
\* the init segment it needs available, or a 404, never another one, as long as
\* the cache was not reset meanwhile; the listed segments are in play order and
\* none is longer than the target duration announced with them.
ServedIsListed ==
    /\ \A n \in DOMAIN player.reply :
          LET r == player.reply[n] IN
          r.same => /\ r.have \subseteq {r.want}
                    /\ r.have # {} /\ r.want.codec = "h265" => r.init
    /\ \A m, n \in DOMAIN player.entries :
          m < n => player.entries[m].seq < player.entries[n].seq
    /\ \A n \in DOMAIN player.entries : player.entries[n].dur <= player.target

HlsSpec == HlsInit /\ [][HlsNext]_hlsVars

\* What a player is listed it can play and is served, within the limits of the
\* cache, whatever was dropped, evicted or reset between its two requests.
HlsPlayable ==
    /\ HlsTypeOK /\ HlsBounded /\ SegmentsIndependent /\ InitBeforeFmp4
    /\ ServedIsListed
=============================================================================
