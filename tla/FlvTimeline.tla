---------------------------- MODULE FlvTimeline ----------------------------
(***************************************************************************)
(* Time on the way from the encoder to an HTTP-FLV client: the timestamp   *)
(* corrector of a stream (libs/media timestamp_corrector.cpp), the 32-bit  *)
(* millisecond stamp of an FLV tag (flv_muxer.cpp) and the rebasing of     *)
(* every connection to start at 0 (http_media http_flv_session.cpp), which *)
(* also writes a tag in several batches of slices.                         *)
(*                                                                         *)
(* Times are ticks.  UsPerMs, JumpLimit, SkewLimit and MsWrap stand for    *)
(* 1000, 3 s, 0.5 s and 2^32; they are small here so that jumps, the       *)
(* truncation to milliseconds and the wrap all happen.                     *)
(***************************************************************************)
EXTENDS Integers, Sequences, FiniteSetsExt

CONSTANTS
    RawTimes,       \* timestamps of the encoder
    UsPerMs, JumpLimit, SkewLimit, DefaultDelta, MsWrap,
    SliceCounts,    \* slices of a tag
    BatchSlices,    \* kMaxSocketWriteSlices
    MaxDts,         \* bound: corrected time
    MaxTags         \* bound: tags of one connection

ASSUME TimelineConstants ==
    /\ RawTimes \subseteq Int
    /\ {UsPerMs, JumpLimit, DefaultDelta, MsWrap, BatchSlices} \subseteq Nat \ {0}
    /\ {SkewLimit, MaxDts, MaxTags} \subseteq Nat
    /\ SliceCounts \subseteq Nat \ {0}

VARIABLES
    corr,    \* TimestampCorrector of the stream
    stamp,   \* the corrected timestamps of the last frame
    flv,     \* HttpFlvSession of one connection
    wire     \* the tags the connection was sent: kind, stamp, slices still missing

timeVars == <<corr, stamp, flv, wire>>

NewCorrector == [set |-> FALSE, raw |-> 0, dts |-> 0, pts |-> 0, delta |-> DefaultDelta]

Closed == [open |-> FALSE, set |-> FALSE, base |-> 0, last |-> 0]

TimeInit ==
    /\ corr = NewCorrector
    /\ stamp = [set |-> FALSE, dts |-> 0, pts |-> 0]
    /\ flv = Closed
    /\ wire = <<>>

----------------------------------------------------------------------------
(* NormalizeFrameTimestamps and TimestampCorrector::CorrectWithReset *)

\* A frame may come with one of the two timestamps, or with none.
Normalized(dts, pts) ==
    LET d == IF dts <= 0 THEN pts ELSE dts
        p == IF pts <= 0 THEN d ELSE pts
    IN  IF d < 0 \/ p < 0 THEN [dts |-> 0, pts |-> 0]
        ELSE [dts |-> d, pts |-> IF p = 0 THEN d ELSE p]

Skew(in) == IF in.pts - in.dts > SkewLimit \/ in.dts - in.pts > SkewLimit
            THEN 0 ELSE in.pts - in.dts

\* Rollback and jump keep the last distance between two frames.
Delta(c, in) ==
    LET raw == in.dts - c.raw
    IN  IF raw < 0 \/ raw > JumpLimit THEN c.delta ELSE Max({raw, 1})

\* Presentation time is neither before decoding time nor before the last one.
Presented(c, dts, in) == Max({dts, dts + Skew(in), c.pts})

Jumps(c, in) == c.set /\ (in.dts < c.raw \/ in.dts - c.raw > JumpLimit)

Corrected(c, in) ==
    LET dts == c.dts + Delta(c, in)
    IN  IF ~c.set
        THEN [c EXCEPT !.set = TRUE, !.raw = in.dts, !.dts = 0,
                       !.pts = Max({0, Skew(in)})]
        ELSE [c EXCEPT !.raw = in.dts, !.dts = dts,
                       !.pts = Presented(c, dts, in),
                       !.delta = IF Jumps(c, in) \/ in.dts = c.raw THEN @
                                 ELSE in.dts - c.raw]

\* A frame is stamped.
StampFrame == \E dts, pts \in RawTimes :
    LET c == Corrected(corr, Normalized(dts, pts)) IN
    /\ c.dts <= MaxDts
    /\ corr' = c
    /\ stamp' = [set |-> TRUE, dts |-> c.dts, pts |-> c.pts]
    /\ UNCHANGED <<flv, wire>>

\* A stopped, restarted or recoded stream starts its time again at 0; a jump
\* does not reset the corrector.
ResetTimeline ==
    /\ corr' = NewCorrector
    /\ UNCHANGED <<stamp, flv, wire>>

----------------------------------------------------------------------------
(* HttpFlvSession *)

TagMs(t) == (t \div UsPerMs) % MsWrap

\* The sequence header (OnFlvChunk): whatever the stream's time is, it goes out
\* with timestamp 0 and in one batch, and leaves base and last time alone.
ConfigTag == [config |-> TRUE, ms |-> 0, ct |-> 0, missing |-> 0]
Configs == {<<>>, <<ConfigTag>>}

\* Start: the sequence header, if the stream has one yet.  A connection that
\* refuses it is closed at once.  The cached GOP follows like live tags.
OpenFlv == \E config \in Configs :
    /\ ~flv.open /\ wire = <<>>
    /\ flv' = [Closed EXCEPT !.open = TRUE]
    /\ wire' = config
    /\ UNCHANGED <<corr, stamp>>

\* The base of a session is kept only while it is not ahead of the stream.
RebaseTimestampAgain(f, ms) ==
    LET base == IF f.set /\ ms >= f.base THEN f.base ELSE ms
    IN  [f EXCEPT !.set = TRUE, !.base = base, !.last = ms - base]

\* The first tag sets the base; time that went back below it, or below what was
\* sent last, is sent as the last one.
RebaseTimestamp(f, ms) ==
    LET base == IF f.set THEN f.base ELSE ms
        re   == IF ms >= base THEN ms - base ELSE f.last
    IN  [f EXCEPT !.set = TRUE, !.base = base, !.last = Max({re, f.last})]

\* Of n slices in batches, the ones that go out when batch number refused is
\* refused (0: none is).
SlicesSent(n, refused) ==
    IF refused = 0 \/ (refused - 1) * BatchSlices >= n THEN n
    ELSE (refused - 1) * BatchSlices

FrameTag(ms, missing) ==
    [config |-> FALSE, ms |-> ms, ct |-> (stamp.pts - stamp.dts) \div UsPerMs, missing |-> missing]

\* One write: first the sequence header if the configuration of the stream is
\* not the one the client was sent last (which it is depends on MediaTracks),
\* then the tag of the frame, whose slices go out in batches.  A batch that is
\* refused ends the call, and a client whose call failed is detached and its
\* connection closed.
SendFlvTag == \E config \in Configs, n \in SliceCounts, refused \in 0..2 :
    LET f == RebaseTimestamp(flv, TagMs(stamp.dts))
        sent == SlicesSent(n, refused)
        ok == sent = n
        tag == IF sent = 0 THEN <<>> ELSE <<FrameTag(f.last, n - sent)>>
    IN  /\ flv.open /\ stamp.set /\ Len(wire) + Len(config) < MaxTags
        /\ flv' = [f EXCEPT !.open = ok]
        /\ wire' = wire \o config \o tag
        /\ UNCHANGED <<corr, stamp>>

\* The sequence header is refused: nothing of the frame is sent.
SendConfigRefused ==
    /\ flv.open /\ stamp.set
    /\ flv' = [flv EXCEPT !.open = FALSE]
    /\ UNCHANGED <<corr, stamp, wire>>

\* The connection closes.
CloseFlv ==
    /\ wire # <<>> \/ flv.open
    /\ flv' = Closed /\ wire' = <<>>
    /\ UNCHANGED <<corr, stamp>>

TimeNext == StampFrame \/ ResetTimeline \/ OpenFlv \/ SendFlvTag
            \/ SendConfigRefused \/ CloseFlv

----------------------------------------------------------------------------
(* Properties *)

\* Every variable has its type.
TimeTypeOK ==
    /\ corr.set \in BOOLEAN /\ corr.dts \in 0..MaxDts /\ corr.delta \in Nat \ {0}
    /\ flv.open \in BOOLEAN /\ flv.last \in 0..MsWrap - 1 /\ Len(wire) <= MaxTags

\* Within one life of the corrector decoding time strictly increases, by no more
\* than JumpLimit whatever the encoder reports (the default distance counts as
\* such a step), and presentation time never goes back.
CorrectedAdvances ==
    [][corr.set /\ corr'.set /\ corr' # corr =>
         /\ corr'.dts > corr.dts
         /\ corr'.dts - corr.dts <= Max({JumpLimit, DefaultDelta})
         /\ corr'.pts >= corr.pts]_timeVars

\* No frame is presented before it is decoded: FLV composition time and the RTP
\* and HLS timestamps derived from the pair are never negative.
PresentedAfterDecoded == stamp.pts >= stamp.dts

\* The frames of each connection start at 0 and their time never goes back, also
\* when the stream restarts under it, a cached GOP is followed by live frames,
\* the 32-bit stamp wraps, or sequence headers come between them.  Those are
\* stamped 0 wherever they stand, so the time of the tags as such does go back
\* to 0 at every change of configuration; what holds is that it goes on after
\* it where it was.  Only the last tag of a connection can be incomplete, so a
\* tag is never written into the middle of another.
FlvStreamWellFormed ==
    LET frames == SelectSeq(wire, LAMBDA t : ~t.config)
    IN  /\ frames # <<>> => frames[1].ms = 0
        /\ \A n \in DOMAIN frames :
              /\ n > 1 => frames[n].ms >= frames[n - 1].ms
              /\ frames[n].ct >= 0
        /\ \A n \in DOMAIN wire : wire[n].missing > 0 => n = Len(wire) /\ ~flv.open

TimeSpec == TimeInit /\ [][TimeNext]_timeVars

\* The timeline a player sees, from the encoder's stamps to the bytes of one
\* connection: it advances by sane steps, never presents before decoding, and
\* survives rollbacks, jumps, the wrap, restarts and reconfigurations of the stream.
TimelinePlayable ==
    /\ [](TimeTypeOK /\ PresentedAfterDecoded /\ FlvStreamWellFormed)
    /\ CorrectedAdvances
=============================================================================
