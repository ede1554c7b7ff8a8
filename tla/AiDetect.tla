------------------------------ MODULE AiDetect ------------------------------
(***************************************************************************)
(* libs/ai: what the detection backends compute.  MotionBackend keeps two  *)
(* images and a hardware channel and compares each frame with the one      *)
(* before; its blob of regions is cut to max_results.  SsdPostprocess      *)
(* drops overlapping proposals.  OcclusionBackend reads block sums from an *)
(* integral image.  Pure functions are checked on every input of a small   *)
(* set: one step of DetectNext is one call.                                *)
(***************************************************************************)
EXTENDS Integers, Sequences, FiniteSets
LOCAL INSTANCE SequencesExt
LOCAL INSTANCE FiniteSetsExt
LOCAL INSTANCE Functions

CONSTANTS FrameSizes,       \* frame sizes the camera may deliver
          MaxMotionFrames,  \* bound: frames given to the motion backend
          RegionAreas,      \* areas of the regions of a blob
          MaxRegions,       \* IVE_MAX_REGION_NUM
          AreaThresholds,   \* u16CurAreaThr of the blob
          kMaxResults,      \* max_results
          kAreaStep, kAreaMax,  \* kMotionAreaThresholdStep, the largest HI_U16
          Boxes,            \* proposals' boxes: [x1, y1, x2, y2]
          SsdClasses, Scores, MaxProposals,
          kTopK, kKeepTopK, \* kSsdTopK, kSsdKeepTopK
          Pixels,           \* luma values of a picture of two by two blocks
          kIntegSum         \* kIntegSumMask + 1

ASSUME DetectAssumption == kMaxResults \in Nat \ {0} /\ kAreaStep \in Nat \ {0}

VARIABLES
    mb,       \* MotionBackend: [init, chan, images, blob, ref, cur]; 0: not allocated
    mbPair,   \* the two pictures HI_IVS_MD_Process was last given
    mbFrame,  \* frames so far
    mbLast,   \* the last frame whose Run() succeeded since the workspace was made
    dtIn, dtOut   \* a call of a pure function and its result

dtVars == <<mb, mbPair, mbFrame, mbLast, dtIn, dtOut>>
mbVars == <<mb, mbPair, mbFrame, mbLast>>

NoPicture == [size |-> 0, frame |-> 0]
MotionIdle == [init |-> FALSE, chan |-> FALSE, images |-> <<NoPicture, NoPicture>>, blob |-> FALSE, ref |-> FALSE, cur |-> 0]

DetectInit ==
    /\ mb = MotionIdle /\ mbPair = <<>> /\ mbFrame = 0 /\ mbLast = 0
    /\ dtIn = <<"none">> /\ dtOut = {}

-----------------------------------------------------------------------------
(* MotionBackend *)
MotionStart(ok) ==
    /\ ~mb.init /\ mb' = [mb EXCEPT !.init = ok]
    /\ UNCHANGED <<mbPair, mbFrame, mbLast, dtIn, dtOut>>

FreeWorkspace(m) == [m EXCEPT !.images = <<NoPicture, NoPicture>>, !.blob = FALSE]

MotionStop ==
    /\ mb.init \/ mb.chan
    /\ mb' = [FreeWorkspace(mb) EXCEPT !.init = FALSE, !.chan = FALSE, !.cur = 0, !.ref = FALSE]
    /\ mbLast' = 0 /\ UNCHANGED <<mbPair, mbFrame, dtIn, dtOut>>

HasWorkspace(m, size) == m.images[1].size = size /\ m.blob

(* EnsureWorkspace() of another size; fault: the call that fails.  What was   *)
(* allocated before the failing call is freed again.                          *)
EnsureWorkspaceKeepsReference(m, size, fault) ==
    CASE HasWorkspace(m, size) -> m
      [] ~HasWorkspace(m, size) /\ m.chan /\ fault = "destroy" -> m
      [] ~HasWorkspace(m, size) /\ fault \in {"image1", "image2", "blob", "create"} -> [FreeWorkspace(m) EXCEPT !.chan = FALSE]
      [] OTHER -> [m EXCEPT !.chan = TRUE, !.images = <<[size |-> size, frame |-> 0], [size |-> size, frame |-> 0]>>,
                            !.blob = TRUE]

EnsureWorkspace(m, size, fault) ==
    CASE HasWorkspace(m, size) -> m
      [] ~HasWorkspace(m, size) /\ m.chan /\ fault = "destroy" -> m
      [] ~HasWorkspace(m, size) /\ fault \in {"image1", "image2", "blob", "create"} -> [FreeWorkspace(m) EXCEPT !.chan = FALSE]
      [] OTHER -> [m EXCEPT !.chan = TRUE, !.images = <<[size |-> size, frame |-> 0], [size |-> size, frame |-> 0]>>,
                            !.blob = TRUE, !.ref = FALSE, !.cur = 0]

(* Run(): the frame is copied into the current image and compared with the   *)
(* other one; only a compared frame becomes the reference.                   *)
MotionRun(size, fault) ==
    /\ mb.init /\ mbFrame < MaxMotionFrames
    /\ mbFrame' = mbFrame + 1
    /\ LET w == EnsureWorkspace(mb, size, fault)
           n == mbFrame + 1
           copied == [w EXCEPT !.images[w.cur + 1].frame = IF fault = "copy" THEN 0 ELSE n]
           flipped == [copied EXCEPT !.cur = 1 - @]
           made == IF w.ref THEN mbLast ELSE 0
       IN CASE ~HasWorkspace(w, size) -> mb' = w /\ UNCHANGED <<mbPair, mbLast>>
            [] HasWorkspace(w, size) /\ fault = "copy" -> mb' = copied /\ mbLast' = made /\ UNCHANGED mbPair
            [] HasWorkspace(w, size) /\ fault # "copy" /\ ~w.ref ->
                 mb' = [flipped EXCEPT !.ref = TRUE] /\ mbLast' = n /\ UNCHANGED mbPair
            [] OTHER -> /\ mbPair' = <<copied.images[copied.cur + 1], copied.images[2 - copied.cur], mbLast>>
                        /\ mb' = IF fault = "process" THEN copied ELSE flipped
                        /\ mbLast' = IF fault = "process" THEN mbLast ELSE n
    /\ UNCHANGED <<dtIn, dtOut>>

MotionFaults == {"none", "destroy", "image1", "image2", "blob", "create", "copy", "process"}

-----------------------------------------------------------------------------
(* DecodeBlob(): the area threshold rises in steps from the one the hardware  *)
(* used (u16CurAreaThr) until few enough regions are above it, then the       *)
(* largest valid ones are kept.  A region: [area, ok]; area 0: an empty slot. *)
Above(blob, thr) == {i \in DOMAIN blob : blob[i].area > thr}

RisingThreshold(blob, cur) ==
    IF Cardinality(Above(blob, 0)) <= kMaxResults THEN 0
    ELSE LET most == (kAreaMax - cur) \div kAreaStep
             enough == {k \in 0 .. most : Cardinality(Above(blob, cur + k * kAreaStep)) <= kMaxResults}
         IN cur + kAreaStep * (IF enough = {} THEN most ELSE Min(enough))

(* std::sort and resize: any max_results largest ones. *)
Largest(idx, blob, n) ==
    {s \in SUBSET idx : /\ Cardinality(s) = Min({n, Cardinality(idx)})
                        /\ \A i \in s, j \in idx \ s : blob[i].area >= blob[j].area}

DecodeBlob(blob, cur) ==
    Largest({i \in Above(blob, RisingThreshold(blob, cur)) : blob[i].ok}, blob, kMaxResults)

CallDecodeBlob(blob, cur) ==
    /\ dtIn = <<"none">> /\ dtIn' = <<"blob", blob>>
    /\ \E keep \in DecodeBlob(blob, cur) : dtOut' = keep
    /\ UNCHANGED mbVars

(* SsdBoxIou() > kSsdNmsThreshold (0.3), on boxes whose corners are included. *)
Extent(a, b) == Max({0, b - a + 1})
Overlap(p, q) ==
    Extent(Max({p.x1, q.x1}), Min({p.x2, q.x2})) * Extent(Max({p.y1, q.y1}), Min({p.y2, q.y2}))
Area(p) == Extent(p.x1, p.x2) * Extent(p.y1, p.y2)
Suppresses(p, q) == 10 * Overlap(p, q) > 3 * (Area(p) + Area(q) - Overlap(p, q))

(* std::sort by score: equal scores come in any order. *)
Sortings(props) ==
    {o \in [DOMAIN props -> DOMAIN props] :
        /\ \A i, j \in DOMAIN props : i # j => o[i] # o[j]
        /\ \A i, j \in DOMAIN props : i < j => props[o[i]].score >= props[o[j]].score}

(* AppendNmsProposals(): the best of a class from the best score down; one is *)
(* kept unless a kept one suppresses it.                                      *)
OfClass(props, o, class) ==
    LET own == SelectSeq(o, LAMBDA i : props[i].class = class)
    IN SubSeq(own, 1, Min({kTopK, Len(own)}))

NmsKeep(props, sorted) ==
    LET keep[i \in 0 .. Len(sorted)] ==
          IF i = 0 THEN {}
          ELSE IF \E k \in keep[i - 1] : Suppresses(props[k].box, props[sorted[i]].box)
               THEN keep[i - 1] ELSE keep[i - 1] \union {sorted[i]}
    IN keep[Len(sorted)]

(* DecodeDetections(): what the classes keep, cut to the best of all. *)
Best(idx, props, n) ==
    {s \in SUBSET idx : /\ Cardinality(s) = Min({n, Cardinality(idx)})
                        /\ \A i \in s, j \in idx \ s : props[i].score >= props[j].score}

DecodeDetections(props) ==
    UNION {Best(UNION {NmsKeep(props, OfClass(props, o, c)) : c \in SsdClasses}, props, Min({kKeepTopK, kMaxResults}))
             : o \in Sortings(props)}

CallNms(props) ==
    /\ dtIn = <<"none">> /\ dtIn' = <<"nms", props>>
    /\ \E keep \in DecodeDetections(props) : dtOut' = keep
    /\ UNCHANGED mbVars

-----------------------------------------------------------------------------
(* ReadBlockStats(): sums of a block from four corners of the integral image.  *)
(* A word of it holds the sum of the pixels above and left of a place in its   *)
(* low bits and the sum of their squares in the others; the picture has two by *)
(* two blocks of 2 by 1 pixels, so that every corner is there and not there.   *)
kBlock == <<2, 1>>   \* block_width, block_height
PictureCells == (0 .. 2 * kBlock[1] - 1) \X (0 .. 2 * kBlock[2] - 1)
Blocks == {0, 1} \X {0, 1}

SumOver(pic, cells) == FoldSet(LAMBDA c, acc : acc + pic[c], 0, cells)
Squares(pic) == [c \in DOMAIN pic |-> pic[c] * pic[c]]

Integral(pic, x, y) ==
    LET cells == {c \in DOMAIN pic : c[1] <= x /\ c[2] <= y}
    IN SumOver(pic, cells) + kIntegSum * SumOver(Squares(pic), cells)

SumOf(word) == word % kIntegSum
SquareOf(word) == word \div kIntegSum

BlockSum(pic, gx, gy) ==
    LET left == gx * kBlock[1]
        top == gy * kBlock[2]
        right == (gx + 1) * kBlock[1] - 1
        bottom == (gy + 1) * kBlock[2] - 1
        topLeft == IF top = 0 \/ left = 0 THEN 0 ELSE Integral(pic, left - 1, top - 1)
        topRight == IF top = 0 THEN 0 ELSE Integral(pic, right, top - 1)
        bottomLeft == IF left = 0 THEN 0 ELSE Integral(pic, left - 1, bottom)
        bottomRight == Integral(pic, right, bottom)
        block(part(_)) == part(topLeft) + part(bottomRight) - part(bottomLeft) - part(topRight)
    IN [sum |-> block(SumOf), square |-> block(SquareOf)]

CallBlockSum(pic) ==
    /\ dtIn = <<"none">> /\ dtIn' = <<"block", pic>>
    /\ dtOut' = {<<g, BlockSum(pic, g[1], g[2])>> : g \in Blocks}
    /\ UNCHANGED mbVars

SeqsUpTo(S, n) == UNION {[1 .. k -> S] : k \in 0 .. n}

(* The pure calls are made from the initial state, one per behaviour. *)
PureCall ==
    /\ mb = MotionIdle /\ mbFrame = 0 /\ dtIn = <<"none">>
    /\ \/ \E blob \in SeqsUpTo([area : RegionAreas, ok : BOOLEAN], MaxRegions), cur \in AreaThresholds :
            CallDecodeBlob(blob, cur)
       \/ \E props \in SeqsUpTo([class : SsdClasses, score : Scores, box : Boxes], MaxProposals) : CallNms(props)
       \/ \E pic \in [PictureCells -> Pixels] : CallBlockSum(pic)

DetectNext ==
    \/ PureCall
    \/ dtIn = <<"none">> /\ \E ok \in BOOLEAN : MotionStart(ok)
    \/ dtIn = <<"none">> /\ MotionStop
    \/ \E size \in FrameSizes, fault \in MotionFaults : dtIn = <<"none">> /\ MotionRun(size, fault)

DetectSpec == DetectInit /\ [][DetectNext]_dtVars

-----------------------------------------------------------------------------
(* Types of the state; between two calls the motion workspace is whole: both  *)
(* images, the blob and the channel, or nothing but what a failed destroy left. *)
DetectTypeOK ==
    /\ mb.cur \in {0, 1}
    /\ mb.images[1].size = mb.images[2].size /\ (mb.images[1].size # 0) = mb.blob
    /\ mb.blob => mb.chan

(* The motion detector is only ever given the new frame and the last frame it *)
(* processed, both of one size: never an image that a resize, an allocation   *)
(* failure or a failed copy left behind.                                      *)
MotionComparesFresh ==
    mbPair # <<>> => /\ mbPair[1].size = mbPair[2].size
                     /\ mbPair[2].frame # 0 /\ mbPair[2].frame = mbPair[3]

(* DecodeBlob() returns at most max_results regions, all of them valid, and   *)
(* never drops a larger valid region for a smaller one.                       *)
LargestRegionsKept ==
    dtIn[1] = "blob" =>
        /\ Cardinality(dtOut) <= kMaxResults
        /\ \A i \in dtOut : dtIn[2][i].ok /\ dtIn[2][i].area > 0
        /\ \A i \in dtOut, j \in DOMAIN dtIn[2] \ dtOut : dtIn[2][j].ok => dtIn[2][i].area >= dtIn[2][j].area

(* The detections are at most max_results, no two of a class overlap, and a   *)
(* proposal is left out only for a reason: one of its class with at least its *)
(* score that overlaps it is there, kSsdTopK of its class or as many          *)
(* detections as are allowed have at least its score.                         *)
NmsIsMaximal ==
    LET props == dtIn[2]
        full == Min({kKeepTopK, kMaxResults})
    IN  dtIn[1] = "nms" =>
        /\ Cardinality(dtOut) <= full
        /\ \A i, j \in dtOut : i # j /\ props[i].class = props[j].class => ~Suppresses(props[i].box, props[j].box)
        /\ \A j \in DOMAIN props \ dtOut :
             \/ \E i \in dtOut : /\ props[i].class = props[j].class /\ props[i].score >= props[j].score
                                 /\ Suppresses(props[i].box, props[j].box)
             \/ kTopK <= Cardinality({i \in DOMAIN props \ {j} : props[i].class = props[j].class
                                                               /\ props[i].score >= props[j].score})
             \/ Cardinality(dtOut) = full /\ \A i \in dtOut : props[i].score >= props[j].score

(* The sum and the square sum read from the integral image are those of the   *)
(* block's pixels, for blocks at the edges of the picture and inside it.      *)
BlockSumExact ==
    dtIn[1] = "block" =>
        \A r \in dtOut :
            LET pic == dtIn[2]
                cells == {c \in DOMAIN pic : c[1] \div kBlock[1] = r[1][1] /\ c[2] \div kBlock[2] = r[1][2]}
            IN r[2] = [sum |-> SumOver(pic, cells), square |-> SumOver(Squares(pic), cells)]

\* The detection backends compute what they are for: motion between two frames of
\* one size, the largest regions, the best boxes of each class without overlap, and
\* exact sums and square sums of the blocks.
DetectionExact ==
    /\ DetectTypeOK /\ MotionComparesFresh /\ LargestRegionsKept
    /\ NmsIsMaximal /\ BlockSumExact
=============================================================================
