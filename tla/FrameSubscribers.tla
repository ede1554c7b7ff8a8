-------------------------- MODULE FrameSubscribers --------------------------
(***************************************************************************)
(* The encoded-frame distribution of libs/media: FrameSubscribers          *)
(* (frame_subscribers.cpp) behind the API of MediaStreams                  *)
(* (media_streams_impl.cpp), as the RTSP and the WebRTC senders use it.    *)
(*                                                                         *)
(* Every operation runs under MediaStreams' mutex, so each is one action;  *)
(* a consumer's SubscribeFrames, GetSubscriptionStart and PullFrame are    *)
(* separate critical sections, so frames may arrive between them.          *)
(*                                                                         *)
(* Abstracted: payloads, timestamps and codecs (a frame is its sequence    *)
(* number, whether it is a keyframe and its size), close reasons and       *)
(* statistics.                                                             *)
(***************************************************************************)
EXTENDS Naturals, Sequences, FiniteSets, MultiReaderQueue

CONSTANTS
    Streams,           \* StreamId: kMain, kSub
    FrameSizes,        \* payload sizes the encoder produces
    MaxSharedFrames,   \* options_.max_shared_frames
    MaxSharedBytes,    \* options_.max_shared_bytes
    MaxGopFrames,      \* options_.max_gop_frames
    MaxGopBytes,       \* options_.max_gop_bytes
    MaxSubscriptions,  \* options_.max_frame_subscriptions
    MaxSequence,       \* bound: frames written per stream
    MaxId,             \* bound: subscriptions created between two Clears
    MaxResets          \* bound: ClearStream and Clear calls

ASSUME LimitsAssumption ==
    /\ FrameSizes \subseteq Nat
    /\ MaxSharedFrames \in Nat \ {0} /\ MaxSharedBytes \in Nat \ {0}
    /\ MaxGopFrames \in Nat \ {0}    /\ MaxGopBytes \in Nat \ {0}
    /\ MaxSubscriptions \in Nat \ {0}
    /\ MaxSequence \in Nat /\ MaxId \in Nat /\ MaxResets \in Nat

VARIABLES
    cache,        \* main_cache_, sub_cache_: the current GOP of each stream
    shared,       \* main_shared_frames_, sub_shared_frames_
    subscribers,  \* subscribers_: subscription id -> FrameSubscriber
    next_id,      \* next_subscription_id_
    resets,       \* number of clears so far (bounds the model)
    started,      \* history: ids whose GetSubscriptionStart has returned
    received      \* history: the frames each consumer was handed, in order

vars == <<cache, shared, subscribers, next_id, resets, started, received>>

Frame == [sequence : Nat, keyframe : BOOLEAN, bytes : FrameSizes]

StreamCache == [frames : Seq(Frame), complete : BOOLEAN,
                gop_version : Nat, stream_reset_version : Nat]

Queue == [items : Seq(Frame), first : Nat, next : Nat]

FrameSubscriber ==
    [stream_id : Streams, keyframe_first : BOOLEAN, wait_keyframe : BOOLEAN,
     slow : BOOLEAN, start_sequence : Nat, start_gop_version : Nat,
     next_sequence : Nat, stream_reset_version : Nat]

Ids == DOMAIN subscribers

EmptyMap == [id \in {} |-> {}]

Init ==
    /\ cache = [s \in Streams |->
                   [frames |-> <<>>, complete |-> FALSE,
                    gop_version |-> 0, stream_reset_version |-> 0]]
    /\ shared = [s \in Streams |-> EmptyQueue]
    /\ subscribers = EmptyMap
    /\ next_id = 1
    /\ resets = 0
    /\ started = {}
    /\ received = EmptyMap

-----------------------------------------------------------------------------
(* The GOP cache of a stream. *)

ClearCache(c) == [c EXCEPT !.frames = <<>>, !.complete = FALSE]

DropCache(c) ==
    [ClearCache(c) EXCEPT !.gop_version = c.gop_version + 1]

CacheFull(c, frame) ==
    \/ Len(c.frames) >= MaxGopFrames
    \/ frame.bytes > MaxGopBytes
    \/ Bytes(c.frames) + frame.bytes > MaxGopBytes

StartGop(c, frame) ==
    IF frame.keyframe
    THEN [c EXCEPT !.frames = <<>>, !.complete = TRUE,
                   !.gop_version = c.gop_version + 1]
    ELSE c

\* Mutant: a P frame does not close a GOP that overflows.
AppendToCacheSkip(c, frame) ==
    LET gop == StartGop(c, frame)
    IN  IF ~gop.complete \/ CacheFull(gop, frame) THEN gop
        ELSE [gop EXCEPT !.frames = Append(gop.frames, frame)]

AppendToCache(c, frame) ==
    LET gop == StartGop(c, frame)
    IN  IF ~gop.complete THEN gop
        ELSE IF CacheFull(gop, frame) THEN DropCache(gop)
        ELSE [gop EXCEPT !.frames = Append(gop.frames, frame)]

\* AcceptFrame -> FrameSubscribers::Write: the frame enters the shared queue
\* and the GOP cache in one critical section.
Write(s, keyframe, bytes) ==
    LET frame == [sequence |-> shared[s].next, keyframe |-> keyframe,
                  bytes |-> bytes]
    IN  /\ shared[s].next <= MaxSequence
        /\ shared' = [shared EXCEPT ![s] =
                          Push(@, frame, MaxSharedFrames, MaxSharedBytes)]
        /\ cache' = [cache EXCEPT ![s] = AppendToCache(@, frame)]
        /\ UNCHANGED <<subscribers, next_id, resets, started, received>>

-----------------------------------------------------------------------------
(* Subscriptions. *)

NewSubscriber(s, keyframe_first) ==
    [stream_id            |-> s,
     keyframe_first       |-> keyframe_first,
     wait_keyframe        |-> keyframe_first /\ ~cache[s].complete,
     slow                 |-> FALSE,
     start_sequence       |-> shared[s].next,
     start_gop_version    |-> cache[s].gop_version,
     next_sequence        |-> shared[s].next,
     stream_reset_version |-> cache[s].stream_reset_version]

SubscribeFrames(s, keyframe_first) ==
    /\ Cardinality(Ids) < MaxSubscriptions
    /\ next_id <= MaxId
    /\ subscribers' = [id \in Ids \cup {next_id} |->
                          IF id = next_id THEN NewSubscriber(s, keyframe_first)
                          ELSE subscribers[id]]
    /\ received' = [id \in Ids \cup {next_id} |->
                       IF id = next_id THEN <<>> ELSE received[id]]
    /\ next_id' = next_id + 1
    /\ UNCHANGED <<cache, shared, resets, started>>

UnsubscribeFrames(id) ==
    /\ subscribers' = [i \in Ids \ {id} |-> subscribers[i]]
    /\ received' = [i \in Ids \ {id} |-> received[i]]
    /\ started' = started \ {id}
    /\ UNCHANGED <<cache, shared, next_id, resets>>

\* Mutant: the whole cache, the frames newer than the subscription included.
OldFramesAll(frames, start) == frames

\* The GOP is handed out only if it is still the one the subscription was
\* created under, and only the frames older than the subscription: the later
\* ones are left to PullFrame.  Cached sequences ascend, so these are a prefix.
OldFrames(frames, start) ==
    LET n == CHOOSE n \in 0..Len(frames) :
                 \A i \in 1..Len(frames) :
                     frames[i].sequence < start <=> i <= n
    IN  SubSeq(frames, 1, n)

GopFrames(sub) ==
    LET c == cache[sub.stream_id]
    IN  IF c.complete /\ sub.start_gop_version = c.gop_version
        THEN OldFrames(c.frames, sub.start_sequence)
        ELSE <<>>

GetSubscriptionStart(id) ==
    /\ id \notin started
    /\ received' = [received EXCEPT ![id] = GopFrames(subscribers[id])]
    /\ started' = started \cup {id}
    /\ UNCHANGED <<cache, shared, subscribers, next_id, resets>>

\* GetSubscriptionInfo().pending_frames.
PendingFrameSize(sub, q) ==
    IF sub.next_sequence >= q.next THEN 0
    ELSE LET from == IF sub.next_sequence > q.first THEN sub.next_sequence
                     ELSE q.first
         IN  IF q.next - from > Len(q.items) THEN Len(q.items)
             ELSE q.next - from

\* Mutant: the keyframe gate is not closed.
MarkSubscriberSlowNoWait(sub, q) ==
    [sub EXCEPT !.slow = TRUE, !.next_sequence = q.first]

\* The reader fell off the tail of the queue: resume at the oldest frame that
\* is left, and only on a keyframe.
MarkSubscriberSlow(sub, q) ==
    [sub EXCEPT !.slow = TRUE, !.wait_keyframe = TRUE,
                !.next_sequence = q.first]

AfterOverrun(sub, q) ==
    IF sub.next_sequence < q.first THEN MarkSubscriberSlow(sub, q) ELSE sub

\* The sequences the loop of PullSharedFrame may stop at.
Deliverable(sub, q) ==
    {n \in sub.next_sequence..(q.next - 1) :
        /\ CanRead(q, n)
        /\ sub.wait_keyframe => Read(q, n).keyframe}

FirstOf(S) == CHOOSE n \in S : \A m \in S : n <= m

\* PullSharedFrame returns true: the subscriber resumes after the frame.
Pulled(sub, n) ==
    [sub EXCEPT !.wait_keyframe = FALSE, !.slow = FALSE,
                !.next_sequence = n + 1]

\* Mutant: skipped frames are not passed over.
SkippedStuck(sub, q) == sub

\* PullSharedFrame returns false: the frames that were skipped are not looked
\* at again.
Skipped(sub, q) ==
    [sub EXCEPT !.next_sequence = IF q.next > @ THEN q.next ELSE @]

PullFrame(id) ==
    LET q   == shared[subscribers[id].stream_id]
        sub == AfterOverrun(subscribers[id], q)
        ready == Deliverable(sub, q)
    IN  /\ id \in started
        /\ \/ /\ ready # {}
              /\ subscribers' = [subscribers EXCEPT
                                    ![id] = Pulled(sub, FirstOf(ready))]
              /\ received' = [received EXCEPT
                                    ![id] = Append(@, Read(q, FirstOf(ready)))]
           \/ /\ ready = {}
              /\ subscribers' = [subscribers EXCEPT ![id] = Skipped(sub, q)]
              /\ UNCHANGED received
        /\ UNCHANGED <<cache, shared, next_id, resets, started>>

-----------------------------------------------------------------------------
(* Resets. *)

ResetSubscriberForStream(sub, c, q) ==
    [sub EXCEPT !.wait_keyframe = TRUE, !.slow = FALSE,
                !.next_sequence = q.next,
                !.stream_reset_version = c.stream_reset_version]

\* Codec change, timestamp reset, stream start or stop.
ClearStream(s) ==
    /\ resets < MaxResets
    /\ LET c == [ClearCache(cache[s]) EXCEPT !.stream_reset_version = @ + 1]
           q == ClearQueue(shared[s])
       IN  /\ cache' = [cache EXCEPT ![s] = c]
           /\ shared' = [shared EXCEPT ![s] = q]
           /\ subscribers' =
                 [id \in Ids |->
                     IF subscribers[id].stream_id = s
                     THEN ResetSubscriberForStream(subscribers[id], c, q)
                     ELSE subscribers[id]]
    /\ resets' = resets + 1
    /\ UNCHANGED <<next_id, started, received>>

\* MediaStreams::Start and Stop: every subscription is dropped.
Clear ==
    /\ resets < MaxResets
    /\ cache' = [s \in Streams |-> ClearCache(cache[s])]
    /\ shared' = [s \in Streams |-> ClearQueue(shared[s])]
    /\ subscribers' = EmptyMap
    /\ received' = EmptyMap
    /\ started' = {}
    /\ next_id' = 1
    /\ resets' = resets + 1

-----------------------------------------------------------------------------
Next ==
    \/ \E s \in Streams, k \in BOOLEAN, b \in FrameSizes : Write(s, k, b)
    \/ \E s \in Streams, k \in BOOLEAN : SubscribeFrames(s, k)
    \/ \E id \in Ids : UnsubscribeFrames(id)
    \/ \E id \in Ids : GetSubscriptionStart(id)
    \/ \E id \in Ids : PullFrame(id)
    \/ \E s \in Streams : ClearStream(s)
    \/ Clear

Spec == Init /\ [][Next]_vars

\* The senders' 10 ms timers keep pulling.
Fairness ==
    \A id \in 1..MaxId :
       /\ WF_vars(id \in Ids /\ PullFrame(id))
       /\ WF_vars(id \in Ids /\ GetSubscriptionStart(id))

FairSpec == Spec /\ Fairness

-----------------------------------------------------------------------------
(* Properties. *)

\* Types of the caches, the queues and the subscriptions; ids are those given out.
TypeOK ==
    /\ cache \in [Streams -> StreamCache]
    /\ shared \in [Streams -> Queue]
    /\ next_id \in Nat
    /\ resets \in Nat
    /\ Ids \subseteq 1..(next_id - 1)
    /\ subscribers \in [Ids -> FrameSubscriber]
    /\ started \subseteq Ids
    /\ received \in [Ids -> Seq(Frame)]

\* The shared queue holds exactly the frames first .. next-1, each readable
\* under its own sequence number, within the configured count
\* (multi_reader_queue.h Push, DropOldest, Read).
QueueOK(q) ==
    /\ 1 <= q.first
    /\ q.next = q.first + Len(q.items)
    /\ Len(q.items) <= MaxSharedFrames
    /\ \A i \in 1..Len(q.items) : q.items[i].sequence = q.first + i - 1

\* QueueOK for the queue of every stream.
QueueIndexed == \A s \in Streams : QueueOK(shared[s])

\* Memory held for a stream never exceeds its configured limits, whatever the
\* encoder writes (the eviction loop of Push, the overflow test of
\* AppendToCache).
MemoryBounded ==
    \A s \in Streams :
        /\ Bytes(shared[s].items) <= MaxSharedBytes
        /\ Len(cache[s].frames) <= MaxGopFrames
        /\ Bytes(cache[s].frames) <= MaxGopBytes

\* A complete GOP cache starts with a keyframe, holds no other one, and is the
\* unbroken run of frames up to the newest one written to the shared queue
\* (Write, AppendToCache); an incomplete one is empty.
GopOK(c, next) ==
    IF c.complete
    THEN /\ Len(c.frames) > 0
         /\ \A i \in 1..Len(c.frames) :
                /\ c.frames[i].keyframe <=> i = 1
                /\ c.frames[i].sequence = next - 1 - (Len(c.frames) - i)
    ELSE c.frames = <<>>

\* GopOK for the GOP cache of every stream.
GopDecodable == \A s \in Streams : GopOK(cache[s], shared[s].next)

\* After its first frame, every frame is a keyframe or directly follows the
\* one before it.
Seamless(frames) ==
    \A i \in 2..Len(frames) :
        \/ frames[i].keyframe
        \/ frames[i].sequence = frames[i - 1].sequence + 1

\* What a consumer is handed is decodable without a gap - across the handover
\* from the cached GOP to the live queue, evictions, oversized frames and
\* stream resets (GetSubscriptionStart, PullSharedFrame, MarkSubscriberSlow,
\* ResetSubscriberForStream).
SeamlessDelivery == \A id \in Ids : Seamless(received[id])

\* The strengthening of SeamlessDelivery: a subscriber that is not waiting for
\* a keyframe reads on exactly where its consumer's frames end.
CursorOK(sub, next, isStarted, frames) ==
    /\ sub.start_sequence <= next
    /\ sub.next_sequence <= next
    /\ ~isStarted => frames = <<>>
    /\ ~isStarted /\ ~sub.wait_keyframe =>
           sub.next_sequence = sub.start_sequence
    /\ frames # <<>> /\ ~sub.wait_keyframe =>
           sub.next_sequence = frames[Len(frames)].sequence + 1

\* CursorOK for every subscription (NewSubscriber, PullSharedFrame,
\* MarkSubscriberSlow, ResetSubscriberForStream keep the cursor).
CursorInv ==
    \A id \in Ids :
        CursorOK(subscribers[id], shared[subscribers[id].stream_id].next,
                 id \in started, received[id])

\* pending_frames is the number of frames the subscriber could still read
\* (PendingFrameSize).
PendingExact ==
    \A id \in Ids :
        LET sub == subscribers[id]
            q   == shared[sub.stream_id]
        IN  PendingFrameSize(sub, q) =
                Cardinality({n \in sub.next_sequence..q.next : CanRead(q, n)})

\* A consumer that keeps pulling catches up with the writer
\* (PullSharedFrame always moves its cursor).
CatchesUp ==
    \A id \in 1..MaxId :
        (id \in Ids) ~>
            (id \in Ids =>
                subscribers[id].next_sequence =
                    shared[subscribers[id].stream_id].next)

\* A keyframe_first consumer is handed a keyframe first
\* (rtsp_session_video_sender.cpp, StartMediaStream).
KeyframeFirst ==
    \A id \in Ids :
        subscribers[id].keyframe_first /\ received[id] # <<>> =>
            received[id][1].keyframe

\* The bookkeeping behind every delivery is exact whatever is written, evicted,
\* reset or unsubscribed: queues are indexed without holes, memory stays within
\* its limits, cursors point where reading can go on, and pending_frames counts
\* what a pull can still return.
FrameQueuesExact ==
    /\ TypeOK /\ QueueIndexed /\ MemoryBounded /\ CursorInv /\ PendingExact
=============================================================================
