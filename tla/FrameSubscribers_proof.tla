----------------------- MODULE FrameSubscribers_proof -----------------------
(***************************************************************************)
(* For any number of streams, frame sizes, limits and subscriptions: the   *)
(* shared queues stay indexed, the GOP caches stay decodable and every     *)
(* consumer is handed a gapless stream.                                    *)
(***************************************************************************)
EXTENDS FrameSubscribers, Minimum, FiniteSetTheorems, TLAPS

-----------------------------------------------------------------------------
(* The byte total of a queue. *)

\* The sizes of the frames of a queue.
Sizes(items) == [i \in 1..Len(items) |-> items[i].bytes]

\* Sizes are numbers.
LEMMA SizesType == ASSUME NEW items \in Seq(Frame) PROVE Sizes(items) \in Seq(Nat)
<1>1. ASSUME NEW i \in 1..Len(items) PROVE items[i].bytes \in Nat
  <2>1. items[i] \in Frame
    OBVIOUS
  <2>2. items[i].bytes \in FrameSizes
    BY <2>1, Zenon DEF Frame
  <2> QED BY <2>2, LimitsAssumption
<1> QED BY <1>1 DEF Sizes

\* The bytes of a queue are a number, none for the empty one.
LEMMA BytesType ==
    /\ Bytes(<<>>) = 0
    /\ \A items \in Seq(Frame) : Bytes(items) \in Nat
<1>1. Bytes(<<>>) = Total(<<>>)
  <2>1. [i \in 1..Len(<<>>) |-> <<>>[i].bytes] = <<>>
    OBVIOUS
  <2> QED BY <2>1 DEF Bytes
<1>2. ASSUME NEW items \in Seq(Frame) PROVE Bytes(items) \in Nat
  <2>1. Bytes(items) = Total(Sizes(items))
    BY DEF Bytes, Sizes
  <2> QED BY <2>1, SizesType, TotalType
<1> QED BY <1>1, <1>2, TotalType

\* Appending a value adds its bytes.
LEMMA BytesAppend ==
    ASSUME NEW items \in Seq(Frame), NEW x \in Frame
    PROVE  Bytes(Append(items, x)) = Bytes(items) + x.bytes
<1>1. /\ Bytes(items) = Total(Sizes(items))
      /\ Bytes(Append(items, x)) = Total(Sizes(Append(items, x)))
  BY DEF Bytes, Sizes
<1>2. x.bytes \in Nat
  <2>1. x.bytes \in FrameSizes
    BY Zenon DEF Frame
  <2> QED BY <2>1, LimitsAssumption
<1>3. Sizes(Append(items, x)) = Append(Sizes(items), x.bytes)
  <2> DEFINE a == Sizes(Append(items, x))
             b == Append(Sizes(items), x.bytes)
  <2>1. Sizes(items) \in Seq(Nat) /\ Len(Sizes(items)) = Len(items) /\ Len(items) \in Nat
    BY SizesType DEF Sizes
  <2>2. a \in Seq(Nat) /\ b \in Seq(Nat)
    <3>1. Append(items, x) \in Seq(Frame)
      OBVIOUS
    <3>2. Sizes(Append(items, x)) \in Seq(Nat)
      BY <3>1, SizesType
    <3> QED BY <1>2, <2>1, <3>2
  <2>3. Len(a) = Len(items) + 1 /\ Len(b) = Len(items) + 1
    BY <2>1 DEF Sizes
  <2>4. ASSUME NEW i \in 1..(Len(items) + 1) PROVE a[i] = b[i]
    <3>1. CASE i = Len(items) + 1
      BY <2>1, <3>1 DEF Sizes
    <3>2. CASE i # Len(items) + 1
      <4>1. i \in 1..Len(items)
        BY <2>1, <3>2
      <4> QED BY <2>1, <4>1 DEF Sizes
    <3> QED BY <3>1, <3>2
  <2> HIDE DEF a, b
  <2> QED BY <2>1, <2>2, <2>3, <2>4 DEF a, b
<1> QED BY <1>1, <1>2, <1>3, SizesType, TotalAppend

-----------------------------------------------------------------------------
(* The shared queue. *)

\* The eviction loop of Push stops: after some number of evictions the queue is
\* empty or the new value fits.
LEMMA DropOldestStops ==
    ASSUME NEW items \in Seq(Frame), NEW b, NEW n, NEW m
    PROVE  LET k == DropOldest(items, b, n, m)
           IN  k \in 0..Len(items) /\ Fits(items, k, b, n, m)
<1> DEFINE S == {k \in 0..Len(items) : Fits(items, k, b, n, m)}
<1>1. Len(items) \in Nat
  OBVIOUS
<1>2. Len(items) \in S
  BY <1>1 DEF Fits
<1>3. S \in SUBSET Nat /\ S # {}
  BY <1>1, <1>2
<1>4. \E k \in S : \A j \in S : k <= j
  <2> HIDE DEF S
  <2> QED BY <1>3, LeastNatural
<1>5. \E k \in 0..Len(items) :
          /\ Fits(items, k, b, n, m)
          /\ \A j \in 0..Len(items) : Fits(items, j, b, n, m) => k <= j
  BY <1>4
<1> QED
  BY <1>5 DEF DropOldest

\* What is left after k evictions.
LEMMA SuffixProperties ==
    ASSUME NEW items \in Seq(Frame), NEW k \in 0..Len(items)
    PROVE  /\ Suffix(items, k) \in Seq(Frame)
           /\ Len(Suffix(items, k)) = Len(items) - k
           /\ \A i \in 1..(Len(items) - k) : Suffix(items, k)[i] = items[k + i]
<1>1. Len(items) \in Nat
  OBVIOUS
<1>2. Suffix(items, k) = SubSeq(items, k + 1, Len(items))
  BY DEF Suffix
<1>3. Suffix(items, k) \in Seq(Frame)
  BY <1>1, <1>2
<1>4. Len(Suffix(items, k)) = Len(items) - k
  BY <1>1, <1>2
<1> QED
  BY <1>1, <1>2, <1>3, <1>4, SMTT(30)

\* Push keeps the queue indexed by sequence number and moves next by one.
LEMMA PushOK ==
    ASSUME NEW q \in Queue, QueueOK(q),
           NEW frame \in Frame, frame.sequence = q.next
    PROVE  LET p == Push(q, frame, MaxSharedFrames, MaxSharedBytes)
           IN  p \in Queue /\ QueueOK(p) /\ p.next = q.next + 1
<1> DEFINE p == Push(q, frame, MaxSharedFrames, MaxSharedBytes)
           k == DropOldest(q.items, frame.bytes, MaxSharedFrames,
                           MaxSharedBytes)
<1>0. /\ q.items \in Seq(Frame) /\ q.first \in Nat /\ q.next \in Nat
      /\ Len(q.items) \in Nat
  BY DEF Queue
<1>1. k \in 0..Len(q.items)
      /\ Fits(q.items, k, frame.bytes, MaxSharedFrames, MaxSharedBytes)
  BY <1>0, DropOldestStops
<1>2. CASE frame.bytes > MaxSharedBytes \/ MaxSharedFrames = 0
  <2>1. p = [items |-> <<>>, first |-> q.next + 1, next |-> q.next + 1]
    BY <1>2 DEF Push
  <2> QED
    BY <1>0, <2>1, LimitsAssumption DEF Queue, QueueOK
<1>3. CASE ~(MaxSharedFrames = 0 \/ frame.bytes > MaxSharedBytes)
  <2> DEFINE rest == Suffix(q.items, k)
  <2>1. /\ rest \in Seq(Frame)
        /\ Len(rest) = Len(q.items) - k
        /\ \A i \in 1..Len(rest) : rest[i] = q.items[k + i]
    BY <1>0, <1>1, SuffixProperties
  <2>2. Len(rest) < MaxSharedFrames
    BY <1>0, <1>1, <2>1, LimitsAssumption DEF Fits
  <2>3. p = [items |-> Append(rest, frame),
             first |-> IF k = Len(q.items) THEN q.next ELSE q.first + k,
             next  |-> q.next + 1]
    BY <1>3 DEF Push
  <2> HIDE DEF k, rest, p
  <2>4. p.first = q.first + k
    BY <1>0, <1>1, <2>3 DEF QueueOK
  <2>5. /\ p.items \in Seq(Frame)
        /\ Len(p.items) = Len(rest) + 1
        /\ \A i \in 1..Len(rest) : p.items[i] = rest[i]
        /\ p.items[Len(rest) + 1] = frame
    BY <2>1, <2>3
  <2>6. /\ p \in Queue
        /\ p.next = q.next + 1
    BY <1>0, <1>1, <2>3, <2>4, <2>5 DEF Queue
  <2>7. /\ k \in Nat /\ k <= Len(q.items)
        /\ 1 <= q.first
        /\ q.next = q.first + Len(q.items)
    BY <1>0, <1>1 DEF QueueOK
  <2>8. 1 <= p.first /\ p.next = p.first + Len(p.items)
    <3>1. Len(p.items) = Len(q.items) - k + 1
      BY <2>1, <2>5
    <3>2. p.next = q.first + Len(q.items) + 1
      BY <2>6, <2>7
    <3> QED BY <1>0, <2>4, <2>7, <3>1, <3>2
  <2>9. Len(p.items) <= MaxSharedFrames
    BY <2>1, <2>2, <2>5, LimitsAssumption
  <2>10. ASSUME NEW i \in 1..Len(p.items)
         PROVE  p.items[i].sequence = p.first + i - 1
    <3>1. CASE i \in 1..Len(rest)
      <4>1. p.items[i] = q.items[k + i] /\ k + i \in 1..Len(q.items)
        BY <1>0, <2>1, <2>5, <2>7, <3>1
      <4> QED
        BY <1>0, <2>4, <2>7, <4>1, <3>1 DEF QueueOK
    <3>2. CASE i = Len(rest) + 1
      <4>1. p.items[i].sequence = q.next
        BY <2>5, <3>2
      <4> QED
        BY <1>0, <2>1, <2>4, <2>7, <4>1, <3>2
    <3> QED
      BY <1>0, <2>1, <2>5, <3>1, <3>2
  <2> QED
    BY <2>6, <2>8, <2>9, <2>10 DEF QueueOK, p
<1> QED
  BY <1>2, <1>3

\* Clear keeps the queue indexed and leaves next alone.
LEMMA ClearQueueOK ==
    ASSUME NEW q \in Queue, QueueOK(q)
    PROVE  ClearQueue(q) \in Queue /\ QueueOK(ClearQueue(q))
           /\ ClearQueue(q).next = q.next
<1>0. <<>> \in Seq(Frame)
  OBVIOUS
<1>1. /\ ClearQueue(q).items = <<>>
      /\ ClearQueue(q).first = q.next
      /\ ClearQueue(q).next = q.next
      /\ ClearQueue(q) \in Queue
  BY <1>0 DEF ClearQueue, Queue
<1>2. q.next \in Nat /\ 1 <= q.next
  BY DEF Queue, QueueOK
<1> QED
  BY <1>1, <1>2, LimitsAssumption DEF QueueOK

-----------------------------------------------------------------------------
(* The GOP cache. *)

\* Writing a frame keeps the GOP cache decodable.
LEMMA AppendToCacheOK ==
    ASSUME NEW c \in StreamCache, NEW next \in Nat, GopOK(c, next),
           NEW frame \in Frame, frame.sequence = next
    PROVE  /\ AppendToCache(c, frame) \in StreamCache
           /\ GopOK(AppendToCache(c, frame), next + 1)
<1> DEFINE gop == StartGop(c, frame)
           new == AppendToCache(c, frame)
<1>0. <<>> \in Seq(Frame)
  OBVIOUS
<1>1. gop \in StreamCache
  <2>1. CASE frame.keyframe
    <3>1. gop = [c EXCEPT !.frames = <<>>, !.complete = TRUE,
                          !.gop_version = c.gop_version + 1]
      BY <2>1 DEF StartGop
    <3>2. c.gop_version + 1 \in Nat
      BY DEF StreamCache
    <3> HIDE DEF gop
    <3> QED BY <1>0, <3>1, <3>2 DEF StreamCache
  <2>2. CASE ~frame.keyframe
    BY <2>2 DEF StartGop
  <2> QED BY <2>1, <2>2
<1>2. CASE ~gop.complete
  <2>1. new = gop /\ gop = c
    BY <1>2 DEF AppendToCache, StartGop, StreamCache
  <2> QED
    BY <1>1, <1>2, <2>1 DEF GopOK
<1>3. CASE gop.complete /\ CacheFull(gop, frame)
  <2>1. new = DropCache(gop)
    BY <1>3 DEF AppendToCache
  <2> HIDE DEF gop, new
  <2>2. new \in StreamCache /\ ~new.complete /\ new.frames = <<>>
    <3> DEFINE e == ClearCache(gop)
    <3>1. e \in StreamCache /\ ~e.complete /\ e.frames = <<>>
      BY <1>0, <1>1 DEF ClearCache, StreamCache
    <3>2. gop.gop_version + 1 \in Nat
      BY <1>1 DEF StreamCache
    <3>3. new = [e EXCEPT !.gop_version = gop.gop_version + 1]
      BY <2>1 DEF DropCache
    <3> HIDE DEF e
    <3> QED BY <3>1, <3>2, <3>3 DEF StreamCache
  <2> QED
    BY <2>2 DEF GopOK, new
<1>4. CASE gop.complete /\ ~CacheFull(gop, frame)
  <2>1. new = [gop EXCEPT !.frames = Append(gop.frames, frame)]
    BY <1>4 DEF AppendToCache
  <2>2. gop.frames \in Seq(Frame) /\ Len(gop.frames) \in Nat
    BY <1>1 DEF StreamCache
  <2>3. /\ new \in StreamCache
        /\ new.complete
        /\ new.frames = Append(gop.frames, frame)
    <3>1. Append(gop.frames, frame) \in Seq(Frame)
      BY <2>2
    <3> HIDE DEF gop, new
    <3> QED
      BY <1>1, <1>4, <2>1, <3>1 DEF StreamCache
  <2>4. /\ frame.keyframe => gop.frames = <<>>
        /\ ~frame.keyframe => Len(gop.frames) > 0
        /\ \A i \in 1..Len(gop.frames) :
               /\ gop.frames[i].keyframe <=> i = 1
               /\ gop.frames[i].sequence = next - 1 - (Len(gop.frames) - i)
    <3>1. CASE frame.keyframe
      <4>1. gop.frames = <<>>
        BY <3>1 DEF StartGop, StreamCache
      <4> QED BY <3>1, <4>1
    <3>2. CASE ~frame.keyframe
      <4>1. gop = c
        BY <3>2 DEF StartGop
      <4> QED
        BY <1>4, <3>2, <4>1 DEF GopOK
    <3> QED BY <3>1, <3>2
  <2>5. /\ Len(new.frames) = Len(gop.frames) + 1
        /\ \A i \in 1..Len(gop.frames) : new.frames[i] = gop.frames[i]
        /\ new.frames[Len(gop.frames) + 1] = frame
    BY <2>2, <2>3
  <2> HIDE DEF gop, new
  <2>6. ASSUME NEW i \in 1..Len(new.frames)
        PROVE  /\ new.frames[i].keyframe <=> i = 1
               /\ new.frames[i].sequence =
                      (next + 1) - 1 - (Len(new.frames) - i)
    <3>1. CASE i \in 1..Len(gop.frames)
      <4>1. new.frames[i] = gop.frames[i]
        BY <2>5, <3>1
      <4>2. /\ gop.frames[i].keyframe <=> i = 1
            /\ gop.frames[i].sequence = next - 1 - (Len(gop.frames) - i)
        BY <2>4, <3>1
      <4>3. (next + 1) - 1 - (Len(new.frames) - i) =
                next - 1 - (Len(gop.frames) - i)
        BY <2>2, <2>5
      <4> QED
        BY <4>1, <4>2, <4>3
    <3>2. CASE i = Len(gop.frames) + 1
      <4>1. new.frames[i] = frame
        BY <2>5, <3>2
      <4>2. frame.keyframe <=> i = 1
        BY <2>2, <2>4, <3>2
      <4> QED
        BY <2>2, <2>5, <4>1, <4>2, <3>2
    <3>3. i \in 1..Len(gop.frames) \/ i = Len(gop.frames) + 1
      BY <2>2, <2>5
    <3> QED
      BY <3>1, <3>2, <3>3
  <2>7. Len(new.frames) > 0
    BY <2>2, <2>5
  <2>8. GopOK(new, next + 1)
    <3>1. new.complete
      BY <2>3
    <3> QED BY <2>6, <2>7, <3>1 DEF GopOK
  <2> QED
    BY <2>3, <2>8 DEF new
<1> QED
  BY <1>2, <1>3, <1>4

\* The frames handed out at the start of a subscription are seamless and end
\* right before the subscription's first live frame.
LEMMA OldFramesOK ==
    ASSUME NEW c \in StreamCache, NEW next \in Nat, GopOK(c, next),
           c.complete, NEW start \in Nat, start <= next
    PROVE  LET f == OldFrames(c.frames, start)
           IN  /\ f \in Seq(Frame)
               /\ Seamless(f)
               /\ f # <<>> => f[Len(f)].sequence + 1 = start
<1> DEFINE g == c.frames
           f == OldFrames(c.frames, start)
           lost == next - start
           P(n) == \A i \in 1..Len(g) : g[i].sequence < start <=> i <= n
           n == CHOOSE m \in 0..Len(g) : P(m)
<1>1. /\ g \in Seq(Frame) /\ Len(g) \in Nat
      /\ lost \in Nat
      /\ \A i \in 1..Len(g) : g[i].sequence = next - 1 - (Len(g) - i)
  BY DEF StreamCache, GopOK
<1>2. \E m \in 0..Len(g) : P(m)
  <2>1. CASE lost <= Len(g)
    <3>1. Len(g) - lost \in 0..Len(g)
      BY <1>1, <2>1
    <3>2. ASSUME NEW i \in 1..Len(g)
          PROVE  g[i].sequence < start <=> i <= Len(g) - lost
      <4>1. g[i].sequence = next - 1 - (Len(g) - i)
        BY <1>1
      <4> HIDE DEF g
      <4> QED BY <1>1, <4>1
    <3> QED BY <3>1, <3>2
  <2>2. CASE lost > Len(g)
    <3>1. ASSUME NEW i \in 1..Len(g)
          PROVE  g[i].sequence < start <=> i <= 0
      <4>1. g[i].sequence = next - 1 - (Len(g) - i)
        BY <1>1
      <4> HIDE DEF g
      <4> QED BY <1>1, <2>2, <4>1
    <3> QED BY <1>1, <3>1
  <2> QED BY <1>1, <2>1, <2>2
<1>3. n \in 0..Len(g) /\ P(n)
  <2> HIDE DEF P
  <2> QED BY <1>2
<1>4. f = SubSeq(g, 1, n)
  BY DEF OldFrames
<1> HIDE DEF n, f, g
<1>5. /\ f \in Seq(Frame)
      /\ Len(f) = n
      /\ \A i \in 1..n : f[i] = g[i]
  BY <1>1, <1>3, <1>4
<1>6. Seamless(f)
  <2> SUFFICES ASSUME NEW i \in 2..Len(f)
               PROVE  f[i].sequence = f[i - 1].sequence + 1
    BY DEF Seamless
  <2>1. f[i] = g[i] /\ f[i - 1] = g[i - 1]
    BY <1>3, <1>5
  <2> QED
    BY <1>1, <1>3, <1>5, <2>1
<1>7. ASSUME f # <<>> PROVE f[Len(f)].sequence + 1 = start
  <2>1. n \in 1..Len(g)
    BY <1>1, <1>3, <1>5, <1>7
  <2>2. f[Len(f)] = g[n]
    BY <1>5, <2>1
  <2>3. g[n].sequence < start
    BY <1>3, <2>1
  <2>4. CASE n = Len(g)
    BY <1>1, <2>1, <2>2, <2>3, <2>4
  <2>5. CASE n < Len(g)
    <3>1. ~(g[n + 1].sequence < start)
      BY <1>1, <1>3, <2>1, <2>5
    <3>2. /\ g[n].sequence = next - 1 - (Len(g) - n)
          /\ g[n + 1].sequence = next - 1 - (Len(g) - (n + 1))
      BY <1>1, <2>1, <2>5
    <3>3. /\ g[n].sequence \in Int
          /\ g[n + 1].sequence = g[n].sequence + 1
      BY <1>1, <2>1, <3>2
    <3> QED
      BY <2>2, <2>3, <3>1, <3>3
  <2> QED
    BY <1>1, <2>1, <2>4, <2>5
<1> QED
  BY <1>5, <1>6, <1>7 DEF f

-----------------------------------------------------------------------------
(* Reading. *)

\* After the overrun test the cursor is inside the queue, and a subscriber that
\* does not wait for a keyframe still reads on where its frames end.
LEMMA AfterOverrunOK ==
    ASSUME NEW sub \in FrameSubscriber, NEW q \in Queue, QueueOK(q),
           NEW frames \in Seq(Frame), CursorOK(sub, q.next, TRUE, frames)
    PROVE  LET sub1 == AfterOverrun(sub, q)
           IN  /\ sub1 \in FrameSubscriber
               /\ sub1.stream_id = sub.stream_id
               /\ q.first <= sub1.next_sequence
               /\ CursorOK(sub1, q.next, TRUE, frames)
<1> DEFINE sub1 == AfterOverrun(sub, q)
<1>1. /\ q.first \in Nat /\ q.next \in Nat /\ q.first <= q.next
      /\ sub.next_sequence \in Nat /\ sub.start_sequence \in Nat
  BY DEF Queue, QueueOK, FrameSubscriber
<1>2. CASE sub.next_sequence < q.first
  <2>1. sub1 = [sub EXCEPT !.slow = TRUE, !.wait_keyframe = TRUE,
                           !.next_sequence = q.first]
    BY <1>2 DEF AfterOverrun, MarkSubscriberSlow
  <2> HIDE DEF sub1
  <2>2. /\ sub1 \in FrameSubscriber
        /\ sub1.stream_id = sub.stream_id
        /\ sub1.wait_keyframe
        /\ sub1.next_sequence = q.first
        /\ sub1.start_sequence = sub.start_sequence
    BY <1>1, <2>1 DEF FrameSubscriber
  <2>3. CursorOK(sub1, q.next, TRUE, frames)
    BY <1>1, <2>2 DEF CursorOK
  <2>4. q.first <= sub1.next_sequence
    BY <1>1, <2>2
  <2> QED
    BY <2>2, <2>3, <2>4 DEF sub1
<1>3. CASE ~(sub.next_sequence < q.first)
  <2>1. sub1 = sub
    BY <1>3 DEF AfterOverrun
  <2>2. q.first <= sub.next_sequence
    BY <1>1, <1>3
  <2> QED
    BY <2>1, <2>2
<1> QED
  BY <1>2, <1>3

\* A frame under the cursor can be read, and carries the sequence number it is
\* read by.
LEMMA ReadOK ==
    ASSUME NEW q \in Queue, QueueOK(q), NEW n \in Nat,
           q.first <= n, n < q.next
    PROVE  CanRead(q, n) /\ Read(q, n) \in Frame /\ Read(q, n).sequence = n
<1>1. /\ q.first \in Nat /\ q.next \in Nat /\ Len(q.items) \in Nat
      /\ q.items \in Seq(Frame)
      /\ q.next = q.first + Len(q.items)
  BY DEF Queue, QueueOK
<1>2. n - q.first + 1 \in 1..Len(q.items)
  BY <1>1
<1>3. CanRead(q, n)
  BY <1>1 DEF CanRead
<1>4. Read(q, n) \in Frame
  BY <1>1, <1>2 DEF Read
<1>5. q.items[n - q.first + 1].sequence = q.first + ((n - q.first + 1) - 1)
  BY <1>2 DEF QueueOK
<1> QED
  BY <1>1, <1>3, <1>4, <1>5 DEF Read

\* What PullFrame does to a subscriber and to the frames its consumer holds.
LEMMA PullOK ==
    ASSUME NEW sub \in FrameSubscriber, NEW q \in Queue, QueueOK(q),
           NEW frames \in Seq(Frame), CursorOK(sub, q.next, TRUE, frames),
           q.first <= sub.next_sequence, Seamless(frames)
    PROVE  LET ready == Deliverable(sub, q)
               n     == FirstOf(ready)
               more  == Append(frames, Read(q, n))
           IN  /\ ready # {} =>
                     /\ Pulled(sub, n) \in FrameSubscriber
                     /\ Pulled(sub, n).stream_id = sub.stream_id
                     /\ more \in Seq(Frame)
                     /\ Seamless(more)
                     /\ CursorOK(Pulled(sub, n), q.next, TRUE, more)
               /\ ready = {} =>
                     /\ Skipped(sub, q) \in FrameSubscriber
                     /\ Skipped(sub, q).stream_id = sub.stream_id
                     /\ CursorOK(Skipped(sub, q), q.next, TRUE, frames)
<1> DEFINE ready == Deliverable(sub, q)
           n     == FirstOf(ready)
           more  == Append(frames, Read(q, n))
           c     == sub.next_sequence
<1>1. /\ q.first \in Nat /\ q.next \in Nat
      /\ c \in Nat /\ sub.start_sequence \in Nat
      /\ c <= q.next /\ sub.start_sequence <= q.next
  BY DEF Queue, FrameSubscriber, CursorOK
<1>2. c < q.next /\ ~sub.wait_keyframe => c \in ready
  BY <1>1, ReadOK DEF Deliverable
<1>3. ASSUME ready # {}
      PROVE  /\ Pulled(sub, n) \in FrameSubscriber
             /\ Pulled(sub, n).stream_id = sub.stream_id
             /\ more \in Seq(Frame)
             /\ Seamless(more)
             /\ CursorOK(Pulled(sub, n), q.next, TRUE, more)
  <2>1. ready \in SUBSET Nat
    BY <1>1 DEF Deliverable
  <2>2. n \in ready /\ \A m \in ready : n <= m
    <3>1. \E k \in ready : \A m \in ready : k <= m
      <4> HIDE DEF ready
      <4> QED BY <1>3, <2>1, LeastNatural
    <3> HIDE DEF ready
    <3> QED BY <3>1 DEF FirstOf
  <2>3. /\ n \in Nat /\ c <= n /\ n < q.next
        /\ sub.wait_keyframe => Read(q, n).keyframe
    BY <1>1, <2>2 DEF Deliverable
  <2>4. ~sub.wait_keyframe => n = c
    BY <1>1, <1>2, <2>2, <2>3
  <2>5. Read(q, n) \in Frame /\ Read(q, n).sequence = n
    BY <1>1, <2>3, ReadOK
  <2> HIDE DEF n, ready
  <2>6. /\ more \in Seq(Frame) /\ Len(more) = Len(frames) + 1
        /\ Len(frames) \in Nat
        /\ more[Len(frames) + 1] = Read(q, n)
        /\ \A i \in 1..Len(frames) : more[i] = frames[i]
    BY <2>5
  <2> HIDE DEF more
  <2>7. Seamless(more)
    <3> SUFFICES ASSUME NEW i \in 2..Len(more)
                 PROVE  more[i].keyframe
                        \/ more[i].sequence = more[i - 1].sequence + 1
      BY DEF Seamless
    <3>1. CASE i = Len(frames) + 1
      <4>1. i - 1 = Len(frames) /\ Len(frames) \in 1..Len(frames)
        BY <2>6, <3>1
      <4>2. more[i] = Read(q, n) /\ more[i - 1] = frames[Len(frames)]
        BY <2>6, <3>1, <4>1
      <4>3. CASE ~sub.wait_keyframe
        <5>1. frames # <<>>
          BY <4>1
        <5>2. c = frames[Len(frames)].sequence + 1
          BY <4>3, <5>1 DEF CursorOK
        <5> QED BY <2>4, <2>5, <4>2, <4>3, <5>2
      <4> QED BY <2>3, <4>2, <4>3
    <3>2. CASE i \in 2..Len(frames)
      <4>1. more[i] = frames[i] /\ more[i - 1] = frames[i - 1]
        BY <2>6, <3>2
      <4> QED BY <3>2, <4>1 DEF Seamless
    <3>3. i = Len(frames) + 1 \/ i \in 2..Len(frames)
      BY <2>6
    <3> QED BY <3>1, <3>2, <3>3
  <2>8. /\ Pulled(sub, n) \in FrameSubscriber
        /\ Pulled(sub, n).stream_id = sub.stream_id
        /\ Pulled(sub, n).next_sequence = n + 1
        /\ Pulled(sub, n).start_sequence = sub.start_sequence
    <3>1. n + 1 \in Nat
      BY <2>3
    <3> QED BY <3>1 DEF Pulled, FrameSubscriber
  <2>9. more[Len(more)].sequence + 1 = n + 1
    BY <2>5, <2>6
  <2>10. CursorOK(Pulled(sub, n), q.next, TRUE, more)
    BY <1>1, <2>3, <2>8, <2>9 DEF CursorOK
  <2> QED
    BY <2>6, <2>7, <2>8, <2>10
<1>4. ASSUME ready = {}
      PROVE  /\ Skipped(sub, q) \in FrameSubscriber
             /\ Skipped(sub, q).stream_id = sub.stream_id
             /\ CursorOK(Skipped(sub, q), q.next, TRUE, frames)
  <2>1. Skipped(sub, q) = [sub EXCEPT !.next_sequence = q.next]
    BY <1>1 DEF Skipped, FrameSubscriber
  <2>2. /\ Skipped(sub, q) \in FrameSubscriber
        /\ Skipped(sub, q).stream_id = sub.stream_id
        /\ Skipped(sub, q).wait_keyframe = sub.wait_keyframe
        /\ Skipped(sub, q).next_sequence = q.next
        /\ Skipped(sub, q).start_sequence = sub.start_sequence
    BY <1>1, <2>1 DEF FrameSubscriber
  <2>3. ~sub.wait_keyframe => c = q.next
    BY <1>1, <1>2, <1>4
  <2>4. CursorOK(Skipped(sub, q), q.next, TRUE, frames)
    BY <1>1, <2>2, <2>3 DEF CursorOK
  <2> QED
    BY <2>2, <2>4
<1> QED
  BY <1>3, <1>4

-----------------------------------------------------------------------------
(* The invariant. *)

\* Together these are inductive.
Inv == TypeOK /\ QueueIndexed /\ GopDecodable /\ CursorInv /\ SeamlessDelivery

\* The initial state satisfies the invariant.
LEMMA InitInv == Init => Inv
<1> SUFFICES ASSUME Init PROVE Inv
  OBVIOUS
<1> USE DEF Init
<1>0. <<>> \in Seq(Frame)
  OBVIOUS
<1>1. Ids = {} /\ DOMAIN received = {}
  BY DEF Ids, EmptyMap
<1>2. TypeOK
  <2>1. cache \in [Streams -> StreamCache]
    BY <1>0 DEF StreamCache
  <2>2. shared \in [Streams -> Queue]
    BY <1>0 DEF Queue, EmptyQueue
  <2>3. subscribers \in [Ids -> FrameSubscriber]
    BY <1>1 DEF EmptyMap
  <2>4. received \in [Ids -> Seq(Frame)]
    BY <1>1 DEF EmptyMap
  <2> QED
    BY <1>1, <2>1, <2>2, <2>3, <2>4 DEF TypeOK
<1>3. QueueIndexed
  BY LimitsAssumption DEF QueueIndexed, QueueOK, EmptyQueue
<1>4. GopDecodable
  BY DEF GopDecodable, GopOK
<1> QED
  BY <1>1, <1>2, <1>3, <1>4 DEF Inv, CursorInv, SeamlessDelivery

\* AcceptFrame -> Write keeps it: cursors and consumers are untouched and next
\* only grows.
LEMMA WriteInv ==
    ASSUME Inv, NEW s \in Streams, NEW k \in BOOLEAN, NEW b \in FrameSizes,
           Write(s, k, b)
    PROVE  Inv'
<1> DEFINE frame == [sequence |-> shared[s].next, keyframe |-> k, bytes |-> b]
           q == Push(shared[s], frame, MaxSharedFrames, MaxSharedBytes)
<1>1. /\ cache \in [Streams -> StreamCache] /\ shared \in [Streams -> Queue]
      /\ shared[s] \in Queue /\ shared[s].next \in Nat /\ cache[s] \in StreamCache
      /\ QueueOK(shared[s]) /\ GopOK(cache[s], shared[s].next)
  BY DEF Inv, TypeOK, QueueIndexed, GopDecodable, Queue
<1>2. frame \in Frame /\ frame.sequence = shared[s].next
  BY <1>1 DEF Frame
<1>3. /\ shared' = [shared EXCEPT ![s] = q]
      /\ cache' = [cache EXCEPT ![s] = AppendToCache(cache[s], frame)]
      /\ UNCHANGED <<subscribers, next_id, resets, started, received>>
  BY DEF Write
<1>4. q \in Queue /\ QueueOK(q) /\ q.next = shared[s].next + 1
  <2> HIDE DEF frame
  <2> QED BY <1>1, <1>2, PushOK
<1>5. /\ AppendToCache(cache[s], frame) \in StreamCache
      /\ GopOK(AppendToCache(cache[s], frame), shared[s].next + 1)
  <2> HIDE DEF frame
  <2> QED BY <1>1, <1>2, AppendToCacheOK
<1> HIDE DEF frame, q
<1>6. /\ shared' \in [Streams -> Queue] /\ cache' \in [Streams -> StreamCache]
      /\ shared'[s] = q /\ cache'[s] = AppendToCache(cache[s], frame)
      /\ \A t \in Streams \ {s} : shared'[t] = shared[t] /\ cache'[t] = cache[t]
  BY <1>1, <1>3, <1>4, <1>5
<1>7. TypeOK'
  BY <1>3, <1>6 DEF Inv, TypeOK, Ids
<1>8. QueueIndexed'
  BY <1>4, <1>6 DEF Inv, QueueIndexed
<1>9. GopDecodable'
  BY <1>4, <1>5, <1>6 DEF Inv, GopDecodable
<1>10. CursorInv'
  <2> SUFFICES ASSUME NEW id \in Ids
               PROVE  CursorOK(subscribers[id],
                               shared'[subscribers[id].stream_id].next,
                               id \in started, received[id])
    BY <1>3 DEF CursorInv, Ids
  <2> DEFINE t == subscribers[id].stream_id
  <2>1. /\ subscribers[id] \in FrameSubscriber /\ t \in Streams
        /\ shared[t].next \in Nat /\ shared'[t].next \in Nat
        /\ subscribers[id].start_sequence \in Nat
        /\ subscribers[id].next_sequence \in Nat
    BY <1>6 DEF Inv, TypeOK, FrameSubscriber, Queue
  <2>2. shared[t].next <= shared'[t].next
    <3>1. CASE t = s
      BY <1>1, <1>4, <1>6, <3>1
    <3>2. CASE t # s
      BY <1>6, <2>1, <3>2
    <3> QED BY <3>1, <3>2
  <2>3. CursorOK(subscribers[id], shared[t].next, id \in started, received[id])
    BY DEF Inv, CursorInv
  <2> HIDE DEF t
  <2>4. CursorOK(subscribers[id], shared'[t].next, id \in started, received[id])
    BY <2>1, <2>2, <2>3 DEF CursorOK
  <2> QED
    BY <2>4 DEF t
<1>11. SeamlessDelivery'
  BY <1>3 DEF Inv, SeamlessDelivery, Ids
<1> QED
  BY <1>7, <1>8, <1>9, <1>10, <1>11 DEF Inv

\* SubscribeFrames keeps it: the new cursor is at the end of the queue and its
\* consumer holds nothing yet.
LEMMA SubscribeInv ==
    ASSUME Inv, NEW s \in Streams, NEW k \in BOOLEAN, SubscribeFrames(s, k)
    PROVE  Inv'
<1> DEFINE new == NewSubscriber(s, k)
<1>0. <<>> \in Seq(Frame)
  OBVIOUS
<1>1. /\ shared[s] \in Queue /\ cache[s] \in StreamCache
      /\ shared[s].next \in Nat /\ next_id \in Nat
      /\ Ids \subseteq 1..(next_id - 1) /\ started \subseteq Ids
  BY DEF Inv, TypeOK, Queue
<1>2. /\ new \in FrameSubscriber
      /\ new.stream_id = s
      /\ new.start_sequence = shared[s].next
      /\ new.next_sequence = shared[s].next
  BY <1>1 DEF NewSubscriber, FrameSubscriber, StreamCache
<1> HIDE DEF new
<1>3. /\ subscribers' = [id \in Ids \cup {next_id} |->
                            IF id = next_id THEN new ELSE subscribers[id]]
      /\ received' = [id \in Ids \cup {next_id} |->
                            IF id = next_id THEN <<>> ELSE received[id]]
      /\ next_id' = next_id + 1
      /\ UNCHANGED <<cache, shared, resets, started>>
  BY DEF SubscribeFrames, new
<1>4. next_id \notin Ids /\ next_id \notin started
  BY <1>1
<1>5. Ids' = Ids \cup {next_id}
  BY <1>3 DEF Ids
<1>6. TypeOK'
  <2>1. Ids' \subseteq 1..(next_id' - 1) /\ next_id' \in Nat
    BY <1>1, <1>3, <1>5
  <2>2. subscribers' \in [Ids' -> FrameSubscriber]
    BY <1>2, <1>3, <1>5 DEF Inv, TypeOK
  <2>3. received' \in [Ids' -> Seq(Frame)]
    BY <1>0, <1>3, <1>5 DEF Inv, TypeOK
  <2> QED
    BY <1>3, <1>5, <2>1, <2>2, <2>3 DEF Inv, TypeOK
<1>7. QueueIndexed' /\ GopDecodable'
  BY <1>3 DEF Inv, QueueIndexed, GopDecodable
<1>8. ASSUME NEW id \in Ids'
      PROVE  /\ CursorOK(subscribers'[id],
                         shared'[subscribers'[id].stream_id].next,
                         id \in started', received'[id])
             /\ Seamless(received'[id])
  <2>1. CASE id = next_id
    <3>1. subscribers'[id] = new /\ received'[id] = <<>> /\ shared' = shared
      BY <1>3, <2>1
    <3>2. CursorOK(new, shared[s].next, id \in started', <<>>)
      BY <1>1, <1>2 DEF CursorOK
    <3>3. Seamless(<<>>)
      BY DEF Seamless
    <3> QED BY <1>2, <3>1, <3>2, <3>3
  <2>2. CASE id \in Ids
    <3>1. /\ subscribers'[id] = subscribers[id] /\ received'[id] = received[id]
          /\ shared' = shared /\ started' = started
      BY <1>3, <1>4, <2>2
    <3> QED
      BY <2>2, <3>1 DEF Inv, CursorInv, SeamlessDelivery
  <2> QED BY <1>5, <2>1, <2>2
<1> QED
  BY <1>6, <1>7, <1>8 DEF Inv, CursorInv, SeamlessDelivery

\* UnsubscribeFrames keeps it: the other subscriptions are untouched.
LEMMA UnsubscribeInv ==
    ASSUME Inv, NEW id \in Ids, UnsubscribeFrames(id)
    PROVE  Inv'
<1>1. /\ subscribers' = [i \in Ids \ {id} |-> subscribers[i]]
      /\ received' = [i \in Ids \ {id} |-> received[i]]
      /\ started' = started \ {id}
      /\ UNCHANGED <<cache, shared, next_id, resets>>
  BY DEF UnsubscribeFrames
<1>2. Ids' = Ids \ {id}
  BY <1>1 DEF Ids
<1>3. TypeOK'
  <2>1. subscribers' \in [Ids' -> FrameSubscriber]
        /\ received' \in [Ids' -> Seq(Frame)]
    BY <1>1, <1>2 DEF Inv, TypeOK
  <2> QED BY <1>1, <1>2, <2>1 DEF Inv, TypeOK
<1>4. ASSUME NEW i \in Ids'
      PROVE  /\ i \in Ids /\ subscribers'[i] = subscribers[i]
             /\ received'[i] = received[i] /\ (i \in started' <=> i \in started)
  BY <1>1, <1>2
<1>5. CursorInv'
  <2> SUFFICES ASSUME NEW i \in Ids'
               PROVE  CursorOK(subscribers'[i],
                               shared'[subscribers'[i].stream_id].next,
                               i \in started', received'[i])
    BY DEF CursorInv
  <2> QED BY <1>1, <1>4 DEF Inv, CursorInv, CursorOK
<1>6. SeamlessDelivery'
  BY <1>4 DEF Inv, SeamlessDelivery
<1> QED
  BY <1>1, <1>3, <1>5, <1>6 DEF Inv, QueueIndexed, GopDecodable

\* GetSubscriptionStart keeps it: the GOP that is handed out ends right before
\* the cursor.
LEMMA StartInv ==
    ASSUME Inv, NEW id \in Ids, GetSubscriptionStart(id)
    PROVE  Inv'
<1> DEFINE sub == subscribers[id]
           t == sub.stream_id
           gop == GopFrames(sub)
<1>1. /\ sub \in FrameSubscriber /\ t \in Streams
      /\ cache[t] \in StreamCache /\ shared[t] \in Queue
      /\ shared[t].next \in Nat
      /\ sub.start_sequence \in Nat
      /\ GopOK(cache[t], shared[t].next)
      /\ CursorOK(sub, shared[t].next, id \in started, received[id])
  BY DEF Inv, TypeOK, FrameSubscriber, Queue, GopDecodable, CursorInv
<1>2. id \notin started
  BY DEF GetSubscriptionStart
<1>3. /\ received' = [received EXCEPT ![id] = gop]
      /\ started' = started \cup {id}
      /\ UNCHANGED <<cache, shared, subscribers, next_id, resets>>
  BY DEF GetSubscriptionStart
<1>4. /\ gop \in Seq(Frame)
      /\ Seamless(gop)
      /\ gop # <<>> => gop[Len(gop)].sequence + 1 = sub.start_sequence
  <2>1. CASE cache[t].complete /\ sub.start_gop_version = cache[t].gop_version
    <3>1. gop = OldFrames(cache[t].frames, sub.start_sequence)
      BY <2>1 DEF GopFrames
    <3>2. sub.start_sequence <= shared[t].next
      BY <1>1 DEF CursorOK
    <3> HIDE DEF gop, sub, t
    <3> QED BY <1>1, <2>1, <3>1, <3>2, OldFramesOK
  <2>2. CASE ~(cache[t].complete
               /\ sub.start_gop_version = cache[t].gop_version)
    <3>1. gop = <<>>
      BY <2>2 DEF GopFrames
    <3> HIDE DEF gop
    <3> QED BY <3>1 DEF Seamless
  <2> QED BY <2>1, <2>2
<1> HIDE DEF gop
<1>5. Ids' = Ids
  BY <1>3 DEF Ids
<1>6. /\ received' \in [Ids -> Seq(Frame)] /\ received'[id] = gop
      /\ \A i \in Ids \ {id} : received'[i] = received[i]
  BY <1>3, <1>4 DEF Inv, TypeOK
<1>7. TypeOK'
  BY <1>3, <1>5, <1>6 DEF Inv, TypeOK
<1>8. CursorOK(sub, shared[t].next, TRUE, gop)
  <2> HIDE DEF sub, t
  <2> QED BY <1>1, <1>2, <1>4 DEF CursorOK
<1>9. CursorInv'
  <2> SUFFICES ASSUME NEW i \in Ids
               PROVE  CursorOK(subscribers[i],
                               shared[subscribers[i].stream_id].next,
                               i \in started', received'[i])
    BY <1>3, <1>5 DEF CursorInv
  <2>1. CASE i = id
    BY <1>3, <1>6, <1>8, <2>1 DEF CursorOK
  <2>2. CASE i # id
    <3>1. (i \in started' <=> i \in started) /\ received'[i] = received[i]
      BY <1>3, <1>6, <2>2
    <3> QED BY <3>1 DEF Inv, CursorInv, CursorOK
  <2> QED BY <2>1, <2>2
<1>10. SeamlessDelivery'
  BY <1>4, <1>5, <1>6 DEF Inv, SeamlessDelivery
<1> QED
  BY <1>3, <1>7, <1>9, <1>10 DEF Inv, QueueIndexed, GopDecodable

\* PullFrame keeps it: the frame that is delivered is a keyframe or the one
\* right after the last.
LEMMA PullInv ==
    ASSUME Inv, NEW id \in Ids, PullFrame(id)
    PROVE  Inv'
<1> DEFINE old == subscribers[id]
           q == shared[old.stream_id]
           sub == AfterOverrun(old, q)
           ready == Deliverable(sub, q)
           n == FirstOf(ready)
<1>1. /\ old \in FrameSubscriber /\ old.stream_id \in Streams
      /\ q \in Queue /\ QueueOK(q)
      /\ received[id] \in Seq(Frame) /\ Seamless(received[id])
      /\ id \in started
      /\ CursorOK(old, q.next, id \in started, received[id])
  BY DEF Inv, TypeOK, FrameSubscriber, QueueIndexed, CursorInv,
         SeamlessDelivery, PullFrame
<1>2. CursorOK(old, q.next, TRUE, received[id])
  BY <1>1 DEF CursorOK
<1>3. UNCHANGED <<cache, shared, next_id, resets, started>>
  BY DEF PullFrame
<1>4. \/ /\ ready # {}
         /\ subscribers' = [subscribers EXCEPT ![id] = Pulled(sub, n)]
         /\ received' = [received EXCEPT ![id] = Append(@, Read(q, n))]
      \/ /\ ready = {}
         /\ subscribers' = [subscribers EXCEPT ![id] = Skipped(sub, q)]
         /\ UNCHANGED received
  BY DEF PullFrame
<1>5. /\ sub \in FrameSubscriber /\ sub.stream_id = old.stream_id
      /\ q.first <= sub.next_sequence
      /\ CursorOK(sub, q.next, TRUE, received[id])
  <2> HIDE DEF old, q
  <2> QED BY <1>1, <1>2, AfterOverrunOK
<1>6. \E new \in FrameSubscriber, frames \in Seq(Frame) :
          /\ new.stream_id = old.stream_id
          /\ Seamless(frames) /\ CursorOK(new, q.next, TRUE, frames)
          /\ subscribers' = [subscribers EXCEPT ![id] = new]
          /\ received' = [received EXCEPT ![id] = frames]
  <2>1. CASE ready # {}
    <3>1. /\ Pulled(sub, n) \in FrameSubscriber
          /\ Pulled(sub, n).stream_id = sub.stream_id
          /\ Append(received[id], Read(q, n)) \in Seq(Frame)
          /\ Seamless(Append(received[id], Read(q, n)))
          /\ CursorOK(Pulled(sub, n), q.next, TRUE,
                      Append(received[id], Read(q, n)))
      <4> HIDE DEF sub, q
      <4> QED BY <1>1, <1>5, <2>1, PullOK
    <3> HIDE DEF sub, q, n, old, ready
    <3>2. /\ subscribers' = [subscribers EXCEPT ![id] = Pulled(sub, n)]
          /\ received' = [received EXCEPT ![id] =
                             Append(received[id], Read(q, n))]
      BY <1>4, <2>1
    <3> QED BY <1>5, <3>1, <3>2
  <2>2. CASE ready = {}
    <3>1. /\ Skipped(sub, q) \in FrameSubscriber
          /\ Skipped(sub, q).stream_id = sub.stream_id
          /\ CursorOK(Skipped(sub, q), q.next, TRUE, received[id])
      <4> HIDE DEF sub, q
      <4> QED BY <1>1, <1>5, <2>2, PullOK
    <3> HIDE DEF sub, q, n, old, ready
    <3>2. /\ subscribers' = [subscribers EXCEPT ![id] = Skipped(sub, q)]
          /\ received' = received
      BY <1>4, <2>2
    <3>3. received' = [received EXCEPT ![id] = received[id]]
      BY <3>2 DEF Inv, TypeOK
    <3> QED BY <1>1, <1>5, <3>1, <3>2, <3>3
  <2> QED BY <2>1, <2>2
<1> HIDE DEF sub, ready, n
<1>7. PICK new \in FrameSubscriber, frames \in Seq(Frame) :
          /\ new.stream_id = old.stream_id
          /\ Seamless(frames) /\ CursorOK(new, q.next, TRUE, frames)
          /\ subscribers' = [subscribers EXCEPT ![id] = new]
          /\ received' = [received EXCEPT ![id] = frames]
  BY <1>6
<1>8. Ids' = Ids
  BY <1>7 DEF Ids
<1>9. /\ subscribers' \in [Ids -> FrameSubscriber]
      /\ received' \in [Ids -> Seq(Frame)]
      /\ subscribers'[id] = new /\ received'[id] = frames
      /\ \A i \in Ids \ {id} : /\ subscribers'[i] = subscribers[i]
                               /\ received'[i] = received[i]
  BY <1>7 DEF Inv, TypeOK
<1>10. TypeOK'
  BY <1>3, <1>8, <1>9 DEF Inv, TypeOK
<1>11. CursorInv'
  <2> SUFFICES ASSUME NEW i \in Ids
               PROVE  CursorOK(subscribers'[i],
                               shared[subscribers'[i].stream_id].next,
                               i \in started, received'[i])
    BY <1>3, <1>8 DEF CursorInv
  <2>1. CASE i = id
    BY <1>1, <1>7, <1>9, <2>1 DEF CursorOK
  <2>2. CASE i # id
    BY <1>9, <2>2 DEF Inv, CursorInv
  <2> QED BY <2>1, <2>2
<1>12. SeamlessDelivery'
  BY <1>7, <1>8, <1>9 DEF Inv, SeamlessDelivery
<1> QED
  BY <1>3, <1>10, <1>11, <1>12 DEF Inv, QueueIndexed, GopDecodable

\* ClearStream keeps it: every subscriber of the stream waits for a keyframe.
LEMMA ClearStreamInv ==
    ASSUME Inv, NEW s \in Streams, ClearStream(s)
    PROVE  Inv'
<1> DEFINE c == [ClearCache(cache[s]) EXCEPT !.stream_reset_version = @ + 1]
           q == ClearQueue(shared[s])
<1>0. <<>> \in Seq(Frame)
  OBVIOUS
<1>1. /\ cache \in [Streams -> StreamCache] /\ shared \in [Streams -> Queue]
      /\ shared[s] \in Queue /\ cache[s] \in StreamCache /\ QueueOK(shared[s])
      /\ subscribers \in [Ids -> FrameSubscriber]
  BY DEF Inv, TypeOK, QueueIndexed
<1>2. q \in Queue /\ QueueOK(q) /\ q.next = shared[s].next /\ q.next \in Nat
  BY <1>1, ClearQueueOK DEF Queue
<1>3. c \in StreamCache /\ ~c.complete /\ c.frames = <<>>
  <2> DEFINE e == ClearCache(cache[s])
  <2>1. e \in StreamCache /\ ~e.complete /\ e.frames = <<>>
    BY <1>0, <1>1 DEF ClearCache, StreamCache
  <2>2. c = [e EXCEPT !.stream_reset_version = e.stream_reset_version + 1]
    OBVIOUS
  <2>3. e.stream_reset_version + 1 \in Nat
    BY <2>1 DEF StreamCache
  <2> HIDE DEF e, c
  <2> QED BY <2>1, <2>2, <2>3 DEF StreamCache
<1>4. /\ cache' = [cache EXCEPT ![s] = c]
      /\ shared' = [shared EXCEPT ![s] = q]
      /\ subscribers' = [id \in Ids |->
                            IF subscribers[id].stream_id = s
                            THEN ResetSubscriberForStream(subscribers[id], c, q)
                            ELSE subscribers[id]]
      /\ resets' = resets + 1
      /\ UNCHANGED <<next_id, started, received>>
  BY DEF ClearStream
<1> HIDE DEF c, q
<1>5. Ids' = Ids
  BY <1>4 DEF Ids
<1>6. ASSUME NEW id \in Ids
      PROVE  LET new == ResetSubscriberForStream(subscribers[id], c, q)
             IN  /\ new \in FrameSubscriber
                 /\ new.stream_id = subscribers[id].stream_id
                 /\ new.wait_keyframe
                 /\ new.next_sequence = q.next
                 /\ new.start_sequence = subscribers[id].start_sequence
  <2>1. subscribers[id] \in FrameSubscriber /\ c.stream_reset_version \in Nat
    BY <1>1, <1>3 DEF StreamCache
  <2> QED
    BY <1>2, <2>1 DEF ResetSubscriberForStream, FrameSubscriber
<1>7. /\ shared' \in [Streams -> Queue] /\ cache' \in [Streams -> StreamCache]
      /\ shared'[s] = q /\ cache'[s] = c
      /\ \A t \in Streams \ {s} : shared'[t] = shared[t] /\ cache'[t] = cache[t]
  BY <1>1, <1>2, <1>3, <1>4
<1>8. TypeOK'
  <2>1. subscribers' \in [Ids -> FrameSubscriber]
    BY <1>1, <1>4, <1>6
  <2> QED BY <1>4, <1>5, <1>7, <2>1 DEF Inv, TypeOK
<1>9. QueueIndexed'
  BY <1>2, <1>7 DEF Inv, QueueIndexed
<1>10. GopDecodable'
  <2> SUFFICES ASSUME NEW t \in Streams PROVE GopOK(cache'[t], shared'[t].next)
    BY DEF GopDecodable, GopOK
  <2>1. CASE t = s
    BY <1>3, <1>7, <2>1 DEF GopOK
  <2>2. CASE t # s
    <3>1. GopOK(cache[t], shared[t].next)
      BY DEF Inv, GopDecodable
    <3>2. cache'[t] = cache[t] /\ shared'[t] = shared[t]
      BY <1>7, <2>2
    <3> QED BY <3>1, <3>2
  <2> QED BY <2>1, <2>2
<1>11. CursorInv'
  <2> SUFFICES ASSUME NEW id \in Ids
               PROVE  CursorOK(subscribers'[id],
                               shared'[subscribers'[id].stream_id].next,
                               id \in started, received[id])
    BY <1>4, <1>5 DEF CursorInv
  <2>0. CursorOK(subscribers[id], shared[subscribers[id].stream_id].next,
                 id \in started, received[id])
        /\ subscribers[id].stream_id \in Streams
    BY <1>1 DEF Inv, CursorInv, FrameSubscriber
  <2>1. CASE subscribers[id].stream_id = s
    <3> DEFINE new == ResetSubscriberForStream(subscribers[id], c, q)
    <3>1. subscribers'[id] = new
      BY <1>4, <2>1
    <3>2. /\ new.wait_keyframe /\ new.next_sequence = q.next
          /\ new.stream_id = s
          /\ new.start_sequence = subscribers[id].start_sequence
      BY <1>6, <2>1
    <3> HIDE DEF new
    <3>3. CursorOK(new, q.next, id \in started, received[id])
      BY <1>2, <2>0, <2>1, <3>2 DEF CursorOK
    <3> QED BY <1>7, <3>1, <3>2, <3>3
  <2>2. CASE subscribers[id].stream_id # s
    BY <1>4, <1>7, <2>0, <2>2
  <2> QED BY <2>1, <2>2
<1>12. SeamlessDelivery'
  BY <1>4, <1>5 DEF Inv, SeamlessDelivery
<1> QED
  BY <1>8, <1>9, <1>10, <1>11, <1>12 DEF Inv

\* Clear keeps it: no subscription is left.
LEMMA ClearInv == ASSUME Inv, Clear PROVE Inv'
<1>0. <<>> \in Seq(Frame)
  OBVIOUS
<1>1. /\ cache' = [t \in Streams |-> ClearCache(cache[t])]
      /\ shared' = [t \in Streams |-> ClearQueue(shared[t])]
      /\ subscribers' = EmptyMap /\ received' = EmptyMap /\ started' = {}
      /\ next_id' = 1 /\ resets' = resets + 1
  BY DEF Clear
<1>2. Ids' = {}
  BY <1>1 DEF Ids, EmptyMap
<1>3. ASSUME NEW t \in Streams
      PROVE  /\ ClearQueue(shared[t]) \in Queue /\ QueueOK(ClearQueue(shared[t]))
             /\ ClearCache(cache[t]) \in StreamCache
             /\ ~ClearCache(cache[t]).complete
             /\ ClearCache(cache[t]).frames = <<>>
  <2>1. shared[t] \in Queue /\ QueueOK(shared[t]) /\ cache[t] \in StreamCache
    BY DEF Inv, TypeOK, QueueIndexed
  <2>2. ClearQueue(shared[t]) \in Queue /\ QueueOK(ClearQueue(shared[t]))
    BY <2>1, ClearQueueOK
  <2> QED
    BY <1>0, <2>1, <2>2 DEF ClearCache, StreamCache
<1>4. TypeOK'
  <2>1. shared' \in [Streams -> Queue] /\ cache' \in [Streams -> StreamCache]
    BY <1>1, <1>3
  <2>2. /\ subscribers' \in [Ids' -> FrameSubscriber]
        /\ received' \in [Ids' -> Seq(Frame)]
    BY <1>1, <1>2 DEF EmptyMap
  <2> QED BY <1>1, <1>2, <2>1, <2>2 DEF Inv, TypeOK
<1>5. QueueIndexed'
  BY <1>1, <1>3 DEF QueueIndexed
<1>6. GopDecodable'
  BY <1>1, <1>3 DEF GopDecodable, GopOK
<1> QED
  BY <1>2, <1>4, <1>5, <1>6 DEF Inv, CursorInv, SeamlessDelivery

\* Every step of the frame distribution preserves the invariant.
LEMMA NextInv == Inv /\ [Next]_vars => Inv'
<1> SUFFICES ASSUME Inv, [Next]_vars PROVE Inv'
  OBVIOUS
<1>1. CASE UNCHANGED vars
  BY <1>1 DEF vars, Inv, TypeOK, Ids, QueueIndexed, GopDecodable, CursorInv,
              SeamlessDelivery
<1>2. CASE Next
  BY <1>2, WriteInv, SubscribeInv, UnsubscribeInv, StartInv, PullInv,
     ClearStreamInv, ClearInv DEF Next
<1> QED
  BY <1>1, <1>2

\* For any streams, sizes, limits and subscriptions, every consumer of the
\* frame distribution is handed a gapless stream (frame_subscribers.cpp:
\* GetSubscriptionStart, PullSharedFrame, MarkSubscriberSlow, ClearStream).
THEOREM SeamlessDeliveryHolds == Spec => []SeamlessDelivery
<1>1. Inv => SeamlessDelivery
  BY DEF Inv
<1> QED
  BY InitInv, NextInv, <1>1, PTL DEF Spec

\* The state is well typed, the shared queues are indexed by sequence number
\* and bounded, and the GOP caches are decodable, always.
THEOREM CachesWellFormed ==
    Spec => [](TypeOK /\ QueueIndexed /\ GopDecodable /\ CursorInv)
<1>1. Inv => TypeOK /\ QueueIndexed /\ GopDecodable /\ CursorInv
  BY DEF Inv
<1> QED
  BY InitInv, NextInv, <1>1, PTL DEF Spec

-----------------------------------------------------------------------------
(* Memory. *)

\* A queue's bytes stay within the limit.
SharedFits(q) == Bytes(q.items) <= MaxSharedBytes

\* A GOP cache stays within its frame count and its bytes.
CacheFits(c) == Len(c.frames) <= MaxGopFrames /\ Bytes(c.frames) <= MaxGopBytes

\* The eviction loop of Push leaves room for the value it appends.
LEMMA PushFits ==
    ASSUME NEW q \in Queue, NEW frame \in Frame
    PROVE  SharedFits(Push(q, frame, MaxSharedFrames, MaxSharedBytes))
<1> DEFINE p == Push(q, frame, MaxSharedFrames, MaxSharedBytes)
           k == DropOldest(q.items, frame.bytes, MaxSharedFrames,
                           MaxSharedBytes)
           rest == Suffix(q.items, k)
<1>0. q.items \in Seq(Frame) /\ Len(q.items) \in Nat
  BY DEF Queue
<1>1. k \in 0..Len(q.items)
      /\ Fits(q.items, k, frame.bytes, MaxSharedFrames, MaxSharedBytes)
  BY <1>0, DropOldestStops
<1>2. frame.bytes \in FrameSizes
  BY DEF Frame
<1>3. CASE frame.bytes > MaxSharedBytes \/ MaxSharedFrames = 0
  <2>1. p.items = <<>>
    BY <1>3 DEF Push
  <2> QED BY <2>1, BytesType, LimitsAssumption DEF SharedFits
<1>4. CASE ~(MaxSharedFrames = 0 \/ frame.bytes > MaxSharedBytes)
  <2>1. p.items = Append(rest, frame)
    BY <1>4 DEF Push
  <2>2. rest \in Seq(Frame) /\ Len(rest) = Len(q.items) - k
    BY <1>0, <1>1, SuffixProperties
  <2>3. Bytes(rest) + frame.bytes <= MaxSharedBytes
    <3>1. CASE k = Len(q.items)
      <4>1. Len(rest) = 0
        BY <1>0, <2>2, <3>1
      <4>2. rest = <<>>
        BY <2>2, <4>1
      <4>3. Bytes(rest) = 0
        BY <4>2, BytesType
      <4>4. frame.bytes \in Nat /\ ~(frame.bytes > MaxSharedBytes)
        BY <1>2, <1>4, LimitsAssumption
      <4> HIDE DEF rest, k
      <4> QED BY <4>3, <4>4, LimitsAssumption
    <3>2. CASE k # Len(q.items)
      BY <1>1, <3>2 DEF Fits
    <3> QED BY <3>1, <3>2
  <2> HIDE DEF p, rest
  <2>4. Bytes(p.items) = Bytes(rest) + frame.bytes
    BY <2>1, <2>2, BytesAppend
  <2> QED BY <2>3, <2>4 DEF SharedFits, p
<1> QED BY <1>3, <1>4

\* The overflow test of AppendToCache comes before the frame is kept.
LEMMA AppendToCacheFits ==
    ASSUME NEW c \in StreamCache, CacheFits(c), NEW frame \in Frame
    PROVE  CacheFits(AppendToCache(c, frame))
<1> DEFINE gop == StartGop(c, frame)
           new == AppendToCache(c, frame)
<1>0. /\ <<>> \in Seq(Frame) /\ Len(<<>>) = 0 /\ Bytes(<<>>) = 0
      /\ frame.bytes \in Nat
  <2>1. frame.bytes \in FrameSizes
    BY Zenon DEF Frame
  <2>2. Len(<<>>) = 0
    OBVIOUS
  <2>3. frame.bytes \in Nat
    BY <2>1, LimitsAssumption
  <2>4. <<>> \in Seq(Frame)
    OBVIOUS
  <2>5. Bytes(<<>>) = 0
    BY BytesType
  <2> QED BY <2>2, <2>3, <2>4, <2>5
<1>1. gop.frames \in Seq(Frame) /\ CacheFits(gop)
  <2>1. CASE frame.keyframe
    <3>1. gop.frames = <<>>
      BY <2>1 DEF StartGop, StreamCache
    <3> QED BY <1>0, <3>1, LimitsAssumption DEF CacheFits
  <2>2. CASE ~frame.keyframe
    BY <2>2 DEF StartGop, StreamCache
  <2> QED BY <2>1, <2>2
<1>2. DOMAIN gop = DOMAIN c
  BY DEF StartGop, StreamCache
<1>3. CASE ~gop.complete
  BY <1>1, <1>3 DEF AppendToCache
<1>4. CASE gop.complete /\ CacheFull(gop, frame)
  <2>1. new = DropCache(gop)
    BY <1>4 DEF AppendToCache
  <2>2. "frames" \in DOMAIN gop
    BY <1>2 DEF StreamCache
  <2> HIDE DEF gop
  <2>3. new.frames = <<>>
    BY <2>1, <2>2 DEF DropCache, ClearCache
  <2> QED BY <1>0, <2>3, LimitsAssumption DEF CacheFits
<1>5. CASE gop.complete /\ ~CacheFull(gop, frame)
  <2>1. new = [gop EXCEPT !.frames = Append(gop.frames, frame)]
    BY <1>5 DEF AppendToCache
  <2>2. "frames" \in DOMAIN gop
    BY <1>2 DEF StreamCache
  <2> HIDE DEF gop, new
  <2>3. new.frames = Append(gop.frames, frame)
    BY <2>1, <2>2
  <2>4. /\ Len(gop.frames) \in Nat /\ Len(gop.frames) < MaxGopFrames
        /\ Bytes(gop.frames) + frame.bytes <= MaxGopBytes
    BY <1>0, <1>1, <1>5, BytesType, LimitsAssumption DEF CacheFull
  <2>5. /\ Len(new.frames) = Len(gop.frames) + 1
        /\ Bytes(new.frames) = Bytes(gop.frames) + frame.bytes
    BY <1>1, <2>3, BytesAppend
  <2> QED BY <2>4, <2>5, LimitsAssumption DEF CacheFits, new
<1> QED BY <1>3, <1>4, <1>5

\* What a clear leaves fits.
LEMMA ClearedFits ==
    /\ \A q : q.items = <<>> => SharedFits(q)
    /\ \A c : c.frames = <<>> => CacheFits(c)
<1>1. Len(<<>>) = 0 /\ Bytes(<<>>) = 0
  BY BytesType
<1> QED BY <1>1, LimitsAssumption DEF SharedFits, CacheFits

\* Every step keeps the memory of every stream within its limits.
LEMMA NextMemory ==
    ASSUME Inv, MemoryBounded, [Next]_vars
    PROVE  MemoryBounded'
<1>0. /\ cache \in [Streams -> StreamCache] /\ shared \in [Streams -> Queue]
      /\ \A t \in Streams : SharedFits(shared[t]) /\ CacheFits(cache[t])
  BY DEF Inv, TypeOK, MemoryBounded, SharedFits, CacheFits
<1> SUFFICES ASSUME NEW t \in Streams
             PROVE  SharedFits(shared'[t]) /\ CacheFits(cache'[t])
  BY DEF MemoryBounded, SharedFits, CacheFits
<1>1. CASE UNCHANGED <<cache, shared>>
  BY <1>0, <1>1
<1>2. ASSUME NEW s \in Streams, NEW k \in BOOLEAN, NEW b \in FrameSizes,
             Write(s, k, b)
      PROVE  SharedFits(shared'[t]) /\ CacheFits(cache'[t])
  <2> DEFINE frame == [sequence |-> shared[s].next, keyframe |-> k,
                       bytes |-> b]
  <2>1. frame \in Frame
    BY <1>0 DEF Frame, Queue
  <2>2. /\ shared' = [shared EXCEPT ![s] =
                         Push(shared[s], frame, MaxSharedFrames, MaxSharedBytes)]
        /\ cache' = [cache EXCEPT ![s] = AppendToCache(cache[s], frame)]
    BY <1>2 DEF Write
  <2> HIDE DEF frame
  <2>3. /\ SharedFits(Push(shared[s], frame, MaxSharedFrames, MaxSharedBytes))
        /\ CacheFits(AppendToCache(cache[s], frame))
    BY <1>0, <2>1, PushFits, AppendToCacheFits
  <2>4. CASE t = s
    <3>1. /\ shared'[t] = Push(shared[s], frame, MaxSharedFrames, MaxSharedBytes)
          /\ cache'[t] = AppendToCache(cache[s], frame)
      BY <1>0, <2>2, <2>4
    <3> QED BY <2>3, <3>1
  <2>5. CASE t # s
    BY <1>0, <2>2, <2>5
  <2> QED BY <2>4, <2>5
<1>3. ASSUME NEW s \in Streams, ClearStream(s)
      PROVE  SharedFits(shared'[t]) /\ CacheFits(cache'[t])
  <2> DEFINE c == [ClearCache(cache[s]) EXCEPT !.stream_reset_version = @ + 1]
             q == ClearQueue(shared[s])
  <2>1. /\ shared' = [shared EXCEPT ![s] = q]
        /\ cache' = [cache EXCEPT ![s] = c]
    BY <1>3 DEF ClearStream
  <2>2. q.items = <<>> /\ c.frames = <<>>
    <3>1. cache[s] \in StreamCache /\ shared[s] \in Queue
      BY <1>0
    <3> QED BY <3>1 DEF ClearQueue, ClearCache, Queue, StreamCache
  <2> HIDE DEF c, q
  <2>3. CASE t = s
    BY <1>0, <2>1, <2>2, <2>3, ClearedFits
  <2>4. CASE t # s
    BY <1>0, <2>1, <2>4
  <2> QED BY <2>3, <2>4
<1>4. ASSUME Clear PROVE SharedFits(shared'[t]) /\ CacheFits(cache'[t])
  <2>1. shared'[t] = ClearQueue(shared[t]) /\ cache'[t] = ClearCache(cache[t])
    BY <1>4 DEF Clear
  <2>2. cache[t] \in StreamCache /\ shared[t] \in Queue
    BY <1>0
  <2>3. shared'[t].items = <<>> /\ cache'[t].frames = <<>>
    BY <2>1, <2>2 DEF ClearQueue, ClearCache, Queue, StreamCache
  <2> QED BY <2>3, ClearedFits
<1>5. \/ UNCHANGED <<cache, shared>>
      \/ \E s \in Streams, k \in BOOLEAN, b \in FrameSizes : Write(s, k, b)
      \/ \E s \in Streams : ClearStream(s)
      \/ Clear
  BY DEF Next, vars, SubscribeFrames, UnsubscribeFrames, GetSubscriptionStart,
         PullFrame
<1> QED BY <1>1, <1>2, <1>3, <1>4, <1>5

\* pending_frames counts what is left in the queue above the cursor.
LEMMA PendingCounts ==
    ASSUME NEW q \in Queue, QueueOK(q), NEW sub \in FrameSubscriber
    PROVE  PendingFrameSize(sub, q) =
               Cardinality({n \in sub.next_sequence..q.next : CanRead(q, n)})
<1> DEFINE c == sub.next_sequence
           S == {n \in c..q.next : CanRead(q, n)}
           from == IF c > q.first THEN c ELSE q.first
<1>1. /\ q.first \in Nat /\ q.next \in Nat /\ Len(q.items) \in Nat
      /\ q.next = q.first + Len(q.items)
      /\ c \in Nat
  BY DEF Queue, QueueOK, FrameSubscriber
<1>2. S = from..(q.next - 1)
  <2> HIDE DEF c
  <2> QED BY <1>1 DEF CanRead
<1>3. Cardinality(S) = IF from > q.next - 1 THEN 0 ELSE (q.next - 1) - from + 1
  <2>1. from \in Int /\ q.next - 1 \in Int
    BY <1>1
  <2> HIDE DEF from, S
  <2> QED BY <1>2, <2>1, FS_Interval
<1>4. PendingFrameSize(sub, q) =
          IF c >= q.next THEN 0
          ELSE IF q.next - from > Len(q.items) THEN Len(q.items)
          ELSE q.next - from
  BY DEF PendingFrameSize
<1> HIDE DEF S, c
<1> QED BY <1>1, <1>3, <1>4 DEF S, c

\* For any streams, sizes, limits and subscriptions, the bookkeeping of the
\* frame distribution is exact: types, indexed queues, memory within its limits,
\* cursors inside the queues, and pending_frames (frame_subscribers.cpp,
\* multi_reader_queue.h).
THEOREM FrameQueuesExactHolds == Spec => []FrameQueuesExact
<1> DEFINE I == Inv /\ MemoryBounded
<1>1. Init => I
  <2>1. Init => MemoryBounded
    <3> SUFFICES ASSUME Init, NEW s \in Streams
                 PROVE  SharedFits(shared[s]) /\ CacheFits(cache[s])
      BY DEF MemoryBounded, SharedFits, CacheFits
    <3>1. shared[s].items = <<>> /\ cache[s].frames = <<>>
      BY DEF Init, EmptyQueue
    <3> QED BY <3>1, ClearedFits
  <2> QED BY <2>1, InitInv
<1>2. I /\ [Next]_vars => I'
  BY NextInv, NextMemory
<1>3. I => FrameQueuesExact
  <2> SUFFICES ASSUME Inv, MemoryBounded PROVE FrameQueuesExact
    OBVIOUS
  <2>1. PendingExact
    <3> SUFFICES ASSUME NEW id \in Ids
                 PROVE  PendingFrameSize(subscribers[id],
                                         shared[subscribers[id].stream_id]) =
                        Cardinality({n \in subscribers[id].next_sequence..
                                          shared[subscribers[id].stream_id].next :
                                        CanRead(shared[subscribers[id].stream_id], n)})
      BY DEF PendingExact
    <3>1. /\ subscribers[id] \in FrameSubscriber
          /\ shared[subscribers[id].stream_id] \in Queue
          /\ QueueOK(shared[subscribers[id].stream_id])
      BY DEF Inv, TypeOK, QueueIndexed, FrameSubscriber
    <3> QED BY <3>1, PendingCounts
  <2> QED BY <2>1 DEF Inv, FrameQueuesExact
<1> QED
  BY <1>1, <1>2, <1>3, PTL DEF Spec
=============================================================================
