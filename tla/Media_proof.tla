----------------------------- MODULE Media_proof -----------------------------
(***************************************************************************)
(* The media buffer pool, for any number of references, blocks and bytes,  *)
(* and the FLV and MJPEG clients of the tracks, for any number of streams, *)
(* clients, tags and resets.                                               *)
(***************************************************************************)
EXTENDS MediaTracks, MediaBufferPool, Minimum, FiniteSetTheorems, SequenceTheorems, TLAPS

BufferRecords ==
    [block : Indices, size : 0 .. BlockBytes, refs : Nat, pc : {"live", "return", "unref", "deleted"}]
RefRecords == [buf : Nat, off : Nat, size : Nat]

\* The references on buffer n, and the buffers that still hold a reference on the
\* blocks object.
RefsOn(f, n) == {h \in Handles : f[h].buf = n}
Undeleted == {n \in DOMAIN buffer : buffer[n].pc # "deleted"}
Holds(n) == buffer[n].pc \in {"live", "return"}

\* The shapes of the variables.
PoolShape ==
    /\ blocks \in [refs : Nat, deleted : BOOLEAN, failures : Nat, high : 0 .. PoolSize, free : Seq(Indices),
                   inUse : SUBSET Indices]
    /\ poolOpen \in BOOLEAN
    /\ buffer \in Seq(BufferRecords)
    /\ handle \in [Handles -> RefRecords]
    /\ acquires \in 0 .. MaxAcquires /\ Len(buffer) <= acquires

\* The free list and the used blocks share the pool.
FreeList ==
    /\ \A j, k \in DOMAIN blocks.free : blocks.free[j] = blocks.free[k] => j = k
    /\ \A i \in Indices : i \in blocks.inUse <=> \A k \in DOMAIN blocks.free : blocks.free[k] # i
    /\ Len(blocks.free) + Cardinality(blocks.inUse) = PoolSize

\* A used block is held by one buffer.
Holding ==
    /\ \A n \in DOMAIN buffer : Holds(n) => buffer[n].block \in blocks.inUse
    /\ \A m, n \in DOMAIN buffer : Holds(m) /\ Holds(n) /\ buffer[m].block = buffer[n].block => m = n
    /\ \A i \in blocks.inUse : \E n \in DOMAIN buffer : Holds(n) /\ buffer[n].block = i

\* Both reference counts are exact.
Counts ==
    /\ \A n \in DOMAIN buffer :
          /\ buffer[n].refs = Cardinality(RefsOn(handle, n))
          /\ buffer[n].pc = "live" <=> buffer[n].refs # 0
    /\ blocks.refs = Cardinality(Undeleted) + (IF poolOpen THEN 1 ELSE 0)
    /\ blocks.deleted <=> blocks.refs = 0

\* References lie in the filled part of a buffer.
Ranges ==
    \A h \in Handles :
        /\ handle[h].buf \in 0 .. Len(buffer)
        /\ handle[h].buf # 0 => handle[h].off + handle[h].size <= buffer[handle[h].buf].size

PoolInv == PoolShape /\ FreeList /\ Holding /\ Counts /\ Ranges

-----------------------------------------------------------------------------
(* Counting *)

\* The limits are positive numbers.
LEMMA PoolNumbers ==
    /\ PoolSize \in Nat \ {0} /\ BlockBytes \in Nat \ {0} /\ MaxAcquires \in Nat \ {0}
    /\ IsFiniteSet(Handles)
BY PoolConstants

\* The handles of a buffer are finitely many.
LEMMA RefsFinite ==
    ASSUME NEW f, NEW n
    PROVE  IsFiniteSet(RefsOn(f, n)) /\ Cardinality(RefsOn(f, n)) \in Nat
<1>1. RefsOn(f, n) \subseteq Handles
  BY DEF RefsOn
<1> QED
  BY <1>1, PoolNumbers, FS_Subset, FS_CardinalityType

\* f2 is f with at most reference h repointed, and the count of buffer n follows.
Repointed(f, f2, h) == \A j \in Handles : j # h => f2[j].buf = f[j].buf
CountFollows(f, f2, h, n) ==
    Cardinality(RefsOn(f2, n)) =
        Cardinality(RefsOn(f, n)) + (IF f2[h].buf = n THEN 1 ELSE 0) - (IF f[h].buf = n THEN 1 ELSE 0)

\* Repointing one reference changes the counts of two buffers by one.
LEMMA CountMove ==
    ASSUME NEW f, NEW f2, NEW h \in Handles, NEW n, Repointed(f, f2, h)
    PROVE  CountFollows(f, f2, h, n)
<1> DEFINE A == RefsOn(f, n)
           B == RefsOn(f2, n)
<1>0. IsFiniteSet(A) /\ Cardinality(A) \in Nat /\ IsFiniteSet(B) /\ Cardinality(B) \in Nat
  BY RefsFinite
<1>1. CASE f2[h].buf = n /\ f[h].buf # n
  <2>1. B = A \cup {h} /\ h \notin A
    BY <1>1 DEF RefsOn, Repointed
  <2> QED
    BY <1>0, <1>1, <2>1, FS_AddElement DEF CountFollows
<1>2. CASE f2[h].buf # n /\ f[h].buf = n
  <2>1. B = A \ {h} /\ h \in A
    BY <1>2 DEF RefsOn, Repointed
  <2> QED
    BY <1>0, <1>2, <2>1, FS_RemoveElement DEF CountFollows
<1>3. CASE (f2[h].buf = n) <=> (f[h].buf = n)
  <2>1. B = A
    BY <1>3 DEF RefsOn, Repointed
  <2> QED
    BY <1>0, <1>3, <2>1 DEF CountFollows
<1> QED
  BY <1>1, <1>2, <1>3

\* The buffers that were not deleted are finitely many.
LEMMA UndeletedFinite ==
    ASSUME PoolShape
    PROVE  IsFiniteSet(Undeleted) /\ Cardinality(Undeleted) \in 0 .. Len(buffer)
<1>1. Len(buffer) \in Nat /\ DOMAIN buffer = 1 .. Len(buffer)
  BY LenProperties DEF PoolShape
<1>2. IsFiniteSet(1 .. Len(buffer)) /\ Cardinality(1 .. Len(buffer)) = Len(buffer)
  <2> DEFINE n == Len(buffer)
  <2>1. n \in Nat /\ n \in Int /\ 1 \in Int
    BY <1>1
  <2> HIDE DEF n
  <2>2. IsFiniteSet(1 .. n) /\ Cardinality(1 .. n) = IF 1 > n THEN 0 ELSE n - 1 + 1
    BY <2>1, FS_Interval
  <2> QED
    BY <2>1, <2>2 DEF n
<1>3. Undeleted \in SUBSET (1 .. Len(buffer))
  BY <1>1 DEF Undeleted
<1>4. IsFiniteSet(Undeleted) /\ Cardinality(Undeleted) <= Cardinality(1 .. Len(buffer))
  BY <1>2, <1>3, FS_Subset
<1>5. Cardinality(Undeleted) \in Nat
  BY <1>4, FS_CardinalityType
<1> QED
  BY <1>1, <1>2, <1>4, <1>5

\* The blocks in use are finitely many.
LEMMA InUseFinite ==
    ASSUME PoolShape
    PROVE  IsFiniteSet(blocks.inUse) /\ Cardinality(blocks.inUse) \in Nat
<1>1. IsFiniteSet(Indices)
  BY PoolNumbers, FS_Interval DEF Indices
<1>2. blocks.inUse \subseteq Indices
  BY DEF PoolShape
<1> QED
  BY <1>1, <1>2, FS_Subset, FS_CardinalityType

\* A buffer that is referred to is live.
LEMMA ReferredIsLive ==
    ASSUME PoolInv, NEW h \in Handles, handle[h].buf # 0
    PROVE  /\ handle[h].buf \in DOMAIN buffer /\ buffer[handle[h].buf].pc = "live"
           /\ buffer[handle[h].buf].refs \in Nat \ {0}
<1> DEFINE n == handle[h].buf
<1>1. n \in DOMAIN buffer
  BY LenProperties DEF PoolInv, PoolShape, Ranges
<1>2. RefsOn(handle, n) # {}
  BY DEF RefsOn
<1>3. Cardinality(RefsOn(handle, n)) # 0 /\ Cardinality(RefsOn(handle, n)) \in Nat
  BY <1>2, RefsFinite, FS_EmptySet
<1> QED
  BY <1>1, <1>3 DEF PoolInv, Counts

-----------------------------------------------------------------------------
(* Steps on the references *)

\* ReleaseMediaBuffer takes one reference, and the last one begins the return of
\* the block.
LEMMA DropEffect ==
    ASSUME NEW bufs \in Seq(BufferRecords), NEW n \in 0 .. Len(bufs), n # 0 => bufs[n].refs # 0
    PROVE  /\ Drop(bufs, n) \in Seq(BufferRecords) /\ Len(Drop(bufs, n)) = Len(bufs)
           /\ \A k \in 1 .. Len(bufs) :
                 /\ Drop(bufs, n)[k].block = bufs[k].block /\ Drop(bufs, n)[k].size = bufs[k].size
                 /\ Drop(bufs, n)[k].refs = bufs[k].refs - (IF k = n THEN 1 ELSE 0)
                 /\ Drop(bufs, n)[k].pc = IF k = n /\ bufs[k].refs = 1 THEN "return" ELSE bufs[k].pc
<1>0. Len(bufs) \in Nat /\ \A k \in 1 .. Len(bufs) : bufs[k] \in BufferRecords
  BY LenProperties
<1>1. CASE n = 0
  <2>1. Drop(bufs, n) = bufs /\ \A k \in 1 .. Len(bufs) : bufs[k].refs \in Nat
    BY <1>0, <1>1 DEF Drop, BufferRecords
  <2> QED
    BY <1>0, <1>1, <2>1
<1>2. CASE n # 0
  <2> DEFINE b == [bufs[n] EXCEPT !.refs = @ - 1, !.pc = IF bufs[n].refs = 1 THEN "return" ELSE @]
  <2>1. n \in 1 .. Len(bufs) /\ bufs[n] \in BufferRecords
    BY <1>0, <1>2
  <2> DEFINE old == bufs[n]
             pc == IF bufs[n].refs = 1 THEN "return" ELSE bufs[n].pc
  <2>a. old.refs - 1 \in Nat /\ pc \in {"live", "return", "unref", "deleted"} /\ old \in BufferRecords
    BY <1>2, <2>1 DEF BufferRecords
  <2>b. b = [old EXCEPT !.refs = old.refs - 1, !.pc = pc]
    OBVIOUS
  <2> HIDE DEF old, pc, b
  <2>2. /\ b \in BufferRecords /\ b.block = old.block /\ b.size = old.size /\ b.refs = old.refs - 1 /\ b.pc = pc
    BY <2>a, <2>b DEF BufferRecords
  <2>3. Drop(bufs, n) = [bufs EXCEPT ![n] = b]
    BY <1>2 DEF Drop, b
  <2>4. /\ Drop(bufs, n) \in Seq(BufferRecords) /\ Len(Drop(bufs, n)) = Len(bufs)
        /\ \A k \in 1 .. Len(bufs) : Drop(bufs, n)[k] = IF k = n THEN b ELSE bufs[k]
    BY <2>1, <2>2, <2>3, ExceptSeq
  <2>5. \A k \in 1 .. Len(bufs) : bufs[k].refs \in Nat
    BY <1>0 DEF BufferRecords
  <2> QED
    BY <1>0, <2>2, <2>4, <2>5 DEF old, pc
<1> QED
  BY <1>1, <1>2

\* AddMediaBufferRef adds one reference to a live buffer.
LEMMA AddRefEffect ==
    ASSUME NEW bufs \in Seq(BufferRecords), NEW n \in 0 .. Len(bufs)
    PROVE  /\ AddRef(bufs, n) \in Seq(BufferRecords) /\ Len(AddRef(bufs, n)) = Len(bufs)
           /\ \A k \in 1 .. Len(bufs) :
                 /\ AddRef(bufs, n)[k].block = bufs[k].block /\ AddRef(bufs, n)[k].size = bufs[k].size
                 /\ AddRef(bufs, n)[k].refs = bufs[k].refs + (IF k = n THEN 1 ELSE 0)
                 /\ AddRef(bufs, n)[k].pc = bufs[k].pc
<1>0. Len(bufs) \in Nat /\ \A k \in 1 .. Len(bufs) : bufs[k] \in BufferRecords
  BY LenProperties
<1>1. CASE n = 0
  <2>1. AddRef(bufs, n) = bufs /\ \A k \in 1 .. Len(bufs) : bufs[k].refs \in Nat
    BY <1>0, <1>1 DEF AddRef, BufferRecords
  <2> QED
    BY <1>0, <1>1, <2>1
<1>2. CASE n # 0
  <2> DEFINE b == [bufs[n] EXCEPT !.refs = @ + 1]
  <2>1. n \in 1 .. Len(bufs) /\ bufs[n] \in BufferRecords
    BY <1>0, <1>2
  <2> DEFINE old == bufs[n]
  <2>a. old.refs + 1 \in Nat /\ old \in BufferRecords
    BY <2>1 DEF BufferRecords
  <2>b. b = [old EXCEPT !.refs = old.refs + 1]
    OBVIOUS
  <2> HIDE DEF old, b
  <2>2. /\ b \in BufferRecords /\ b.block = old.block /\ b.size = old.size /\ b.refs = old.refs + 1 /\ b.pc = old.pc
    BY <2>a, <2>b DEF BufferRecords
  <2>3. AddRef(bufs, n) = [bufs EXCEPT ![n] = b]
    BY <1>2 DEF AddRef, b
  <2>4. /\ AddRef(bufs, n) \in Seq(BufferRecords) /\ Len(AddRef(bufs, n)) = Len(bufs)
        /\ \A k \in 1 .. Len(bufs) : AddRef(bufs, n)[k] = IF k = n THEN b ELSE bufs[k]
    BY <2>1, <2>2, <2>3, ExceptSeq
  <2>5. \A k \in 1 .. Len(bufs) : bufs[k].refs \in Nat
    BY <1>0 DEF BufferRecords
  <2> QED
    BY <1>0, <2>2, <2>4, <2>5 DEF old
<1> QED
  BY <1>1, <1>2

\* Any step that repoints references into ranges of buffers already referred to,
\* counts them and lets the last drop move its buffer on preserves the invariant.
LEMMA RefStepPreserves ==
    ASSUME PoolInv, UNCHANGED <<blocks, poolOpen, acquires>>,
           handle' \in [Handles -> RefRecords],
           \A h \in Handles : handle'[h].buf # 0 =>
              \E g \in Handles : /\ handle[g].buf = handle'[h].buf
                                 /\ handle'[h].off + handle'[h].size <= handle[g].off + handle[g].size,
           buffer' \in Seq(BufferRecords), Len(buffer') = Len(buffer),
           \A k \in 1 .. Len(buffer) :
              /\ buffer'[k].block = buffer[k].block /\ buffer'[k].size = buffer[k].size
              /\ buffer'[k].refs = Cardinality(RefsOn(handle', k))
              /\ buffer'[k].pc = IF buffer[k].pc = "live" /\ buffer'[k].refs = 0 THEN "return" ELSE buffer[k].pc
    PROVE  PoolInv'
<1> USE DEF PoolInv
<1>0. /\ Len(buffer) \in Nat /\ DOMAIN buffer = 1 .. Len(buffer) /\ DOMAIN buffer' = 1 .. Len(buffer)
      /\ \A k \in 1 .. Len(buffer) : buffer[k] \in BufferRecords /\ buffer'[k] \in BufferRecords
  BY LenProperties DEF PoolShape
<1>1. PoolShape'
  BY DEF PoolShape
<1>2. FreeList'
  BY DEF FreeList
<1>3. \A k \in 1 .. Len(buffer) : Holds(k)' <=> Holds(k)
  BY DEF Holds
<1>4. Holding'
  <2>1. \A k \in 1 .. Len(buffer) : (buffer'[k].pc \in {"live", "return"}) <=> (buffer[k].pc \in {"live", "return"})
    BY <1>3 DEF Holds
  <2> QED
    BY <1>0, <2>1 DEF Holding, Holds
<1>5. Counts'
  <2>1. Undeleted' = Undeleted
    BY <1>0 DEF Undeleted
  <2>2. ASSUME NEW n \in 1 .. Len(buffer) PROVE buffer'[n].pc = "live" <=> buffer'[n].refs # 0
    <3>1. CASE buffer[n].pc = "live"
      BY <3>1
    <3>2. CASE buffer[n].pc # "live"
      <4>1. buffer[n].refs = 0 /\ buffer[n].refs = Cardinality(RefsOn(handle, n))
        BY <1>0, <3>2 DEF Counts
      <4>2. RefsOn(handle, n) = {}
        BY <4>1, RefsFinite, FS_EmptySet
      <4>3. RefsOn(handle', n) = {}
        BY <4>2 DEF RefsOn
      <4>4. buffer'[n].refs = 0
        BY <4>3, FS_EmptySet
      <4> QED
        BY <3>2, <4>4
    <3> QED
      BY <3>1, <3>2
  <2> QED
    BY <1>0, <2>1, <2>2 DEF Counts
<1>6. Ranges'
  <2> SUFFICES ASSUME NEW h \in Handles
               PROVE  /\ handle'[h].buf \in 0 .. Len(buffer')
                      /\ handle'[h].buf # 0 => handle'[h].off + handle'[h].size <= buffer'[handle'[h].buf].size
    BY DEF Ranges
  <2>1. CASE handle'[h].buf = 0
    BY <1>0, <2>1
  <2>2. CASE handle'[h].buf # 0
    <3>1. PICK g \in Handles : /\ handle[g].buf = handle'[h].buf
                               /\ handle'[h].off + handle'[h].size <= handle[g].off + handle[g].size
      BY <2>2
    <3>2. handle[g].buf \in 1 .. Len(buffer) /\ handle[g].off + handle[g].size <= buffer[handle[g].buf].size
      BY <1>0, <2>2, <3>1 DEF Ranges
    <3>3. handle[g].off \in Nat /\ handle[g].size \in Nat /\ handle'[h].off \in Nat /\ handle'[h].size \in Nat
      BY DEF PoolShape, RefRecords
    <3> DEFINE k == handle[g].buf
    <3>4. buffer[k].size \in Int /\ buffer'[k].size = buffer[k].size
      BY <1>0, <3>2 DEF BufferRecords
    <3>5. k = handle'[h].buf /\ k \in 1 .. Len(buffer)
      BY <3>1, <3>2
    <3> HIDE DEF k
    <3>6. handle'[h].off + handle'[h].size <= buffer'[k].size
      BY <3>1, <3>2, <3>3, <3>4 DEF k
    <3> QED
      BY <1>0, <3>5, <3>6
  <2> QED
    BY <2>1, <2>2
<1> QED
  BY <1>1, <1>2, <1>4, <1>5, <1>6

\* What the step lemmas need to know of a state.
LEMMA Facts ==
    ASSUME PoolInv
    PROVE  /\ buffer \in Seq(BufferRecords) /\ handle \in [Handles -> RefRecords]
           /\ Len(buffer) \in Nat /\ DOMAIN buffer = 1 .. Len(buffer)
           /\ \A k \in 1 .. Len(buffer) :
                 /\ buffer[k] \in BufferRecords /\ buffer[k].refs \in Nat
                 /\ buffer[k].refs = Cardinality(RefsOn(handle, k))
                 /\ buffer[k].pc = "live" <=> buffer[k].refs # 0
           /\ \A h \in Handles :
                 /\ handle[h].buf \in 0 .. Len(buffer) /\ handle[h].off \in Nat /\ handle[h].size \in Nat
                 /\ handle[h].buf # 0 => buffer[handle[h].buf].refs # 0
           /\ Empty \in RefRecords /\ Empty.buf = 0
<1>1. Len(buffer) \in Nat /\ DOMAIN buffer = 1 .. Len(buffer) /\ \A k \in 1 .. Len(buffer) : buffer[k] \in BufferRecords
  BY LenProperties DEF PoolInv, PoolShape
<1>2. Empty \in RefRecords /\ Empty.buf = 0
  BY DEF Empty, RefRecords
<1>3. \A h \in Handles : handle[h].off \in Nat /\ handle[h].size \in Nat /\ handle[h].buf \in 0 .. Len(buffer)
  BY DEF PoolInv, PoolShape, RefRecords, Ranges
<1>4. \A h \in Handles : handle[h].buf # 0 => buffer[handle[h].buf].refs # 0
  BY ReferredIsLive
<1>5. \A k \in 1 .. Len(buffer) : buffer[k].refs \in Nat
  BY <1>1 DEF BufferRecords
<1> QED
  BY <1>1, <1>2, <1>3, <1>4, <1>5 DEF PoolInv, PoolShape, Counts

\* Reset of a MediaBufferRef.
LEMMA ResetPreserves == ASSUME PoolInv, NEW h \in Handles, ResetRef(h) PROVE PoolInv'
<1> DEFINE n == handle[h].buf
<1>0. /\ n \in 0 .. Len(buffer) /\ (n # 0 => buffer[n].refs # 0)
      /\ buffer' = Drop(buffer, n) /\ handle' = [handle EXCEPT ![h] = Empty]
      /\ UNCHANGED <<blocks, poolOpen, acquires>>
  BY Facts DEF ResetRef
<1>1. /\ \A j \in Handles : handle'[j] = IF j = h THEN Empty ELSE handle[j]
      /\ handle' \in [Handles -> RefRecords]
  BY <1>0, Facts
<1>2. /\ buffer' \in Seq(BufferRecords) /\ Len(buffer') = Len(buffer)
      /\ \A k \in 1 .. Len(buffer) :
            /\ buffer'[k].block = buffer[k].block /\ buffer'[k].size = buffer[k].size
            /\ buffer'[k].refs = buffer[k].refs - (IF k = n THEN 1 ELSE 0)
            /\ buffer'[k].pc = IF k = n /\ buffer[k].refs = 1 THEN "return" ELSE buffer[k].pc
  BY <1>0, Facts, DropEffect
<1> HIDE DEF n
<1>3. ASSUME NEW k \in 1 .. Len(buffer)
      PROVE  Cardinality(RefsOn(handle', k)) =
                 Cardinality(RefsOn(handle, k)) + (IF handle'[h].buf = k THEN 1 ELSE 0) - (IF handle[h].buf = k THEN 1 ELSE 0)
  <2>1. Repointed(handle, handle', h)
    BY <1>1 DEF Repointed
  <2> QED
    BY <2>1, CountMove DEF CountFollows
<1>4. ASSUME NEW k \in 1 .. Len(buffer)
      PROVE  /\ buffer'[k].refs = Cardinality(RefsOn(handle', k))
             /\ buffer'[k].pc = IF buffer[k].pc = "live" /\ buffer'[k].refs = 0 THEN "return" ELSE buffer[k].pc
  <2>1. handle'[h].buf = 0 /\ k # 0
    BY <1>1, Facts
  <2>2. buffer[k].refs = Cardinality(RefsOn(handle, k)) /\ buffer[k].refs \in Nat /\ (buffer[k].pc = "live" <=> buffer[k].refs # 0)
    BY Facts
  <2>3. Cardinality(RefsOn(handle', k)) = buffer[k].refs - (IF n = k THEN 1 ELSE 0)
    BY <1>3, <2>1, <2>2 DEF n
  <2>4. buffer'[k].refs = Cardinality(RefsOn(handle', k))
    BY <1>2, <2>3
  <2>5. buffer'[k].refs = buffer[k].refs - (IF k = n THEN 1 ELSE 0) /\ (n = k => buffer[k].refs # 0)
    BY <1>0, <1>2, <2>1
  <2>6. buffer'[k].pc = IF k = n /\ buffer[k].refs = 1 THEN "return" ELSE buffer[k].pc
    BY <1>2
  <2>7. (k = n /\ buffer[k].refs = 1) <=> (buffer[k].refs # 0 /\ buffer'[k].refs = 0)
    BY <2>2, <2>5
  <2> QED
    BY <2>2, <2>4, <2>6, <2>7
<1>5. \A j \in Handles : handle'[j].buf # 0 =>
          \E g \in Handles : /\ handle[g].buf = handle'[j].buf
                             /\ handle'[j].off + handle'[j].size <= handle[g].off + handle[g].size
  BY <1>1, Facts
<1> QED
  BY <1>0, <1>1, <1>2, <1>4, <1>5, RefStepPreserves

\* The count of a buffer after one reference was repointed.
LEMMA MovePointCounts ==
    ASSUME PoolInv, NEW f2, NEW h \in Handles, Repointed(handle, f2, h), NEW k \in 1 .. Len(buffer)
    PROVE  Cardinality(RefsOn(f2, k)) =
               buffer[k].refs + (IF f2[h].buf = k THEN 1 ELSE 0) - (IF handle[h].buf = k THEN 1 ELSE 0)
<1>1. CountFollows(handle, f2, h, k)
  BY CountMove
<1> QED
  BY <1>1, Facts DEF CountFollows

\* Slice: a second reference to the same buffer.
LEMMA SlicePreserves ==
    ASSUME PoolInv, NEW g \in Handles, NEW h \in Handles, NEW off \in 0 .. BlockBytes, NEW n \in 0 .. BlockBytes,
           Slice(g, h, off, n)
    PROVE  PoolInv'
<1> DEFINE a == handle[g].buf
           new == [buf |-> handle[g].buf, off |-> handle[g].off + off, size |-> n]
<1>0. /\ g # h /\ handle[h] = Empty /\ a # 0 /\ off <= handle[g].size /\ n <= handle[g].size - off
      /\ buffer' = AddRef(buffer, a) /\ handle' = [handle EXCEPT ![h] = new]
      /\ UNCHANGED <<blocks, poolOpen, acquires>>
  BY DEF Slice
<1>1. /\ a \in 0 .. Len(buffer) /\ buffer[a].refs # 0 /\ handle[g].off \in Nat /\ handle[g].size \in Nat
      /\ handle[h].buf = 0 /\ handle[g].off + off \in Nat /\ n \in Nat
      /\ handle[g].off + off + n <= handle[g].off + handle[g].size
  <2>1. /\ a \in 0 .. Len(buffer) /\ buffer[a].refs # 0 /\ handle[g].off \in Nat /\ handle[g].size \in Nat
        /\ handle[h].buf = 0
    BY <1>0, Facts
  <2>2. off \in Nat /\ n \in Nat
    BY PoolNumbers
  <2>3. off <= handle[g].size /\ n <= handle[g].size - off
    BY <1>0
  <2>4. handle[g].off + off \in Nat /\ handle[g].off + off + n <= handle[g].off + handle[g].size
    <3> DEFINE o == handle[g].off
               z == handle[g].size
    <3>1. o \in Nat /\ z \in Nat /\ off <= z /\ n <= z - off
      BY <2>1, <2>3
    <3> HIDE DEF o, z
    <3>2. o + off \in Nat /\ o + off + n <= o + z
      BY <2>2, <3>1
    <3> QED BY <3>2 DEF o, z
  <2> QED
    BY <2>1, <2>2, <2>4
<1>2. new \in RefRecords /\ new.buf = a /\ new.off = handle[g].off + off /\ new.size = n
  BY <1>1, Facts DEF RefRecords
<1> HIDE DEF new, a
<1>3. handle' \in [Handles -> RefRecords] /\ \A j \in Handles : handle'[j] = IF j = h THEN new ELSE handle[j]
  BY <1>0, <1>2, Facts
<1>4. /\ buffer' \in Seq(BufferRecords) /\ Len(buffer') = Len(buffer)
      /\ \A k \in 1 .. Len(buffer) :
            /\ buffer'[k].block = buffer[k].block /\ buffer'[k].size = buffer[k].size
            /\ buffer'[k].refs = buffer[k].refs + (IF k = a THEN 1 ELSE 0)
            /\ buffer'[k].pc = buffer[k].pc
  <2>1. buffer \in Seq(BufferRecords) /\ a \in 0 .. Len(buffer) /\ buffer' = AddRef(buffer, a)
    BY <1>0, <1>1, Facts
  <2> QED
    BY <2>1, AddRefEffect
<1>5. ASSUME NEW k \in 1 .. Len(buffer)
      PROVE  /\ buffer'[k].refs = Cardinality(RefsOn(handle', k))
             /\ buffer'[k].pc = IF buffer[k].pc = "live" /\ buffer'[k].refs = 0 THEN "return" ELSE buffer[k].pc
  <2> DEFINE f2 == handle'
  <2>1. Repointed(handle, f2, h) /\ f2[h].buf = a
    BY <1>2, <1>3 DEF Repointed
  <2> HIDE DEF f2
  <2>2. Cardinality(RefsOn(f2, k)) =
            buffer[k].refs + (IF f2[h].buf = k THEN 1 ELSE 0) - (IF handle[h].buf = k THEN 1 ELSE 0)
    BY <2>1, MovePointCounts
  <2>3. buffer[k].refs \in Nat /\ (buffer[k].pc = "live" <=> buffer[k].refs # 0)
    BY Facts
  <2>4. buffer'[k].refs = buffer[k].refs + (IF k = a THEN 1 ELSE 0) /\ buffer'[k].pc = buffer[k].pc
    BY <1>4
  <2>5. buffer'[k].refs = Cardinality(RefsOn(f2, k))
    BY <1>1, <2>1, <2>2, <2>3, <2>4
  <2>6. ~(buffer[k].pc = "live" /\ buffer'[k].refs = 0)
    BY <2>3, <2>4
  <2> QED
    BY <2>4, <2>5, <2>6 DEF f2
<1>6. ASSUME NEW j \in Handles, handle'[j].buf # 0
      PROVE  \E i \in Handles : /\ handle[i].buf = handle'[j].buf
                                /\ handle'[j].off + handle'[j].size <= handle[i].off + handle[i].size
  <2>1. CASE j = h
    BY <1>1, <1>2, <1>3, <2>1 DEF a
  <2>2. CASE j # h
    BY <1>3, <2>2, Facts
  <2> QED
    BY <2>1, <2>2
<1> QED
  BY <1>0, <1>3, <1>4, <1>5, <1>6, RefStepPreserves

\* Copy assignment: the new reference is taken before the old one is dropped.
LEMMA CopyPreserves == ASSUME PoolInv, NEW g \in Handles, NEW h \in Handles, CopyRef(g, h) PROVE PoolInv'
<1> DEFINE a == handle[g].buf
           b == handle[h].buf
           mid == AddRef(buffer, a)
           src == handle[g]
<1>0. g # h /\ buffer' = Drop(mid, b) /\ handle' = [handle EXCEPT ![h] = src] /\ UNCHANGED <<blocks, poolOpen, acquires>>
  BY DEF CopyRef
<1>1. /\ a \in 0 .. Len(buffer) /\ b \in 0 .. Len(buffer) /\ (a # 0 => buffer[a].refs # 0) /\ (b # 0 => buffer[b].refs # 0)
      /\ buffer \in Seq(BufferRecords) /\ src \in RefRecords /\ src.buf = a
  BY Facts
<1> HIDE DEF src
<1>2. handle' \in [Handles -> RefRecords] /\ \A j \in Handles : handle'[j] = IF j = h THEN src ELSE handle[j]
  BY <1>0, <1>1, Facts
<1> HIDE DEF a, b, mid
<1>3. /\ mid \in Seq(BufferRecords) /\ Len(mid) = Len(buffer)
      /\ \A k \in 1 .. Len(buffer) :
            /\ mid[k].block = buffer[k].block /\ mid[k].size = buffer[k].size
            /\ mid[k].refs = buffer[k].refs + (IF k = a THEN 1 ELSE 0)
            /\ mid[k].pc = buffer[k].pc
  BY <1>1, AddRefEffect DEF mid
<1>4. b \in 0 .. Len(mid) /\ (b # 0 => mid[b].refs # 0)
  <2>1. b \in 0 .. Len(mid)
    BY <1>1, <1>3
  <2>2. CASE b # 0
    <3>1. b \in 1 .. Len(buffer) /\ buffer[b].refs \in Nat /\ buffer[b].refs # 0
      BY <1>1, <2>2, Facts
    <3> QED
      BY <1>3, <2>1, <3>1
  <2> QED
    BY <2>1, <2>2
<1>5. /\ buffer' \in Seq(BufferRecords) /\ Len(buffer') = Len(mid)
      /\ \A k \in 1 .. Len(mid) :
            /\ buffer'[k].block = mid[k].block /\ buffer'[k].size = mid[k].size
            /\ buffer'[k].refs = mid[k].refs - (IF k = b THEN 1 ELSE 0)
            /\ buffer'[k].pc = IF k = b /\ mid[k].refs = 1 THEN "return" ELSE mid[k].pc
  BY <1>0, <1>3, <1>4, DropEffect
<1>6. ASSUME NEW k \in 1 .. Len(buffer)
      PROVE  /\ buffer'[k].block = buffer[k].block /\ buffer'[k].size = buffer[k].size
             /\ buffer'[k].refs = Cardinality(RefsOn(handle', k))
             /\ buffer'[k].pc = IF buffer[k].pc = "live" /\ buffer'[k].refs = 0 THEN "return" ELSE buffer[k].pc
  <2>1. Repointed(handle, handle', h) /\ handle'[h].buf = a
    BY <1>1, <1>2 DEF Repointed
  <2>2. Cardinality(RefsOn(handle', k)) =
            buffer[k].refs + (IF handle'[h].buf = k THEN 1 ELSE 0) - (IF handle[h].buf = k THEN 1 ELSE 0)
    BY <2>1, MovePointCounts
  <2>3. buffer[k].refs \in Nat /\ (buffer[k].pc = "live" <=> buffer[k].refs # 0) /\ (k = b => buffer[k].refs # 0) /\ (k = a => buffer[k].refs # 0)
    BY <1>1, Facts
  <2>4. /\ buffer'[k].refs = buffer[k].refs + (IF k = a THEN 1 ELSE 0) - (IF k = b THEN 1 ELSE 0)
        /\ buffer'[k].pc = IF k = b /\ mid[k].refs = 1 THEN "return" ELSE buffer[k].pc
        /\ mid[k].refs = buffer[k].refs + (IF k = a THEN 1 ELSE 0)
    BY <1>3, <1>5, <2>3
  <2>5. buffer'[k].refs = Cardinality(RefsOn(handle', k))
    BY <2>1, <2>2, <2>3, <2>4 DEF b
  <2>6. (k = b /\ mid[k].refs = 1) <=> (buffer[k].refs # 0 /\ buffer'[k].refs = 0)
    <3> DEFINE r == buffer[k].refs
               r1 == mid[k].refs
               r2 == buffer'[k].refs
    <3>1. r \in Nat /\ (k = b => r # 0) /\ (k = a => r # 0) /\ r1 = r + (IF k = a THEN 1 ELSE 0)
          /\ r2 = r + (IF k = a THEN 1 ELSE 0) - (IF k = b THEN 1 ELSE 0)
      BY <2>3, <2>4
    <3> HIDE DEF r, r1, r2
    <3>4. (k = b /\ r1 = 1) <=> (r # 0 /\ r2 = 0)
      <4>1. CASE k = a /\ k = b
        BY <3>1, <4>1
      <4>2. CASE k = a /\ k # b
        BY <3>1, <4>2
      <4>3. CASE k # a
        BY <3>1, <4>3
      <4> QED BY <4>1, <4>2, <4>3
    <3> QED BY <3>4 DEF r, r1, r2
  <2> QED
    BY <1>3, <1>5, <2>3, <2>4, <2>5, <2>6
<1>7. ASSUME NEW j \in Handles, handle'[j].buf # 0
      PROVE  \E i \in Handles : /\ handle[i].buf = handle'[j].buf
                                /\ handle'[j].off + handle'[j].size <= handle[i].off + handle[i].size
  <2>1. CASE j = h
    BY <1>2, <2>1, Facts DEF src
  <2>2. CASE j # h
    BY <1>2, <2>2, Facts
  <2> QED
    BY <2>1, <2>2
<1>8. Len(buffer') = Len(buffer)
  BY <1>3, <1>5
<1> QED
  BY <1>0, <1>2, <1>5, <1>6, <1>7, <1>8, RefStepPreserves

\* Move assignment: the source is left empty.
LEMMA MovePreserves == ASSUME PoolInv, NEW g \in Handles, NEW h \in Handles, MoveRef(g, h) PROVE PoolInv'
<1> DEFINE a == handle[g].buf
           b == handle[h].buf
           src == handle[g]
           first == [handle EXCEPT ![h] = src]
<1>0. g # h /\ buffer' = Drop(buffer, b) /\ UNCHANGED <<blocks, poolOpen, acquires>>
  BY DEF MoveRef
<1>1. /\ a \in 0 .. Len(buffer) /\ b \in 0 .. Len(buffer) /\ (b # 0 => buffer[b].refs # 0)
      /\ buffer \in Seq(BufferRecords) /\ src \in RefRecords /\ src.buf = a
  BY Facts
<1> HIDE DEF src
<1>2. /\ handle' \in [Handles -> RefRecords]
      /\ \A j \in Handles : handle'[j] = IF j = g THEN Empty ELSE IF j = h THEN src ELSE handle[j]
      /\ \A j \in Handles : first[j] = IF j = h THEN src ELSE handle[j]
  BY <1>1, Facts DEF MoveRef, src
<1> HIDE DEF a, b, first
<1>3. /\ buffer' \in Seq(BufferRecords) /\ Len(buffer') = Len(buffer)
      /\ \A k \in 1 .. Len(buffer) :
            /\ buffer'[k].block = buffer[k].block /\ buffer'[k].size = buffer[k].size
            /\ buffer'[k].refs = buffer[k].refs - (IF k = b THEN 1 ELSE 0)
            /\ buffer'[k].pc = IF k = b /\ buffer[k].refs = 1 THEN "return" ELSE buffer[k].pc
  BY <1>0, <1>1, DropEffect
<1>4. ASSUME NEW k \in 1 .. Len(buffer)
      PROVE  /\ buffer'[k].refs = Cardinality(RefsOn(handle', k))
             /\ buffer'[k].pc = IF buffer[k].pc = "live" /\ buffer'[k].refs = 0 THEN "return" ELSE buffer[k].pc
  <2>1. Repointed(handle, first, h) /\ first[h].buf = a
    BY <1>1, <1>2 DEF Repointed
  <2>2. Repointed(first, handle', g) /\ first[g].buf = a /\ handle'[g].buf = 0
    BY <1>0, <1>2, Facts DEF Repointed, a
  <2>3. Cardinality(RefsOn(first, k)) =
            buffer[k].refs + (IF first[h].buf = k THEN 1 ELSE 0) - (IF handle[h].buf = k THEN 1 ELSE 0)
    BY <2>1, MovePointCounts
  <2>4. CountFollows(first, handle', g, k)
    BY <2>2, CountMove
  <2>5. buffer[k].refs \in Nat /\ (buffer[k].pc = "live" <=> buffer[k].refs # 0) /\ (k = b => buffer[k].refs # 0) /\ k # 0
    BY <1>1, Facts
  <2>6. Cardinality(RefsOn(handle', k)) = Cardinality(RefsOn(first, k)) - (IF a = k THEN 1 ELSE 0)
    BY <2>2, <2>4, <2>5, RefsFinite DEF CountFollows
  <2>7. Cardinality(RefsOn(first, k)) = buffer[k].refs + (IF a = k THEN 1 ELSE 0) - (IF b = k THEN 1 ELSE 0)
    BY <2>1, <2>3 DEF b
  <2>8. /\ buffer'[k].refs = buffer[k].refs - (IF k = b THEN 1 ELSE 0)
        /\ buffer'[k].pc = IF k = b /\ buffer[k].refs = 1 THEN "return" ELSE buffer[k].pc
    BY <1>3
  <2>9. buffer'[k].refs = Cardinality(RefsOn(handle', k))
    BY <2>5, <2>6, <2>7, <2>8
  <2>10. (k = b /\ buffer[k].refs = 1) <=> (buffer[k].refs # 0 /\ buffer'[k].refs = 0)
    BY <2>5, <2>8
  <2> QED
    BY <2>5, <2>8, <2>9, <2>10
<1>5. ASSUME NEW j \in Handles, handle'[j].buf # 0
      PROVE  \E i \in Handles : /\ handle[i].buf = handle'[j].buf
                                /\ handle'[j].off + handle'[j].size <= handle[i].off + handle[i].size
  <2>0. j # g
    BY <1>2, <1>5, Facts
  <2>1. CASE j = h
    BY <1>2, <2>0, <2>1, Facts DEF src
  <2>2. CASE j # h
    BY <1>2, <2>0, <2>2, Facts
  <2> QED
    BY <2>1, <2>2
<1> QED
  BY <1>0, <1>2, <1>3, <1>4, <1>5, RefStepPreserves

\* SetSize changes the range of a reference within its block.
LEMMA SetSizePreserves ==
    ASSUME PoolInv, NEW h \in Handles, NEW n \in 0 .. BlockBytes, SetSize(h, n)
    PROVE  PoolInv'
<1> DEFINE m == handle[h].buf
           end == handle[h].off + n
           size == IF end > buffer[m].size THEN end ELSE buffer[m].size
           b == [buffer[m] EXCEPT !.size = size]
           ref == [handle[h] EXCEPT !.size = n]
<1>0. /\ m # 0 /\ n <= BlockBytes - handle[h].off
      /\ buffer' = [buffer EXCEPT ![m] = b] /\ handle' = [handle EXCEPT ![h] = ref]
      /\ UNCHANGED <<blocks, poolOpen, acquires>>
  BY DEF SetSize
<1>1. m \in 1 .. Len(buffer) /\ buffer[m] \in BufferRecords /\ buffer \in Seq(BufferRecords) /\ handle[h].off \in Nat
  BY <1>0, Facts
<1>2. buffer[m].size \in 0 .. BlockBytes /\ n \in Nat
  BY <1>1, PoolNumbers DEF BufferRecords
<1>3. size \in 0 .. BlockBytes /\ size >= buffer[m].size /\ size >= end
  <2> DEFINE was == buffer[m].size
             off == handle[h].off
  <2>1. was \in 0 .. BlockBytes /\ off \in Nat /\ n \in Nat /\ n <= BlockBytes - off /\ BlockBytes \in Nat
    BY <1>0, <1>1, <1>2, PoolNumbers
  <2>2. size = (IF off + n > was THEN off + n ELSE was) /\ end = off + n
    OBVIOUS
  <2> HIDE DEF was, off, size, end
  <2>3. size \in 0 .. BlockBytes /\ size >= was /\ size >= end
    BY <2>1, <2>2
  <2> QED
    BY <2>3 DEF was
<1>a. n \in Nat /\ handle[h] \in RefRecords /\ end = handle[h].off + n
  BY <1>2, Facts
<1> HIDE DEF size, end
<1>4. b \in BufferRecords /\ b.size = size /\ b.block = buffer[m].block /\ b.refs = buffer[m].refs /\ b.pc = buffer[m].pc
  BY <1>1, <1>3 DEF BufferRecords
<1>5. ref \in RefRecords /\ ref.buf = handle[h].buf /\ ref.off = handle[h].off /\ ref.size = n
  BY <1>a DEF RefRecords
<1> HIDE DEF b, ref
<1>6. /\ buffer' \in Seq(BufferRecords) /\ Len(buffer') = Len(buffer)
      /\ \A k \in 1 .. Len(buffer) : buffer'[k] = IF k = m THEN b ELSE buffer[k]
  BY <1>0, <1>1, <1>4, ExceptSeq
<1>7. handle' \in [Handles -> RefRecords] /\ \A j \in Handles : handle'[j] = IF j = h THEN ref ELSE handle[j]
  BY <1>0, <1>5, Facts
<1>8. \A k : RefsOn(handle', k) = RefsOn(handle, k)
  BY <1>5, <1>7 DEF RefsOn
<1>9. /\ Len(buffer) \in Nat /\ DOMAIN buffer = 1 .. Len(buffer) /\ DOMAIN buffer' = 1 .. Len(buffer)
      /\ \A k \in 1 .. Len(buffer) :
            buffer'[k].block = buffer[k].block /\ buffer'[k].refs = buffer[k].refs /\ buffer'[k].pc = buffer[k].pc
  BY <1>4, <1>6, Facts, LenProperties
<1>10. PoolShape'
  BY <1>0, <1>6, <1>7 DEF PoolInv, PoolShape
<1>11. FreeList'
  BY <1>0 DEF PoolInv, FreeList
<1>12. Holding'
  BY <1>0, <1>9 DEF PoolInv, Holding, Holds
<1>13. Counts'
  <2>1. Undeleted' = Undeleted
    BY <1>9 DEF Undeleted
  <2>2. blocks' = blocks /\ poolOpen' = poolOpen
    BY <1>0
  <2>3. \A k \in DOMAIN buffer : buffer[k].refs = Cardinality(RefsOn(handle, k)) /\ (buffer[k].pc = "live" <=> buffer[k].refs # 0)
    BY DEF PoolInv, Counts
  <2>4. \A k \in DOMAIN buffer' :
            buffer'[k].refs = Cardinality(RefsOn(handle', k)) /\ (buffer'[k].pc = "live" <=> buffer'[k].refs # 0)
    BY <1>8, <1>9, <2>3
  <2> QED
    BY <2>1, <2>2, <2>4 DEF PoolInv, Counts
<1>14. Ranges'
  <2> SUFFICES ASSUME NEW j \in Handles
               PROVE  /\ handle'[j].buf \in 0 .. Len(buffer')
                      /\ handle'[j].buf # 0 => handle'[j].off + handle'[j].size <= buffer'[handle'[j].buf].size
    BY DEF Ranges
  <2>1. CASE j = h
    <3>1. handle'[j].buf = m /\ handle'[j].off + handle'[j].size = end /\ buffer'[m].size = size
      BY <1>1, <1>4, <1>5, <1>6, <1>7, <1>a, <2>1 DEF m
    <3> QED
      BY <1>1, <1>3, <1>6, <3>1 DEF end
  <2>2. CASE j # h
    <3> DEFINE k == handle[j].buf
    <3>1. handle'[j] = handle[j] /\ k \in 0 .. Len(buffer)
      BY <1>7, <2>2, Facts
    <3>2. CASE k = 0
      BY <1>6, <3>1, <3>2
    <3>3. CASE k # 0
      <4>1. k \in 1 .. Len(buffer) /\ handle[j].off + handle[j].size <= buffer[k].size
        BY <3>1, <3>3 DEF PoolInv, Ranges
      <4>2. buffer'[k].size >= buffer[k].size /\ buffer[k].size \in Int /\ buffer'[k].size \in Int
        <5>1. buffer[k] \in BufferRecords /\ buffer'[k] \in BufferRecords
          BY <1>6, <4>1, Facts, LenProperties
        <5>2. buffer[k].size \in Int /\ buffer'[k].size \in Int
          BY <5>1 DEF BufferRecords
        <5> QED
          BY <1>3, <1>4, <1>6, <4>1, <5>2
      <4>3. handle[j].off \in Nat /\ handle[j].size \in Nat
        BY Facts
      <4>4. handle[j].off + handle[j].size <= buffer'[k].size
        BY <4>1, <4>2, <4>3
      <4> QED
        BY <1>6, <3>1, <4>4
    <3> QED
      BY <3>2, <3>3
  <2> QED
    BY <2>1, <2>2
<1> QED
  BY <1>10, <1>11, <1>12, <1>13, <1>14 DEF PoolInv

-----------------------------------------------------------------------------
(* Steps on the blocks *)

\* The fields of the blocks object.
LEMMA BlocksFields ==
    ASSUME PoolInv
    PROVE  /\ blocks.refs \in Nat /\ blocks.high \in 0 .. PoolSize /\ blocks.failures \in Nat
           /\ blocks.free \in Seq(Indices) /\ blocks.inUse \subseteq Indices
           /\ Len(blocks.free) \in Nat /\ DOMAIN blocks.free = 1 .. Len(blocks.free)
           /\ \A k \in 1 .. Len(blocks.free) : blocks.free[k] \in Indices
<1>1. blocks.free \in Seq(Indices)
  BY DEF PoolInv, PoolShape
<1> QED
  BY <1>1, LenProperties DEF PoolInv, PoolShape

\* FreePoolBlock puts the block back on the free list.
LEMMA GiveBackPreserves == ASSUME PoolInv, NEW n \in DOMAIN buffer, GiveBack(n) PROVE PoolInv'
<1> DEFINE i == buffer[n].block
           b == [buffer[n] EXCEPT !.pc = "unref"]
<1>0. /\ buffer[n].pc = "return" /\ blocks' = ReturnBlock(blocks, i) /\ buffer' = [buffer EXCEPT ![n] = b]
      /\ UNCHANGED <<poolOpen, handle, acquires>>
  BY DEF GiveBack
<1>1. n \in 1 .. Len(buffer) /\ buffer[n] \in BufferRecords /\ buffer \in Seq(BufferRecords) /\ i \in Indices
  BY Facts DEF BufferRecords
<1>2. b \in BufferRecords /\ b.block = i /\ b.size = buffer[n].size /\ b.refs = buffer[n].refs /\ b.pc = "unref"
  BY <1>1 DEF BufferRecords
<1>3. i \in blocks.inUse
  BY <1>0 DEF PoolInv, Holding, Holds
<1>4. blocks' = [blocks EXCEPT !.inUse = @ \ {i}, !.free = Append(@, i)]
  BY <1>0, <1>3 DEF ReturnBlock, ReleaseBlockIndex
<1> HIDE DEF i, b
<1>5. /\ buffer' \in Seq(BufferRecords) /\ Len(buffer') = Len(buffer)
      /\ \A k \in 1 .. Len(buffer) : buffer'[k] = IF k = n THEN b ELSE buffer[k]
  BY <1>0, <1>1, <1>2, ExceptSeq
<1>6. /\ Len(buffer) \in Nat /\ DOMAIN buffer = 1 .. Len(buffer) /\ DOMAIN buffer' = 1 .. Len(buffer)
      /\ \A k \in 1 .. Len(buffer) :
            /\ buffer'[k].block = buffer[k].block /\ buffer'[k].refs = buffer[k].refs /\ buffer'[k].size = buffer[k].size
            /\ buffer'[k].pc = IF k = n THEN "unref" ELSE buffer[k].pc
  BY <1>2, <1>5, Facts, LenProperties DEF i
<1>7. /\ blocks'.free = Append(blocks.free, i) /\ blocks'.inUse = blocks.inUse \ {i} /\ blocks'.refs = blocks.refs
      /\ blocks'.high = blocks.high /\ blocks'.deleted = blocks.deleted
  BY <1>4 DEF PoolInv, PoolShape
<1>8. /\ blocks'.free \in Seq(Indices) /\ Len(blocks'.free) = Len(blocks.free) + 1
      /\ DOMAIN blocks'.free = 1 .. Len(blocks.free) + 1
      /\ \A k \in 1 .. Len(blocks.free) : blocks'.free[k] = blocks.free[k]
      /\ blocks'.free[Len(blocks.free) + 1] = i
  BY <1>1, <1>7, BlocksFields, AppendProperties, LenProperties
<1>9. PoolShape'
  <2>1. blocks' \in [refs : Nat, deleted : BOOLEAN, failures : Nat, high : 0 .. PoolSize, free : Seq(Indices),
                     inUse : SUBSET Indices]
    <3>1. Append(blocks.free, i) \in Seq(Indices) /\ blocks.inUse \ {i} \in SUBSET Indices
      BY <1>7, <1>8, BlocksFields
    <3> QED
      BY <1>4, <3>1 DEF PoolInv, PoolShape
  <2> QED
    BY <1>0, <1>5, <2>1 DEF PoolInv, PoolShape
<1>10. FreeList'
  <2>0. /\ \A j, k \in 1 .. Len(blocks.free) : blocks.free[j] = blocks.free[k] => j = k
        /\ \A x \in Indices : x \in blocks.inUse <=> \A k \in 1 .. Len(blocks.free) : blocks.free[k] # x
        /\ Len(blocks.free) + Cardinality(blocks.inUse) = PoolSize /\ Len(blocks.free) \in Nat
    BY BlocksFields DEF PoolInv, FreeList
  <2>1. ASSUME NEW j \in DOMAIN blocks'.free, NEW k \in DOMAIN blocks'.free, blocks'.free[j] = blocks'.free[k]
        PROVE  j = k
    <3> DEFINE top == Len(blocks.free) + 1
    <3>1. \A l \in DOMAIN blocks'.free : l = top \/ (l \in 1 .. Len(blocks.free) /\ blocks'.free[l] = blocks.free[l])
      BY <1>8, <2>0
    <3>2. \A l \in 1 .. Len(blocks.free) : blocks.free[l] # i
      BY <1>1, <1>3, <2>0
    <3>3. blocks'.free[top] = i
      BY <1>8
    <3> HIDE DEF top
    <3> QED
      BY <2>0, <2>1, <3>1, <3>2, <3>3
  <2>2. \A x \in Indices : x \in blocks'.inUse <=> \A k \in DOMAIN blocks'.free : blocks'.free[k] # x
    BY <1>7, <1>8, <2>0
  <2>3. Cardinality(blocks'.inUse) = Cardinality(blocks.inUse) - 1 /\ Cardinality(blocks.inUse) \in Nat
    BY <1>3, <1>7, InUseFinite, FS_RemoveElement DEF PoolInv
  <2>4. Len(blocks'.free) + Cardinality(blocks'.inUse) = PoolSize
    BY <1>8, <2>0, <2>3
  <2> QED
    BY <2>1, <2>2, <2>4 DEF FreeList
<1>11. Holding'
  <2>1. \A k \in 1 .. Len(buffer) : buffer'[k].pc \in {"live", "return"} <=> k # n /\ buffer[k].pc \in {"live", "return"}
    BY <1>6
  <2>2. \A k \in 1 .. Len(buffer) : k # n /\ buffer[k].pc \in {"live", "return"} => buffer[k].block # i
    BY <1>0, <1>1, <1>6 DEF PoolInv, Holding, Holds, i
  <2>3. /\ \A k \in 1 .. Len(buffer) : buffer[k].pc \in {"live", "return"} => buffer[k].block \in blocks.inUse
        /\ \A j, k \in 1 .. Len(buffer) :
              buffer[j].pc \in {"live", "return"} /\ buffer[k].pc \in {"live", "return"} /\ buffer[j].block = buffer[k].block => j = k
        /\ \A x \in blocks.inUse : \E k \in 1 .. Len(buffer) : buffer[k].pc \in {"live", "return"} /\ buffer[k].block = x
    BY <1>6 DEF PoolInv, Holding, Holds
  <2>4. ASSUME NEW x \in blocks'.inUse
        PROVE  \E k \in 1 .. Len(buffer) : buffer'[k].pc \in {"live", "return"} /\ buffer'[k].block = x
    <3>1. x \in blocks.inUse /\ x # i
      BY <1>7, <2>4
    <3>2. PICK k \in 1 .. Len(buffer) : buffer[k].pc \in {"live", "return"} /\ buffer[k].block = x
      BY <2>3, <3>1
    <3> QED
      BY <1>6, <2>1, <3>1, <3>2 DEF i
  <2>5. \A k \in DOMAIN buffer' : buffer'[k].pc \in {"live", "return"} => buffer'[k].block \in blocks'.inUse
    BY <1>6, <1>7, <2>1, <2>2, <2>3
  <2>6. \A j, k \in DOMAIN buffer' :
            buffer'[j].pc \in {"live", "return"} /\ buffer'[k].pc \in {"live", "return"} /\ buffer'[j].block = buffer'[k].block => j = k
    BY <1>6, <2>1, <2>3
  <2>7. \A x \in blocks'.inUse : \E k \in DOMAIN buffer' : buffer'[k].pc \in {"live", "return"} /\ buffer'[k].block = x
    BY <1>6, <2>4
  <2> QED
    BY <2>5, <2>6, <2>7 DEF Holding, Holds
<1>12. Counts'
  <2>1. Undeleted' = Undeleted
    BY <1>0, <1>6 DEF Undeleted
  <2>2. \A k \in DOMAIN buffer : buffer[k].refs = Cardinality(RefsOn(handle, k)) /\ (buffer[k].pc = "live" <=> buffer[k].refs # 0)
    BY DEF PoolInv, Counts
  <2>3. \A k \in DOMAIN buffer' :
            buffer'[k].refs = Cardinality(RefsOn(handle', k)) /\ (buffer'[k].pc = "live" <=> buffer'[k].refs # 0)
    BY <1>0, <1>6, <2>2
  <2> QED
    BY <1>0, <1>7, <2>1, <2>3 DEF PoolInv, Counts
<1>13. Ranges'
  <2>1. \A j \in Handles : handle[j].buf \in 0 .. Len(buffer) /\ (handle[j].buf # 0 => handle[j].buf \in 1 .. Len(buffer))
    BY <1>6 DEF PoolInv, Ranges
  <2> QED
    BY <1>0, <1>5, <1>6, <2>1 DEF PoolInv, Ranges
<1> QED
  BY <1>9, <1>10, <1>11, <1>12, <1>13 DEF PoolInv

\* Releasing a reference on the blocks object.
LEMMA ReleaseRefEffect ==
    ASSUME PoolInv, blocks.refs # 0, blocks' = ReleaseRef(blocks)
    PROVE  /\ blocks' \in [refs : Nat, deleted : BOOLEAN, failures : Nat, high : 0 .. PoolSize, free : Seq(Indices),
                            inUse : SUBSET Indices]
           /\ blocks'.free = blocks.free /\ blocks'.inUse = blocks.inUse /\ blocks'.refs = blocks.refs - 1
           /\ blocks'.deleted <=> blocks'.refs = 0
<1> DEFINE gone == blocks.deleted \/ blocks.refs = 1
<1>1. gone \in BOOLEAN /\ blocks.refs - 1 \in Nat
  BY BlocksFields
<1>2. gone <=> blocks.refs - 1 = 0
  <2>1. blocks.deleted <=> blocks.refs = 0
    BY DEF PoolInv, Counts
  <2> QED
    BY <2>1, BlocksFields
<1>3. blocks' = [blocks EXCEPT !.refs = blocks.refs - 1, !.deleted = gone]
  BY DEF ReleaseRef
<1> HIDE DEF gone
<1>4. /\ blocks' \in [refs : Nat, deleted : BOOLEAN, failures : Nat, high : 0 .. PoolSize, free : Seq(Indices),
                       inUse : SUBSET Indices]
      /\ blocks'.free = blocks.free /\ blocks'.inUse = blocks.inUse /\ blocks'.refs = blocks.refs - 1
      /\ blocks'.deleted = gone
  BY <1>1, <1>3 DEF PoolInv, PoolShape
<1> QED
  BY <1>2, <1>4

\* The MediaBufferPool object goes away.
LEMMA DestroyPreserves == ASSUME PoolInv, DestroyPool PROVE PoolInv'
<1>0. poolOpen /\ poolOpen' = FALSE /\ blocks' = ReleaseRef(blocks) /\ UNCHANGED <<buffer, handle, acquires>>
  BY DEF DestroyPool
<1>1. Cardinality(Undeleted) \in Nat /\ blocks.refs = Cardinality(Undeleted) + 1
  BY <1>0, UndeletedFinite, Facts DEF PoolInv, Counts
<1>2. blocks.refs # 0
  BY <1>1
<1>3. /\ blocks' \in [refs : Nat, deleted : BOOLEAN, failures : Nat, high : 0 .. PoolSize, free : Seq(Indices),
                       inUse : SUBSET Indices]
      /\ blocks'.free = blocks.free /\ blocks'.inUse = blocks.inUse /\ blocks'.refs = blocks.refs - 1
      /\ blocks'.deleted <=> blocks'.refs = 0
  BY <1>0, <1>2, ReleaseRefEffect
<1>4. PoolShape'
  BY <1>0, <1>3 DEF PoolInv, PoolShape
<1>5. FreeList' /\ Holding' /\ Ranges'
  BY <1>0, <1>3 DEF PoolInv, FreeList, Holding, Holds, Ranges
<1>6. Counts'
  <2>1. Undeleted' = Undeleted
    BY <1>0 DEF Undeleted
  <2>2. blocks'.refs = Cardinality(Undeleted') + (IF poolOpen' THEN 1 ELSE 0)
    BY <1>0, <1>1, <1>3, <2>1
  <2> QED
    BY <1>0, <1>3, <2>2 DEF PoolInv, Counts
<1> QED
  BY <1>4, <1>5, <1>6 DEF PoolInv

\* FreePoolBlock drops its reference to the blocks, and the last one frees them.
LEMMA ReleaseBlocksPreserves == ASSUME PoolInv, NEW n \in DOMAIN buffer, ReleaseBlocks(n) PROVE PoolInv'
<1> DEFINE b == [buffer[n] EXCEPT !.pc = "deleted"]
<1>0. /\ buffer[n].pc = "unref" /\ blocks' = ReleaseRef(blocks) /\ buffer' = [buffer EXCEPT ![n] = b]
      /\ UNCHANGED <<poolOpen, handle, acquires>>
  BY DEF ReleaseBlocks
<1>1. n \in 1 .. Len(buffer) /\ buffer[n] \in BufferRecords /\ buffer \in Seq(BufferRecords)
  BY Facts
<1>2. b \in BufferRecords /\ b.block = buffer[n].block /\ b.size = buffer[n].size /\ b.refs = buffer[n].refs /\ b.pc = "deleted"
  BY <1>1 DEF BufferRecords
<1> HIDE DEF b
<1>3. n \in Undeleted /\ IsFiniteSet(Undeleted) /\ Cardinality(Undeleted) \in Nat
  BY <1>0, UndeletedFinite, Facts DEF Undeleted, PoolInv
<1>4. Cardinality(Undeleted) # 0
  BY <1>3, FS_EmptySet
<1>5. blocks.refs = Cardinality(Undeleted) + (IF poolOpen THEN 1 ELSE 0)
  BY DEF PoolInv, Counts
<1>6. blocks.refs # 0
  BY <1>3, <1>4, <1>5
<1>7. /\ blocks' \in [refs : Nat, deleted : BOOLEAN, failures : Nat, high : 0 .. PoolSize, free : Seq(Indices),
                       inUse : SUBSET Indices]
      /\ blocks'.free = blocks.free /\ blocks'.inUse = blocks.inUse /\ blocks'.refs = blocks.refs - 1
      /\ blocks'.deleted <=> blocks'.refs = 0
  BY <1>0, <1>6, ReleaseRefEffect
<1>8. /\ buffer' \in Seq(BufferRecords) /\ Len(buffer') = Len(buffer)
      /\ \A k \in 1 .. Len(buffer) : buffer'[k] = IF k = n THEN b ELSE buffer[k]
  BY <1>0, <1>1, <1>2, ExceptSeq
<1>9. /\ Len(buffer) \in Nat /\ DOMAIN buffer = 1 .. Len(buffer) /\ DOMAIN buffer' = 1 .. Len(buffer)
      /\ \A k \in 1 .. Len(buffer) :
            /\ buffer'[k].block = buffer[k].block /\ buffer'[k].refs = buffer[k].refs /\ buffer'[k].size = buffer[k].size
            /\ buffer'[k].pc = IF k = n THEN "deleted" ELSE buffer[k].pc
  BY <1>2, <1>8, Facts, LenProperties
<1>10. PoolShape'
  BY <1>0, <1>7, <1>8 DEF PoolInv, PoolShape
<1>11. FreeList'
  BY <1>7 DEF PoolInv, FreeList
<1>12. Holding'
  <2>1. \A k \in 1 .. Len(buffer) : buffer'[k].pc \in {"live", "return"} <=> buffer[k].pc \in {"live", "return"}
    BY <1>0, <1>9
  <2>2. /\ \A k \in 1 .. Len(buffer) : buffer[k].pc \in {"live", "return"} => buffer[k].block \in blocks.inUse
        /\ \A j, k \in 1 .. Len(buffer) :
              buffer[j].pc \in {"live", "return"} /\ buffer[k].pc \in {"live", "return"} /\ buffer[j].block = buffer[k].block => j = k
        /\ \A x \in blocks.inUse : \E k \in 1 .. Len(buffer) : buffer[k].pc \in {"live", "return"} /\ buffer[k].block = x
    BY <1>9 DEF PoolInv, Holding, Holds
  <2>3. \A k \in DOMAIN buffer' : buffer'[k].pc \in {"live", "return"} => buffer'[k].block \in blocks'.inUse
    BY <1>7, <1>9, <2>1, <2>2
  <2>4. \A j, k \in DOMAIN buffer' :
            buffer'[j].pc \in {"live", "return"} /\ buffer'[k].pc \in {"live", "return"} /\ buffer'[j].block = buffer'[k].block => j = k
    BY <1>9, <2>1, <2>2
  <2>5. ASSUME NEW x \in blocks'.inUse
        PROVE  \E k \in DOMAIN buffer' : buffer'[k].pc \in {"live", "return"} /\ buffer'[k].block = x
    <3>1. PICK k \in 1 .. Len(buffer) : buffer[k].pc \in {"live", "return"} /\ buffer[k].block = x
      BY <1>7, <2>2
    <3> QED
      BY <1>9, <2>1, <3>1
  <2> QED
    BY <2>3, <2>4, <2>5 DEF Holding, Holds
<1>13. Counts'
  <2>1. Undeleted' = Undeleted \ {n}
    BY <1>9 DEF Undeleted
  <2>2. Cardinality(Undeleted') = Cardinality(Undeleted) - 1
    BY <1>3, <2>1, FS_RemoveElement
  <2>3. blocks'.refs = Cardinality(Undeleted') + (IF poolOpen' THEN 1 ELSE 0)
    BY <1>0, <1>3, <1>5, <1>7, <2>2
  <2>4. \A k \in DOMAIN buffer : buffer[k].refs = Cardinality(RefsOn(handle, k)) /\ (buffer[k].pc = "live" <=> buffer[k].refs # 0)
    BY DEF PoolInv, Counts
  <2>5. \A k \in DOMAIN buffer' :
            buffer'[k].refs = Cardinality(RefsOn(handle', k)) /\ (buffer'[k].pc = "live" <=> buffer'[k].refs # 0)
    BY <1>0, <1>9, <2>4
  <2> QED
    BY <1>7, <2>3, <2>5 DEF Counts
<1>14. Ranges'
  <2>1. \A j \in Handles : handle[j].buf \in 0 .. Len(buffer) /\ (handle[j].buf # 0 => handle[j].buf \in 1 .. Len(buffer))
    BY <1>9 DEF PoolInv, Ranges
  <2> QED
    BY <1>0, <1>8, <1>9, <2>1 DEF PoolInv, Ranges
<1> QED
  BY <1>10, <1>11, <1>12, <1>13, <1>14 DEF PoolInv

\* A step that changes nothing but the statistics of the blocks object.
LEMMA StatisticsPreserve ==
    ASSUME PoolInv, UNCHANGED <<poolOpen, buffer, handle>>, acquires' \in 0 .. MaxAcquires, acquires <= acquires',
           NEW failures \in Nat, NEW high \in 0 .. PoolSize,
           blocks' = [blocks EXCEPT !.failures = failures, !.high = high]
    PROVE  PoolInv'
<1>1. /\ blocks' \in [refs : Nat, deleted : BOOLEAN, failures : Nat, high : 0 .. PoolSize, free : Seq(Indices),
                       inUse : SUBSET Indices]
      /\ blocks'.free = blocks.free /\ blocks'.inUse = blocks.inUse /\ blocks'.refs = blocks.refs
      /\ blocks'.deleted = blocks.deleted
  BY DEF PoolInv, PoolShape
<1>2. PoolShape'
  <2>1. Len(buffer') <= acquires'
    BY Facts, PoolNumbers DEF PoolInv, PoolShape
  <2> QED
    BY <1>1, <2>1 DEF PoolInv, PoolShape
<1>3. FreeList' /\ Holding' /\ Ranges'
  BY <1>1 DEF PoolInv, FreeList, Holding, Holds, Ranges
<1>4. Counts'
  <2>1. Undeleted' = Undeleted
    BY DEF Undeleted
  <2> QED
    BY <1>1, <2>1 DEF PoolInv, Counts
<1> QED
  BY <1>2, <1>3, <1>4 DEF PoolInv

\* What taking the top of the free list leaves.
LEMMA TakeBlock ==
    ASSUME PoolInv, blocks.free # <<>>,
           NEW i, i = blocks.free[Len(blocks.free)], NEW rest, rest = SubSeq(blocks.free, 1, Len(blocks.free) - 1)
    PROVE  /\ Len(blocks.free) \in Nat \ {0} /\ Len(blocks.free) <= PoolSize
           /\ i \in Indices /\ i \notin blocks.inUse
           /\ rest \in Seq(Indices) /\ Len(rest) = Len(blocks.free) - 1 /\ Len(rest) \in 0 .. PoolSize
           /\ \A k \in 1 .. Len(rest) : rest[k] = blocks.free[k]
           /\ Append(rest, i) = blocks.free
<1> DEFINE free == blocks.free
           l == Len(free)
<1>1. free \in Seq(Indices) /\ l \in Nat /\ DOMAIN free = 1 .. l /\ \A k \in 1 .. l : free[k] \in Indices
  BY BlocksFields
<1>2. l # 0
  BY <1>1, EmptySeq
<1>3. i \in Indices
  BY <1>1, <1>2
<1>4. i \notin blocks.inUse
  BY <1>1, <1>2, <1>3 DEF PoolInv, FreeList
<1>5. l + Cardinality(blocks.inUse) = PoolSize /\ Cardinality(blocks.inUse) \in Nat
  BY InUseFinite DEF PoolInv, FreeList
<1>6. l <= PoolSize
  BY <1>1, <1>5, PoolNumbers
<1> HIDE DEF free
<1>7. rest = SubSeq(free, 1, l - 1) /\ i = free[l]
  BY DEF free
<1>8. rest \in Seq(Indices) /\ Len(rest) = l - 1 /\ \A k \in 1 .. (l - 1) : rest[k] = free[k]
  BY <1>1, <1>2, <1>7, SubSeqProperties
<1>9. Append(rest, i) = free
  BY <1>1, <1>2, <1>3, <1>7, <1>8
<1>10. Len(rest) \in 0 .. PoolSize
  BY <1>1, <1>2, <1>6, <1>8, PoolNumbers
<1> QED
  BY <1>1, <1>2, <1>3, <1>4, <1>6, <1>8, <1>9, <1>10 DEF free

\* Acquire() hands a block out: a new buffer with one reference.
LEMMA HandOutPreserves ==
    ASSUME PoolInv, NEW h \in Handles, blocks.free # <<>>, poolOpen, handle[h] = Empty,
           acquires < MaxAcquires, acquires' = acquires + 1, poolOpen' = poolOpen,
           NEW i, i = blocks.free[Len(blocks.free)], NEW rest, rest = SubSeq(blocks.free, 1, Len(blocks.free) - 1),
           NEW high \in 0 .. PoolSize,
           blocks' = [blocks EXCEPT !.free = rest, !.inUse = blocks.inUse \cup {i}, !.high = high, !.refs = blocks.refs + 1],
           buffer' = Append(buffer, [block |-> i, size |-> 0, refs |-> 1, pc |-> "live"]),
           handle' = [handle EXCEPT ![h] = [buf |-> Len(buffer) + 1, off |-> 0, size |-> 0]]
    PROVE  PoolInv'
<1> DEFINE top == Len(buffer) + 1
           new == [block |-> i, size |-> 0, refs |-> 1, pc |-> "live"]
           ref == [buf |-> top, off |-> 0, size |-> 0]
<1>1. /\ Len(blocks.free) \in Nat \ {0} /\ Len(blocks.free) <= PoolSize
      /\ i \in Indices /\ i \notin blocks.inUse
      /\ rest \in Seq(Indices) /\ Len(rest) = Len(blocks.free) - 1
      /\ \A k \in 1 .. Len(rest) : rest[k] = blocks.free[k]
  BY TakeBlock
<1>2. /\ Len(buffer) \in Nat /\ top \in Nat \ {0} /\ buffer \in Seq(BufferRecords) /\ DOMAIN buffer = 1 .. Len(buffer)
      /\ \A k \in 1 .. Len(buffer) : buffer[k] \in BufferRecords
  BY Facts
<1>3. new \in BufferRecords /\ new.block = i /\ new.size = 0 /\ new.refs = 1 /\ new.pc = "live"
  BY <1>1, PoolNumbers DEF BufferRecords
<1>4. ref \in RefRecords /\ ref.buf = top /\ ref.off = 0 /\ ref.size = 0
  BY <1>2 DEF RefRecords
<1>a. buffer' = Append(buffer, new) /\ handle' = [handle EXCEPT ![h] = ref]
  OBVIOUS
<1> HIDE DEF new, ref
<1>5. /\ buffer' \in Seq(BufferRecords) /\ Len(buffer') = Len(buffer) + 1 /\ buffer'[Len(buffer) + 1] = new
      /\ \A k \in 1 .. Len(buffer) : buffer'[k] = buffer[k]
  BY <1>2, <1>3, <1>a, AppendProperties
<1>6. DOMAIN buffer' = 1 .. top /\ (\A k \in 1 .. top : k = top \/ k \in 1 .. Len(buffer)) /\ top \notin 1 .. Len(buffer)
  BY <1>2, <1>5, LenProperties
<1>7. /\ blocks' \in [refs : Nat, deleted : BOOLEAN, failures : Nat, high : 0 .. PoolSize, free : Seq(Indices),
                       inUse : SUBSET Indices]
      /\ blocks'.free = rest /\ blocks'.inUse = blocks.inUse \cup {i} /\ blocks'.refs = blocks.refs + 1
      /\ blocks'.deleted = blocks.deleted
  <2>1. blocks.inUse \cup {i} \in SUBSET Indices /\ blocks.refs + 1 \in Nat
    BY <1>1, BlocksFields
  <2> QED
    BY <1>1, <2>1 DEF PoolInv, PoolShape
<1>8. handle' \in [Handles -> RefRecords] /\ \A j \in Handles : handle'[j] = IF j = h THEN ref ELSE handle[j]
  BY <1>4, <1>a, Facts
<1>9. \A j \in Handles : handle[j].buf \in 0 .. Len(buffer)
  BY Facts
<1>10. handle[h].buf = 0
  BY Facts
<1>11. PoolShape'
  <2>1. acquires' \in 0 .. MaxAcquires /\ Len(buffer') <= acquires'
    BY <1>2, <1>5, PoolNumbers DEF PoolInv, PoolShape
  <2> QED
    BY <1>5, <1>7, <1>8, <2>1 DEF PoolInv, PoolShape
<1>12. FreeList'
  <2>0. /\ \A j, k \in 1 .. Len(blocks.free) : blocks.free[j] = blocks.free[k] => j = k
        /\ \A x \in Indices : x \in blocks.inUse <=> \A k \in 1 .. Len(blocks.free) : blocks.free[k] # x
        /\ Len(blocks.free) + Cardinality(blocks.inUse) = PoolSize
    BY BlocksFields DEF PoolInv, FreeList
  <2> DEFINE l == Len(blocks.free)
  <2>1. DOMAIN rest = 1 .. (l - 1) /\ l \in Nat \ {0} /\ (\A k \in 1 .. l : k = l \/ k \in 1 .. (l - 1))
    BY <1>1, LenProperties
  <2>2. (\A k \in 1 .. (l - 1) : rest[k] = blocks.free[k] /\ k \in 1 .. l /\ k # l) /\ l \in 1 .. l /\ blocks.free[l] = i
    BY <1>1, <2>1
  <2> HIDE DEF l
  <2>3. \A j, k \in DOMAIN rest : rest[j] = rest[k] => j = k
    BY <2>0, <2>1, <2>2 DEF l
  <2>4. ASSUME NEW x \in Indices
        PROVE  x \in blocks.inUse \cup {i} <=> \A k \in DOMAIN rest : rest[k] # x
    <3>1. CASE x = i
      <4>1. ASSUME NEW k \in DOMAIN rest PROVE rest[k] # i
        BY <2>0, <2>1, <2>2, <4>1, ZenonT(60) DEF l
      <4> QED
        BY <3>1, <4>1
    <3>2. CASE x # i
      BY <2>0, <2>1, <2>2, <3>2 DEF l
    <3> QED
      BY <3>1, <3>2
  <2>5. Cardinality(blocks.inUse \cup {i}) = Cardinality(blocks.inUse) + 1 /\ Cardinality(blocks.inUse) \in Nat
    BY <1>1, InUseFinite, FS_AddElement DEF PoolInv
  <2>6. Len(rest) + Cardinality(blocks.inUse \cup {i}) = PoolSize
    <3> DEFINE all == blocks.inUse \cup {i}
               was == Cardinality(blocks.inUse)
               left == Len(blocks.free)
    <3>1. Cardinality(all) = was + 1 /\ was \in Nat /\ left + was = PoolSize /\ Len(rest) = left - 1 /\ left \in Nat
      BY <1>1, <2>0, <2>5
    <3> HIDE DEF all, was, left
    <3>2. Len(rest) + Cardinality(all) = PoolSize
      BY <3>1, PoolNumbers
    <3> QED
      BY <3>2 DEF all
  <2> QED
    BY <1>7, <2>3, <2>4, <2>6 DEF FreeList
<1>13. Holding'
  <2>2. /\ \A k \in 1 .. Len(buffer) : buffer[k].pc \in {"live", "return"} => buffer[k].block \in blocks.inUse
        /\ \A j, k \in 1 .. Len(buffer) :
              buffer[j].pc \in {"live", "return"} /\ buffer[k].pc \in {"live", "return"} /\ buffer[j].block = buffer[k].block => j = k
        /\ \A x \in blocks.inUse : \E k \in 1 .. Len(buffer) : buffer[k].pc \in {"live", "return"} /\ buffer[k].block = x
    BY <1>2 DEF PoolInv, Holding, Holds
  <2>a. buffer'[top].block = i /\ buffer'[top].pc = "live"
    BY <1>3, <1>5
  <2> HIDE DEF top
  <2>3. \A k \in DOMAIN buffer' : buffer'[k].pc \in {"live", "return"} => buffer'[k].block \in blocks'.inUse
    BY <1>5, <1>6, <1>7, <2>2, <2>a
  <2>4. \A j, k \in DOMAIN buffer' :
            buffer'[j].pc \in {"live", "return"} /\ buffer'[k].pc \in {"live", "return"} /\ buffer'[j].block = buffer'[k].block => j = k
    <3>1. \A k \in 1 .. Len(buffer) : buffer'[k] = buffer[k] /\ (buffer'[k].pc \in {"live", "return"} => buffer'[k].block # i)
      BY <1>1, <1>5, <2>2
    <3> QED
      BY <1>6, <2>2, <2>a, <3>1
  <2>5. ASSUME NEW x \in blocks'.inUse
        PROVE  \E k \in DOMAIN buffer' : buffer'[k].pc \in {"live", "return"} /\ buffer'[k].block = x
    <3>0. top \in 1 .. top /\ \A k \in 1 .. Len(buffer) : k \in 1 .. top
      BY <1>2 DEF top
    <3>1. CASE x = i
      BY <1>6, <2>a, <3>0, <3>1
    <3>2. CASE x # i
      <4>1. PICK k \in 1 .. Len(buffer) : buffer[k].pc \in {"live", "return"} /\ buffer[k].block = x
        BY <1>7, <2>2, <2>5, <3>2
      <4> QED
        BY <1>5, <1>6, <3>0, <4>1
    <3> QED
      BY <3>1, <3>2
  <2> QED
    BY <2>3, <2>4, <2>5 DEF Holding, Holds
<1>14. Counts'
  <2>1. Repointed(handle, handle', h) /\ handle'[h].buf = top
    BY <1>4, <1>8 DEF Repointed
  <2>2. \A k : CountFollows(handle, handle', h, k)
    BY <2>1, CountMove
  <2>3. ASSUME NEW k \in 1 .. Len(buffer)
        PROVE  buffer'[k].refs = Cardinality(RefsOn(handle', k)) /\ (buffer'[k].pc = "live" <=> buffer'[k].refs # 0)
    <3>1. Cardinality(RefsOn(handle', k)) = buffer[k].refs
      <4>1. k # top /\ k # 0
        BY <1>6
      <4>2. buffer[k].refs = Cardinality(RefsOn(handle, k)) /\ buffer[k].refs \in Nat
        BY Facts
      <4>3. Cardinality(RefsOn(handle', k)) = Cardinality(RefsOn(handle, k)) + (IF handle'[h].buf = k THEN 1 ELSE 0)
                                                                              - (IF handle[h].buf = k THEN 1 ELSE 0)
        BY <2>2 DEF CountFollows
      <4>4. handle'[h].buf # k /\ handle[h].buf # k
        BY <1>10, <2>1, <4>1
      <4> QED
        BY <4>2, <4>3, <4>4
    <3> QED
      BY <1>5, <3>1, Facts
  <2>4. buffer'[top].refs = Cardinality(RefsOn(handle', top)) /\ (buffer'[top].pc = "live" <=> buffer'[top].refs # 0)
    <3>1. RefsOn(handle, top) = {}
      BY <1>2, <1>9 DEF RefsOn
    <3>2. Cardinality(RefsOn(handle, top)) = 0
      BY <3>1, FS_EmptySet
    <3>3. Cardinality(RefsOn(handle', top)) = 1
      <4>1. Cardinality(RefsOn(handle', top)) = Cardinality(RefsOn(handle, top)) + (IF handle'[h].buf = top THEN 1 ELSE 0)
                                                                                - (IF handle[h].buf = top THEN 1 ELSE 0)
        BY <2>2 DEF CountFollows
      <4>2. handle'[h].buf = top /\ handle[h].buf # top
        BY <1>2, <1>10, <2>1
      <4> QED
        BY <3>2, <4>1, <4>2
    <3> QED
      BY <1>3, <1>5, <3>3
  <2>5. Undeleted' = Undeleted \cup {top} /\ top \notin Undeleted
    <3>1. buffer'[top].pc = "live"
      BY <1>3, <1>5
    <3>2. \A k \in 1 .. Len(buffer) : k \in 1 .. top
      BY <1>2
    <3> HIDE DEF top
    <3> QED
      BY <1>2, <1>5, <1>6, <3>1, <3>2 DEF Undeleted
  <2>6. IsFiniteSet(Undeleted) /\ Cardinality(Undeleted) \in Nat
    BY UndeletedFinite, Facts DEF PoolInv
  <2>7. Cardinality(Undeleted') = Cardinality(Undeleted) + 1
    BY <2>5, <2>6, FS_AddElement
  <2>8. blocks.refs = Cardinality(Undeleted) + 1 /\ (blocks.deleted <=> blocks.refs = 0)
    BY DEF PoolInv, Counts
  <2>9. blocks'.refs = Cardinality(Undeleted') + (IF poolOpen' THEN 1 ELSE 0)
    BY <1>7, <2>6, <2>7, <2>8
  <2>10. blocks'.deleted <=> blocks'.refs = 0
    <3>1. blocks.refs # 0 /\ blocks'.refs # 0
      BY <1>7, <2>6, <2>8
    <3> QED
      BY <1>7, <2>8, <3>1
  <2>11. \A k \in DOMAIN buffer' :
            buffer'[k].refs = Cardinality(RefsOn(handle', k)) /\ (buffer'[k].pc = "live" <=> buffer'[k].refs # 0)
    BY <1>6, <2>3, <2>4
  <2> QED
    BY <2>9, <2>10, <2>11 DEF Counts
<1>15. Ranges'
  <2> SUFFICES ASSUME NEW j \in Handles
               PROVE  /\ handle'[j].buf \in 0 .. Len(buffer')
                      /\ handle'[j].buf # 0 => handle'[j].off + handle'[j].size <= buffer'[handle'[j].buf].size
    BY DEF Ranges
  <2>1. CASE j = h
    <3>1. handle'[j].buf = top /\ handle'[j].off = 0 /\ handle'[j].size = 0 /\ buffer'[top].size = 0
      BY <1>3, <1>4, <1>5, <1>8, <2>1
    <3> QED
      BY <1>2, <1>5, <3>1
  <2>2. CASE j # h
    <3>1. handle'[j] = handle[j] /\ handle[j].buf \in 0 .. Len(buffer)
      BY <1>8, <1>9, <2>2
    <3>2. handle[j].buf # 0 => handle[j].buf \in 1 .. Len(buffer) /\ handle[j].off + handle[j].size <= buffer[handle[j].buf].size
      BY <1>2, <3>1 DEF PoolInv, Ranges
    <3>3. handle[j].buf \in 0 .. Len(buffer')
      BY <1>2, <1>5, <3>1
    <3> QED
      BY <1>5, <3>1, <3>2, <3>3
  <2> QED
    BY <2>1, <2>2
<1> QED
  BY <1>11, <1>12, <1>13, <1>14, <1>15 DEF PoolInv

\* Acquire takes a block from the free list, or fails.
LEMMA AcquirePreserves == ASSUME PoolInv, NEW h \in Handles, Acquire(h) PROVE PoolInv'
<1>0. /\ poolOpen /\ handle[h] = Empty /\ acquires < MaxAcquires /\ acquires' = acquires + 1 /\ poolOpen' = poolOpen
      /\ acquires' \in 0 .. MaxAcquires /\ acquires <= acquires'
  BY PoolNumbers DEF Acquire, PoolInv, PoolShape
<1>1. CASE blocks.free = <<>>
  <2>1. blocks' = [blocks EXCEPT !.failures = @ + 1] /\ UNCHANGED <<buffer, handle>>
    BY <1>1 DEF Acquire
  <2>2. blocks.failures + 1 \in Nat /\ blocks.high \in 0 .. PoolSize
    BY BlocksFields
  <2>3. blocks' = [blocks EXCEPT !.failures = blocks.failures + 1, !.high = blocks.high]
    BY <2>1 DEF PoolInv, PoolShape
  <2> QED
    BY <1>0, <2>1, <2>2, <2>3, StatisticsPreserve
<1>2. CASE blocks.free # <<>>
  <2> DEFINE i == blocks.free[Len(blocks.free)]
             rest == SubSeq(blocks.free, 1, Len(blocks.free) - 1)
             used == [blocks EXCEPT !.free = rest, !.inUse = blocks.inUse \cup {i}]
             high == IF PoolSize - Len(used.free) > used.high THEN PoolSize - Len(used.free) ELSE used.high
             now == [used EXCEPT !.high = high]
  <2>1. PICK ok \in {"yes", "no_ref", "no_buffer"} :
            IF ok = "yes"
            THEN /\ blocks' = [now EXCEPT !.refs = @ + 1]
                 /\ buffer' = Append(buffer, [block |-> i, size |-> 0, refs |-> 1, pc |-> "live"])
                 /\ handle' = [handle EXCEPT ![h] = [buf |-> Len(buffer) + 1, off |-> 0, size |-> 0]]
            ELSE /\ blocks' = [ReleaseBlockIndex(now, i) EXCEPT !.failures = @ + 1]
                 /\ UNCHANGED <<buffer, handle>>
    BY <1>2 DEF Acquire
  <2>2. /\ Len(rest) \in 0 .. PoolSize /\ Append(rest, i) = blocks.free /\ i \notin blocks.inUse
    BY <1>2, TakeBlock
  <2>a. i = blocks.free[Len(blocks.free)] /\ rest = SubSeq(blocks.free, 1, Len(blocks.free) - 1)
    OBVIOUS
  <2> HIDE DEF i, rest
  <2>3. used.free = rest /\ used.high = blocks.high
    BY DEF PoolInv, PoolShape
  <2>4. high \in 0 .. PoolSize
    <3> HIDE DEF used
    <3> QED
      BY <2>2, <2>3, BlocksFields, PoolNumbers
  <2> HIDE DEF high
  <2>5. CASE ok = "yes"
    <3>1. blocks' = [blocks EXCEPT !.free = rest, !.inUse = blocks.inUse \cup {i}, !.high = high, !.refs = blocks.refs + 1]
      <4>1. now.refs = blocks.refs
        BY DEF PoolInv, PoolShape
      <4> QED
        BY <2>1, <2>5, <4>1
    <3> QED
      BY <1>0, <1>2, <2>1, <2>4, <2>5, <2>a, <3>1, HandOutPreserves
  <2>6. CASE ok # "yes"
    <3>1. blocks' = [ReleaseBlockIndex(now, i) EXCEPT !.failures = @ + 1] /\ UNCHANGED <<buffer, handle>>
      BY <2>1, <2>6
    <3>2. (blocks.inUse \cup {i}) \ {i} = blocks.inUse
      BY <2>2
    <3>3. now.inUse = blocks.inUse \cup {i} /\ now.free = rest /\ now.failures = blocks.failures
      BY DEF PoolInv, PoolShape
    <3>4. ReleaseBlockIndex(now, i) = [now EXCEPT !.inUse = blocks.inUse, !.free = blocks.free]
      BY <2>2, <3>2, <3>3 DEF ReleaseBlockIndex
    <3>5. [now EXCEPT !.inUse = blocks.inUse, !.free = blocks.free] = [blocks EXCEPT !.high = high]
      BY DEF PoolInv, PoolShape
    <3>6. blocks' = [blocks EXCEPT !.failures = blocks.failures + 1, !.high = high]
      <4>1. blocks' = [[blocks EXCEPT !.high = high] EXCEPT !.failures = @ + 1]
        BY <3>1, <3>4, <3>5
      <4> QED
        BY <4>1 DEF PoolInv, PoolShape
    <3>7. blocks.failures + 1 \in Nat
      BY BlocksFields
    <3> QED
      BY <1>0, <2>4, <3>1, <3>6, <3>7, StatisticsPreserve
  <2> QED
    BY <2>5, <2>6
<1> QED
  BY <1>1, <1>2

-----------------------------------------------------------------------------
(* The theorem *)

\* A new pool satisfies the invariant.
LEMMA PoolInitEstablishes == PoolInit => PoolInv
<1> SUFFICES ASSUME PoolInit PROVE PoolInv
  OBVIOUS
<1> DEFINE stack == [k \in 1 .. PoolSize |-> PoolSize - k]
<1>1. blocks = [refs |-> 1, deleted |-> FALSE, failures |-> 0, high |-> 0, free |-> stack, inUse |-> {}]
      /\ poolOpen = TRUE /\ buffer = <<>> /\ handle = [h \in Handles |-> Empty] /\ acquires = 0
  BY DEF PoolInit
<1>2. \A k \in 1 .. PoolSize : stack[k] = PoolSize - k /\ PoolSize - k \in Indices
  BY PoolNumbers DEF Indices
<1>3. stack \in Seq(Indices) /\ Len(stack) = PoolSize /\ DOMAIN stack = 1 .. PoolSize
  <2>1. stack \in [1 .. PoolSize -> Indices]
    BY <1>2
  <2>2. stack \in Seq(Indices)
    BY <2>1, PoolNumbers, SeqDef
  <2> QED
    BY <2>2, PoolNumbers
<1>4. \A x \in Indices : \E k \in 1 .. PoolSize : stack[k] = x
  <2> SUFFICES ASSUME NEW x \in Indices PROVE \E k \in 1 .. PoolSize : stack[k] = x
    OBVIOUS
  <2>1. PoolSize - x \in 1 .. PoolSize /\ PoolSize - (PoolSize - x) = x
    BY PoolNumbers DEF Indices
  <2> QED
    BY <1>2, <2>1
<1>5. \A j, k \in 1 .. PoolSize : stack[j] = stack[k] => j = k
  BY <1>2, PoolNumbers
<1> HIDE DEF stack
<1>6. blocks.refs = 1 /\ blocks.deleted = FALSE /\ blocks.free = stack /\ blocks.inUse = {}
  BY <1>1
<1>7. PoolShape
  <2>1. Empty \in RefRecords
    BY DEF Empty, RefRecords
  <2>2. handle \in [Handles -> RefRecords]
    BY <1>1, <2>1
  <2>3. buffer \in Seq(BufferRecords) /\ Len(buffer) <= acquires /\ acquires \in 0 .. MaxAcquires
    BY <1>1, PoolNumbers
  <2>4. blocks \in [refs : Nat, deleted : BOOLEAN, failures : Nat, high : 0 .. PoolSize, free : Seq(Indices),
                    inUse : SUBSET Indices]
    BY <1>1, <1>3, PoolNumbers
  <2> QED
    BY <1>1, <2>2, <2>3, <2>4 DEF PoolShape
<1>8. FreeList
  <2>1. Cardinality(blocks.inUse) = 0
    BY <1>6, FS_EmptySet
  <2> QED
    BY <1>3, <1>4, <1>5, <1>6, <2>1, PoolNumbers DEF FreeList
<1>9. Holding
  BY <1>1, <1>6 DEF Holding
<1>10. Counts
  <2>1. Undeleted = {}
    BY <1>1 DEF Undeleted
  <2>2. Cardinality(Undeleted) = 0
    BY <2>1, FS_EmptySet
  <2> QED
    BY <1>1, <1>6, <2>2 DEF Counts
<1>11. Ranges
  BY <1>1 DEF Ranges, Empty
<1> QED
  BY <1>7, <1>8, <1>9, <1>10, <1>11 DEF PoolInv

\* Every step of the pool keeps it.
LEMMA PoolStepPreserves == PoolInv /\ [PoolNext]_poolVars => PoolInv'
<1> SUFFICES ASSUME PoolInv, [PoolNext]_poolVars PROVE PoolInv'
  OBVIOUS
<1>1. CASE UNCHANGED poolVars
  BY <1>1 DEF poolVars, PoolInv, PoolShape, FreeList, Holding, Holds, Counts, Undeleted, Ranges
<1>2. ASSUME NEW n \in DOMAIN buffer, BufferStep(n) PROVE PoolInv'
  BY <1>2, GiveBackPreserves, ReleaseBlocksPreserves DEF BufferStep
<1> QED
  BY <1>1, <1>2, AcquirePreserves, ResetPreserves, SetSizePreserves, CopyPreserves, MovePreserves, SlicePreserves,
     DestroyPreserves DEF PoolNext

\* For any references, any number and size of blocks: every block has exactly
\* one owner, no reference outlives the memory it points into and nothing leaks,
\* whenever the pool is destroyed and threads return blocks.
THEOREM BlocksAccountedHolds == PoolSpec => []BlocksAccounted
<1>1. PoolInv => BlocksAccounted
  <2> SUFFICES ASSUME PoolInv PROVE BlocksAccounted
    OBVIOUS
  <2>0. IsFiniteSet(Undeleted) /\ Cardinality(Undeleted) \in 0 .. Len(buffer)
    BY UndeletedFinite DEF PoolInv
  <2>1. PoolTypeOK
    <3>1. blocks.refs \in 0 .. PoolSize + 1 + MaxAcquires
      <4>1. /\ Cardinality(Undeleted) \in Nat /\ Cardinality(Undeleted) <= MaxAcquires
        BY <2>0, Facts, PoolNumbers DEF PoolInv, PoolShape
      <4>2. blocks.refs = Cardinality(Undeleted) + (IF poolOpen THEN 1 ELSE 0)
        BY DEF PoolInv, Counts
      <4> QED
        BY <4>1, <4>2, PoolNumbers
    <3>2. FreeBlocks(blocks) \subseteq Indices
      BY BlocksFields DEF FreeBlocks
    <3> QED
      BY <3>1, <3>2, BlocksFields, Facts DEF PoolTypeOK, PoolInv, PoolShape
  <2>2. BlockOnce
    <3> DEFINE holders(i) == {n \in DOMAIN buffer : buffer[n].block = i /\ buffer[n].pc \in {"live", "return"}}
    <3>1. ASSUME NEW i \in Indices
          PROVE  Cardinality(holders(i)) = (IF i \in blocks.inUse THEN 1 ELSE 0)
      <4>1. CASE i \in blocks.inUse
        <5>1. PICK n \in DOMAIN buffer : Holds(n) /\ buffer[n].block = i
          BY <4>1 DEF PoolInv, Holding
        <5>2. holders(i) = {n}
          BY <5>1 DEF PoolInv, Holding, Holds
        <5> QED
          BY <4>1, <5>2, FS_Singleton
      <4>2. CASE i \notin blocks.inUse
        <5>1. holders(i) = {}
          BY <4>2 DEF PoolInv, Holding, Holds
        <5> QED
          BY <4>2, <5>1, FS_EmptySet
      <4> QED
        BY <4>1, <4>2
    <3>2. ASSUME NEW i \in Indices PROVE (i \in blocks.inUse) # (i \in FreeBlocks(blocks))
      BY DEF PoolInv, FreeList, FreeBlocks
    <3> HIDE DEF holders
    <3> QED
      BY <3>1, <3>2 DEF BlockOnce, PoolInv, FreeList, holders
  <2>3. \A n \in DOMAIN buffer : buffer[n].pc # "deleted" => ~blocks.deleted
    <3> SUFFICES ASSUME NEW n \in DOMAIN buffer, buffer[n].pc # "deleted" PROVE ~blocks.deleted
      OBVIOUS
    <3>1. n \in Undeleted
      BY DEF Undeleted
    <3>2. Cardinality(Undeleted) # 0 /\ Cardinality(Undeleted) \in Nat
      BY <2>0, <3>1, FS_EmptySet, Facts
    <3>3. blocks.refs = Cardinality(Undeleted) + (IF poolOpen THEN 1 ELSE 0) /\ (blocks.deleted <=> blocks.refs = 0)
      BY DEF PoolInv, Counts
    <3> QED
      BY <3>2, <3>3
  <2>4. RefsPointIntoLiveMemory
    <3> SUFFICES ASSUME NEW h \in Handles, handle[h].buf # 0
                 PROVE  /\ buffer[handle[h].buf].pc = "live" /\ ~blocks.deleted
                        /\ handle[h].off + handle[h].size <= buffer[handle[h].buf].size
                        /\ buffer[handle[h].buf].size <= BlockBytes
      BY DEF RefsPointIntoLiveMemory
    <3>1. handle[h].buf \in DOMAIN buffer /\ buffer[handle[h].buf].pc = "live"
      BY ReferredIsLive
    <3>2. buffer[handle[h].buf] \in BufferRecords
      BY <3>1, Facts
    <3>3. buffer[handle[h].buf].size <= BlockBytes
      BY <3>2, PoolNumbers DEF BufferRecords
    <3> QED
      BY <2>3, <3>1, <3>3 DEF PoolInv, Ranges
  <2>5. PoolFreed
    <3>1. ASSUME ~poolOpen, \A n \in DOMAIN buffer : buffer[n].pc = "deleted" PROVE blocks.deleted
      <4>1. Undeleted = {}
        BY <3>1 DEF Undeleted
      <4>2. Cardinality(Undeleted) = 0
        BY <4>1, FS_EmptySet
      <4>3. blocks.refs = 0
        BY <3>1, <4>2 DEF PoolInv, Counts
      <4> QED
        BY <4>3 DEF PoolInv, Counts
    <3>2. ASSUME NEW n \in DOMAIN buffer PROVE buffer[n].pc = "live" <=> \E h \in Handles : handle[h].buf = n
      <4>1. buffer[n].pc = "live" <=> Cardinality(RefsOn(handle, n)) # 0
        BY DEF PoolInv, Counts
      <4>2. Cardinality(RefsOn(handle, n)) # 0 <=> RefsOn(handle, n) # {}
        BY RefsFinite, FS_EmptySet
      <4> QED
        BY <4>1, <4>2 DEF RefsOn
    <3> QED
      BY <3>1, <3>2 DEF PoolFreed
  <2> QED
    BY <2>1, <2>2, <2>3, <2>4, <2>5 DEF BlocksAccounted, BlocksOutlive
<1> QED
  BY <1>1, PoolInitEstablishes, PoolStepPreserves, PTL DEF PoolSpec

-----------------------------------------------------------------------------
(* The clients of the tracks: TrackClientsServed *)

\* What the records of the model hold.
Params == ParamSets \cup {NoParams}
CodecNames == {"h264", "h265", "mjpeg"}
Reasons == {"stream_stopped", "stream_started", "codec_changed", "timestamp_reset"}

TagRecords == [key : BOOLEAN, size : Nat, cfg : Params]
GopRecords == [tags : Seq(TagRecords), bytes : Nat, complete : BOOLEAN]
TrackRecords ==
    [state : {"closed", "opening", "running", "error"}, codec : CodecNames, hdr : Params,
     params : Params, config : Nat, codecGen : Nat, gop : GopRecords, mjpeg : BOOLEAN,
     stamped : BOOLEAN, reason : Reasons]
ClientRecords ==
    [stream : Tracks, config : Nat, wait : BOOLEAN, detached : BOOLEAN, pending : Nat,
     hdr : Params, cfg : Params, genHdr : Nat, genTag : Nat]
JoinRecords == [stream : Tracks, config : Nat, hdr : Params, epoch : Nat, wait : BOOLEAN]
FrameRecords ==
    [codec : CodecNames, key : BOOLEAN, params : Params, cfg : Params, jump : BOOLEAN, size : Nat]
PushRecords ==
    [pc : {"idle", "accepted", "packaged", "writing"}, frame : FrameRecords, config : Nat,
     hdr : Params, epoch : Nat, writes : SUBSET Nat, headers : SUBSET Nat, failed : SUBSET Nat]

\* A client table, whatever its ids.
IsTable(tbl) == DOMAIN tbl \subseteq Nat /\ tbl \in [DOMAIN tbl -> ClientRecords]

\* The shape of the state.
MediaShape ==
    /\ mphase \in {"stopped", "running"}
    /\ track \in [Tracks -> TrackRecords]
    /\ epoch \in [Tracks -> Nat]
    /\ enc \in [Tracks -> Params]
    /\ clients \in [Kinds -> {clients["flv"], clients["mjpeg"]}]
    /\ IsTable(clients["flv"]) /\ IsTable(clients["mjpeg"])
    /\ nextClient \in [Kinds -> Nat \ {0}]
    /\ joining \in SUBSET JoinRecords
    /\ push \in [Tracks -> PushRecords]

\* The GOP cache fits its header.
GopFits(gop, hdr) ==
    /\ gop.bytes = GopBytes(gop.tags) /\ gop.bytes <= MaxFlvCachedBytes
    /\ gop.tags # <<>> => gop.complete /\ gop.tags[1].key
    /\ \A n \in 1..Len(gop.tags) : gop.tags[n].cfg = hdr /\ (n > 1 => ~gop.tags[n].key)

\* A header belongs to a running H.264 stream and counts as a configuration.
TrackFits(t) ==
    /\ GopFits(t.gop, t.hdr)
    /\ t.hdr # NoParams => t.codec = "h264" /\ t.state = "running"
    /\ t.hdr = NoParams => t.config = 0
    /\ t.config <= MaxConfigs

TracksFit(tr, ph) ==
    \A s \in Tracks : TrackFits(tr[s]) /\ (ph = "stopped" => tr[s].hdr = NoParams)

\* The frame of a call was encoded with what its header says.
FrameFits(p, t, en) ==
    /\ p.pc = "accepted" /\ p.frame.codec # "mjpeg" =>
          /\ p.frame.cfg = en
          /\ p.frame.params # NoParams => p.frame.params = en
          /\ t.config < MaxConfigs
    /\ t.hdr # NoParams /\ ~(p.pc = "accepted" /\ p.frame.params # NoParams) => t.hdr = en

\* A call that carries what it found in the track to the FLV clients.
Carries(p) == p.pc \in {"packaged", "writing"} /\ p.frame.codec # "mjpeg"

\* What it carries is the track's as long as the track has not been reset.
PacketFits(p, t, e) ==
    Carries(p) =>
          /\ p.epoch <= e
          /\ p.epoch = e => p.config = t.config /\ p.hdr = t.hdr
          /\ p.frame.codec = "h264" /\ p.hdr # NoParams => p.frame.cfg = p.hdr

\* A call leases and drops clients while it writes, and FLV clients for H.264 only.
WritesFit(p, next) ==
    /\ p.pc # "writing" => p.writes = {} /\ p.failed = {}
    /\ p.writes \cap p.failed = {}
    /\ p.failed \subseteq 1..next[KindOf(p)] - 1
    /\ p.writes # {} /\ p.frame.codec # "mjpeg" => p.frame.codec = "h264" /\ p.hdr # NoParams

PushesFit(pu, tr, ep, en, next) ==
    \A s \in Tracks :
       FrameFits(pu[s], tr[s], en[s]) /\ PacketFits(pu[s], tr[s], ep[s]) /\ WritesFit(pu[s], next)

\* A call leases the sinks of clients of its own stream only.
LeasedBy(pu, k, i, s) == KindOf(pu[s]) = k /\ i \in pu[s].writes

Leased(tbls, pu) ==
    /\ \A s \in Tracks : \A i \in pu[s].writes :
          /\ i \in DOMAIN tbls[KindOf(pu[s])]
          /\ tbls[KindOf(pu[s])][i].stream = s
    /\ \A k \in Kinds : \A i \in DOMAIN tbls[k] :
          /\ tbls[k][i].pending = IF LeasedBy(pu, k, i, tbls[k][i].stream) THEN 1 ELSE 0
          /\ tbls[k][i].detached => tbls[k][i].pending > 0

\* Ids are never given twice.
NumbersTaken(tbls, next) == \A k \in Kinds : DOMAIN tbls[k] \subseteq 1..next[k] - 1

\* Who was given header h as number n in epoch e, knows the header of number m in
\* epoch f when the numbers are the same.
Knows(e, n, h, f, m, g) == e = f => n <= m /\ (n = m => h = g)

KnowsStream(e, n, h, p, t, ep) ==
    /\ Knows(e, n, h, ep, t.config, t.hdr)
    /\ Carries(p) =>
          Knows(e, n, h, p.epoch, p.config, p.hdr)

\* The header of client i is on its way or will never come.
Owed(i, p) == KindOf(p) = "flv" /\ (i \in p.failed \/ (i \in p.writes /\ i \in p.headers))

\* An FLV client has the header of its number, or is owed it, and is detached when
\* its stream runs another codec.
FlvFits(i, c, p, t, e) ==
    /\ c.genHdr <= e
    /\ c.genTag = c.genHdr => c.cfg = c.hdr
    /\ Owed(i, p) \/ KnowsStream(c.genHdr, c.config, c.hdr, p, t, e)
    /\ KindOf(p) = "flv" /\ i \in p.writes => c.config = p.config
    /\ t.state = "running" /\ t.codec # "h264" => c.detached

FlvsFit(tbl, pu, tr, ep) ==
    \A i \in DOMAIN tbl :
       FlvFits(i, tbl[i], pu[tbl[i].stream], tr[tbl[i].stream], ep[tbl[i].stream])

\* A request that is about to attach has the header of its number.
JoinersFit(jo, pu, tr, ep) ==
    \A j \in jo :
       /\ j.hdr # NoParams /\ j.epoch <= ep[j.stream]
       /\ KnowsStream(j.epoch, j.config, j.hdr, pu[j.stream], tr[j.stream], ep[j.stream])

\* The inductive invariant.
TracksInv ==
    /\ MediaShape
    /\ TracksFit(track, mphase)
    /\ PushesFit(push, track, epoch, enc, nextClient)
    /\ Leased(clients, push) /\ NumbersTaken(clients, nextClient)
    /\ FlvsFit(clients["flv"], push, track, epoch)
    /\ JoinersFit(joining, push, track, epoch)

-----------------------------------------------------------------------------
(* Tracks *)

\* The limits are numbers.
LEMMA MediaNumbers ==
    /\ MaxFlvCachedTags \in Nat /\ MaxFlvCachedBytes \in Nat /\ MaxConfigs \in Nat
    /\ NoParams \notin ParamSets /\ TagSizes \subseteq Nat
  BY MediaConstants

TagSizesOf(tags) == [n \in 1..Len(tags) |-> tags[n].size]

\* An empty cache suits every header.
LEMMA EmptyGopFits ==
    /\ EmptyGop \in GopRecords
    /\ [EmptyGop EXCEPT !.complete = TRUE] \in GopRecords
    /\ \A h \in Params : GopFits(EmptyGop, h) /\ GopFits([EmptyGop EXCEPT !.complete = TRUE], h)
<1>1. GopBytes(<<>>) = 0
  <2>1. [n \in 1..Len(<<>>) |-> <<>>[n].size] = <<>>
    OBVIOUS
  <2> QED BY <2>1, TotalType DEF GopBytes
<1>2. <<>> \in Seq(TagRecords) /\ Len(<<>>) = 0
  OBVIOUS
<1>3. 0 <= MaxFlvCachedBytes
  BY MediaNumbers
<1>4. /\ EmptyGop \in GopRecords
      /\ [EmptyGop EXCEPT !.complete = TRUE] \in GopRecords
  BY <1>2 DEF EmptyGop, GopRecords
<1>5. ASSUME NEW g \in {EmptyGop, [EmptyGop EXCEPT !.complete = TRUE]}, NEW h \in Params
      PROVE  GopFits(g, h)
  <2>1. g.tags = <<>> /\ g.bytes = 0
    BY DEF EmptyGop
  <2> QED BY <1>1, <1>2, <1>3, <2>1 DEF GopFits
<1> QED BY <1>4, <1>5

\* Sizes are numbers.
LEMMA TagSizesType ==
    ASSUME NEW tags \in Seq(TagRecords)
    PROVE  TagSizesOf(tags) \in Seq(Nat) /\ Len(TagSizesOf(tags)) = Len(tags)
<1>1. ASSUME NEW i \in 1..Len(tags) PROVE tags[i].size \in Nat
  <2>1. tags[i] \in TagRecords
    OBVIOUS
  <2> QED BY <2>1, Zenon DEF TagRecords
<1> QED BY <1>1 DEF TagSizesOf

\* One tag more adds its size.
LEMMA GopBytesAppend ==
    ASSUME NEW tags \in Seq(TagRecords), NEW tag \in TagRecords
    PROVE  GopBytes(Append(tags, tag)) = GopBytes(tags) + tag.size
<1>1. /\ GopBytes(tags) = Total(TagSizesOf(tags))
      /\ GopBytes(Append(tags, tag)) = Total(TagSizesOf(Append(tags, tag)))
  BY DEF GopBytes, TagSizesOf
<1>2. TagSizesOf(tags) \in Seq(Nat) /\ Len(TagSizesOf(tags)) = Len(tags) /\ tag.size \in Nat
  <2>1. tag.size \in Nat
    BY Zenon DEF TagRecords
  <2> QED BY <2>1, TagSizesType
<1>3. TagSizesOf(Append(tags, tag)) = Append(TagSizesOf(tags), tag.size)
  <2> DEFINE a == TagSizesOf(Append(tags, tag))
             b == Append(TagSizesOf(tags), tag.size)
  <2>1. Append(tags, tag) \in Seq(TagRecords) /\ Len(Append(tags, tag)) = Len(tags) + 1
        /\ Len(tags) \in Nat
    OBVIOUS
  <2>2. a \in Seq(Nat) /\ b \in Seq(Nat) /\ Len(a) = Len(tags) + 1 /\ Len(b) = Len(tags) + 1
    <3>1. a \in Seq(Nat) /\ Len(a) = Len(Append(tags, tag))
      BY <2>1, TagSizesType
    <3>2. b \in Seq(Nat) /\ Len(b) = Len(TagSizesOf(tags)) + 1
      BY <1>2
    <3> QED BY <1>2, <2>1, <3>1, <3>2
  <2>3. ASSUME NEW n \in 1..Len(tags) + 1 PROVE a[n] = b[n]
    <3>1. a[n] = Append(tags, tag)[n].size
      BY <2>1 DEF TagSizesOf
    <3>2. CASE n = Len(tags) + 1
      BY <1>2, <2>1, <3>1, <3>2
    <3>3. CASE n # Len(tags) + 1
      <4>1. n \in 1..Len(tags) /\ Append(tags, tag)[n] = tags[n]
        BY <2>1, <3>3
      <4>2. b[n] = TagSizesOf(tags)[n]
        BY <1>2, <2>1, <4>1
      <4>3. TagSizesOf(tags)[n] = tags[n].size
        BY <4>1 DEF TagSizesOf
      <4> QED BY <3>1, <4>1, <4>2, <4>3
    <3> QED BY <3>2, <3>3
  <2> HIDE DEF a, b
  <2>4. a = b
    BY <2>2, <2>3
  <2> QED BY <2>4 DEF a, b
<1> QED BY <1>1, <1>2, <1>3, TotalAppend

\* A tag encoded with the header keeps the cache playable.
LEMMA AppendTagFits ==
    ASSUME NEW gop \in GopRecords, NEW hdr \in Params, GopFits(gop, hdr),
           NEW tag \in TagRecords, tag.cfg = hdr
    PROVE  AppendFlvTag(gop, tag) \in GopRecords /\ GopFits(AppendFlvTag(gop, tag), hdr)
<1> DEFINE base == IF tag.key THEN [EmptyGop EXCEPT !.complete = TRUE] ELSE gop
           more == [base EXCEPT !.tags = Append(@, tag), !.bytes = @ + tag.size]
<1>1. base \in GopRecords /\ GopFits(base, hdr)
  BY EmptyGopFits
<1>2. tag.key => base.tags = <<>> /\ base.complete
  BY DEF EmptyGop
<1> HIDE DEF base
<1>3. CASE base.tags = <<>> /\ ~tag.key
  <2>1. AppendFlvTag(gop, tag) = base
    BY <1>3 DEF AppendFlvTag, base
  <2> QED BY <1>1, <2>1
<1>4. CASE /\ ~(base.tags = <<>> /\ ~tag.key)
           /\ Len(base.tags) < MaxFlvCachedTags
           /\ tag.size <= MaxFlvCachedBytes
           /\ base.bytes <= MaxFlvCachedBytes - tag.size
  <2>1. AppendFlvTag(gop, tag) = more
    BY <1>4 DEF AppendFlvTag, base
  <2>2. /\ base.tags \in Seq(TagRecords) /\ base.bytes \in Nat /\ base.complete \in BOOLEAN
        /\ tag.size \in Nat /\ tag.key \in BOOLEAN
    BY <1>1 DEF GopRecords, TagRecords
  <2>3. /\ more.tags = Append(base.tags, tag) /\ more.bytes = base.bytes + tag.size
        /\ more.complete = base.complete
        /\ more \in GopRecords
    <3> DEFINE all == Append(base.tags, tag)
               sum == base.bytes + tag.size
    <3>1. all \in Seq(TagRecords) /\ sum \in Nat
      BY <2>2
    <3>2. more = [base EXCEPT !.tags = all, !.bytes = sum]
      OBVIOUS
    <3> HIDE DEF all, sum, more
    <3>3. more \in GopRecords /\ more.tags = all /\ more.bytes = sum /\ more.complete = base.complete
      BY <1>1, <3>1, <3>2 DEF GopRecords
    <3> QED BY <3>3 DEF all, sum
  <2>4. more.bytes = GopBytes(more.tags)
    BY <1>1, <2>2, <2>3, GopBytesAppend DEF GopFits
  <2>5. more.bytes <= MaxFlvCachedBytes
    BY <1>4, <2>2, <2>3, MediaNumbers
  <2>6. CASE tag.key
    <3>1. base.tags = <<>> /\ base.complete
      BY <1>2, <2>6
    <3>2. Len(more.tags) = 1 /\ more.tags[1] = tag
      BY <2>2, <2>3, <3>1
    <3> QED BY <2>1, <2>3, <2>4, <2>5, <2>6, <3>1, <3>2 DEF GopFits
  <2>7. CASE ~tag.key
    <3>1. base.tags # <<>> /\ base.complete /\ base.tags[1].key
      BY <1>1, <1>4, <2>7 DEF GopFits
    <3>2. more.tags[1] = base.tags[1] /\ Len(more.tags) = Len(base.tags) + 1
      BY <2>2, <2>3, <3>1
    <3>3. ASSUME NEW n \in 1..Len(more.tags)
          PROVE  more.tags[n].cfg = hdr /\ (n > 1 => ~more.tags[n].key)
      <4>1. n \in 1..Len(base.tags) \/ n = Len(base.tags) + 1
        BY <2>2, <3>2
      <4>2. CASE n \in 1..Len(base.tags)
        <5>1. more.tags[n] = base.tags[n]
          BY <2>2, <2>3, <4>2
        <5> QED BY <1>1, <4>2, <5>1 DEF GopFits
      <4>3. CASE n = Len(base.tags) + 1
        <5>1. more.tags[n] = tag
          BY <2>2, <2>3, <4>3
        <5> QED BY <2>7, <5>1
      <4> QED BY <4>1, <4>2, <4>3
    <3> HIDE DEF more
    <3> QED BY <2>1, <2>3, <2>4, <2>5, <3>1, <3>2, <3>3 DEF GopFits
  <2> QED BY <2>2, <2>6, <2>7
<1>5. CASE /\ ~(base.tags = <<>> /\ ~tag.key)
           /\ ~(/\ Len(base.tags) < MaxFlvCachedTags
                /\ tag.size <= MaxFlvCachedBytes
                /\ base.bytes <= MaxFlvCachedBytes - tag.size)
  <2>1. AppendFlvTag(gop, tag) = EmptyGop
    BY <1>5 DEF AppendFlvTag, base
  <2> QED BY <2>1, EmptyGopFits
<1> QED BY <1>3, <1>4, <1>5

\* What a reset of the caches leaves.
LEMMA ResetFits ==
    ASSUME NEW t \in TrackRecords, NEW codec \in CodecNames,
           NEW why \in Reasons
    PROVE  /\ ResetStreamCaches(t, why) \in TrackRecords
           /\ ResetStream(t, codec, why) \in TrackRecords
           /\ ResetStreamCaches(t, why).codec = t.codec
           /\ ResetStreamCaches(t, why).state = t.state
           /\ ResetStream(t, codec, why).codec = codec
           /\ ~ResetStream(t, codec, why).stamped
           /\ ResetStreamCaches(t, why).hdr = NoParams
           /\ ResetStreamCaches(t, why).config = 0
           /\ ResetStreamCaches(t, why).gop = EmptyGop
           /\ ResetStream(t, codec, why).hdr = NoParams
           /\ ResetStream(t, codec, why).config = 0
           /\ ResetStream(t, codec, why).gop = EmptyGop
<1> DEFINE r == ResetStreamCaches(t, why)
<1>0. /\ EmptyGop \in GopRecords /\ NoParams \in Params
      /\ t.codecGen + 1 \in Nat
  BY EmptyGopFits DEF Params, TrackRecords
<1>1. /\ r \in TrackRecords /\ r.codec = t.codec /\ r.state = t.state
      /\ r.hdr = NoParams /\ r.config = 0 /\ r.gop = EmptyGop
  <2> DEFINE more == t.codecGen + 1
  <2>1. r = [t EXCEPT !.gop = EmptyGop, !.mjpeg = FALSE, !.hdr = NoParams,
              !.params = NoParams, !.config = 0, !.codecGen = more, !.reason = why]
    BY DEF ResetStreamCaches
  <2>2. more \in Nat
    BY <1>0
  <2> HIDE DEF r, more
  <2> QED BY <1>0, <2>1, <2>2 DEF TrackRecords
<1>2. ResetStream(t, codec, why) = [r EXCEPT !.stamped = FALSE, !.codec = codec]
  BY DEF ResetStream
<1> HIDE DEF r
<1>3. /\ ResetStream(t, codec, why) \in TrackRecords
      /\ ResetStream(t, codec, why).codec = codec
      /\ ~ResetStream(t, codec, why).stamped
      /\ ResetStream(t, codec, why).hdr = r.hdr
      /\ ResetStream(t, codec, why).config = r.config
      /\ ResetStream(t, codec, why).gop = r.gop
  BY <1>1, <1>2 DEF TrackRecords
<1> QED BY <1>1, <1>3 DEF r

\* A track without a header or a cache is in order.
LEMMA CleanTrackFits ==
    ASSUME NEW t, t.hdr = NoParams, t.config = 0, t.gop = EmptyGop
    PROVE  TrackFits(t)
<1>1. NoParams \in Params
  BY DEF Params
<1> QED BY <1>1, EmptyGopFits, MediaNumbers DEF TrackFits

\* A stream set running is reset or already runs with the codec.
LEMMA EnsureFits ==
    ASSUME NEW t \in TrackRecords, TrackFits(t), NEW codec \in CodecNames
    PROVE  LET r == EnsureRunning(t, codec) IN
           /\ r \in TrackRecords /\ TrackFits(r)
           /\ r.codec = codec /\ r.state = "running"
           /\ StartReason(t, codec) = "none" => r = t
           /\ StartReason(t, codec) # "none" =>
                 r.hdr = NoParams /\ r.config = 0 /\ r.gop = EmptyGop /\ ~r.stamped
<1>1. CASE StartReason(t, codec) = "none"
  <2>1. EnsureRunning(t, codec) = t
    BY <1>1 DEF EnsureRunning
  <2>2. t.codec = codec /\ t.state = "running"
    BY <1>1 DEF StartReason
  <2> QED BY <1>1, <2>1, <2>2
<1>2. CASE StartReason(t, codec) # "none"
  <2>1. PICK w \in Reasons :
            w = StartReason(t, codec)
    BY <1>2 DEF StartReason, Reasons
  <2>2. PICK x : x = ResetStream(t, codec, w)
    OBVIOUS
  <2>3. /\ x \in TrackRecords /\ x.codec = codec /\ ~x.stamped
        /\ x.hdr = NoParams /\ x.config = 0 /\ x.gop = EmptyGop
    BY <2>2, ResetFits
  <2>4. PICK r : r = [x EXCEPT !.state = "running"]
    OBVIOUS
  <2>5. r = EnsureRunning(t, codec)
    BY <1>2, <2>1, <2>2, <2>4 DEF EnsureRunning
  <2>6. /\ r \in TrackRecords /\ r.codec = codec /\ r.state = "running"
        /\ r.hdr = NoParams /\ r.config = 0 /\ r.gop = EmptyGop /\ ~r.stamped
    BY <2>3, <2>4 DEF TrackRecords
  <2>7. TrackFits(r)
    BY <2>6, CleanTrackFits
  <2> QED BY <1>2, <2>5, <2>6, <2>7
<1> QED BY <1>1, <1>2

\* A frame encoded with the header it brings or finds leaves the track in order.
LEMMA AppendFrameFits ==
    ASSUME NEW t \in TrackRecords, TrackFits(t), NEW f \in FrameRecords,
           t.codec = f.codec, t.state = "running", f.codec # "mjpeg",
           f.params # NoParams => f.params = f.cfg,
           t.hdr # NoParams /\ f.params = NoParams => t.hdr = f.cfg,
           t.config < MaxConfigs
    PROVE  LET r == TrackAppendFrame(t, f) IN
           /\ r \in TrackRecords /\ TrackFits(r)
           /\ r.codec = t.codec /\ r.state = t.state
           /\ (r.config = t.config /\ r.hdr = t.hdr) \/ r.config = t.config + 1
           /\ r.hdr # NoParams => r.hdr = f.cfg
<1> DEFINE renewed == f.codec = "h264" /\ f.params # NoParams
           t1 == IF f.params = NoParams THEN t ELSE [t EXCEPT !.params = f.params]
           t2 == IF renewed
                 THEN [t1 EXCEPT !.hdr = f.params, !.config = @ + 1, !.gop = EmptyGop] ELSE t1
           tag == [key |-> f.key, size |-> f.size, cfg |-> f.cfg]
           r == TrackAppendFrame(t, f)
<1>1. /\ t1 \in TrackRecords
      /\ t1.hdr = t.hdr /\ t1.config = t.config /\ t1.gop = t.gop /\ t1.codec = t.codec /\ t1.state = t.state
  BY DEF TrackRecords, FrameRecords
<1>2. /\ t1.config \in Nat /\ f.params \in Params /\ f.cfg \in Params /\ EmptyGop \in GopRecords
      /\ t1.hdr \in Params /\ t1.gop \in GopRecords /\ MaxConfigs \in Nat
      /\ tag \in TagRecords /\ tag.cfg = f.cfg
  BY <1>1, EmptyGopFits, MediaNumbers DEF TrackRecords, FrameRecords, TagRecords
<1>3. /\ t2 \in TrackRecords /\ t2.codec = t.codec /\ t2.state = t.state
      /\ renewed => t2.hdr = f.params /\ t2.config = t.config + 1 /\ t2.gop = EmptyGop
      /\ ~renewed => t2.hdr = t.hdr /\ t2.config = t.config /\ t2.gop = t.gop
  <2>1. CASE renewed
    <3> DEFINE more == t1.config + 1
    <3>1. t2 = [t1 EXCEPT !.hdr = f.params, !.config = more, !.gop = EmptyGop]
      BY <2>1
    <3>2. more \in Nat /\ more = t.config + 1
      BY <1>1, <1>2
    <3> HIDE DEF t1, t2, more
    <3> QED BY <1>1, <1>2, <2>1, <3>1, <3>2 DEF TrackRecords
  <2>2. CASE ~renewed
    <3> HIDE DEF t1
    <3> QED BY <1>1, <2>2
  <2> QED BY <2>1, <2>2
<1>4. r = IF FlvCodec(f.codec) /\ t2.hdr # NoParams
          THEN [t2 EXCEPT !.gop = AppendFlvTag(@, tag)] ELSE t2
  BY DEF TrackAppendFrame
<1> HIDE DEF t1, t2, tag, r
<1>5. /\ GopFits(t2.gop, t2.hdr)
      /\ t2.hdr # NoParams => t2.hdr = f.cfg /\ t2.codec = "h264" /\ t2.state = "running"
      /\ t2.hdr = NoParams => t2.config = 0
      /\ t2.config <= MaxConfigs /\ t2.hdr \in Params /\ t2.gop \in GopRecords
  <2>1. CASE renewed
    BY <1>2, <1>3, <2>1, EmptyGopFits DEF TrackFits, TrackRecords
  <2>2. CASE ~renewed
    <3>1. t.hdr # NoParams => t.codec = "h264" /\ t.state = "running"
      BY DEF TrackFits
    <3>2. t.hdr # NoParams => f.params = NoParams
      BY <2>2, <3>1
    <3> QED BY <1>2, <1>3, <2>2, <3>1, <3>2 DEF TrackFits, TrackRecords
  <2> QED BY <2>1, <2>2
<1>6. CASE FlvCodec(f.codec) /\ t2.hdr # NoParams
  <2> DEFINE g == AppendFlvTag(t2.gop, tag)
  <2>1. g \in GopRecords /\ GopFits(g, t2.hdr)
    BY <1>2, <1>5, <1>6, AppendTagFits
  <2>2. r = [t2 EXCEPT !.gop = g]
    BY <1>4, <1>6
  <2> HIDE DEF g
  <2>3. /\ r \in TrackRecords /\ r.gop = g /\ r.hdr = t2.hdr /\ r.config = t2.config
        /\ r.codec = t2.codec /\ r.state = t2.state
    BY <1>3, <2>1, <2>2 DEF TrackRecords
  <2>4. TrackFits(r)
    BY <1>5, <2>1, <2>3 DEF TrackFits
  <2> QED BY <1>3, <1>5, <2>3, <2>4 DEF r
<1>7. CASE ~(FlvCodec(f.codec) /\ t2.hdr # NoParams)
  <2>1. r = t2
    BY <1>4, <1>7
  <2>2. TrackFits(t2)
    BY <1>5 DEF TrackFits
  <2> QED BY <1>3, <1>5, <2>1, <2>2 DEF r
<1> QED BY <1>6, <1>7

-----------------------------------------------------------------------------
(* Client tables *)

\* Client d is client c, perhaps marked detached.
SameClient(c, d) ==
    /\ d.stream = c.stream /\ d.config = c.config /\ d.wait = c.wait /\ d.pending = c.pending
    /\ d.hdr = c.hdr /\ d.cfg = c.cfg /\ d.genHdr = c.genHdr /\ d.genTag = c.genTag
    /\ c.detached => d.detached

\* Table b is a after clients were detached.
Thinned(a, b) ==
    /\ IsTable(b) /\ DOMAIN b \subseteq DOMAIN a
    /\ \A i \in DOMAIN b : SameClient(a[i], b[i]) /\ (b[i].detached => b[i].pending > 0)
    /\ \A i \in DOMAIN a : i \notin DOMAIN b => a[i].pending = 0

\* Detaching keeps the entries that are leased and marks them.
LEMMA DetachInThins ==
    ASSUME NEW tbl, IsTable(tbl), NEW gone,
           \A i \in DOMAIN tbl : tbl[i].detached => tbl[i].pending > 0
    PROVE  /\ Thinned(tbl, DetachIn(tbl, gone))
           /\ \A i \in DOMAIN DetachIn(tbl, gone) : i \in gone => DetachIn(tbl, gone)[i].detached
<1> DEFINE Mark(i) == IF i \in gone THEN [tbl[i] EXCEPT !.detached = TRUE] ELSE tbl[i]
           kept == {i \in DOMAIN tbl : Mark(i).pending > 0 \/ ~Mark(i).detached}
           new == DetachIn(tbl, gone)
<1>1. new = [i \in kept |-> Mark(i)]
  <2> DEFINE marked == [i \in DOMAIN tbl |-> Mark(i)]
             old == {i \in DOMAIN tbl : marked[i].pending > 0 \/ ~marked[i].detached}
  <2>1. new = [i \in old |-> marked[i]]
    BY DEF DetachIn
  <2>2. \A i \in DOMAIN tbl : marked[i] = Mark(i)
    OBVIOUS
  <2> HIDE DEF new, marked, Mark
  <2>3. old = kept
    BY <2>2
  <2> HIDE DEF old, kept
  <2>4. \A i \in kept : marked[i] = Mark(i)
    BY <2>2 DEF kept
  <2> QED BY <2>1, <2>3, <2>4
<1>2. ASSUME NEW i \in DOMAIN tbl
      PROVE  /\ Mark(i) \in ClientRecords /\ SameClient(tbl[i], Mark(i))
             /\ i \in gone => Mark(i).detached
             /\ i \notin kept => tbl[i].pending = 0
             /\ i \in kept /\ Mark(i).detached => Mark(i).pending > 0
             /\ i \in Nat
  <2>1. tbl[i] \in ClientRecords /\ i \in Nat
    BY DEF IsTable
  <2>2. tbl[i].pending \in Nat /\ tbl[i].detached \in BOOLEAN
    BY <2>1 DEF ClientRecords
  <2>3. Mark(i) \in ClientRecords /\ SameClient(tbl[i], Mark(i)) /\ (i \in gone => Mark(i).detached)
    BY <2>1 DEF ClientRecords, SameClient
  <2>4. Mark(i).pending = tbl[i].pending
    BY <2>3 DEF SameClient
  <2>5. i \in kept <=> Mark(i).pending > 0 \/ ~Mark(i).detached
    OBVIOUS
  <2> HIDE DEF Mark, kept
  <2> QED BY <2>1, <2>2, <2>3, <2>4, <2>5
<1>3. DOMAIN new = kept /\ kept \subseteq DOMAIN tbl /\ \A i \in kept : new[i] = Mark(i)
  BY <1>1
<1> HIDE DEF new, kept, Mark
<1>4. IsTable(new)
  BY <1>1, <1>2, <1>3 DEF IsTable
<1>5. Thinned(tbl, new)
  BY <1>2, <1>3, <1>4 DEF Thinned
<1> QED BY <1>2, <1>3, <1>5 DEF new

\* A table that is left alone.
LEMMA SameThins ==
    ASSUME NEW tbl, IsTable(tbl),
           \A i \in DOMAIN tbl : tbl[i].detached => tbl[i].pending > 0
    PROVE  Thinned(tbl, tbl)
  BY DEF Thinned, SameClient

\* The end of a lease.
LEMMA ReleaseFits ==
    ASSUME NEW tbl, IsTable(tbl), NEW i \in DOMAIN tbl, tbl[i].pending = 1
    PROVE  LET new == ReleaseWrite(tbl, i) IN
           /\ IsTable(new)
           /\ DOMAIN new \subseteq DOMAIN tbl /\ DOMAIN tbl \ {i} \subseteq DOMAIN new
           /\ \A j \in DOMAIN new : j # i => new[j] = tbl[j]
           /\ i \in DOMAIN new =>
                 /\ SameClient([tbl[i] EXCEPT !.pending = 0], new[i])
                 /\ ~new[i].detached
<1> DEFINE c == [tbl[i] EXCEPT !.pending = 0]
           left == [tbl EXCEPT ![i] = c]
           new == ReleaseWrite(tbl, i)
<1>1. tbl[i] \in ClientRecords /\ c \in ClientRecords /\ c.pending = 0 /\ c.detached = tbl[i].detached
      /\ c.detached \in BOOLEAN
  BY DEF IsTable, ClientRecords
<1>2. [tbl EXCEPT ![i].pending = IF @ > 0 THEN @ - 1 ELSE 0] = left
  OBVIOUS
<1> HIDE DEF c
<1>3. /\ DOMAIN left = DOMAIN tbl /\ left[i] = c /\ left \in [DOMAIN tbl -> ClientRecords]
      /\ \A j \in DOMAIN tbl : j # i => left[j] = tbl[j]
  BY <1>1 DEF IsTable
<1>4. new = IF c.detached THEN [j \in DOMAIN tbl \ {i} |-> left[j]] ELSE left
  BY <1>1, <1>2, <1>3 DEF ReleaseWrite
<1> HIDE DEF left
<1>5. CASE c.detached
  <2>1. new = [j \in DOMAIN tbl \ {i} |-> left[j]]
    BY <1>4, <1>5
  <2> HIDE DEF new
  <2> QED BY <1>3, <2>1 DEF IsTable, new
<1>6. CASE ~c.detached
  <2>1. new = left
    BY <1>4, <1>6
  <2>2. SameClient(c, c)
    BY DEF SameClient
  <2> HIDE DEF new
  <2> QED BY <1>3, <1>6, <2>1, <2>2 DEF IsTable, new, c
<1> QED BY <1>1, <1>5, <1>6

-----------------------------------------------------------------------------
(* A step of a stream: its caches are reset, get one configuration more or *)
(* stay, and its calls find that out or not.                               *)

\* Track t of epoch e stays, is reset, or gets one configuration more.
Moves(t, e, u, f) ==
    \/ f = e /\ u.config = t.config /\ u.hdr = t.hdr
    \/ f = e + 1
    \/ f = e /\ u.config = t.config + 1

\* A call carries what it carried, or what the track is now.
CallMoves(p, q, u, f) ==
    Carries(q) => \/ Carries(p) /\ q.epoch = p.epoch /\ q.config = p.config /\ q.hdr = p.hdr
                  \/ q.epoch = f /\ q.config = u.config /\ q.hdr = u.hdr

\* A call that has not collected its clients, or is done with them.
NoWrites(p) == p.writes = {} /\ p.failed = {}

\* A call in progress goes on unless it has no leases.
LeasesMove(pu, qu) ==
    \A s \in Tracks : qu[s] = pu[s] \/ (pu[s].writes = {} /\ qu[s].writes = {})

\* Every call goes on, or has nothing to do with the clients.
CallsMove(pu, qu) == \A s \in Tracks : qu[s] = pu[s] \/ (NoWrites(pu[s]) /\ NoWrites(qu[s]))

\* What is known about a stream stays known.
LEMMA KnowsKept ==
    ASSUME NEW e \in Nat, NEW n \in Nat, NEW h, NEW p, NEW q, NEW t, NEW u,
           NEW ep \in Nat, NEW fp \in Nat, e <= ep, t.config \in Nat,
           KnowsStream(e, n, h, p, t, ep), Moves(t, ep, u, fp), CallMoves(p, q, u, fp)
    PROVE  KnowsStream(e, n, h, q, u, fp) /\ e <= fp
<1>1. Knows(e, n, h, fp, u.config, u.hdr) /\ e <= fp
  <2>1. CASE fp = ep /\ u.config = t.config /\ u.hdr = t.hdr
    BY <2>1 DEF KnowsStream
  <2>2. CASE fp = ep + 1
    BY <2>2 DEF Knows
  <2>3. CASE fp = ep /\ u.config = t.config + 1
    BY <2>3 DEF Knows, KnowsStream
  <2> QED BY <2>1, <2>2, <2>3 DEF Moves
<1>2. Carries(q) => Knows(e, n, h, q.epoch, q.config, q.hdr)
  BY <1>1 DEF CallMoves, KnowsStream
<1> QED BY <1>1, <1>2 DEF KnowsStream

\* Detaching leaves every lease in place.
LEMMA LeasedKept ==
    ASSUME NEW old, NEW new, NEW pu, NEW qu, Leased(old, pu), LeasesMove(pu, qu),
           \A k \in Kinds : IsTable(old[k]) /\ Thinned(old[k], new[k])
    PROVE  Leased(new, qu)
<1>1. ASSUME NEW s \in Tracks, NEW i \in qu[s].writes
      PROVE  i \in DOMAIN new[KindOf(qu[s])] /\ new[KindOf(qu[s])][i].stream = s
  <2>1. qu[s] = pu[s]
    BY <1>1 DEF LeasesMove
  <2>2. PICK k : k = KindOf(qu[s])
    OBVIOUS
  <2>3. k \in Kinds
    BY <2>2 DEF KindOf, Kinds
  <2>4. i \in DOMAIN old[k] /\ old[k][i].stream = s
    BY <1>1, <2>1, <2>2 DEF Leased
  <2>5. LeasedBy(pu, k, i, old[k][i].stream)
    BY <1>1, <2>1, <2>2, <2>4 DEF LeasedBy
  <2>6. old[k][i].pending = 1
    BY <2>3, <2>4, <2>5 DEF Leased
  <2>7. i \in DOMAIN new[k]
    BY <2>3, <2>4, <2>6 DEF Thinned
  <2>8. new[k][i].stream = s
    BY <2>3, <2>4, <2>7 DEF Thinned, SameClient
  <2> QED BY <2>2, <2>7, <2>8
<1>2. ASSUME NEW k \in Kinds, NEW i \in DOMAIN new[k]
      PROVE  /\ new[k][i].pending = IF LeasedBy(qu, k, i, new[k][i].stream) THEN 1 ELSE 0
             /\ new[k][i].detached => new[k][i].pending > 0
  <2>1. /\ i \in DOMAIN old[k] /\ new[k][i].stream = old[k][i].stream
        /\ new[k][i].pending = old[k][i].pending
        /\ new[k][i].detached => new[k][i].pending > 0
    BY <1>2 DEF Thinned, SameClient
  <2>2. PICK s : s = old[k][i].stream
    OBVIOUS
  <2>3. s \in Tracks
    <3>1. old[k][i] \in ClientRecords
      BY <2>1 DEF IsTable
    <3> QED BY <2>2, <3>1 DEF ClientRecords
  <2>4. LeasedBy(qu, k, i, s) <=> LeasedBy(pu, k, i, s)
    BY <2>3 DEF LeasesMove, LeasedBy
  <2>5. old[k][i].pending = IF LeasedBy(pu, k, i, s) THEN 1 ELSE 0
    BY <2>1, <2>2 DEF Leased
  <2> QED BY <2>1, <2>2, <2>4, <2>5
<1> QED BY <1>1, <1>2 DEF Leased

\* FLV clients stay in order over a step of their streams.
LEMMA FlvsKept ==
    ASSUME NEW old, NEW new, NEW pu, NEW qu, NEW tr, NEW ur, NEW ep, NEW fp,
           FlvsFit(old, pu, tr, ep), Thinned(old, new), IsTable(old), LeasesMove(pu, qu),
           \A i \in DOMAIN new : Owed(i, pu[new[i].stream]) => Owed(i, qu[new[i].stream]),
           \A s \in Tracks : /\ ep[s] \in Nat /\ fp[s] \in Nat /\ tr[s].config \in Nat
                             /\ Moves(tr[s], ep[s], ur[s], fp[s])
                             /\ CallMoves(pu[s], qu[s], ur[s], fp[s]),
           \A i \in DOMAIN new :
              ur[new[i].stream].state = "running" /\ ur[new[i].stream].codec # "h264" => new[i].detached
    PROVE  FlvsFit(new, qu, ur, fp)
<1> SUFFICES ASSUME NEW i \in DOMAIN new
             PROVE  FlvFits(i, new[i], qu[new[i].stream], ur[new[i].stream], fp[new[i].stream])
  BY DEF FlvsFit
<1>1. i \in DOMAIN old /\ SameClient(old[i], new[i])
  BY DEF Thinned
<1>2. PICK s : s = old[i].stream
  OBVIOUS
<1>3. PICK c : c = old[i]
  OBVIOUS
<1>4. PICK d : d = new[i]
  OBVIOUS
<1>5. /\ s \in Tracks /\ c.genHdr \in Nat /\ c.config \in Nat /\ d.stream = s
  <2>1. c \in ClientRecords
    BY <1>1, <1>3 DEF IsTable
  <2> QED BY <1>1, <1>2, <1>3, <1>4, <2>1 DEF ClientRecords, SameClient
<1>6. FlvFits(i, c, pu[s], tr[s], ep[s])
  BY <1>1, <1>2, <1>3 DEF FlvsFit
<1>7. SameClient(c, d)
  BY <1>1, <1>3, <1>4
<1>8. KnowsStream(c.genHdr, c.config, c.hdr, pu[s], tr[s], ep[s])
          => KnowsStream(c.genHdr, c.config, c.hdr, qu[s], ur[s], fp[s])
  BY <1>5, <1>6, KnowsKept DEF FlvFits
<1>9. c.genHdr <= fp[s]
  <2>1. /\ c.genHdr <= ep[s] /\ ep[s] \in Nat /\ fp[s] \in Nat
        /\ fp[s] = ep[s] \/ fp[s] = ep[s] + 1
    BY <1>5, <1>6 DEF FlvFits, Moves
  <2> QED BY <1>5, <2>1
<1>10. qu[s] = pu[s] \/ (pu[s].writes = {} /\ qu[s].writes = {})
  BY <1>5 DEF LeasesMove
<1>11. Owed(i, pu[s]) => Owed(i, qu[s])
  BY <1>4, <1>5
<1>12. KindOf(qu[s]) = "flv" /\ i \in qu[s].writes => c.config = qu[s].config
  BY <1>6, <1>10 DEF FlvFits
<1>13. ur[s].state = "running" /\ ur[s].codec # "h264" => d.detached
  BY <1>4, <1>5
<1>14. FlvFits(i, d, qu[s], ur[s], fp[s])
  BY <1>6, <1>7, <1>8, <1>9, <1>11, <1>12, <1>13 DEF FlvFits, SameClient
<1> QED BY <1>4, <1>5, <1>14

\* Requests that are about to attach, too.
LEMMA JoinersKept ==
    ASSUME NEW jo, jo \subseteq JoinRecords, NEW pu, NEW qu, NEW tr, NEW ur, NEW ep, NEW fp,
           JoinersFit(jo, pu, tr, ep),
           \A s \in Tracks : /\ ep[s] \in Nat /\ fp[s] \in Nat /\ tr[s].config \in Nat
                             /\ Moves(tr[s], ep[s], ur[s], fp[s])
                             /\ CallMoves(pu[s], qu[s], ur[s], fp[s])
    PROVE  JoinersFit(jo, qu, ur, fp)
<1> SUFFICES ASSUME NEW j \in jo
             PROVE  /\ j.hdr # NoParams /\ j.epoch <= fp[j.stream]
                    /\ KnowsStream(j.epoch, j.config, j.hdr, qu[j.stream], ur[j.stream], fp[j.stream])
  BY DEF JoinersFit
<1>1. j.stream \in Tracks /\ j.epoch \in Nat /\ j.config \in Nat
  BY DEF JoinRecords
<1>2. PICK s \in Tracks : s = j.stream
  BY <1>1
<1>3. /\ j.hdr # NoParams /\ j.epoch <= ep[s]
      /\ KnowsStream(j.epoch, j.config, j.hdr, pu[s], tr[s], ep[s])
  BY <1>2 DEF JoinersFit
<1>4. KnowsStream(j.epoch, j.config, j.hdr, qu[s], ur[s], fp[s]) /\ j.epoch <= fp[s]
  BY <1>1, <1>3, KnowsKept
<1> QED BY <1>2, <1>3, <1>4

\* A step of the streams that detaches clients preserves the invariant when tracks
\* and calls stay in order.
LEMMA TableStep ==
    ASSUME TracksInv,
           mphase' \in {"stopped", "running"}, track' \in [Tracks -> TrackRecords],
           epoch' \in [Tracks -> Nat], enc' \in [Tracks -> Params],
           push' \in [Tracks -> PushRecords],
           clients' \in [Kinds -> {clients'["flv"], clients'["mjpeg"]}],
           nextClient' = nextClient, joining' = joining,
           TracksFit(track', mphase'), PushesFit(push', track', epoch', enc', nextClient),
           LeasesMove(push, push'),
           \A i \in DOMAIN clients'["flv"] :
              Owed(i, push[clients'["flv"][i].stream]) => Owed(i, push'[clients'["flv"][i].stream]),
           \A s \in Tracks : /\ Moves(track[s], epoch[s], track'[s], epoch'[s])
                             /\ CallMoves(push[s], push'[s], track'[s], epoch'[s]),
           \A k \in Kinds : Thinned(clients[k], clients'[k]),
           \A i \in DOMAIN clients'["flv"] :
              track'[clients'["flv"][i].stream].state = "running"
              /\ track'[clients'["flv"][i].stream].codec # "h264" => clients'["flv"][i].detached
    PROVE  TracksInv'
<1>0. "flv" \in Kinds /\ "mjpeg" \in Kinds /\ Kinds = {"flv", "mjpeg"}
  BY DEF Kinds
<1>1. MediaShape
  BY DEF TracksInv
<1>2. IsTable(clients'["flv"]) /\ IsTable(clients'["mjpeg"])
  BY <1>0 DEF Thinned
<1>3. MediaShape'
  BY <1>1, <1>2 DEF MediaShape
<1>4. /\ IsTable(clients["flv"]) /\ \A k \in Kinds : IsTable(clients[k])
      /\ joining \subseteq JoinRecords
  BY <1>0, <1>1 DEF MediaShape
<1>5. \A s \in Tracks : /\ epoch[s] \in Nat /\ epoch'[s] \in Nat /\ track[s].config \in Nat
                        /\ Moves(track[s], epoch[s], track'[s], epoch'[s])
                        /\ CallMoves(push[s], push'[s], track'[s], epoch'[s])
  <2> SUFFICES ASSUME NEW s \in Tracks PROVE epoch[s] \in Nat /\ epoch'[s] \in Nat /\ track[s].config \in Nat
    OBVIOUS
  <2>1. track[s] \in TrackRecords /\ epoch[s] \in Nat /\ epoch'[s] \in Nat
    BY <1>1 DEF MediaShape
  <2> QED BY <2>1 DEF TrackRecords
<1>6. Leased(clients', push')
  <2>1. Leased(clients, push)
    BY DEF TracksInv
  <2>2. \A k \in Kinds : IsTable(clients[k]) /\ Thinned(clients[k], clients'[k])
    BY <1>4
  <2> QED BY <2>1, <2>2, LeasedKept
<1>7. FlvsFit(clients'["flv"], push', track', epoch')
  <2>1. FlvsFit(clients["flv"], push, track, epoch)
    BY DEF TracksInv
  <2>2. Thinned(clients["flv"], clients'["flv"])
    BY <1>0
  <2> QED BY <1>4, <1>5, <2>1, <2>2, FlvsKept
<1>8. JoinersFit(joining, push', track', epoch')
  <2>1. JoinersFit(joining, push, track, epoch)
    BY DEF TracksInv
  <2> QED BY <1>4, <1>5, <2>1, JoinersKept
<1>9. NumbersTaken(clients', nextClient)
  <2>1. NumbersTaken(clients, nextClient)
    BY DEF TracksInv
  <2>2. \A k \in Kinds : DOMAIN clients'[k] \subseteq DOMAIN clients[k]
    BY DEF Thinned
  <2> QED BY <2>1, <2>2 DEF NumbersTaken
<1>10. /\ TracksFit(track, mphase)'
       /\ PushesFit(push, track, epoch, enc, nextClient)'
       /\ Leased(clients, push)' /\ NumbersTaken(clients, nextClient)'
       /\ FlvsFit(clients["flv"], push, track, epoch)'
       /\ JoinersFit(joining, push, track, epoch)'
  BY <1>6, <1>7, <1>8, <1>9
<1> QED BY <1>3, <1>10 DEF TracksInv

\* That is so when every call goes on, or has nothing to do with the clients.
LEMMA StreamStep ==
    ASSUME TracksInv,
           mphase' \in {"stopped", "running"}, track' \in [Tracks -> TrackRecords],
           epoch' \in [Tracks -> Nat], enc' \in [Tracks -> Params],
           push' \in [Tracks -> PushRecords],
           clients' \in [Kinds -> {clients'["flv"], clients'["mjpeg"]}],
           nextClient' = nextClient, joining' = joining,
           TracksFit(track', mphase'), PushesFit(push', track', epoch', enc', nextClient),
           CallsMove(push, push'),
           \A s \in Tracks : /\ Moves(track[s], epoch[s], track'[s], epoch'[s])
                             /\ CallMoves(push[s], push'[s], track'[s], epoch'[s]),
           \A k \in Kinds : Thinned(clients[k], clients'[k]),
           \A i \in DOMAIN clients'["flv"] :
              track'[clients'["flv"][i].stream].state = "running"
              /\ track'[clients'["flv"][i].stream].codec # "h264" => clients'["flv"][i].detached
    PROVE  TracksInv'
<1>1. LeasesMove(push, push')
  BY DEF CallsMove, LeasesMove, NoWrites
<1>2. ASSUME NEW i \in DOMAIN clients'["flv"]
      PROVE  Owed(i, push[clients'["flv"][i].stream]) => Owed(i, push'[clients'["flv"][i].stream])
  <2>1. clients'["flv"][i] \in ClientRecords
    BY DEF Thinned, IsTable, Kinds
  <2>2. PICK s \in Tracks : s = clients'["flv"][i].stream
    BY <2>1 DEF ClientRecords
  <2>3. push'[s] = push[s] \/ (NoWrites(push[s]) /\ NoWrites(push'[s]))
    BY DEF CallsMove
  <2> QED BY <2>2, <2>3 DEF Owed, NoWrites
<1> QED BY <1>1, <1>2, TableStep

-----------------------------------------------------------------------------
(* The operations on streams *)

\* The tables are tables, and no entry is left behind.
LEMMA TableFacts ==
    ASSUME TracksInv, NEW k \in Kinds
    PROVE  /\ IsTable(clients[k]) /\ DOMAIN clients = Kinds
           /\ \A i \in DOMAIN clients[k] : clients[k][i].detached => clients[k][i].pending > 0
           /\ Thinned(clients[k], clients[k])
<1>1. IsTable(clients[k]) /\ DOMAIN clients = Kinds
  BY DEF TracksInv, MediaShape, Kinds
<1>2. \A i \in DOMAIN clients[k] : clients[k][i].detached => clients[k][i].pending > 0
  BY DEF TracksInv, Leased
<1> QED BY <1>1, <1>2, SameThins

\* What the invariant says about one stream.
LEMMA StreamFacts ==
    ASSUME TracksInv, NEW s \in Tracks
    PROVE  /\ track[s] \in TrackRecords /\ epoch[s] \in Nat /\ enc[s] \in Params
           /\ push[s] \in PushRecords
           /\ track[s].config \in Nat /\ track[s].hdr \in Params
           /\ TrackFits(track[s]) /\ (mphase = "stopped" => track[s].hdr = NoParams)
           /\ FrameFits(push[s], track[s], enc[s]) /\ PacketFits(push[s], track[s], epoch[s])
           /\ WritesFit(push[s], nextClient)
<1>1. /\ track[s] \in TrackRecords /\ epoch[s] \in Nat /\ enc[s] \in Params
      /\ push[s] \in PushRecords
  BY DEF TracksInv, MediaShape
<1>2. track[s].config \in Nat /\ track[s].hdr \in Params
  BY <1>1 DEF TrackRecords
<1>3. TrackFits(track[s]) /\ (mphase = "stopped" => track[s].hdr = NoParams)
  BY DEF TracksInv, TracksFit
<1>4. /\ FrameFits(push[s], track[s], enc[s]) /\ PacketFits(push[s], track[s], epoch[s])
      /\ WritesFit(push[s], nextClient)
  BY DEF TracksInv, PushesFit
<1> QED BY <1>1, <1>2, <1>3, <1>4

\* The streams that a step leaves alone.
LEMMA StillMoves ==
    ASSUME NEW p, NEW t, NEW e
    PROVE  Moves(t, e, t, e) /\ CallMoves(p, p, t, e)
  BY DEF Moves, CallMoves

\* Clients may be detached at any time, and a call may end.
LEMMA CallStep ==
    ASSUME TracksInv, UNCHANGED <<mphase, track, epoch, enc, nextClient, joining>>,
           NEW s \in Tracks, NEW q \in PushRecords, push' = [push EXCEPT ![s] = q],
           CallMoves(push[s], q, track[s], epoch[s]),
           q = push[s] \/ (push[s].writes = {} /\ q.writes = {}),
           \A i \in DOMAIN clients'["flv"] :
              clients'["flv"][i].stream = s /\ Owed(i, push[s]) => Owed(i, q),
           FrameFits(q, track[s], enc[s]), PacketFits(q, track[s], epoch[s]),
           WritesFit(q, nextClient),
           clients' \in [Kinds -> {clients'["flv"], clients'["mjpeg"]}],
           \A k \in Kinds : Thinned(clients[k], clients'[k])
    PROVE  TracksInv'
<1>1. /\ mphase \in {"stopped", "running"} /\ track \in [Tracks -> TrackRecords]
      /\ epoch \in [Tracks -> Nat] /\ enc \in [Tracks -> Params]
      /\ push \in [Tracks -> PushRecords]
  BY DEF TracksInv, MediaShape
<1>2. push' \in [Tracks -> PushRecords] /\ push'[s] = q /\ \A r \in Tracks : r # s => push'[r] = push[r]
  BY <1>1
<1>3. TracksFit(track', mphase')
  BY DEF TracksInv
<1>4. PushesFit(push', track', epoch', enc', nextClient)
  <2> SUFFICES ASSUME NEW r \in Tracks
               PROVE  /\ FrameFits(push'[r], track[r], enc[r])
                      /\ PacketFits(push'[r], track[r], epoch[r])
                      /\ WritesFit(push'[r], nextClient)
    BY DEF PushesFit
  <2>1. CASE r = s
    BY <1>2, <2>1
  <2>2. CASE r # s
    BY <1>2, <2>2, StreamFacts
  <2> QED BY <2>1, <2>2
<1>5. LeasesMove(push, push')
  BY <1>2 DEF LeasesMove
<1>6. ASSUME NEW r \in Tracks
      PROVE  /\ Moves(track[r], epoch[r], track'[r], epoch'[r])
             /\ CallMoves(push[r], push'[r], track'[r], epoch'[r])
  BY <1>2, StillMoves
<1>7. ASSUME NEW i \in DOMAIN clients'["flv"],
             track'[clients'["flv"][i].stream].state = "running",
             track'[clients'["flv"][i].stream].codec # "h264"
      PROVE  clients'["flv"][i].detached
  <2>1. i \in DOMAIN clients["flv"] /\ SameClient(clients["flv"][i], clients'["flv"][i])
    BY DEF Thinned, Kinds
  <2>2. FlvFits(i, clients["flv"][i], push[clients["flv"][i].stream],
                track[clients["flv"][i].stream], epoch[clients["flv"][i].stream])
    BY <2>1 DEF TracksInv, FlvsFit
  <2> QED BY <1>7, <2>1, <2>2 DEF SameClient, FlvFits
<1>8. ASSUME NEW i \in DOMAIN clients'["flv"]
      PROVE  Owed(i, push[clients'["flv"][i].stream]) => Owed(i, push'[clients'["flv"][i].stream])
  <2>1. clients'["flv"][i] \in ClientRecords
    BY DEF Thinned, IsTable, Kinds
  <2>2. PICK r \in Tracks : r = clients'["flv"][i].stream
    BY <2>1 DEF ClientRecords
  <2>3. Owed(i, push[r]) => Owed(i, push'[r])
    BY <1>2, <2>2
  <2> QED BY <2>2, <2>3
<1> QED BY <1>1, <1>2, <1>3, <1>4, <1>5, <1>6, <1>7, <1>8, TableStep

\* So it is when the call has no clients to write to.
LEMMA QuietStep ==
    ASSUME TracksInv, UNCHANGED <<mphase, track, epoch, enc, nextClient, joining>>,
           NEW s \in Tracks, NEW q \in PushRecords, push' = [push EXCEPT ![s] = q],
           CallMoves(push[s], q, track[s], epoch[s]),
           q = push[s] \/ (NoWrites(push[s]) /\ NoWrites(q)),
           FrameFits(q, track[s], enc[s]), PacketFits(q, track[s], epoch[s]),
           WritesFit(q, nextClient),
           clients' \in [Kinds -> {clients'["flv"], clients'["mjpeg"]}],
           \A k \in Kinds : Thinned(clients[k], clients'[k])
    PROVE  TracksInv'
<1>1. /\ q = push[s] \/ (push[s].writes = {} /\ q.writes = {})
      /\ \A i \in DOMAIN clients'["flv"] :
            clients'["flv"][i].stream = s /\ Owed(i, push[s]) => Owed(i, q)
  BY DEF NoWrites, Owed
<1> QED BY <1>1, CallStep

\* A step of one stream, with the notice its reset gives to the FLV clients.
LEMMA StreamStepAt ==
    ASSUME TracksInv, UNCHANGED <<mphase, nextClient, joining>>,
           NEW s \in Tracks, NEW u \in TrackRecords, NEW f \in Nat, NEW x \in Params,
           NEW q \in PushRecords, NEW why, NEW codec,
           track' = [track EXCEPT ![s] = u], epoch' = [epoch EXCEPT ![s] = f],
           enc' = [enc EXCEPT ![s] = x], push' = [push EXCEPT ![s] = q],
           TrackFits(u), mphase = "stopped" => u.hdr = NoParams,
           Moves(track[s], epoch[s], u, f), CallMoves(push[s], q, u, f),
           q = push[s] \/ (NoWrites(push[s]) /\ NoWrites(q)),
           FrameFits(q, u, x), PacketFits(q, u, f), WritesFit(q, nextClient),
           ApplyResetNotice(s, why, codec),
           u.state = "running" /\ u.codec # "h264" =>
              \/ why # "none" /\ ~FlvCodec(codec)
              \/ track[s].state = "running" /\ track[s].codec # "h264"
    PROVE  TracksInv'
<1>1. /\ mphase \in {"stopped", "running"} /\ track \in [Tracks -> TrackRecords]
      /\ epoch \in [Tracks -> Nat] /\ enc \in [Tracks -> Params]
      /\ push \in [Tracks -> PushRecords]
  BY DEF TracksInv, MediaShape
<1>2. /\ track' \in [Tracks -> TrackRecords] /\ epoch' \in [Tracks -> Nat]
      /\ enc' \in [Tracks -> Params] /\ push' \in [Tracks -> PushRecords]
      /\ track'[s] = u /\ epoch'[s] = f /\ enc'[s] = x /\ push'[s] = q
      /\ \A r \in Tracks : r # s => /\ track'[r] = track[r] /\ epoch'[r] = epoch[r]
                                    /\ enc'[r] = enc[r] /\ push'[r] = push[r]
  BY <1>1
<1>3. TracksFit(track', mphase')
  <2> SUFFICES ASSUME NEW r \in Tracks
               PROVE  TrackFits(track'[r]) /\ (mphase = "stopped" => track'[r].hdr = NoParams)
    BY DEF TracksFit
  <2>1. CASE r = s
    BY <1>2, <2>1
  <2>2. CASE r # s
    BY <1>2, <2>2, StreamFacts
  <2> QED BY <2>1, <2>2
<1>4. PushesFit(push', track', epoch', enc', nextClient)
  <2> SUFFICES ASSUME NEW r \in Tracks
               PROVE  /\ FrameFits(push'[r], track'[r], enc'[r])
                      /\ PacketFits(push'[r], track'[r], epoch'[r])
                      /\ WritesFit(push'[r], nextClient)
    BY DEF PushesFit
  <2>1. CASE r = s
    BY <1>2, <2>1
  <2>2. CASE r # s
    BY <1>2, <2>2, StreamFacts
  <2> QED BY <2>1, <2>2
<1>5. CallsMove(push, push')
  BY <1>2 DEF CallsMove
<1>6. ASSUME NEW r \in Tracks
      PROVE  /\ Moves(track[r], epoch[r], track'[r], epoch'[r])
             /\ CallMoves(push[r], push'[r], track'[r], epoch'[r])
  <2>1. CASE r = s
    BY <1>2, <2>1
  <2>2. CASE r # s
    BY <1>2, <2>2, StillMoves
  <2> QED BY <2>1, <2>2
<1> DEFINE gone == StreamClients(clients["flv"], s)
           thin == DetachIn(clients["flv"], gone)
<1>7. /\ "flv" \in Kinds /\ "mjpeg" \in Kinds /\ Kinds = {"flv", "mjpeg"}
      /\ clients \in [Kinds -> {clients["flv"], clients["mjpeg"]}]
      /\ DOMAIN clients = Kinds
  BY DEF TracksInv, MediaShape, Kinds
<1>8. /\ Thinned(clients["flv"], thin)
      /\ \A i \in DOMAIN thin : i \in gone => thin[i].detached
  BY <1>7, TableFacts, DetachInThins
<1>9. clients' = IF why # "none" /\ ~FlvCodec(codec) THEN [clients EXCEPT !["flv"] = thin] ELSE clients
  BY DEF ApplyResetNotice
<1> HIDE DEF thin, gone
<1>10. /\ clients' \in [Kinds -> {clients'["flv"], clients'["mjpeg"]}]
       /\ clients'["mjpeg"] = clients["mjpeg"]
       /\ clients'["flv"] = IF why # "none" /\ ~FlvCodec(codec) THEN thin ELSE clients["flv"]
  BY <1>7, <1>9
<1>11. ASSUME NEW k \in Kinds PROVE Thinned(clients[k], clients'[k])
  BY <1>7, <1>8, <1>10, TableFacts
<1>12. ASSUME NEW i \in DOMAIN clients'["flv"],
              track'[clients'["flv"][i].stream].state = "running",
              track'[clients'["flv"][i].stream].codec # "h264"
       PROVE  clients'["flv"][i].detached
  <2>1. PICK c : c = clients["flv"][i]
    OBVIOUS
  <2>2. i \in DOMAIN clients["flv"] /\ SameClient(c, clients'["flv"][i])
    BY <1>7, <1>11, <2>1 DEF Thinned
  <2>3. FlvFits(i, c, push[c.stream], track[c.stream], epoch[c.stream]) /\ c.stream \in Tracks
    <3>1. c \in ClientRecords
      BY <1>7, <2>1, <2>2, TableFacts DEF IsTable
    <3> QED BY <2>1, <2>2, <3>1 DEF TracksInv, FlvsFit, ClientRecords
  <2>4. clients'["flv"][i].stream = c.stream /\ (c.detached => clients'["flv"][i].detached)
    BY <2>2 DEF SameClient
  <2>5. CASE track[c.stream].state = "running" /\ track[c.stream].codec # "h264"
    BY <2>3, <2>4, <2>5 DEF FlvFits
  <2>6. CASE ~(track[c.stream].state = "running" /\ track[c.stream].codec # "h264")
    <3>1. c.stream = s
      BY <1>2, <1>12, <2>3, <2>4, <2>6
    <3>2. why # "none" /\ ~FlvCodec(codec)
      BY <1>2, <1>12, <2>4, <2>6, <3>1
    <3>3. clients'["flv"] = thin
      BY <1>10, <3>2
    <3>4. i \in gone
      BY <2>1, <2>2, <3>1 DEF gone, StreamClients
    <3> QED BY <1>8, <1>12, <3>3, <3>4
  <2> QED BY <2>5, <2>6
<1> QED BY <1>1, <1>2, <1>3, <1>4, <1>5, <1>6, <1>10, <1>11, <1>12, StreamStep

\* A reset leaves the calls in progress in order.
LEMMA ResetCallFits ==
    ASSUME NEW p, NEW t, NEW u, NEW e \in Nat, NEW x, t.config \in Nat, p.epoch \in Nat,
           FrameFits(p, t, x), PacketFits(p, t, e), u.hdr = NoParams, u.config = 0
    PROVE  /\ FrameFits(p, u, x) /\ PacketFits(p, u, e + 1)
           /\ Moves(t, e, u, e + 1) /\ CallMoves(p, p, u, e + 1)
<1>1. t.config < MaxConfigs => u.config < MaxConfigs
  BY MediaNumbers
<1>2. FrameFits(p, u, x)
  BY <1>1 DEF FrameFits
<1>3. PacketFits(p, u, e + 1)
  <2>1. p.epoch <= e => p.epoch <= e + 1 /\ p.epoch # e + 1
    OBVIOUS
  <2> QED BY <2>1 DEF PacketFits
<1> QED BY <1>2, <1>3 DEF Moves, CallMoves

\* SetStreamState(running).
LEMMA SetRunningPreserves ==
    ASSUME TracksInv, NEW s \in Tracks, NEW codec \in Codecs, SetStreamRunning(s, codec)
    PROVE  TracksInv'
<1> DEFINE why == StartReason(track[s], codec)
           u == EnsureRunning(track[s], codec)
           f == IF why = "none" THEN epoch[s] ELSE epoch[s] + 1
<1>1. codec \in CodecNames
  BY MediaConstants DEF CodecNames
<1>2. /\ track[s] \in TrackRecords /\ epoch[s] \in Nat /\ enc[s] \in Params /\ push[s] \in PushRecords
      /\ track[s].config \in Nat /\ TrackFits(track[s])
      /\ FrameFits(push[s], track[s], enc[s]) /\ PacketFits(push[s], track[s], epoch[s])
      /\ WritesFit(push[s], nextClient) /\ push[s].epoch \in Nat
      /\ push[s].writes \in SUBSET Nat
  BY StreamFacts DEF PushRecords
<1>3. /\ u \in TrackRecords /\ TrackFits(u) /\ u.codec = codec /\ u.state = "running"
      /\ why = "none" => u = track[s]
      /\ why # "none" => u.hdr = NoParams /\ u.config = 0
  BY <1>1, <1>2, EnsureFits
<1>4. /\ track' = [track EXCEPT ![s] = u] /\ epoch' = [epoch EXCEPT ![s] = f]
      /\ enc' = [enc EXCEPT ![s] = enc[s]] /\ push' = [push EXCEPT ![s] = push[s]]
      /\ UNCHANGED <<mphase, nextClient, joining>> /\ mphase = "running"
      /\ ApplyResetNotice(s, why, codec)
  <2>1. enc = [enc EXCEPT ![s] = enc[s]] /\ push = [push EXCEPT ![s] = push[s]]
    BY DEF TracksInv, MediaShape
  <2> QED BY <2>1 DEF SetStreamRunning, CountReset
<1>5. f \in Nat
  BY <1>2
<1>6. why = "none" => track[s].codec = codec /\ track[s].state = "running"
  BY DEF StartReason
<1> HIDE DEF u
<1>7. /\ FrameFits(push[s], u, enc[s]) /\ PacketFits(push[s], u, f)
      /\ Moves(track[s], epoch[s], u, f) /\ CallMoves(push[s], push[s], u, f)
  <2>1. CASE why = "none"
    BY <1>2, <1>3, <2>1, StillMoves
  <2>2. CASE why # "none"
    BY <1>2, <1>3, <2>2, ResetCallFits
  <2> QED BY <2>1, <2>2
<1>8. u.state = "running" /\ u.codec # "h264" =>
         \/ why # "none" /\ ~FlvCodec(codec)
         \/ track[s].state = "running" /\ track[s].codec # "h264"
  BY <1>3, <1>6 DEF FlvCodec
<1>9. mphase = "stopped" => u.hdr = NoParams
  BY <1>4
<1>10. PICK w, g : w = why /\ g = f
  OBVIOUS
<1> HIDE DEF why, f
<1> QED BY <1>2, <1>3, <1>4, <1>5, <1>7, <1>8, <1>9, <1>10, StreamStepAt

\* SetStreamState with another state.
LEMMA SetDownPreserves ==
    ASSUME TracksInv, NEW s \in Tracks, NEW state \in {"closed", "opening", "error"},
           SetStreamDown(s, state)
    PROVE  TracksInv'
<1>1. /\ track[s] \in TrackRecords /\ epoch[s] \in Nat /\ enc[s] \in Params /\ push[s] \in PushRecords
      /\ track[s].config \in Nat /\ track[s].codec \in CodecNames
      /\ FrameFits(push[s], track[s], enc[s]) /\ PacketFits(push[s], track[s], epoch[s])
      /\ WritesFit(push[s], nextClient) /\ push[s].epoch \in Nat
  BY StreamFacts DEF PushRecords, TrackRecords
<1>2. PICK r : r = ResetStream(track[s], track[s].codec, "stream_stopped")
  OBVIOUS
<1>3. r \in TrackRecords /\ r.hdr = NoParams /\ r.config = 0 /\ r.gop = EmptyGop
  <2>1. "stream_stopped" \in Reasons
    BY DEF Reasons
  <2> QED BY <1>1, <1>2, <2>1, ResetFits
<1>4. PICK u : u = [r EXCEPT !.state = state]
  OBVIOUS
<1>5. /\ u \in TrackRecords /\ u.hdr = NoParams /\ u.config = 0 /\ u.gop = EmptyGop
      /\ u.state # "running"
  BY <1>3, <1>4 DEF TrackRecords
<1>6. TrackFits(u)
  BY <1>5, CleanTrackFits
<1>7. PICK f \in Nat : f = epoch[s] + 1
  BY <1>1
<1>8. /\ track' = [track EXCEPT ![s] = u] /\ epoch' = [epoch EXCEPT ![s] = f]
      /\ enc' = [enc EXCEPT ![s] = enc[s]] /\ push' = [push EXCEPT ![s] = push[s]]
      /\ UNCHANGED <<mphase, nextClient, joining>>
      /\ ApplyResetNotice(s, "stream_stopped", track[s].codec)
  <2>1. enc = [enc EXCEPT ![s] = enc[s]] /\ push = [push EXCEPT ![s] = push[s]]
    BY DEF TracksInv, MediaShape
  <2> QED BY <1>2, <1>4, <1>7, <2>1 DEF SetStreamDown, CountReset
<1>9. /\ FrameFits(push[s], u, enc[s]) /\ PacketFits(push[s], u, f)
      /\ Moves(track[s], epoch[s], u, f) /\ CallMoves(push[s], push[s], u, f)
  BY <1>1, <1>5, <1>7, ResetCallFits
<1> QED BY <1>1, <1>5, <1>6, <1>8, <1>9, StreamStepAt

\* A frame is a record, and what it says about its encoding holds.
LEMMA FrameFacts ==
    ASSUME NEW s \in Tracks, NEW f \in Frames(s)
    PROVE  /\ f \in FrameRecords
           /\ f.codec # "mjpeg" => /\ f.params # NoParams => f.params = f.cfg
                                   /\ f.params = NoParams => f.cfg = enc[s]
  BY MediaConstants DEF Frames, FrameRecords, Params, CodecNames

\* A call without clients to write to is a record.
LEMMA IdleFacts ==
    /\ Idle \in PushRecords /\ NoWrites(Idle) /\ Idle.pc = "idle" /\ Idle.frame.codec = "h264"
    /\ \A f \in FrameRecords :
          LET q == [Idle EXCEPT !.pc = "accepted", !.frame = f] IN
          q \in PushRecords /\ NoWrites(q) /\ q.pc = "accepted" /\ q.frame = f
<1>1. NoFrame \in FrameRecords /\ NoFrame.codec = "h264" /\ NoParams \in Params
  BY DEF NoFrame, FrameRecords, CodecNames, Params
<1>2. Idle \in PushRecords /\ NoWrites(Idle) /\ Idle.pc = "idle" /\ Idle.frame = NoFrame
  BY <1>1 DEF Idle, PushRecords, NoWrites
<1>3. ASSUME NEW f \in FrameRecords
      PROVE  LET q == [Idle EXCEPT !.pc = "accepted", !.frame = f] IN
             q \in PushRecords /\ NoWrites(q) /\ q.pc = "accepted" /\ q.frame = f
  BY <1>2 DEF PushRecords, NoWrites
<1> QED BY <1>1, <1>2, <1>3

\* A call that has packaged its frame is a record.
LEMMA PackagedFacts ==
    ASSUME NEW f \in FrameRecords, NEW n \in Nat, NEW h \in Params, NEW e \in Nat
    PROVE  /\ Packaged(f, n, h, e) \in PushRecords /\ NoWrites(Packaged(f, n, h, e))
           /\ Packaged(f, n, h, e).pc = "packaged" /\ Packaged(f, n, h, e).frame = f
           /\ Packaged(f, n, h, e).config = n /\ Packaged(f, n, h, e).hdr = h
           /\ Packaged(f, n, h, e).epoch = e
<1>1. Idle \in PushRecords /\ NoWrites(Idle)
  BY IdleFacts
<1> QED BY <1>1 DEF PushRecords, NoWrites, Packaged

\* A call without writes owes nothing to the tables.
LEMMA NoWritesFit ==
    ASSUME NEW q, NoWrites(q)
    PROVE  WritesFit(q, nextClient)
  BY DEF NoWrites, WritesFit

\* AcceptFrame.
LEMMA PushFramePreserves ==
    ASSUME TracksInv, NEW s \in Tracks, PushFrame(s)
    PROVE  TracksInv'
<1>1. PICK f \in Frames(s) :
        /\ push[s].pc = "idle" /\ mphase = "running" /\ track[s].config < MaxConfigs
        /\ LET t == EnsureRunning(track[s], f.codec)
               jumps == t.stamped /\ f.jump
           IN  /\ track' = [track EXCEPT ![s] =
                      [IF jumps THEN ResetStreamCaches(t, "timestamp_reset") ELSE t
                       EXCEPT !.stamped = TRUE]]
               /\ CountReset(s, IF jumps THEN "timestamp_reset"
                                ELSE StartReason(track[s], f.codec))
        /\ ApplyResetNotice(s, StartReason(track[s], f.codec), f.codec)
        /\ enc' = [enc EXCEPT ![s] = IF f.codec = "mjpeg" THEN @ ELSE f.cfg]
        /\ push' = [push EXCEPT ![s] = [Idle EXCEPT !.pc = "accepted", !.frame = f]]
        /\ UNCHANGED <<mphase, nextClient, joining>>
  BY DEF PushFrame
<1>2. /\ track[s] \in TrackRecords /\ epoch[s] \in Nat /\ enc[s] \in Params /\ push[s] \in PushRecords
      /\ track[s].config \in Nat /\ TrackFits(track[s]) /\ track[s].hdr \in Params
      /\ FrameFits(push[s], track[s], enc[s])
      /\ NoWrites(push[s])
  BY <1>1, StreamFacts DEF WritesFit, NoWrites
<1>3. /\ f \in FrameRecords /\ f.codec \in CodecNames /\ f.cfg \in Params
      /\ f.codec # "mjpeg" => /\ f.params # NoParams => f.params = f.cfg
                              /\ f.params = NoParams => f.cfg = enc[s]
  BY FrameFacts DEF FrameRecords
<1>4. PICK t : t = EnsureRunning(track[s], f.codec)
  OBVIOUS
<1>5. PICK why : why = StartReason(track[s], f.codec)
  OBVIOUS
<1>6. /\ t \in TrackRecords /\ TrackFits(t) /\ t.codec = f.codec /\ t.state = "running"
      /\ why = "none" => t = track[s]
      /\ why # "none" => t.hdr = NoParams /\ t.config = 0 /\ t.gop = EmptyGop /\ ~t.stamped
      /\ t.stamped \in BOOLEAN
  <2>1. /\ t \in TrackRecords /\ TrackFits(t) /\ t.codec = f.codec /\ t.state = "running"
        /\ why = "none" => t = track[s]
        /\ why # "none" => t.hdr = NoParams /\ t.config = 0 /\ t.gop = EmptyGop /\ ~t.stamped
    BY <1>2, <1>3, <1>4, <1>5, EnsureFits
  <2> QED BY <2>1 DEF TrackRecords
<1>7. why = "none" => track[s].codec = f.codec /\ track[s].state = "running"
  BY <1>5 DEF StartReason
<1>8. PICK r : r = IF t.stamped /\ f.jump THEN ResetStreamCaches(t, "timestamp_reset") ELSE t
  OBVIOUS
<1>9. /\ r \in TrackRecords /\ TrackFits(r) /\ r.codec = f.codec /\ r.state = "running"
      /\ t.stamped /\ f.jump => r.hdr = NoParams /\ r.config = 0
      /\ ~(t.stamped /\ f.jump) => r = t
  <2>1. CASE t.stamped /\ f.jump
    <3>1. "timestamp_reset" \in Reasons
      BY DEF Reasons
    <3>2. r = ResetStreamCaches(t, "timestamp_reset")
      BY <1>8, <2>1
    <3>3. /\ r \in TrackRecords /\ r.codec = t.codec /\ r.state = t.state
          /\ r.hdr = NoParams /\ r.config = 0 /\ r.gop = EmptyGop
      BY <1>3, <1>6, <3>1, <3>2, ResetFits
    <3> QED BY <1>6, <2>1, <3>3, CleanTrackFits
  <2>2. CASE ~(t.stamped /\ f.jump)
    BY <1>6, <1>8, <2>2
  <2> QED BY <2>1, <2>2
<1>10. PICK u : u = [r EXCEPT !.stamped = TRUE]
  OBVIOUS
<1>11. /\ u \in TrackRecords /\ u.codec = f.codec /\ u.state = "running"
       /\ u.hdr = r.hdr /\ u.config = r.config /\ u.gop = r.gop
  BY <1>9, <1>10 DEF TrackRecords
<1>12. TrackFits(u)
  BY <1>9, <1>11 DEF TrackFits
<1>13. PICK g : g = IF (t.stamped /\ f.jump) \/ why # "none" THEN epoch[s] + 1 ELSE epoch[s]
  OBVIOUS
<1>14. /\ track' = [track EXCEPT ![s] = u] /\ epoch' = [epoch EXCEPT ![s] = g] /\ g \in Nat
  <2>1. track' = [track EXCEPT ![s] = u]
    BY <1>1, <1>4, <1>8, <1>10
  <2>2. CountReset(s, IF t.stamped /\ f.jump THEN "timestamp_reset" ELSE why)
    BY <1>1, <1>4, <1>5
  <2>3. CASE t.stamped /\ f.jump
    <3>1. CountReset(s, "timestamp_reset") /\ g = epoch[s] + 1
      BY <1>13, <2>2, <2>3
    <3> QED BY <1>2, <2>1, <3>1 DEF CountReset
  <2>4. CASE ~(t.stamped /\ f.jump)
    <3>1. CountReset(s, why)
      BY <2>2, <2>4
    <3>2. g = IF why = "none" THEN epoch[s] ELSE epoch[s] + 1
      BY <1>13, <2>4
    <3> QED BY <1>2, <2>1, <3>1, <3>2 DEF CountReset
  <2> QED BY <2>3, <2>4
<1>15. PICK x : x = IF f.codec = "mjpeg" THEN enc[s] ELSE f.cfg
  OBVIOUS
<1>16. enc' = [enc EXCEPT ![s] = x] /\ x \in Params
  BY <1>1, <1>2, <1>3, <1>15
<1>17. PICK q : q = [Idle EXCEPT !.pc = "accepted", !.frame = f]
  OBVIOUS
<1>18. q \in PushRecords /\ NoWrites(q) /\ q.pc = "accepted" /\ q.frame = f
  BY <1>3, <1>17, IdleFacts
<1>19. /\ push' = [push EXCEPT ![s] = q]
       /\ ApplyResetNotice(s, why, f.codec) /\ UNCHANGED <<mphase, nextClient, joining>>
       /\ mphase = "running"
  BY <1>1, <1>5, <1>17
<1>20. (u.config = 0 /\ u.hdr = NoParams) \/ (u.config = track[s].config /\ u.hdr = track[s].hdr /\ why = "none")
  BY <1>6, <1>9, <1>11
<1>21. Moves(track[s], epoch[s], u, g)
  BY <1>6, <1>9, <1>11, <1>13 DEF Moves
<1>22. CallMoves(push[s], q, u, g) /\ PacketFits(q, u, g)
  BY <1>18 DEF CallMoves, PacketFits, Carries
<1>23. FrameFits(q, u, x)
  <2>1. f.codec # "mjpeg" => x = f.cfg /\ (f.params # NoParams => f.params = x)
    BY <1>3, <1>15
  <2>2. u.config < MaxConfigs
    BY <1>1, <1>2, <1>20, MediaNumbers
  <2>3. ASSUME u.hdr # NoParams, ~(f.params # NoParams) PROVE u.hdr = x
    <3>1. u.hdr = track[s].hdr /\ why = "none"
      BY <1>20, <2>3
    <3>2. track[s].codec = "h264"
      BY <1>2, <2>3, <3>1 DEF TrackFits
    <3>3. f.codec = "h264"
      BY <1>7, <3>1, <3>2
    <3>4. x = f.cfg /\ f.cfg = enc[s]
      BY <1>3, <2>1, <2>3, <3>3
    <3>5. track[s].hdr = enc[s]
      BY <1>1, <1>2, <2>3, <3>1 DEF FrameFits
    <3> QED BY <3>1, <3>4, <3>5
  <2> QED BY <1>18, <2>1, <2>2, <2>3 DEF FrameFits
<1>24. u.state = "running" /\ u.codec # "h264" =>
         \/ why # "none" /\ ~FlvCodec(f.codec)
         \/ track[s].state = "running" /\ track[s].codec # "h264"
  BY <1>7, <1>11 DEF FlvCodec
<1>25. WritesFit(q, nextClient)
  BY <1>18, NoWritesFit
<1>26. mphase = "stopped" => u.hdr = NoParams
  BY <1>19
<1> QED
  BY <1>2, <1>11, <1>12, <1>14, <1>16, <1>18, <1>19, <1>21, <1>22, <1>23, <1>24, <1>25, <1>26,
     StreamStepAt
\* CachePreviewFrame.
LEMMA CachePreserves ==
    ASSUME TracksInv, NEW s \in Tracks, CachePreviewFrame(s)
    PROVE  TracksInv'
<1>1. /\ track[s] \in TrackRecords /\ epoch[s] \in Nat /\ enc[s] \in Params /\ push[s] \in PushRecords
      /\ track[s].config \in Nat /\ TrackFits(track[s])
      /\ mphase = "stopped" => track[s].hdr = NoParams
      /\ FrameFits(push[s], track[s], enc[s]) /\ NoWrites(push[s])
      /\ push[s].pc = "accepted" /\ push[s].frame.codec # "mjpeg"
      /\ mphase \in {"stopped", "running"}
  BY StreamFacts DEF CachePreviewFrame, WritesFit, NoWrites, TracksInv, MediaShape
<1>2. PICK f : f = push[s].frame
  OBVIOUS
<1>3. /\ f \in FrameRecords /\ f.codec \in CodecNames /\ f.codec # "mjpeg"
      /\ f.cfg = enc[s] /\ (f.params # NoParams => f.params = f.cfg)
      /\ track[s].config < MaxConfigs
      /\ track[s].hdr # NoParams /\ f.params = NoParams => track[s].hdr = enc[s]
  <2>1. f \in FrameRecords
    BY <1>1, <1>2 DEF PushRecords
  <2> QED BY <1>1, <1>2, <2>1 DEF FrameFits, FrameRecords
<1>4. enc = [enc EXCEPT ![s] = enc[s]] /\ track = [track EXCEPT ![s] = track[s]]
      /\ epoch = [epoch EXCEPT ![s] = epoch[s]]
  BY DEF TracksInv, MediaShape
<1>5. UNCHANGED <<mphase, enc, nextClient, joining>>
  BY DEF CachePreviewFrame
<1>6. CASE mphase # "running"
  <2>1. push' = [push EXCEPT ![s] = Idle] /\ UNCHANGED <<track, epoch, clients>>
    BY <1>6 DEF CachePreviewFrame
  <2>2. ApplyResetNotice(s, "none", "h264")
    BY <2>1 DEF ApplyResetNotice
  <2>3. Idle \in PushRecords /\ NoWrites(Idle) /\ Idle.pc = "idle"
    BY IdleFacts
  <2>4. track[s].hdr = NoParams
    BY <1>1, <1>6
  <2>5. /\ FrameFits(Idle, track[s], enc[s]) /\ PacketFits(Idle, track[s], epoch[s])
        /\ CallMoves(push[s], Idle, track[s], epoch[s])
    BY <2>3, <2>4 DEF FrameFits, PacketFits, CallMoves, Carries
  <2>6. WritesFit(Idle, nextClient)
    BY <2>3, NoWritesFit
  <2>7. Moves(track[s], epoch[s], track[s], epoch[s])
    BY StillMoves
  <2> QED BY <1>1, <1>4, <1>5, <2>1, <2>2, <2>3, <2>4, <2>5, <2>6, <2>7, StreamStepAt
<1>7. CASE mphase = "running"
  <2>1. PICK why : why = StartReason(track[s], f.codec)
    OBVIOUS
  <2>2. PICK r : r = EnsureRunning(track[s], f.codec)
    OBVIOUS
  <2>3. PICK u : u = TrackAppendFrame(r, f)
    OBVIOUS
  <2>4. PICK g : g = IF why = "none" THEN epoch[s] ELSE epoch[s] + 1
    OBVIOUS
  <2>5. /\ r \in TrackRecords /\ TrackFits(r) /\ r.codec = f.codec /\ r.state = "running"
        /\ why = "none" => r = track[s]
        /\ why # "none" => r.hdr = NoParams /\ r.config = 0
    BY <1>1, <1>3, <2>1, <2>2, EnsureFits
  <2>6. r.config < MaxConfigs /\ (r.hdr # NoParams /\ f.params = NoParams => r.hdr = f.cfg)
    BY <1>1, <1>3, <2>5, MediaNumbers
  <2>7. /\ u \in TrackRecords /\ TrackFits(u) /\ u.codec = r.codec /\ u.state = r.state
        /\ (u.config = r.config /\ u.hdr = r.hdr) \/ u.config = r.config + 1
        /\ u.hdr # NoParams => u.hdr = f.cfg
    BY <1>3, <2>3, <2>5, <2>6, AppendFrameFits
  <2>8. u.config \in Nat /\ u.hdr \in Params /\ g \in Nat
    BY <1>1, <2>4, <2>7 DEF TrackRecords
  <2>9. PICK q : q = Packaged(f, u.config, u.hdr, g)
    OBVIOUS
  <2>10. /\ q \in PushRecords /\ NoWrites(q) /\ q.pc = "packaged" /\ q.frame = f
         /\ q.config = u.config /\ q.hdr = u.hdr /\ q.epoch = g
    BY <1>3, <2>8, <2>9, PackagedFacts
  <2>11. /\ track' = [track EXCEPT ![s] = u] /\ epoch' = [epoch EXCEPT ![s] = g]
         /\ ApplyResetNotice(s, why, f.codec)
    BY <1>2, <1>7, <2>1, <2>2, <2>3, <2>4 DEF CachePreviewFrame, CountReset
  <2>12. push' = [push EXCEPT ![s] = q]
    <3>1. push' = [push EXCEPT ![s] = Packaged(f, u.config, u.hdr, epoch'[s])]
      BY <1>2, <1>7, <2>2, <2>3 DEF CachePreviewFrame
    <3>2. epoch'[s] = g
      BY <2>11 DEF TracksInv, MediaShape
    <3> QED BY <2>9, <3>1, <3>2
  <2>13. Moves(track[s], epoch[s], u, g)
    BY <2>4, <2>5, <2>7 DEF Moves
  <2>14. CallMoves(push[s], q, u, g)
    BY <2>10 DEF CallMoves
  <2>15. FrameFits(q, u, enc[s])
    BY <1>3, <2>7, <2>10 DEF FrameFits
  <2>16. PacketFits(q, u, g)
    BY <2>7, <2>8, <2>10 DEF PacketFits
  <2>17. WritesFit(q, nextClient)
    BY <2>10, NoWritesFit
  <2>18. u.state = "running" /\ u.codec # "h264" =>
           \/ why # "none" /\ ~FlvCodec(f.codec)
           \/ track[s].state = "running" /\ track[s].codec # "h264"
    BY <2>5, <2>7 DEF FlvCodec
  <2>19. mphase = "stopped" => u.hdr = NoParams
    BY <1>7
  <2> QED
    BY <1>1, <1>4, <1>5, <2>7, <2>8, <2>10, <2>11, <2>12, <2>13, <2>14, <2>15, <2>16, <2>17, <2>18,
       <2>19, StreamStepAt
<1> QED BY <1>6, <1>7

\* PackageMjpegFrame.
LEMMA PackagePreserves ==
    ASSUME TracksInv, NEW s \in Tracks, PackageMjpegFrame(s)
    PROVE  TracksInv'
<1>1. /\ track[s] \in TrackRecords /\ epoch[s] \in Nat /\ enc[s] \in Params /\ push[s] \in PushRecords
      /\ track[s].config \in Nat /\ TrackFits(track[s])
      /\ mphase = "stopped" => track[s].hdr = NoParams
      /\ NoWrites(push[s])
      /\ push[s].pc = "accepted" /\ push[s].frame.codec = "mjpeg"
      /\ mphase \in {"stopped", "running"}
  BY StreamFacts DEF PackageMjpegFrame, WritesFit, NoWrites, TracksInv, MediaShape
<1>2. PICK f : f = push[s].frame
  OBVIOUS
<1>3. f \in FrameRecords /\ f.codec = "mjpeg" /\ f.codec \in CodecNames
  BY <1>1, <1>2 DEF PushRecords, CodecNames
<1>4. enc = [enc EXCEPT ![s] = enc[s]] /\ track = [track EXCEPT ![s] = track[s]]
      /\ epoch = [epoch EXCEPT ![s] = epoch[s]]
  BY DEF TracksInv, MediaShape
<1>5. UNCHANGED <<mphase, enc, nextClient, joining>>
  BY DEF PackageMjpegFrame
<1>6. CASE mphase # "running"
  <2>1. push' = [push EXCEPT ![s] = Idle] /\ UNCHANGED <<track, epoch, clients>>
    BY <1>6 DEF PackageMjpegFrame
  <2>2. ApplyResetNotice(s, "none", "h264")
    BY <2>1 DEF ApplyResetNotice
  <2>3. Idle \in PushRecords /\ NoWrites(Idle) /\ Idle.pc = "idle"
    BY IdleFacts
  <2>4. track[s].hdr = NoParams
    BY <1>1, <1>6
  <2>5. /\ FrameFits(Idle, track[s], enc[s]) /\ PacketFits(Idle, track[s], epoch[s])
        /\ CallMoves(push[s], Idle, track[s], epoch[s])
    BY <2>3, <2>4 DEF FrameFits, PacketFits, CallMoves, Carries
  <2>6. WritesFit(Idle, nextClient)
    BY <2>3, NoWritesFit
  <2>7. Moves(track[s], epoch[s], track[s], epoch[s])
    BY StillMoves
  <2> QED BY <1>1, <1>4, <1>5, <2>1, <2>2, <2>3, <2>4, <2>5, <2>6, <2>7, StreamStepAt
<1>7. CASE mphase = "running"
  <2>1. PICK why : why = StartReason(track[s], f.codec)
    OBVIOUS
  <2>2. PICK r : r = EnsureRunning(track[s], f.codec)
    OBVIOUS
  <2>3. PICK u : u = [r EXCEPT !.mjpeg = TRUE]
    OBVIOUS
  <2>4. PICK g : g = IF why = "none" THEN epoch[s] ELSE epoch[s] + 1
    OBVIOUS
  <2>5. /\ r \in TrackRecords /\ TrackFits(r) /\ r.codec = f.codec /\ r.state = "running"
        /\ why = "none" => r = track[s]
        /\ why # "none" => r.hdr = NoParams /\ r.config = 0
    BY <1>1, <1>3, <2>1, <2>2, EnsureFits
  <2>6. /\ u \in TrackRecords /\ u.codec = f.codec /\ u.state = "running"
        /\ u.hdr = r.hdr /\ u.config = r.config /\ u.gop = r.gop
    BY <2>3, <2>5 DEF TrackRecords
  <2>7. TrackFits(u) /\ u.hdr = NoParams
    BY <1>3, <2>5, <2>6 DEF TrackFits
  <2>8. g \in Nat
    BY <1>1, <2>4
  <2>9. PICK q \in {Idle, Packaged(f, 0, NoParams, 0)} :
           push' = [push EXCEPT ![s] = q]
    BY <1>2, <1>7 DEF PackageMjpegFrame
  <2>10. /\ q \in PushRecords /\ NoWrites(q) /\ q.pc # "accepted" /\ ~Carries(q)
    <3>1. CASE q = Idle
      BY <3>1, IdleFacts DEF Carries
    <3>2. CASE q = Packaged(f, 0, NoParams, 0)
      <4>1. NoParams \in Params /\ 0 \in Nat
        BY DEF Params
      <4>2. q \in PushRecords /\ NoWrites(q) /\ q.pc = "packaged" /\ q.frame = f
        BY <1>3, <3>2, <4>1, PackagedFacts
      <4> QED BY <1>3, <4>2 DEF Carries
    <3> QED BY <2>9, <3>1, <3>2
  <2>11. /\ track' = [track EXCEPT ![s] = u] /\ epoch' = [epoch EXCEPT ![s] = g]
         /\ ApplyResetNotice(s, why, f.codec)
    BY <1>2, <1>7, <2>1, <2>2, <2>3, <2>4 DEF PackageMjpegFrame, CountReset
  <2>12. Moves(track[s], epoch[s], u, g)
    BY <2>4, <2>5, <2>6 DEF Moves
  <2>13. CallMoves(push[s], q, u, g) /\ PacketFits(q, u, g)
    BY <2>10 DEF CallMoves, PacketFits
  <2>14. FrameFits(q, u, enc[s])
    BY <2>7, <2>10 DEF FrameFits
  <2>15. WritesFit(q, nextClient)
    BY <2>10, NoWritesFit
  <2>16. u.state = "running" /\ u.codec # "h264" =>
           \/ why # "none" /\ ~FlvCodec(f.codec)
           \/ track[s].state = "running" /\ track[s].codec # "h264"
    BY <2>5, <2>6 DEF FlvCodec
  <2> QED
    BY <1>1, <1>4, <1>5, <2>6, <2>7, <2>8, <2>9, <2>10, <2>11, <2>12, <2>13, <2>14, <2>15, <2>16,
       StreamStepAt
<1> QED BY <1>6, <1>7

\* Start and Stop close every track and detach every client.
LEMMA RestartPreserves ==
    ASSUME TracksInv, MediaStart \/ MediaStop
    PROVE  TracksInv'
<1>1. /\ mphase' \in {"stopped", "running"} /\ track' = ClearTracks
      /\ clients' = [k \in Kinds |-> DetachIn(clients[k], DOMAIN clients[k])]
      /\ UNCHANGED <<enc, nextClient, joining, push>>
      /\ \/ mphase = "stopped" /\ epoch' = epoch
         \/ epoch' = [s \in Tracks |-> epoch[s] + 1]
  BY DEF MediaStart, MediaStop
<1>2. /\ epoch \in [Tracks -> Nat] /\ enc \in [Tracks -> Params] /\ push \in [Tracks -> PushRecords]
  BY DEF TracksInv, MediaShape
<1>3. /\ ClosedTrack \in TrackRecords /\ ClosedTrack.hdr = NoParams /\ ClosedTrack.config = 0
      /\ ClosedTrack.gop = EmptyGop /\ ClosedTrack.state = "closed"
  BY EmptyGopFits DEF ClosedTrack, TrackRecords, Params, CodecNames, Reasons
<1>4. TrackFits(ClosedTrack)
  BY <1>3, CleanTrackFits
<1>5. track' \in [Tracks -> TrackRecords] /\ \A s \in Tracks : track'[s] = ClosedTrack
  BY <1>1, <1>3 DEF ClearTracks
<1>6. TracksFit(track', mphase')
  BY <1>3, <1>4, <1>5 DEF TracksFit
<1>7. epoch' \in [Tracks -> Nat]
  BY <1>1, <1>2
<1>8. ASSUME NEW s \in Tracks
      PROVE  /\ FrameFits(push[s], track'[s], enc[s]) /\ PacketFits(push[s], track'[s], epoch'[s])
             /\ WritesFit(push[s], nextClient)
             /\ Moves(track[s], epoch[s], track'[s], epoch'[s])
             /\ CallMoves(push[s], push[s], track'[s], epoch'[s])
  <2>1. /\ epoch[s] \in Nat /\ track[s].config \in Nat /\ push[s].epoch \in Nat
        /\ FrameFits(push[s], track[s], enc[s]) /\ PacketFits(push[s], track[s], epoch[s])
        /\ WritesFit(push[s], nextClient) /\ TrackFits(track[s])
        /\ mphase = "stopped" => track[s].hdr = NoParams
    BY StreamFacts DEF PushRecords
  <2>2. CASE mphase = "stopped" /\ epoch' = epoch
    <3>1. track[s].hdr = NoParams /\ track[s].config = 0
      BY <2>1, <2>2 DEF TrackFits
    <3>2. track'[s].hdr = track[s].hdr /\ track'[s].config = track[s].config /\ epoch'[s] = epoch[s]
      BY <1>3, <1>5, <2>2, <3>1
    <3> QED BY <2>1, <3>2 DEF FrameFits, PacketFits, Moves, CallMoves
  <2>3. CASE epoch' = [r \in Tracks |-> epoch[r] + 1]
    <3>1. epoch'[s] = epoch[s] + 1 /\ track'[s].hdr = NoParams /\ track'[s].config = 0
      BY <1>3, <1>5, <2>3
    <3> QED BY <2>1, <3>1, ResetCallFits
  <2> QED BY <1>1, <2>2, <2>3
<1>9. PushesFit(push', track', epoch', enc', nextClient)
  BY <1>1, <1>8 DEF PushesFit
<1>10. CallsMove(push, push')
  BY <1>1 DEF CallsMove
<1>11. \A s \in Tracks : /\ Moves(track[s], epoch[s], track'[s], epoch'[s])
                         /\ CallMoves(push[s], push'[s], track'[s], epoch'[s])
  BY <1>1, <1>8
<1>12. \A k \in Kinds : Thinned(clients[k], clients'[k])
  <2> SUFFICES ASSUME NEW k \in Kinds PROVE Thinned(clients[k], DetachIn(clients[k], DOMAIN clients[k]))
    BY <1>1
  <2> QED BY TableFacts, DetachInThins
<1>13. clients' \in [Kinds -> {clients'["flv"], clients'["mjpeg"]}]
  BY <1>1 DEF Kinds
<1>14. ASSUME NEW i \in DOMAIN clients'["flv"]
       PROVE  track'[clients'["flv"][i].stream].state # "running"
  <2>1. clients'["flv"][i] \in ClientRecords
    BY <1>12 DEF Thinned, IsTable, Kinds
  <2>2. clients'["flv"][i].stream \in Tracks
    BY <2>1 DEF ClientRecords
  <2> QED BY <1>3, <1>5, <2>2
<1> QED BY <1>1, <1>2, <1>5, <1>6, <1>7, <1>9, <1>10, <1>11, <1>12, <1>13, <1>14, StreamStep

-----------------------------------------------------------------------------
(* The calls of the sinks *)

\* Call q of stream s goes on with what p found.
SameCall(p, q) ==
    /\ p.pc \in {"packaged", "writing"} /\ q.pc = "writing" /\ q.frame = p.frame
    /\ q.config = p.config /\ q.hdr = p.hdr /\ q.epoch = p.epoch

\* Table new is old after call q of stream s has leased, released or dropped entries.
Written(old, new, k, s, q, t, e) ==
    /\ IsTable(new) /\ DOMAIN new \subseteq DOMAIN old
    /\ \A i \in DOMAIN old : i \notin DOMAIN new => old[i].stream = s
    /\ \A i \in q.writes : i \in DOMAIN new /\ new[i].stream = s
    /\ \A i \in DOMAIN new :
          /\ new[i].stream = old[i].stream
          /\ new[i].stream # s => new[i] = old[i]
          /\ new[i].stream = s =>
                /\ new[i].pending = IF i \in q.writes THEN 1 ELSE 0
                /\ new[i].detached => new[i].pending > 0
                /\ k = "flv" => FlvFits(i, new[i], q, t, e)

\* A call leases clients of its stream, releases or drops them.
LEMMA WriteStep ==
    ASSUME TracksInv, UNCHANGED <<mphase, track, epoch, enc, nextClient, joining>>,
           NEW s \in Tracks, NEW q \in PushRecords, push' = [push EXCEPT ![s] = q],
           SameCall(push[s], q), WritesFit(q, nextClient),
           NEW k \in Kinds, k = KindOf(push[s]),
           NEW new, clients' = [clients EXCEPT ![k] = new],
           Written(clients[k], new, k, s, q, track[s], epoch[s])
    PROVE  TracksInv'
<1> USE DEF SameCall, Written
<1>0. KindOf(q) = k
  BY DEF KindOf
<1>1. /\ push \in [Tracks -> PushRecords] /\ Kinds = {"flv", "mjpeg"}
      /\ clients \in [Kinds -> {clients["flv"], clients["mjpeg"]}]
      /\ epoch \in [Tracks -> Nat]
  BY DEF TracksInv, MediaShape, Kinds
<1>2. push' \in [Tracks -> PushRecords] /\ push'[s] = q /\ \A r \in Tracks : r # s => push'[r] = push[r]
  BY <1>1
<1>3. /\ clients' \in [Kinds -> {clients'["flv"], clients'["mjpeg"]}]
      /\ clients'[k] = new /\ \A j \in Kinds : j # k => clients'[j] = clients[j]
  BY <1>1
<1>4. /\ FrameFits(push[s], track[s], enc[s]) /\ PacketFits(push[s], track[s], epoch[s])
      /\ push[s] \in PushRecords
  BY StreamFacts
<1>5. FrameFits(q, track[s], enc[s]) /\ PacketFits(q, track[s], epoch[s])
      /\ (Carries(q) <=> Carries(push[s]))
  BY <1>4 DEF FrameFits, PacketFits, Carries
<1>6. PushesFit(push', track, epoch, enc, nextClient)
  <2> SUFFICES ASSUME NEW r \in Tracks
               PROVE  /\ FrameFits(push'[r], track[r], enc[r])
                      /\ PacketFits(push'[r], track[r], epoch[r])
                      /\ WritesFit(push'[r], nextClient)
    BY DEF PushesFit
  <2>1. CASE r = s
    BY <1>2, <1>5, <2>1
  <2>2. CASE r # s
    BY <1>2, <2>2, StreamFacts
  <2> QED BY <2>1, <2>2
<1>7. MediaShape'
  <2>1. IsTable(clients'["flv"]) /\ IsTable(clients'["mjpeg"])
    BY <1>1, <1>3, TableFacts
  <2> QED BY <1>2, <1>3, <2>1 DEF TracksInv, MediaShape
<1>8. Leased(clients', push')
  <2>1. ASSUME NEW r \in Tracks, NEW i \in push'[r].writes
        PROVE  i \in DOMAIN clients'[KindOf(push'[r])] /\ clients'[KindOf(push'[r])][i].stream = r
    <3>1. CASE r = s
      BY <1>0, <1>2, <1>3, <2>1, <3>1
    <3>2. CASE r # s
      <4>1. PICK j : j = KindOf(push[r])
        OBVIOUS
      <4>2. push'[r] = push[r] /\ i \in push[r].writes /\ j \in Kinds
        BY <1>2, <2>1, <3>2, <4>1 DEF KindOf, Kinds
      <4>3. i \in DOMAIN clients[j] /\ clients[j][i].stream = r
        BY <4>1, <4>2 DEF TracksInv, Leased
      <4>4. CASE j = k
        <5>1. i \in DOMAIN new
          BY <3>2, <4>3, <4>4
        <5> QED BY <1>3, <4>1, <4>2, <4>3, <4>4, <5>1
      <4>5. CASE j # k
        BY <1>3, <4>1, <4>2, <4>3, <4>5
      <4> QED BY <4>4, <4>5
    <3> QED BY <3>1, <3>2
  <2>2. ASSUME NEW j \in Kinds, NEW i \in DOMAIN clients'[j]
        PROVE  /\ clients'[j][i].pending = IF LeasedBy(push', j, i, clients'[j][i].stream) THEN 1 ELSE 0
               /\ clients'[j][i].detached => clients'[j][i].pending > 0
    <3>1. CASE clients'[j][i].stream = s /\ j = k
      <4>1. /\ i \in DOMAIN new /\ new[i].stream = s /\ clients'[j][i] = new[i]
            /\ LeasedBy(push', k, i, s) <=> i \in q.writes
        BY <1>0, <1>2, <1>3, <2>2, <3>1 DEF LeasedBy
      <4> QED BY <3>1, <4>1
    <3>2. CASE ~(clients'[j][i].stream = s /\ j = k)
      <4>1. i \in DOMAIN clients[j] /\ clients'[j][i] = clients[j][i]
        BY <1>3, <2>2, <3>2
      <4>2. PICK r : r = clients[j][i].stream
        OBVIOUS
      <4>3. r \in Tracks
        <5>1. clients[j][i] \in ClientRecords
          BY <4>1, TableFacts DEF IsTable
        <5> QED BY <4>2, <5>1 DEF ClientRecords
      <4>4. LeasedBy(push', j, i, r) <=> LeasedBy(push, j, i, r)
        BY <1>0, <1>2, <3>2, <4>1, <4>2, <4>3 DEF LeasedBy
      <4>5. /\ clients[j][i].pending = IF LeasedBy(push, j, i, r) THEN 1 ELSE 0
            /\ clients[j][i].detached => clients[j][i].pending > 0
        BY <4>1, <4>2 DEF TracksInv, Leased
      <4> QED BY <4>1, <4>2, <4>4, <4>5
    <3> QED BY <3>1, <3>2
  <2> QED BY <2>1, <2>2 DEF Leased
<1>9. FlvsFit(clients'["flv"], push', track, epoch)
  <2> SUFFICES ASSUME NEW i \in DOMAIN clients'["flv"]
               PROVE  FlvFits(i, clients'["flv"][i], push'[clients'["flv"][i].stream],
                              track[clients'["flv"][i].stream], epoch[clients'["flv"][i].stream])
    BY DEF FlvsFit
  <2>1. CASE clients'["flv"][i].stream = s /\ k = "flv"
    BY <1>2, <1>3, <2>1
  <2>2. CASE ~(clients'["flv"][i].stream = s /\ k = "flv")
    <3>1. PICK c : c = clients["flv"][i]
      OBVIOUS
    <3>2. i \in DOMAIN clients["flv"] /\ clients'["flv"][i] = c
      BY <1>1, <1>3, <2>2, <3>1
    <3>3. c \in ClientRecords
      BY <1>1, <3>1, <3>2, TableFacts DEF IsTable
    <3>4. PICK r \in Tracks : r = c.stream
      BY <3>3 DEF ClientRecords
    <3>5. FlvFits(i, c, push[r], track[r], epoch[r])
      BY <3>1, <3>2, <3>4 DEF TracksInv, FlvsFit
    <3>6. CASE r # s
      BY <1>2, <3>2, <3>4, <3>5, <3>6
    <3>7. CASE r = s
      <4>1. k = "mjpeg"
        BY <1>1, <2>2, <3>2, <3>4, <3>7
      <4>2. ~Carries(q) /\ ~Carries(push[s]) /\ KindOf(q) # "flv" /\ KindOf(push[s]) # "flv"
        BY <1>0, <4>1 DEF KindOf, Carries
      <4>3. FlvFits(i, c, q, track[s], epoch[s])
        BY <3>5, <3>7, <4>2 DEF FlvFits, Owed, KnowsStream
      <4> QED BY <1>2, <3>2, <3>4, <3>7, <4>3
    <3> QED BY <3>6, <3>7
  <2> QED BY <2>1, <2>2
<1>10. JoinersFit(joining, push', track, epoch)
  <2>1. joining \subseteq JoinRecords /\ JoinersFit(joining, push, track, epoch)
    BY DEF TracksInv, MediaShape
  <2>2. ASSUME NEW r \in Tracks
        PROVE  /\ epoch[r] \in Nat /\ track[r].config \in Nat
               /\ Moves(track[r], epoch[r], track[r], epoch[r])
               /\ CallMoves(push[r], push'[r], track[r], epoch[r])
    <3>1. CASE r = s
      BY <1>2, <1>5, <3>1, StreamFacts, StillMoves DEF CallMoves
    <3>2. CASE r # s
      BY <1>2, <3>2, StreamFacts, StillMoves
    <3> QED BY <3>1, <3>2
  <2> QED BY <2>1, <2>2, JoinersKept
<1>11. NumbersTaken(clients', nextClient)
  <2>1. NumbersTaken(clients, nextClient)
    BY DEF TracksInv
  <2> QED BY <1>3, <2>1 DEF NumbersTaken
<1>12. /\ TracksFit(track, mphase)'
       /\ PushesFit(push, track, epoch, enc, nextClient)'
       /\ Leased(clients, push)' /\ NumbersTaken(clients, nextClient)'
       /\ FlvsFit(clients["flv"], push, track, epoch)'
       /\ JoinersFit(joining, push, track, epoch)'
  BY <1>6, <1>8, <1>9, <1>10, <1>11 DEF TracksInv
<1> QED BY <1>7, <1>12 DEF TracksInv

\* The entries of stream s when its call has no leases.
LEMMA UnleasedFacts ==
    ASSUME TracksInv, NEW s \in Tracks, NEW k \in Kinds, k = KindOf(push[s]),
           NEW i \in DOMAIN clients[k], clients[k][i].stream = s
    PROVE  /\ clients[k][i] \in ClientRecords
           /\ clients[k][i].pending = IF i \in push[s].writes THEN 1 ELSE 0
           /\ clients[k][i].detached => clients[k][i].pending > 0
           /\ k = "flv" => FlvFits(i, clients[k][i], push[s], track[s], epoch[s])
<1>1. clients[k][i] \in ClientRecords
  BY TableFacts DEF IsTable
<1>2. LeasedBy(push, k, i, s) <=> i \in push[s].writes
  BY DEF LeasedBy
<1>3. /\ clients[k][i].pending = IF i \in push[s].writes THEN 1 ELSE 0
      /\ clients[k][i].detached => clients[k][i].pending > 0
  BY <1>2 DEF TracksInv, Leased
<1>4. k = "flv" => FlvFits(i, clients[k][i], push[s], track[s], epoch[s])
  BY DEF TracksInv, FlvsFit
<1> QED BY <1>1, <1>3, <1>4

\* PreviewClients::WriteFlv, the clients collected.
LEMMA CollectFlvPreserves ==
    ASSUME TracksInv, NEW s \in Tracks, CollectFlvWrites(s)
    PROVE  TracksInv'
<1>1. PICK p : p = push[s]
  OBVIOUS
<1>2. PICK tbl : tbl = clients["flv"]
  OBVIOUS
<1>3. PICK wants : wants = {i \in DOMAIN tbl : /\ FlvCodec(p.frame.codec) /\ p.hdr # NoParams
                                             /\ WantsFlv(tbl[i], s, p.frame.key)}
  OBVIOUS
<1>4. PICK heads : heads = {i \in wants : NeedsConfig(tbl[i], p.config)}
  OBVIOUS
<1>5. PICK q : q = [p EXCEPT !.pc = "writing", !.writes = wants, !.headers = heads]
  OBVIOUS
<1>6. /\ p.pc = "packaged" /\ p.frame.codec # "mjpeg"
      /\ clients' = IF wants = {} THEN clients ELSE [clients EXCEPT !["flv"] = CollectWrites(@, s, p)]
      /\ push' = [push EXCEPT ![s] = q]
      /\ UNCHANGED <<mphase, track, epoch, enc, nextClient, joining>>
  BY <1>1, <1>2, <1>3, <1>4, <1>5 DEF CollectFlvWrites
<1>7. /\ p \in PushRecords /\ NoWrites(p) /\ KindOf(p) = "flv" /\ "flv" \in Kinds
      /\ p.config \in Nat /\ Carries(p) /\ p.frame.key \in BOOLEAN
  <2>1. p \in PushRecords /\ WritesFit(p, nextClient)
    BY <1>1, StreamFacts
  <2> QED BY <1>6, <2>1 DEF PushRecords, FrameRecords, WritesFit, NoWrites, KindOf, Kinds, Carries
<1>8. IsTable(tbl) /\ wants \subseteq DOMAIN tbl /\ wants \in SUBSET Nat /\ heads \in SUBSET Nat
  BY <1>2, <1>3, <1>4, <1>7, TableFacts DEF IsTable
<1>9. /\ q \in PushRecords /\ q.pc = "writing" /\ q.writes = wants /\ q.headers = heads
      /\ q.frame = p.frame /\ q.config = p.config /\ q.hdr = p.hdr /\ q.epoch = p.epoch
      /\ q.failed = {}
  BY <1>5, <1>7, <1>8 DEF PushRecords, NoWrites
<1>10. WritesFit(q, nextClient)
  BY <1>3, <1>9 DEF WritesFit, FlvCodec
<1>11. PICK new : new = IF wants = {} THEN tbl ELSE CollectWrites(tbl, s, p)
  OBVIOUS
<1>12. clients' = [clients EXCEPT !["flv"] = new]
  <2>1. CASE wants = {}
    <3>1. clients' = clients /\ new = clients["flv"]
      BY <1>2, <1>6, <1>11, <2>1
    <3> QED BY <3>1 DEF TracksInv, MediaShape
  <2>2. CASE wants # {}
    BY <1>2, <1>6, <1>11, <2>2
  <2> QED BY <2>1, <2>2
<1>13. ASSUME NEW i \in DOMAIN tbl
       PROVE  /\ tbl[i] \in ClientRecords /\ tbl[i].pending \in Nat /\ tbl[i].wait \in BOOLEAN
              /\ tbl[i].stream \in Tracks
  BY <1>8 DEF IsTable, ClientRecords
<1>14. /\ DOMAIN new = DOMAIN tbl
       /\ \A i \in DOMAIN tbl :
             new[i] = IF i \in wants
                      THEN [tbl[i] EXCEPT !.wait = @ /\ ~p.frame.key, !.config = p.config,
                                          !.pending = @ + 1]
                      ELSE tbl[i]
       /\ new = [i \in DOMAIN tbl |-> new[i]]
  <2>1. CASE wants = {}
    BY <1>8, <1>11, <2>1 DEF IsTable
  <2>2. CASE wants # {}
    <3>1. FlvCodec(p.frame.codec) /\ p.hdr # NoParams
      BY <1>3, <2>2
    <3>2. \A i \in DOMAIN tbl : i \in wants <=> WantsFlv(tbl[i], s, p.frame.key)
      BY <1>3, <3>1
    <3>3. new = CollectWrites(tbl, s, p)
      BY <1>11, <2>2
    <3> QED BY <3>2, <3>3 DEF CollectWrites
  <2> QED BY <2>1, <2>2
<1>15. ASSUME NEW i \in DOMAIN tbl, i \in wants
       PROVE  /\ new[i] \in ClientRecords /\ new[i].stream = s /\ tbl[i].stream = s
              /\ new[i].config = p.config /\ new[i].pending = tbl[i].pending + 1
              /\ new[i].hdr = tbl[i].hdr /\ new[i].cfg = tbl[i].cfg
              /\ new[i].genHdr = tbl[i].genHdr /\ new[i].genTag = tbl[i].genTag
              /\ ~new[i].detached /\ ~tbl[i].detached
  <2>1. PICK w \in BOOLEAN : w <=> (tbl[i].wait /\ ~p.frame.key)
    OBVIOUS
  <2>2. PICK m \in Nat : m = tbl[i].pending + 1
    BY <1>13
  <2>3. ~tbl[i].detached /\ tbl[i].stream = s
    BY <1>3, <1>15 DEF WantsFlv
  <2>4. new[i] = [tbl[i] EXCEPT !.wait = w, !.config = p.config, !.pending = m]
    <3>1. w = (tbl[i].wait /\ ~p.frame.key)
      BY <1>7, <1>13, <2>1
    <3> QED BY <1>14, <1>15, <2>2, <3>1
  <2> QED BY <1>7, <1>13, <2>2, <2>3, <2>4 DEF ClientRecords
<1>16. IsTable(new)
  <2>1. \A i \in DOMAIN tbl : new[i] \in ClientRecords
    BY <1>13, <1>14, <1>15
  <2> QED BY <1>8, <1>14, <2>1 DEF IsTable
<1>17. ASSUME NEW i \in DOMAIN new
       PROVE  /\ new[i].stream = tbl[i].stream
              /\ new[i].stream # s => new[i] = tbl[i]
              /\ new[i].stream = s =>
                    /\ new[i].pending = IF i \in q.writes THEN 1 ELSE 0
                    /\ new[i].detached => new[i].pending > 0
                    /\ FlvFits(i, new[i], q, track[s], epoch[s])
  <2>1. i \in DOMAIN tbl
    BY <1>14
  <2>2. new[i].stream = tbl[i].stream /\ (new[i].stream # s => new[i] = tbl[i])
    BY <1>14, <1>15, <2>1
  <2>3. ASSUME new[i].stream = s
        PROVE  /\ new[i].pending = IF i \in q.writes THEN 1 ELSE 0
               /\ new[i].detached => new[i].pending > 0
               /\ FlvFits(i, new[i], q, track[s], epoch[s])
    <3>1. /\ tbl[i].pending = IF i \in p.writes THEN 1 ELSE 0
          /\ tbl[i].detached => tbl[i].pending > 0
          /\ FlvFits(i, tbl[i], p, track[s], epoch[s])
      BY <1>1, <1>2, <1>7, <2>1, <2>2, <2>3, UnleasedFacts
    <3>2. i \notin p.writes /\ i \notin p.failed /\ ~Owed(i, p)
      BY <1>7 DEF NoWrites, Owed
    <3>3. ASSUME NEW c, c.genHdr = tbl[i].genHdr, c.hdr = tbl[i].hdr, c.config = tbl[i].config
          PROVE  KnowsStream(c.genHdr, c.config, c.hdr, q, track[s], epoch[s])
      <4>1. KnowsStream(tbl[i].genHdr, tbl[i].config, tbl[i].hdr, p, track[s], epoch[s])
        BY <3>1, <3>2 DEF FlvFits
      <4> QED BY <1>7, <1>9, <3>3, <4>1 DEF KnowsStream
    <3>4. CASE i \in wants
      <4>1. tbl[i].pending = 0
        BY <3>1, <3>2
      <4>2. new[i].pending = 1 /\ ~new[i].detached
        BY <1>15, <2>1, <3>4, <4>1
      <4>3. Owed(i, q) \/ KnowsStream(new[i].genHdr, new[i].config, new[i].hdr, q, track[s], epoch[s])
        <5>1. CASE i \in heads
          BY <1>7, <1>9, <3>4, <5>1 DEF Owed, KindOf
        <5>2. CASE i \notin heads
          <6>1. tbl[i].config = p.config
            BY <1>4, <3>4, <5>2 DEF NeedsConfig
          <6> QED BY <1>15, <2>1, <3>3, <3>4, <6>1
        <5> QED BY <5>1, <5>2
      <4>4. FlvFits(i, new[i], q, track[s], epoch[s])
        <5>1. /\ tbl[i].genHdr <= epoch[s] /\ (tbl[i].genTag = tbl[i].genHdr => tbl[i].cfg = tbl[i].hdr)
              /\ track[s].state = "running" /\ track[s].codec # "h264" => tbl[i].detached
          BY <3>1 DEF FlvFits
        <5> QED BY <1>9, <1>15, <2>1, <3>4, <4>3, <5>1 DEF FlvFits
      <4> QED BY <1>9, <3>4, <4>2, <4>4
    <3>5. CASE i \notin wants
      <4>1. new[i] = tbl[i]
        BY <1>14, <2>1, <3>5
      <4>2. FlvFits(i, tbl[i], q, track[s], epoch[s])
        BY <1>9, <3>1, <3>3, <3>5 DEF FlvFits
      <4> QED BY <1>9, <3>1, <3>2, <3>5, <4>1, <4>2
    <3> QED BY <3>4, <3>5
  <2> QED BY <2>2, <2>3
<1>18. \A i \in q.writes : i \in DOMAIN new /\ new[i].stream = s
  BY <1>8, <1>9, <1>14, <1>15
<1>19. PICK k \in Kinds : k = "flv"
  BY <1>7
<1>20. /\ clients' = [clients EXCEPT ![k] = new] /\ k = KindOf(push[s])
       /\ push' = [push EXCEPT ![s] = q] /\ UNCHANGED <<mphase, track, epoch, enc, nextClient, joining>>
       /\ SameCall(push[s], q) /\ q \in PushRecords
  BY <1>1, <1>6, <1>7, <1>9, <1>12, <1>19 DEF SameCall
<1>21. Written(clients[k], new, k, s, q, track[s], epoch[s])
  BY <1>2, <1>14, <1>16, <1>17, <1>18, <1>19 DEF Written
<1> QED BY <1>10, <1>20, <1>21, WriteStep

\* MjpegClients::CollectWrites.
LEMMA CollectMjpegPreserves ==
    ASSUME TracksInv, NEW s \in Tracks, CollectMjpegWrites(s)
    PROVE  TracksInv'
<1>1. PICK p : p = push[s]
  OBVIOUS
<1>2. PICK tbl : tbl = clients["mjpeg"]
  OBVIOUS
<1>3. PICK wants : wants = {i \in StreamClients(tbl, s) : ~tbl[i].detached}
  OBVIOUS
<1>4. PICK q : q = [p EXCEPT !.pc = "writing", !.writes = wants]
  OBVIOUS
<1>5. PICK new : new = [i \in DOMAIN tbl |-> IF i \in wants THEN [tbl[i] EXCEPT !.pending = @ + 1]
                                             ELSE tbl[i]]
  OBVIOUS
<1>6. /\ p.pc = "packaged" /\ p.frame.codec = "mjpeg"
      /\ clients' = [clients EXCEPT !["mjpeg"] = new]
      /\ push' = [push EXCEPT ![s] = q]
      /\ UNCHANGED <<mphase, track, epoch, enc, nextClient, joining>>
  BY <1>1, <1>2, <1>3, <1>4, <1>5 DEF CollectMjpegWrites
<1>7. /\ p \in PushRecords /\ NoWrites(p) /\ KindOf(p) = "mjpeg" /\ "mjpeg" \in Kinds
  <2>1. p \in PushRecords /\ WritesFit(p, nextClient)
    BY <1>1, StreamFacts
  <2> QED BY <1>6, <2>1 DEF WritesFit, NoWrites, KindOf, Kinds
<1>8. IsTable(tbl) /\ wants \subseteq DOMAIN tbl /\ wants \in SUBSET Nat
  BY <1>2, <1>3, <1>7, TableFacts DEF IsTable, StreamClients
<1>9. /\ q \in PushRecords /\ q.pc = "writing" /\ q.writes = wants
      /\ q.frame = p.frame /\ q.config = p.config /\ q.hdr = p.hdr /\ q.epoch = p.epoch
      /\ q.failed = {}
  BY <1>4, <1>7, <1>8 DEF PushRecords, NoWrites
<1>10. WritesFit(q, nextClient)
  BY <1>6, <1>9 DEF WritesFit
<1>11. ASSUME NEW i \in DOMAIN tbl
       PROVE  /\ tbl[i] \in ClientRecords /\ tbl[i].pending \in Nat
  BY <1>8 DEF IsTable, ClientRecords
<1>12. ASSUME NEW i \in DOMAIN tbl, i \in wants
       PROVE  /\ new[i] \in ClientRecords /\ new[i].stream = s /\ tbl[i].stream = s
              /\ new[i].pending = tbl[i].pending + 1 /\ ~new[i].detached
  <2>1. PICK m \in Nat : m = tbl[i].pending + 1
    BY <1>11
  <2>2. ~tbl[i].detached /\ tbl[i].stream = s
    BY <1>3, <1>12 DEF StreamClients
  <2>3. new[i] = [tbl[i] EXCEPT !.pending = m]
    BY <1>5, <1>12, <2>1
  <2> QED BY <1>11, <2>1, <2>2, <2>3 DEF ClientRecords
<1>13. /\ DOMAIN new = DOMAIN tbl /\ \A i \in DOMAIN tbl : i \notin wants => new[i] = tbl[i]
       /\ IsTable(new)
  <2>1. DOMAIN new = DOMAIN tbl /\ \A i \in DOMAIN tbl : i \notin wants => new[i] = tbl[i]
    BY <1>5
  <2>2. \A i \in DOMAIN tbl : new[i] \in ClientRecords
    BY <1>11, <1>12, <2>1
  <2>3. new = [i \in DOMAIN new |-> new[i]]
    BY <1>5
  <2> QED BY <1>8, <2>1, <2>2, <2>3 DEF IsTable
<1>14. ASSUME NEW i \in DOMAIN new
       PROVE  /\ new[i].stream = tbl[i].stream
              /\ new[i].stream # s => new[i] = tbl[i]
              /\ new[i].stream = s =>
                    /\ new[i].pending = IF i \in q.writes THEN 1 ELSE 0
                    /\ new[i].detached => new[i].pending > 0
  <2>1. i \in DOMAIN tbl
    BY <1>13
  <2>2. new[i].stream = tbl[i].stream /\ (new[i].stream # s => new[i] = tbl[i])
    BY <1>12, <1>13, <2>1
  <2>3. ASSUME new[i].stream = s
        PROVE  /\ new[i].pending = IF i \in q.writes THEN 1 ELSE 0
               /\ new[i].detached => new[i].pending > 0
    <3>1. /\ tbl[i].pending = IF i \in p.writes THEN 1 ELSE 0
          /\ tbl[i].detached => tbl[i].pending > 0
      BY <1>1, <1>2, <1>7, <2>1, <2>2, <2>3, UnleasedFacts
    <3>2. tbl[i].pending = 0
      BY <1>7, <3>1 DEF NoWrites
    <3>3. CASE i \in wants
      BY <1>9, <1>12, <2>1, <3>2, <3>3
    <3>4. CASE i \notin wants
      BY <1>9, <1>13, <2>1, <3>1, <3>2, <3>4
    <3> QED BY <3>3, <3>4
  <2> QED BY <2>2, <2>3
<1>15. \A i \in q.writes : i \in DOMAIN new /\ new[i].stream = s
  BY <1>8, <1>9, <1>12, <1>13
<1>16. PICK k \in Kinds : k = "mjpeg"
  BY <1>7
<1>17. /\ clients' = [clients EXCEPT ![k] = new] /\ k = KindOf(push[s])
       /\ push' = [push EXCEPT ![s] = q] /\ UNCHANGED <<mphase, track, epoch, enc, nextClient, joining>>
       /\ SameCall(push[s], q) /\ q \in PushRecords
  BY <1>1, <1>6, <1>7, <1>9, <1>6, <1>16 DEF SameCall
<1>18. Written(clients[k], new, k, s, q, track[s], epoch[s])
  BY <1>2, <1>13, <1>14, <1>15, <1>16 DEF Written
<1> QED BY <1>10, <1>17, <1>18, WriteStep
\* What a sink was given, by field.
LEMMA GivenFacts ==
    ASSUME NEW c \in ClientRecords, NEW p \in PushRecords, NEW b \in BOOLEAN
    PROVE  /\ Given(c, p, b) \in ClientRecords
           /\ Given(c, p, b).stream = c.stream /\ Given(c, p, b).pending = c.pending
           /\ Given(c, p, b).detached = c.detached /\ Given(c, p, b).config = c.config
           /\ Given(c, p, b).cfg = p.frame.cfg /\ Given(c, p, b).genTag = p.epoch
           /\ Given(c, p, b).hdr = IF b THEN p.hdr ELSE c.hdr
           /\ Given(c, p, b).genHdr = IF b THEN p.epoch ELSE c.genHdr
<1>1. p.frame.cfg \in Params /\ p.epoch \in Nat /\ p.hdr \in Params
  BY DEF PushRecords, FrameRecords
<1>2. PICK d : d = IF b THEN [c EXCEPT !.hdr = p.hdr, !.genHdr = p.epoch] ELSE c
  OBVIOUS
<1>3. /\ d \in ClientRecords /\ d.stream = c.stream /\ d.pending = c.pending
      /\ d.detached = c.detached /\ d.config = c.config
      /\ d.hdr = IF b THEN p.hdr ELSE c.hdr
      /\ d.genHdr = IF b THEN p.epoch ELSE c.genHdr
  <2>1. CASE b
    BY <1>1, <1>2, <2>1 DEF ClientRecords
  <2>2. CASE ~b
    BY <1>2, <2>2
  <2> QED BY <2>1, <2>2
<1>4. Given(c, p, b) = [d EXCEPT !.cfg = p.frame.cfg, !.genTag = p.epoch]
  BY <1>2 DEF Given
<1> QED BY <1>1, <1>3, <1>4 DEF ClientRecords

\* A client that was given a tag is in order, with its header or with the one it had.
LEMMA GivenFits ==
    ASSUME NEW p \in PushRecords, NEW q, NEW t, NEW e \in Nat, NEW c \in ClientRecords, NEW d, NEW i,
           t.config \in Nat,
           SameCall(p, q), KindOf(p) = "flv", PacketFits(p, t, e),
           p.frame.codec = "h264", p.hdr # NoParams,
           FlvFits(i, c, p, t, e), i \in p.writes, i \notin p.failed, p.pc = "writing",
           i \notin q.writes, ~c.detached,
           d.cfg = p.frame.cfg, d.genTag = p.epoch, d.config = c.config,
           d.hdr = IF i \in p.headers THEN p.hdr ELSE c.hdr,
           d.genHdr = IF i \in p.headers THEN p.epoch ELSE c.genHdr
    PROVE  FlvFits(i, d, q, t, e)
<1>1. Carries(p) /\ Carries(q)
  BY DEF SameCall, Carries
<1>2. /\ p.epoch <= e /\ p.frame.cfg = p.hdr
      /\ p.epoch = e => p.config = t.config /\ p.hdr = t.hdr
  BY <1>1 DEF PacketFits
<1>3. c.config = p.config /\ c.genHdr <= e
  BY DEF FlvFits
<1>4. p.config \in Nat
  BY DEF PushRecords
<1>5. /\ q.epoch = p.epoch /\ q.config = p.config /\ q.hdr = p.hdr
  BY DEF SameCall
<1>6. ~(t.state = "running" /\ t.codec # "h264")
  BY DEF FlvFits
<1>7. CASE i \in p.headers
  <2>1. d.hdr = p.hdr /\ d.genHdr = p.epoch /\ d.cfg = p.hdr /\ d.config = p.config
    BY <1>2, <1>3, <1>7
  <2>2. KnowsStream(d.genHdr, d.config, d.hdr, q, t, e)
    BY <1>2, <1>4, <1>5, <2>1 DEF KnowsStream, Knows
  <2> QED BY <1>2, <1>6, <2>1, <2>2 DEF FlvFits
<1>8. CASE i \notin p.headers
  <2>1. d.hdr = c.hdr /\ d.genHdr = c.genHdr /\ d.cfg = p.hdr /\ d.config = p.config
    BY <1>2, <1>3, <1>8
  <2>2. KnowsStream(c.genHdr, c.config, c.hdr, p, t, e)
    BY <1>8 DEF FlvFits, Owed
  <2>3. c.genHdr = p.epoch => c.hdr = p.hdr
    BY <1>1, <1>3, <2>2 DEF KnowsStream, Knows
  <2>4. KnowsStream(d.genHdr, d.config, d.hdr, q, t, e)
    BY <1>1, <1>3, <1>5, <2>1, <2>2 DEF KnowsStream
  <2> QED BY <1>3, <1>6, <2>1, <2>3, <2>4 DEF FlvFits
<1> QED BY <1>7, <1>8

\* One sink call.
LEMMA WritePreserves ==
    ASSUME TracksInv, NEW s \in Tracks, WriteToSink(s)
    PROVE  TracksInv'
<1>1. PICK p : p = push[s]
  OBVIOUS
<1>2. PICK k : k = KindOf(p)
  OBVIOUS
<1>3. PICK tbl : tbl = clients[k]
  OBVIOUS
<1>4. PICK ok \in BOOLEAN, i \in p.writes :
        /\ p.pc = "writing"
        /\ clients' = [clients EXCEPT ![k] = ReleaseWrite(
               IF k = "flv" /\ ok /\ i \in DOMAIN tbl
               THEN [tbl EXCEPT ![i] = Given(@, p, i \in p.headers)] ELSE tbl, i)]
        /\ push' = [push EXCEPT ![s].writes = @ \ {i}, ![s].failed = IF ok THEN @ ELSE @ \cup {i}]
        /\ UNCHANGED <<mphase, track, epoch, enc, nextClient, joining>>
  <2>1. PICK ok \in BOOLEAN : \E i \in push[s].writes :
          /\ push[s].pc = "writing" /\ First(i, push[s].writes)
          /\ clients' = [clients EXCEPT ![KindOf(push[s])] = ReleaseWrite(
                 IF KindOf(push[s]) = "flv" /\ ok /\ i \in DOMAIN clients[KindOf(push[s])]
                 THEN [clients[KindOf(push[s])] EXCEPT ![i] = Given(@, push[s], i \in push[s].headers)]
                 ELSE clients[KindOf(push[s])], i)]
          /\ push' = [push EXCEPT ![s].writes = @ \ {i}, ![s].failed = IF ok THEN @ ELSE @ \cup {i}]
          /\ UNCHANGED <<mphase, track, epoch, enc, nextClient, joining>>
    BY Zenon DEF WriteToSink
  <2>2. PICK i \in push[s].writes :
          /\ push[s].pc = "writing" /\ First(i, push[s].writes)
          /\ clients' = [clients EXCEPT ![KindOf(push[s])] = ReleaseWrite(
                 IF KindOf(push[s]) = "flv" /\ ok /\ i \in DOMAIN clients[KindOf(push[s])]
                 THEN [clients[KindOf(push[s])] EXCEPT ![i] = Given(@, push[s], i \in push[s].headers)]
                 ELSE clients[KindOf(push[s])], i)]
          /\ push' = [push EXCEPT ![s].writes = @ \ {i}, ![s].failed = IF ok THEN @ ELSE @ \cup {i}]
          /\ UNCHANGED <<mphase, track, epoch, enc, nextClient, joining>>
    BY <2>1, Zenon
  <2>3. clients' = [clients EXCEPT ![k] = ReleaseWrite(
               IF k = "flv" /\ ok /\ i \in DOMAIN tbl
               THEN [tbl EXCEPT ![i] = Given(@, p, i \in p.headers)] ELSE tbl, i)]
    BY <1>1, <1>2, <1>3, <2>2, Zenon
  <2> QED BY <1>1, <2>2, <2>3, Zenon
<1>5. /\ p \in PushRecords /\ WritesFit(p, nextClient) /\ k \in Kinds
      /\ p.writes \in SUBSET Nat /\ p.failed \in SUBSET Nat
      /\ FrameFits(p, track[s], enc[s]) /\ PacketFits(p, track[s], epoch[s])
      /\ epoch[s] \in Nat /\ track[s].config \in Nat
  <2>1. p \in PushRecords /\ k \in Kinds
    BY <1>1, <1>2, StreamFacts DEF KindOf, Kinds
  <2> QED BY <1>1, <2>1, StreamFacts DEF PushRecords
<1>6. IsTable(tbl) /\ \A j \in p.writes : j \in DOMAIN tbl /\ tbl[j].stream = s
  BY <1>1, <1>2, <1>3, <1>5, TableFacts DEF TracksInv, Leased
<1>7. i \in DOMAIN tbl /\ tbl[i].stream = s /\ i \notin p.failed /\ i \in Nat
  BY <1>4, <1>5, <1>6 DEF WritesFit
<1>8. ASSUME NEW j \in DOMAIN tbl, tbl[j].stream = s
      PROVE  /\ tbl[j] \in ClientRecords
             /\ tbl[j].pending = IF j \in p.writes THEN 1 ELSE 0
             /\ tbl[j].detached => tbl[j].pending > 0
             /\ k = "flv" => FlvFits(j, tbl[j], p, track[s], epoch[s])
  BY <1>1, <1>2, <1>3, <1>5, <1>8, UnleasedFacts
<1>9. tbl[i] \in ClientRecords /\ tbl[i].pending = 1
  BY <1>4, <1>7, <1>8
<1>10. PICK h \in BOOLEAN : h <=> i \in p.headers
  OBVIOUS
<1>11. PICK d : d = IF k = "flv" /\ ok THEN Given(tbl[i], p, h) ELSE tbl[i]
  OBVIOUS
<1>12. /\ d \in ClientRecords /\ d.stream = s /\ d.pending = 1 /\ d.detached = tbl[i].detached
       /\ d.config = tbl[i].config
       /\ k = "flv" /\ ok => /\ d.cfg = p.frame.cfg /\ d.genTag = p.epoch
                             /\ d.hdr = IF i \in p.headers THEN p.hdr ELSE tbl[i].hdr
                             /\ d.genHdr = IF i \in p.headers THEN p.epoch ELSE tbl[i].genHdr
       /\ ~(k = "flv" /\ ok) => d = tbl[i]
  <2>1. CASE k = "flv" /\ ok
    BY <1>5, <1>7, <1>9, <1>10, <1>11, <2>1, GivenFacts
  <2>2. CASE ~(k = "flv" /\ ok)
    BY <1>7, <1>9, <1>11, <2>2
  <2> QED BY <2>1, <2>2
<1>13. PICK told : told = [tbl EXCEPT ![i] = d]
  OBVIOUS
<1>14. /\ IsTable(told) /\ DOMAIN told = DOMAIN tbl /\ told[i] = d
       /\ \A j \in DOMAIN tbl : j # i => told[j] = tbl[j]
  BY <1>6, <1>7, <1>12, <1>13 DEF IsTable
<1>15. PICK new : new = ReleaseWrite(told, i)
  OBVIOUS
<1>16. clients' = [clients EXCEPT ![k] = new]
  <2>1. h = (i \in p.headers)
    BY <1>10
  <2>2. told = IF k = "flv" /\ ok /\ i \in DOMAIN tbl
               THEN [tbl EXCEPT ![i] = Given(@, p, i \in p.headers)] ELSE tbl
    <3>1. CASE k = "flv" /\ ok
      BY <1>7, <1>11, <1>13, <2>1, <3>1
    <3>2. CASE ~(k = "flv" /\ ok)
      <4>1. told = [tbl EXCEPT ![i] = tbl[i]]
        BY <1>11, <1>13, <3>2
      <4>2. told = tbl
        BY <1>6, <1>7, <4>1 DEF IsTable
      <4> QED BY <3>2, <4>2
    <3> QED BY <3>1, <3>2
  <2> QED BY <1>4, <1>15, <2>2
<1>17. /\ IsTable(new) /\ DOMAIN new \subseteq DOMAIN tbl /\ DOMAIN tbl \ {i} \subseteq DOMAIN new
       /\ \A j \in DOMAIN new : j # i => new[j] = tbl[j]
       /\ i \in DOMAIN new => SameClient([d EXCEPT !.pending = 0], new[i]) /\ ~new[i].detached
  <2>1. i \in DOMAIN told /\ told[i].pending = 1
    BY <1>7, <1>12, <1>14
  <2>2. /\ IsTable(new) /\ DOMAIN new \subseteq DOMAIN told /\ DOMAIN told \ {i} \subseteq DOMAIN new
        /\ \A j \in DOMAIN new : j # i => new[j] = told[j]
        /\ i \in DOMAIN new =>
              SameClient([told[i] EXCEPT !.pending = 0], new[i]) /\ ~new[i].detached
    BY <1>14, <1>15, <2>1, ReleaseFits
  <2> QED BY <1>14, <2>2
<1>18. PICK q : q = [p EXCEPT !.writes = @ \ {i}, !.failed = IF ok THEN @ ELSE @ \cup {i}]
  OBVIOUS
<1>19. /\ q \in PushRecords /\ SameCall(p, q) /\ q.headers = p.headers
       /\ q.writes = p.writes \ {i} /\ q.failed = (IF ok THEN p.failed ELSE p.failed \cup {i})
  <2>1. PICK w \in SUBSET Nat : w = p.writes \ {i}
    BY <1>5
  <2>2. PICK x \in SUBSET Nat : x = IF ok THEN p.failed ELSE p.failed \cup {i}
    BY <1>5, <1>7
  <2>3. q = [p EXCEPT !.writes = w, !.failed = x]
    BY <1>18, <2>1, <2>2
  <2> QED BY <1>4, <1>5, <2>1, <2>2, <2>3 DEF PushRecords, SameCall
<1>20. KindOf(q) = k
  BY <1>2, <1>19 DEF SameCall, KindOf
<1>21. WritesFit(q, nextClient)
  <2>1. i \in 1..nextClient[k] - 1
    BY <1>3, <1>5, <1>7 DEF TracksInv, NumbersTaken
  <2>2. /\ p.writes \cap p.failed = {} /\ p.failed \subseteq 1..nextClient[k] - 1
        /\ p.writes # {} /\ p.frame.codec # "mjpeg" => p.frame.codec = "h264" /\ p.hdr # NoParams
    BY <1>2, <1>5 DEF WritesFit
  <2> QED BY <1>19, <1>20, <2>1, <2>2 DEF WritesFit, SameCall
<1>22. ASSUME NEW j \in DOMAIN new, new[j].stream = s, j # i
       PROVE  /\ new[j].pending = IF j \in q.writes THEN 1 ELSE 0
              /\ new[j].detached => new[j].pending > 0
              /\ k = "flv" => FlvFits(j, new[j], q, track[s], epoch[s])
  <2>1. j \in DOMAIN tbl /\ new[j] = tbl[j] /\ tbl[j].stream = s
    BY <1>17, <1>22
  <2>2. j \in q.writes <=> j \in p.writes
    BY <1>19, <1>22
  <2>3. k = "flv" => FlvFits(j, tbl[j], q, track[s], epoch[s])
    <3>1. ASSUME k = "flv" PROVE FlvFits(j, tbl[j], q, track[s], epoch[s])
      <4>1. FlvFits(j, tbl[j], p, track[s], epoch[s])
        BY <1>8, <2>1, <3>1
      <4>2. Owed(j, p) => Owed(j, q)
        BY <1>2, <1>19, <1>20, <1>22 DEF Owed
      <4>3. Carries(q) <=> Carries(p)
        BY <1>4, <1>19 DEF Carries, SameCall
      <4> QED BY <1>2, <1>19, <1>20, <2>2, <4>1, <4>2, <4>3 DEF FlvFits, KnowsStream, SameCall
    <3> QED BY <3>1
  <2> QED BY <1>8, <2>1, <2>2, <2>3
<1>23. ASSUME i \in DOMAIN new
       PROVE  /\ new[i].stream = s /\ new[i].pending = 0 /\ ~new[i].detached
              /\ k = "flv" => FlvFits(i, new[i], q, track[s], epoch[s])
  <2>1. PICK c : c = new[i]
    OBVIOUS
  <2>2. /\ c.stream = s /\ c.pending = 0 /\ ~c.detached /\ ~tbl[i].detached
        /\ c.config = d.config /\ c.hdr = d.hdr /\ c.cfg = d.cfg
        /\ c.genHdr = d.genHdr /\ c.genTag = d.genTag
    <3>1. PICK x : x = [d EXCEPT !.pending = 0]
      OBVIOUS
    <3>2. /\ x.stream = s /\ x.pending = 0 /\ x.detached = d.detached
          /\ x.config = d.config /\ x.hdr = d.hdr /\ x.cfg = d.cfg
          /\ x.genHdr = d.genHdr /\ x.genTag = d.genTag
      BY <1>12, <3>1 DEF ClientRecords
    <3>3. SameClient(x, c) /\ ~c.detached
      BY <1>17, <1>23, <2>1, <3>1
    <3> QED BY <1>12, <3>2, <3>3 DEF SameClient
  <2>3. ASSUME k = "flv" PROVE FlvFits(i, c, q, track[s], epoch[s])
    <3>1. FlvFits(i, tbl[i], p, track[s], epoch[s])
      BY <1>7, <1>8, <2>3
    <3>2. CASE ok
      <4>1. p.frame.codec = "h264" /\ p.hdr # NoParams
        BY <1>2, <1>4, <1>5, <2>3 DEF WritesFit, KindOf
      <4>2. /\ c.cfg = p.frame.cfg /\ c.genTag = p.epoch /\ c.config = tbl[i].config
            /\ c.hdr = IF i \in p.headers THEN p.hdr ELSE tbl[i].hdr
            /\ c.genHdr = IF i \in p.headers THEN p.epoch ELSE tbl[i].genHdr
        BY <1>12, <2>2, <2>3, <3>2
      <4>3. i \notin q.writes /\ KindOf(p) = "flv"
        BY <1>2, <1>19, <2>3
      <4> QED BY <1>4, <1>5, <1>7, <1>9, <1>19, <2>2, <3>1, <4>1, <4>2, <4>3, GivenFits
    <3>3. CASE ~ok
      <4>1. /\ c.hdr = tbl[i].hdr /\ c.cfg = tbl[i].cfg /\ c.genHdr = tbl[i].genHdr
            /\ c.genTag = tbl[i].genTag
        BY <1>12, <2>2, <3>3
      <4>2. Owed(i, q) /\ i \notin q.writes
        BY <1>19, <1>20, <2>3, <3>3 DEF Owed
      <4> QED BY <2>2, <3>1, <4>1, <4>2 DEF FlvFits
    <3> QED BY <3>2, <3>3
  <2> QED BY <2>1, <2>2, <2>3
<1>24. Written(tbl, new, k, s, q, track[s], epoch[s])
  <2>1. \A j \in DOMAIN tbl : j \notin DOMAIN new => tbl[j].stream = s
    BY <1>7, <1>17
  <2>2. \A j \in q.writes : j \in DOMAIN new /\ new[j].stream = s
    BY <1>6, <1>17, <1>19
  <2>3. ASSUME NEW j \in DOMAIN new
        PROVE  /\ new[j].stream = tbl[j].stream
               /\ new[j].stream # s => new[j] = tbl[j]
               /\ new[j].stream = s =>
                     /\ new[j].pending = IF j \in q.writes THEN 1 ELSE 0
                     /\ new[j].detached => new[j].pending > 0
                     /\ k = "flv" => FlvFits(j, new[j], q, track[s], epoch[s])
    <3>1. CASE j = i
      <4>1. i \notin q.writes
        BY <1>19
      <4> QED BY <1>7, <1>23, <3>1, <4>1
    <3>2. CASE j # i
      BY <1>17, <1>22, <3>2
    <3> QED BY <3>1, <3>2
  <2> QED BY <1>17, <2>1, <2>2, <2>3 DEF Written
<1>25. /\ push' = [push EXCEPT ![s] = q] /\ UNCHANGED <<mphase, track, epoch, enc, nextClient, joining>>
  <2>1. PICK w : w = p.writes \ {i}
    OBVIOUS
  <2>2. PICK x : x = IF ok THEN p.failed ELSE p.failed \cup {i}
    OBVIOUS
  <2>3. q = [p EXCEPT !.writes = w, !.failed = x]
    BY <1>18, <2>1, <2>2
  <2>4. push \in [Tracks -> PushRecords]
    BY DEF TracksInv, MediaShape
  <2>5. push' = [push EXCEPT ![s] = [p EXCEPT !.writes = w, !.failed = x]]
    BY <1>1, <1>4, <2>1, <2>2, <2>4 DEF PushRecords
  <2> QED BY <1>4, <2>3, <2>5
<1>26. SameCall(push[s], q) /\ k = KindOf(push[s]) /\ Written(clients[k], new, k, s, q, track[s], epoch[s])
  BY <1>1, <1>2, <1>3, <1>19, <1>24
<1> QED BY <1>5, <1>16, <1>19, <1>21, <1>25, <1>26, WriteStep
\* The clients whose sinks failed are detached one by one, then the call ends.
LEMMA DetachFailedPreserves ==
    ASSUME TracksInv, NEW s \in Tracks, DetachFailed(s)
    PROVE  TracksInv'
<1>1. PICK p : p = push[s]
  OBVIOUS
<1>2. PICK k \in Kinds : k = KindOf(p)
  BY DEF KindOf, Kinds
<1>3. /\ p.pc = "writing" /\ p.writes = {}
      /\ UNCHANGED <<mphase, track, epoch, enc, nextClient, joining>>
  BY <1>1 DEF DetachFailed
<1>4. /\ p \in PushRecords /\ FrameFits(p, track[s], enc[s]) /\ PacketFits(p, track[s], epoch[s])
      /\ WritesFit(p, nextClient) /\ p.failed \in SUBSET Nat
      /\ push \in [Tracks -> PushRecords]
  <2>1. push \in [Tracks -> PushRecords]
    BY DEF TracksInv, MediaShape
  <2> QED BY <1>1, <2>1, StreamFacts DEF PushRecords
<1>5. /\ clients \in [Kinds -> {clients["flv"], clients["mjpeg"]}] /\ Kinds = {"flv", "mjpeg"}
      /\ \A j \in Kinds : Thinned(clients[j], clients[j])
  BY TableFacts DEF TracksInv, MediaShape, Kinds
<1>6. \/ p.failed = {} /\ push' = [push EXCEPT ![s] = Idle] /\ clients' = clients
      \/ \E i \in p.failed : /\ clients' = [clients EXCEPT ![k] = DetachIn(@, {i})]
                             /\ push' = [push EXCEPT ![s].failed = @ \ {i}]
  BY <1>1, <1>2 DEF DetachFailed
<1>7. CASE p.failed = {} /\ push' = [push EXCEPT ![s] = Idle] /\ clients' = clients
  <2>1. Idle \in PushRecords /\ NoWrites(Idle) /\ Idle.pc = "idle"
    BY IdleFacts, Zenon
  <2>2. NoWrites(push[s]) /\ WritesFit(Idle, nextClient)
    BY <1>1, <1>3, <1>7, <2>1, NoWritesFit DEF NoWrites
  <2>3. /\ FrameFits(Idle, track[s], enc[s]) /\ PacketFits(Idle, track[s], epoch[s])
        /\ CallMoves(push[s], Idle, track[s], epoch[s])
    BY <1>3, <1>4, <2>1 DEF FrameFits, PacketFits, CallMoves, Carries
  <2> QED BY <1>3, <1>5, <1>7, <2>1, <2>2, <2>3, QuietStep
<1>8. CASE \E i \in p.failed : /\ clients' = [clients EXCEPT ![k] = DetachIn(@, {i})]
                               /\ push' = [push EXCEPT ![s].failed = @ \ {i}]
  <2>1. PICK i \in p.failed : /\ clients' = [clients EXCEPT ![k] = DetachIn(@, {i})]
                              /\ push' = [push EXCEPT ![s].failed = @ \ {i}]
    BY <1>8
  <2>2. PICK x \in SUBSET Nat : x = p.failed \ {i}
    BY <1>4
  <2>3. PICK q : q = [p EXCEPT !.failed = x]
    OBVIOUS
  <2>4. push' = [push EXCEPT ![s] = q]
    BY <1>1, <1>4, <2>1, <2>2, <2>3 DEF PushRecords
  <2>5. /\ q \in PushRecords /\ q.pc = p.pc /\ q.frame = p.frame /\ q.config = p.config
        /\ q.hdr = p.hdr /\ q.epoch = p.epoch /\ q.writes = {} /\ q.failed = x
    BY <1>3, <1>4, <2>2, <2>3 DEF PushRecords
  <2>6. KindOf(q) = k /\ (Carries(q) <=> Carries(p))
    BY <1>2, <2>5 DEF KindOf, Carries
  <2>7. /\ FrameFits(q, track[s], enc[s]) /\ PacketFits(q, track[s], epoch[s])
        /\ CallMoves(push[s], q, track[s], epoch[s])
    BY <1>1, <1>4, <2>5, <2>6 DEF FrameFits, PacketFits, CallMoves
  <2>8. WritesFit(q, nextClient)
    BY <1>2, <1>3, <1>4, <2>2, <2>5, <2>6 DEF WritesFit
  <2>9. PICK new : new = DetachIn(clients[k], {i})
    OBVIOUS
  <2>10. Thinned(clients[k], new) /\ \A j \in DOMAIN new : j \in {i} => new[j].detached
    BY <2>9, TableFacts, DetachInThins
  <2>11. /\ clients' \in [Kinds -> {clients'["flv"], clients'["mjpeg"]}]
         /\ clients'[k] = new /\ \A j \in Kinds : j # k => clients'[j] = clients[j]
    BY <1>5, <2>1, <2>9
  <2>12. ASSUME NEW j \in Kinds PROVE Thinned(clients[j], clients'[j])
    BY <1>5, <2>10, <2>11
  <2>13. ASSUME NEW j \in DOMAIN clients'["flv"], clients'["flv"][j].stream = s, Owed(j, push[s])
         PROVE  Owed(j, q)
    <3>1. k = "flv" /\ j \in p.failed
      BY <1>1, <1>2, <1>3, <2>13 DEF Owed
    <3>2. j # i
      <4>1. SUFFICES ASSUME j = i PROVE FALSE
        OBVIOUS
      <4>2. j \in DOMAIN new /\ new[j].detached /\ new[j].stream = s
        BY <2>10, <2>11, <2>13, <3>1, <4>1
      <4>3. /\ j \in DOMAIN clients[k] /\ clients[k][j].stream = s
            /\ clients[k][j].pending = new[j].pending /\ new[j].pending > 0
        BY <2>10, <4>2 DEF Thinned, SameClient
      <4>4. clients[k][j].pending = IF j \in push[s].writes THEN 1 ELSE 0
        BY <1>1, <1>2, <4>3, UnleasedFacts
      <4> QED BY <1>1, <1>3, <4>3, <4>4
    <3> QED BY <2>2, <2>5, <2>6, <3>1, <3>2 DEF Owed
  <2>14. push[s].writes = {} /\ q.writes = {}
    BY <1>1, <1>3, <2>5
  <2> QED BY <1>3, <2>4, <2>5, <2>7, <2>8, <2>11, <2>12, <2>13, <2>14, CallStep
<1> QED BY <1>6, <1>7, <1>8

\* DetachFlvClient and DetachMjpegClient.
LEMMA DetachClientPreserves ==
    ASSUME TracksInv, NEW k \in Kinds, DetachClient(k)
    PROVE  TracksInv'
<1>1. PICK i \in DOMAIN clients[k] :
        /\ clients' = [clients EXCEPT ![k] = DetachIn(@, {i})]
        /\ UNCHANGED <<mphase, track, epoch, enc, nextClient, joining, push>>
  BY DEF DetachClient
<1>2. PICK s \in Tracks : s = clients[k][i].stream
  <2>1. clients[k][i] \in ClientRecords
    BY <1>1, TableFacts DEF IsTable
  <2> QED BY <2>1 DEF ClientRecords
<1>3. push \in [Tracks -> PushRecords] /\ push' = [push EXCEPT ![s] = push[s]]
  BY <1>1 DEF TracksInv, MediaShape
<1>4. PICK new : new = DetachIn(clients[k], {i})
  OBVIOUS
<1>5. Thinned(clients[k], new)
  BY <1>4, TableFacts, DetachInThins
<1>6. /\ clients \in [Kinds -> {clients["flv"], clients["mjpeg"]}] /\ Kinds = {"flv", "mjpeg"}
      /\ \A j \in Kinds : Thinned(clients[j], clients[j])
  BY TableFacts DEF TracksInv, MediaShape, Kinds
<1>7. /\ clients' \in [Kinds -> {clients'["flv"], clients'["mjpeg"]}]
      /\ clients'[k] = new /\ \A j \in Kinds : j # k => clients'[j] = clients[j]
  BY <1>1, <1>4, <1>6
<1>8. ASSUME NEW j \in Kinds PROVE Thinned(clients[j], clients'[j])
  BY <1>5, <1>6, <1>7
<1>9. /\ push[s] \in PushRecords /\ FrameFits(push[s], track[s], enc[s])
      /\ PacketFits(push[s], track[s], epoch[s]) /\ WritesFit(push[s], nextClient)
      /\ CallMoves(push[s], push[s], track[s], epoch[s])
  BY StreamFacts, StillMoves
<1> QED BY <1>1, <1>3, <1>7, <1>8, <1>9, QuietStep
\* A new entry gets a number that no call and no entry has.
LEMMA AttachStep ==
    ASSUME TracksInv, UNCHANGED <<mphase, track, epoch, enc, push>>,
           joining' \subseteq joining,
           NEW k \in Kinds, NEW c \in ClientRecords,
           clients' = [clients EXCEPT ![k] = WithClient(@, nextClient[k], c)],
           nextClient' = [nextClient EXCEPT ![k] = @ + 1],
           ~c.detached, c.pending = 0,
           k = "flv" =>
              /\ c.genHdr <= epoch[c.stream] /\ c.cfg = c.hdr
              /\ KnowsStream(c.genHdr, c.config, c.hdr, push[c.stream], track[c.stream], epoch[c.stream])
              /\ ~(track[c.stream].state = "running" /\ track[c.stream].codec # "h264")
    PROVE  TracksInv'
<1>1. /\ nextClient \in [Kinds -> Nat \ {0}] /\ Kinds = {"flv", "mjpeg"}
      /\ clients \in [Kinds -> {clients["flv"], clients["mjpeg"]}]
      /\ joining \in SUBSET JoinRecords
  BY DEF TracksInv, MediaShape, Kinds
<1>2. PICK n \in Nat \ {0} : n = nextClient[k]
  BY <1>1
<1>3. PICK tbl : tbl = clients[k]
  OBVIOUS
<1>4. IsTable(tbl) /\ DOMAIN tbl \subseteq 1..n - 1 /\ n \notin DOMAIN tbl
  BY <1>2, <1>3, TableFacts DEF TracksInv, NumbersTaken
<1>5. PICK new : new = WithClient(tbl, n, c)
  OBVIOUS
<1>6. /\ DOMAIN new = DOMAIN tbl \cup {n} /\ new[n] = c
      /\ \A i \in DOMAIN tbl : new[i] = tbl[i]
      /\ IsTable(new)
  <2>1. /\ DOMAIN new = DOMAIN tbl \cup {n} /\ new[n] = c
        /\ \A i \in DOMAIN tbl : new[i] = tbl[i]
        /\ new = [i \in DOMAIN tbl \cup {n} |-> IF i = n THEN c ELSE tbl[i]]
    BY <1>4, <1>5 DEF WithClient
  <2>2. \A i \in DOMAIN tbl : tbl[i] \in ClientRecords /\ i \in Nat
    BY <1>4 DEF IsTable
  <2>3. new \in [DOMAIN new -> ClientRecords]
    BY <2>1, <2>2
  <2> QED BY <1>4, <2>1, <2>2, <2>3 DEF IsTable
<1>7. /\ clients' \in [Kinds -> {clients'["flv"], clients'["mjpeg"]}]
      /\ clients'[k] = new /\ \A j \in Kinds : j # k => clients'[j] = clients[j]
  BY <1>1, <1>2, <1>3, <1>5
<1>8. /\ nextClient' \in [Kinds -> Nat \ {0}] /\ nextClient'[k] = n + 1
      /\ \A j \in Kinds : j # k => nextClient'[j] = nextClient[j]
  BY <1>1, <1>2
<1>9. MediaShape'
  <2>1. IsTable(clients'["flv"]) /\ IsTable(clients'["mjpeg"])
    BY <1>1, <1>6, <1>7, TableFacts
  <2>2. joining' \in SUBSET JoinRecords
    BY <1>1
  <2> QED BY <1>7, <1>8, <2>1, <2>2 DEF TracksInv, MediaShape
<1>10. ASSUME NEW s \in Tracks, KindOf(push[s]) = k
       PROVE  n \notin push[s].writes
  BY <1>3, <1>4, <1>10 DEF TracksInv, Leased
<1>11. PushesFit(push, track, epoch, enc, nextClient')
  <2> SUFFICES ASSUME NEW s \in Tracks
               PROVE  /\ FrameFits(push[s], track[s], enc[s])
                      /\ PacketFits(push[s], track[s], epoch[s])
                      /\ WritesFit(push[s], nextClient')
    BY DEF PushesFit
  <2>1. PICK j \in Kinds : j = KindOf(push[s])
    BY DEF KindOf, Kinds
  <2>2. 1..nextClient[j] - 1 \subseteq 1..nextClient'[j] - 1
    BY <1>1, <1>2, <1>8
  <2>3. push[s].failed \subseteq 1..nextClient'[KindOf(push[s])] - 1
    BY <2>1, <2>2, StreamFacts DEF WritesFit
  <2>4. WritesFit(push[s], nextClient')
    BY <2>3, StreamFacts DEF WritesFit
  <2> QED BY <2>4, StreamFacts
<1>12. Leased(clients', push)
  <2>1. ASSUME NEW s \in Tracks, NEW i \in push[s].writes
        PROVE  i \in DOMAIN clients'[KindOf(push[s])] /\ clients'[KindOf(push[s])][i].stream = s
    <3>1. PICK j \in Kinds : j = KindOf(push[s])
      BY DEF KindOf, Kinds
    <3>2. i \in DOMAIN clients[j] /\ clients[j][i].stream = s
      BY <2>1, <3>1 DEF TracksInv, Leased
    <3>3. CASE j = k
      BY <1>3, <1>6, <1>7, <3>1, <3>2, <3>3
    <3>4. CASE j # k
      BY <1>7, <3>1, <3>2, <3>4
    <3> QED BY <3>3, <3>4
  <2>2. ASSUME NEW j \in Kinds, NEW i \in DOMAIN clients'[j]
        PROVE  /\ clients'[j][i].pending = IF LeasedBy(push, j, i, clients'[j][i].stream) THEN 1 ELSE 0
               /\ clients'[j][i].detached => clients'[j][i].pending > 0
    <3>1. CASE j = k /\ i = n
      <4>1. c.stream \in Tracks /\ clients'[j][i] = c
        BY <1>6, <1>7, <3>1 DEF ClientRecords
      <4>2. ~LeasedBy(push, j, i, c.stream)
        BY <1>10, <3>1, <4>1 DEF LeasedBy
      <4> QED BY <4>1, <4>2
    <3>2. CASE ~(j = k /\ i = n)
      <4>1. i \in DOMAIN clients[j] /\ clients'[j][i] = clients[j][i]
        BY <1>3, <1>6, <1>7, <2>2, <3>2
      <4> QED BY <4>1 DEF TracksInv, Leased
    <3> QED BY <3>1, <3>2
  <2> QED BY <2>1, <2>2 DEF Leased
<1>13. NumbersTaken(clients', nextClient')
  <2> SUFFICES ASSUME NEW j \in Kinds PROVE DOMAIN clients'[j] \subseteq 1..nextClient'[j] - 1
    BY DEF NumbersTaken
  <2>1. CASE j = k
    BY <1>2, <1>4, <1>6, <1>7, <1>8, <2>1
  <2>2. CASE j # k
    BY <1>7, <1>8, <2>2 DEF TracksInv, NumbersTaken
  <2> QED BY <2>1, <2>2
<1>14. FlvsFit(clients'["flv"], push, track, epoch)
  <2> SUFFICES ASSUME NEW i \in DOMAIN clients'["flv"]
               PROVE  FlvFits(i, clients'["flv"][i], push[clients'["flv"][i].stream],
                              track[clients'["flv"][i].stream], epoch[clients'["flv"][i].stream])
    BY DEF FlvsFit
  <2>1. CASE k = "flv" /\ i = n
    <3>1. PICK s \in Tracks : s = c.stream
      BY DEF ClientRecords
    <3>2. clients'["flv"][i] = c
      BY <1>6, <1>7, <2>1
    <3>3. KindOf(push[s]) = "flv" => i \notin push[s].writes
      BY <1>10, <2>1
    <3>4. FlvFits(i, c, push[s], track[s], epoch[s])
      BY <2>1, <3>1, <3>3 DEF FlvFits
    <3> QED BY <3>1, <3>2, <3>4
  <2>2. CASE ~(k = "flv" /\ i = n)
    <3>1. i \in DOMAIN clients["flv"] /\ clients'["flv"][i] = clients["flv"][i]
      BY <1>1, <1>3, <1>6, <1>7, <2>2
    <3> QED BY <3>1 DEF TracksInv, FlvsFit
  <2> QED BY <2>1, <2>2
<1>15. JoinersFit(joining', push, track, epoch)
  BY DEF TracksInv, JoinersFit
<1>16. /\ TracksFit(track, mphase)'
       /\ PushesFit(push, track, epoch, enc, nextClient)'
       /\ Leased(clients, push)' /\ NumbersTaken(clients, nextClient)'
       /\ FlvsFit(clients["flv"], push, track, epoch)'
       /\ JoinersFit(joining, push, track, epoch)'
  BY <1>11, <1>12, <1>13, <1>14, <1>15 DEF TracksInv
<1> QED BY <1>9, <1>16 DEF TracksInv

\* GetFlvStart takes the header and its number under one lock.
LEMMA GetStartPreserves ==
    ASSUME TracksInv, NEW s \in Tracks, GetFlvStart(s)
    PROVE  TracksInv'
<1>1. PICK w \in BOOLEAN : w <=> (~track[s].gop.complete \/ track[s].gop.tags = <<>>)
  OBVIOUS
<1>2. PICK j : j = [stream |-> s, config |-> track[s].config, hdr |-> track[s].hdr,
                    epoch |-> epoch[s],
                    wait |-> ~track[s].gop.complete \/ track[s].gop.tags = <<>>]
  OBVIOUS
<1>3. /\ joining' = {j} /\ track[s].hdr # NoParams
      /\ UNCHANGED <<mphase, track, epoch, enc, clients, nextClient, push>>
  BY <1>2 DEF GetFlvStart
<1>4. j = [stream |-> s, config |-> track[s].config, hdr |-> track[s].hdr, epoch |-> epoch[s], wait |-> w]
  BY <1>1, <1>2
<1>5. /\ epoch[s] \in Nat /\ track[s].config \in Nat /\ track[s].hdr \in Params
      /\ PacketFits(push[s], track[s], epoch[s]) /\ push[s].epoch \in Nat
  BY StreamFacts DEF PushRecords
<1>6. /\ j \in JoinRecords /\ j.stream = s /\ j.epoch = epoch[s] /\ j.config = track[s].config
      /\ j.hdr = track[s].hdr
  BY <1>4, <1>5 DEF JoinRecords
<1>7. KnowsStream(j.epoch, j.config, j.hdr, push[s], track[s], epoch[s])
  BY <1>5, <1>6 DEF KnowsStream, Knows, PacketFits
<1>8. JoinersFit({j}, push, track, epoch)
  BY <1>3, <1>5, <1>6, <1>7 DEF JoinersFit
<1>9. MediaShape'
  BY <1>3, <1>6 DEF TracksInv, MediaShape
<1>10. /\ TracksFit(track, mphase)'
       /\ PushesFit(push, track, epoch, enc, nextClient)'
       /\ Leased(clients, push)' /\ NumbersTaken(clients, nextClient)'
       /\ FlvsFit(clients["flv"], push, track, epoch)'
       /\ JoinersFit(joining, push, track, epoch)'
  BY <1>3, <1>8 DEF TracksInv
<1> QED BY <1>9, <1>10 DEF TracksInv

\* AttachFlvClient: what the request was given still belongs to its number.
LEMMA AttachFlvPreserves ==
    ASSUME TracksInv, AttachFlvClient
    PROVE  TracksInv'
<1>1. PICK j \in joining :
        /\ joining' = {} /\ UNCHANGED <<mphase, track, epoch, enc, push>>
        /\ \/ UNCHANGED <<clients, nextClient>>
           \/ /\ FlvReady(track[j.stream])
              /\ clients' = [clients EXCEPT !["flv"] = WithClient(@, nextClient["flv"],
                   [stream |-> j.stream, config |-> j.config, wait |-> j.wait, detached |-> FALSE,
                    pending |-> 0, hdr |-> j.hdr, cfg |-> j.hdr, genHdr |-> j.epoch,
                    genTag |-> j.epoch])]
              /\ nextClient' = [nextClient EXCEPT !["flv"] = @ + 1]
  BY DEF AttachFlvClient, NotJoining
<1>2. PICK c : c = [stream |-> j.stream, config |-> j.config, wait |-> j.wait, detached |-> FALSE,
                    pending |-> 0, hdr |-> j.hdr, cfg |-> j.hdr, genHdr |-> j.epoch,
                    genTag |-> j.epoch]
  OBVIOUS
<1>3. /\ j \in JoinRecords /\ j.stream \in Tracks /\ j.epoch <= epoch[j.stream]
      /\ KnowsStream(j.epoch, j.config, j.hdr, push[j.stream], track[j.stream], epoch[j.stream])
  BY <1>1 DEF TracksInv, MediaShape, JoinersFit, JoinRecords
<1>4. CASE UNCHANGED <<clients, nextClient>>
  <2>1. JoinersFit(joining', push, track, epoch)
    BY <1>1 DEF JoinersFit
  <2>2. MediaShape'
    BY <1>1, <1>4 DEF TracksInv, MediaShape
  <2>3. /\ TracksFit(track, mphase)'
        /\ PushesFit(push, track, epoch, enc, nextClient)'
        /\ Leased(clients, push)' /\ NumbersTaken(clients, nextClient)'
        /\ FlvsFit(clients["flv"], push, track, epoch)'
        /\ JoinersFit(joining, push, track, epoch)'
    BY <1>1, <1>4, <2>1 DEF TracksInv
  <2> QED BY <2>2, <2>3 DEF TracksInv
<1>5. CASE /\ FlvReady(track[j.stream])
           /\ clients' = [clients EXCEPT !["flv"] = WithClient(@, nextClient["flv"], c)]
           /\ nextClient' = [nextClient EXCEPT !["flv"] = @ + 1]
  <2>1. /\ c \in ClientRecords /\ ~c.detached /\ c.pending = 0 /\ c.stream = j.stream
        /\ c.genHdr = j.epoch /\ c.cfg = c.hdr /\ c.hdr = j.hdr /\ c.config = j.config
    BY <1>2, <1>3 DEF ClientRecords, JoinRecords
  <2>2. track[c.stream].codec = "h264"
    BY <1>5, <2>1 DEF FlvReady, FlvCodec
  <2>3. "flv" \in Kinds /\ joining' \subseteq joining
    BY <1>1 DEF Kinds
  <2> QED BY <1>1, <1>3, <1>5, <2>1, <2>2, <2>3, AttachStep
<1> QED BY <1>1, <1>2, <1>4, <1>5

\* AttachMjpegClient.
LEMMA AttachMjpegPreserves ==
    ASSUME TracksInv, NEW s \in Tracks, AttachMjpegClient(s)
    PROVE  TracksInv'
<1>1. PICK c : c = [stream |-> s, config |-> 0, wait |-> FALSE, detached |-> FALSE, pending |-> 0,
                    hdr |-> NoParams, cfg |-> NoParams, genHdr |-> 0, genTag |-> 0]
  OBVIOUS
<1>2. /\ clients' = [clients EXCEPT !["mjpeg"] = WithClient(@, nextClient["mjpeg"], c)]
      /\ nextClient' = [nextClient EXCEPT !["mjpeg"] = @ + 1]
      /\ UNCHANGED <<mphase, track, epoch, enc, joining, push>>
  BY <1>1 DEF AttachMjpegClient
<1>3. c \in ClientRecords /\ ~c.detached /\ c.pending = 0
  BY <1>1 DEF ClientRecords, Params
<1>4. "mjpeg" \in Kinds /\ joining' \subseteq joining
  BY <1>2 DEF Kinds
<1> QED BY <1>2, <1>3, <1>4, AttachStep

-----------------------------------------------------------------------------
(* The invariant *)

\* Nothing is attached, cached or in progress at first.
LEMMA TracksInit ==
    ASSUME MediaInit
    PROVE  TracksInv
<1> USE DEF MediaInit
<1>1. /\ ClosedTrack \in TrackRecords /\ ClosedTrack.hdr = NoParams /\ ClosedTrack.config = 0
      /\ ClosedTrack.gop = EmptyGop /\ ClosedTrack.state = "closed"
  BY EmptyGopFits DEF ClosedTrack, TrackRecords, Params, CodecNames, Reasons
<1>2. TrackFits(ClosedTrack)
  BY <1>1, CleanTrackFits
<1>3. Idle \in PushRecords /\ NoWrites(Idle) /\ Idle.pc = "idle"
  BY IdleFacts, Zenon
<1>4. \A k \in Kinds : clients[k] = <<>>
  OBVIOUS
<1>5. /\ "flv" \in Kinds /\ "mjpeg" \in Kinds /\ Kinds = {"flv", "mjpeg"}
      /\ IsTable(<<>>) /\ DOMAIN <<>> = {}
  BY DEF Kinds, IsTable
<1>6. MediaShape
  <2>1. track \in [Tracks -> TrackRecords] /\ push \in [Tracks -> PushRecords]
    BY <1>1, <1>3 DEF ClearTracks
  <2>2. enc \in [Tracks -> Params]
    BY DEF Params
  <2>3. clients \in [Kinds -> {clients["flv"], clients["mjpeg"]}]
    BY <1>4, <1>5
  <2>4. IsTable(clients["flv"]) /\ IsTable(clients["mjpeg"])
    BY <1>4, <1>5
  <2> QED BY <2>1, <2>2, <2>3, <2>4 DEF MediaShape, NotJoining
<1>7. TracksFit(track, mphase)
  BY <1>1, <1>2 DEF TracksFit, ClearTracks
<1>8. PushesFit(push, track, epoch, enc, nextClient)
  <2> SUFFICES ASSUME NEW s \in Tracks
               PROVE  /\ FrameFits(push[s], track[s], enc[s])
                      /\ PacketFits(push[s], track[s], epoch[s])
                      /\ WritesFit(push[s], nextClient)
    BY DEF PushesFit
  <2>1. push[s] = Idle /\ track[s] = ClosedTrack
    BY DEF ClearTracks
  <2>2. WritesFit(Idle, nextClient)
    BY <1>3, NoWritesFit
  <2> QED BY <1>1, <1>3, <2>1, <2>2 DEF FrameFits, PacketFits, Carries
<1>9. Leased(clients, push)
  <2>1. \A s \in Tracks : push[s].writes = {}
    BY <1>3 DEF NoWrites
  <2> QED BY <1>4, <1>5, <2>1 DEF Leased
<1>10. NumbersTaken(clients, nextClient) /\ FlvsFit(clients["flv"], push, track, epoch)
  BY <1>4, <1>5 DEF NumbersTaken, FlvsFit
<1>11. JoinersFit(joining, push, track, epoch)
  BY DEF JoinersFit, NotJoining
<1> QED BY <1>6, <1>7, <1>8, <1>9, <1>10, <1>11 DEF TracksInv

\* Every step preserves the invariant.
LEMMA TracksStep ==
    ASSUME TracksInv, [MediaNext]_mediaVars
    PROVE  TracksInv'
<1>1. CASE MediaStart \/ MediaStop
  BY <1>1, RestartPreserves
<1>2. CASE AttachFlvClient
  BY <1>2, AttachFlvPreserves
<1>3. ASSUME NEW k \in Kinds, DetachClient(k) PROVE TracksInv'
  BY <1>3, DetachClientPreserves
<1>4. ASSUME NEW s \in Tracks, NEW codec \in Codecs, SetStreamRunning(s, codec) PROVE TracksInv'
  BY <1>4, SetRunningPreserves
<1>5. ASSUME NEW s \in Tracks, NEW state \in {"closed", "opening", "error"}, SetStreamDown(s, state)
      PROVE  TracksInv'
  BY <1>5, SetDownPreserves
<1>6. ASSUME NEW s \in Tracks, PushFrame(s) PROVE TracksInv'
  BY <1>6, PushFramePreserves
<1>7. ASSUME NEW s \in Tracks, PushStep(s) PROVE TracksInv'
  <2>1. CASE CachePreviewFrame(s)
    BY <2>1, CachePreserves
  <2>2. CASE PackageMjpegFrame(s)
    BY <2>2, PackagePreserves
  <2>3. CASE CollectFlvWrites(s)
    BY <2>3, CollectFlvPreserves
  <2>4. CASE CollectMjpegWrites(s)
    BY <2>4, CollectMjpegPreserves
  <2>5. CASE WriteToSink(s)
    BY <2>5, WritePreserves
  <2>6. CASE DetachFailed(s)
    BY <2>6, DetachFailedPreserves
  <2> QED BY <1>7, <2>1, <2>2, <2>3, <2>4, <2>5, <2>6 DEF PushStep
<1>8. ASSUME NEW s \in Tracks, GetFlvStart(s) PROVE TracksInv'
  BY <1>8, GetStartPreserves
<1>9. ASSUME NEW s \in Tracks, AttachMjpegClient(s) PROVE TracksInv'
  BY <1>9, AttachMjpegPreserves
<1>10. CASE UNCHANGED mediaVars
  BY <1>10 DEF mediaVars, TracksInv, MediaShape
<1>11. CASE MediaNext
  BY <1>1, <1>2, <1>3, <1>4, <1>5, <1>6, <1>7, <1>8, <1>9, <1>11 DEF MediaNext
<1> QED BY <1>10, <1>11

\* A client has one pending write when the call of its stream has yet to write to it.
LEMMA LeasesCounted ==
    ASSUME TracksInv
    PROVE  LeaseExact
<1>1. ASSUME NEW k \in Kinds, NEW i \in DOMAIN clients[k]
      PROVE  /\ clients[k][i].pending = Cardinality(LeasesOf(k, i))
             /\ clients[k][i].detached => clients[k][i].pending > 0
  <2>1. PICK s \in Tracks : s = clients[k][i].stream
    <3>1. clients[k][i] \in ClientRecords
      BY TableFacts DEF IsTable
    <3> QED BY <3>1 DEF ClientRecords
  <2>2. /\ clients[k][i].pending = IF LeasedBy(push, k, i, s) THEN 1 ELSE 0
        /\ clients[k][i].detached => clients[k][i].pending > 0
    BY <2>1 DEF TracksInv, Leased
  <2>3. LeasesOf(k, i) \subseteq {s}
    BY <2>1 DEF TracksInv, Leased, LeasesOf
  <2>4. CASE LeasedBy(push, k, i, s)
    <3>1. LeasesOf(k, i) = {s}
      BY <2>3, <2>4 DEF LeasesOf, LeasedBy
    <3>2. Cardinality({s}) = 1
      BY FS_Singleton
    <3> QED BY <2>2, <2>4, <3>1, <3>2
  <2>5. CASE ~LeasedBy(push, k, i, s)
    <3>1. LeasesOf(k, i) = {}
      BY <2>3, <2>5 DEF LeasesOf, LeasedBy
    <3>2. Cardinality({}) = 0
      BY FS_EmptySet
    <3> QED BY <2>2, <2>5, <3>1, <3>2
  <2> QED BY <2>4, <2>5
<1>2. \A s \in Tracks : push[s].writes \subseteq DOMAIN clients[KindOf(push[s])]
  BY DEF TracksInv, Leased
<1> QED BY <1>1, <1>2 DEF LeaseExact

\* The invariant says what the clients are promised.
LEMMA TracksServed ==
    ASSUME TracksInv
    PROVE  TrackClientsServed
<1>1. ASSUME NEW s \in Tracks
      PROVE  /\ track[s].state \in {"closed", "opening", "running", "error"}
             /\ track[s].config \in 0..MaxConfigs + 1
             /\ track[s].hdr \in ParamSets \cup {NoParams}
             /\ push[s].pc \in {"idle", "accepted", "packaged", "writing"}
  <2>1. track[s].config \in Nat /\ track[s].config <= MaxConfigs /\ MaxConfigs \in Nat
    BY StreamFacts, MediaNumbers DEF TrackFits
  <2> QED BY <2>1, StreamFacts DEF TrackRecords, PushRecords, Params
<1>2. MediaTypeOK
  BY <1>1 DEF MediaTypeOK, TracksInv, MediaShape, NumbersTaken
<1>3. GopPlayable
  <2> SUFFICES ASSUME NEW s \in Tracks
               PROVE  LET gop == track[s].gop IN
                      /\ gop.bytes = GopBytes(gop.tags) /\ gop.bytes <= MaxFlvCachedBytes
                      /\ gop.tags # <<>> => gop.complete /\ gop.tags[1].key
                      /\ \A n \in DOMAIN gop.tags :
                            /\ gop.tags[n].cfg = track[s].hdr
                            /\ n > 1 => ~gop.tags[n].key
    BY DEF GopPlayable
  <2>1. PICK g : g = track[s].gop
    OBVIOUS
  <2>2. GopFits(g, track[s].hdr) /\ g.tags \in Seq(TagRecords)
    BY <2>1, StreamFacts DEF TrackFits, TrackRecords, GopRecords
  <2>3. DOMAIN g.tags = 1..Len(g.tags)
    BY <2>2
  <2> QED BY <2>1, <2>2, <2>3 DEF GopFits
<1>4. HeaderMatchesInGeneration /\ NoFlvOnOtherCodec
  BY DEF TracksInv, FlvsFit, FlvFits, HeaderMatchesInGeneration, NoFlvOnOtherCodec, FlvCodec
<1> QED BY <1>2, <1>3, <1>4, LeasesCounted DEF TrackClientsServed

\* The clients of a track are served whatever the interleaving of frames, resets,
\* requests and slow sinks: a sink is called only while its entry is there, entries
\* go with their last lease, and every tag follows the sequence header it needs
\* (media_streams_impl.cpp, FlvClients, MjpegClients, GopCache).
THEOREM TrackClientsServedHolds == MediaSpec => []TrackClientsServed
<1>1. MediaInit => TracksInv
  BY TracksInit
<1>2. TracksInv /\ [MediaNext]_mediaVars => TracksInv'
  BY TracksStep
<1>3. TracksInv => TrackClientsServed
  BY TracksServed
<1> QED BY <1>1, <1>2, <1>3, PTL DEF MediaSpec
=============================================================================
