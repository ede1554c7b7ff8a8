-------------------------- MODULE MediaBufferPool --------------------------
(***************************************************************************)
(* Reference-counted media buffers and the pool they come from (libs/media *)
(* media_buffer.cpp, media_buffer_pool.cpp, media_buffer_pool_blocks.cpp). *)
(*                                                                         *)
(* A pool owns PoolSize blocks.  Acquire hands one out inside a buffer     *)
(* whose references any thread copies, moves, slices and drops; the last   *)
(* drop gives the block back and then releases the buffer's reference on   *)
(* the blocks object, without a common lock.  The pool itself may be gone  *)
(* by then: the blocks object lives as long as one reference on it.        *)
(***************************************************************************)
EXTENDS Integers, Sequences, FiniteSets

CONSTANTS
    Handles,       \* MediaBufferRef variables of the program
    PoolSize,      \* pool_size_
    BlockBytes,    \* block_bytes_
    MaxAcquires    \* bound: Acquire calls

ASSUME PoolConstants == {PoolSize, BlockBytes, MaxAcquires} \subseteq Nat \ {0} /\ IsFiniteSet(Handles)

VARIABLES
    blocks,    \* the MediaBufferPoolBlocks object
    poolOpen,  \* the MediaBufferPool object still exists
    buffer,    \* MediaBuffer objects that were not deleted, by number
    handle,    \* what each MediaBufferRef refers to
    acquires   \* Acquire calls so far

poolVars == <<blocks, poolOpen, buffer, handle, acquires>>

Empty == [buf |-> 0, off |-> 0, size |-> 0]

Indices == 0..PoolSize - 1
FreeBlocks(b) == {b.free[k] : k \in DOMAIN b.free}

\* Allocate(): the free list is a stack with block 0 on top.
PoolInit ==
    /\ blocks = [refs |-> 1, deleted |-> FALSE, failures |-> 0, high |-> 0,
                 free |-> [i \in 1..PoolSize |-> PoolSize - i],
                 inUse |-> {}]
    /\ poolOpen = TRUE
    /\ buffer = <<>>
    /\ handle = [h \in Handles |-> Empty]
    /\ acquires = 0

----------------------------------------------------------------------------
(* The blocks object *)

ReleaseBlockIndex(b, i) ==
    [b EXCEPT !.inUse = @ \ {i}, !.free = Append(@, i)]

\* ReturnBlock() ignores a block that is not in use.
ReturnBlock(b, i) == IF i \in b.inUse THEN ReleaseBlockIndex(b, i) ELSE b

\* The object goes with the last reference but one.
ReleaseRefEarly(b) == [b EXCEPT !.refs = @ - 1, !.deleted = @ \/ b.refs <= 2]

\* The last reference deletes the object with its memory.
ReleaseRef(b) == [b EXCEPT !.refs = @ - 1, !.deleted = @ \/ b.refs = 1]

----------------------------------------------------------------------------
(* Buffers and references *)

AddRef(bufs, n) == IF n = 0 THEN bufs ELSE [bufs EXCEPT ![n].refs = @ + 1]

\* Dropping a reference; the thread that drops the last one goes on to
\* FreePoolBlock.
Drop(bufs, n) ==
    IF n = 0 THEN bufs
    ELSE [bufs EXCEPT ![n] = [bufs[n] EXCEPT !.refs = @ - 1,
                                             !.pc = IF bufs[n].refs = 1 THEN "return" ELSE @]]

\* Acquire into an empty reference.  Either of two small allocations may fail;
\* the block then goes straight back.
Acquire(h) == \E ok \in {"yes", "no_ref", "no_buffer"} :
    /\ poolOpen /\ handle[h] = Empty /\ acquires < MaxAcquires
    /\ acquires' = acquires + 1
    /\ IF blocks.free = <<>>
       THEN /\ ok = "yes"
            /\ blocks' = [blocks EXCEPT !.failures = @ + 1]
            /\ UNCHANGED <<buffer, handle>>
       ELSE LET i == blocks.free[Len(blocks.free)]
                used == [blocks EXCEPT !.free = SubSeq(@, 1, Len(@) - 1), !.inUse = @ \cup {i}]
                now == [used EXCEPT !.high =
                           IF PoolSize - Len(used.free) > @
                           THEN PoolSize - Len(used.free) ELSE @]
            IN  IF ok = "yes"
                THEN /\ blocks' = [now EXCEPT !.refs = @ + 1]
                     /\ buffer' = Append(buffer, [block |-> i, size |-> 0, refs |-> 1,
                                                  pc |-> "live"])
                     /\ handle' = [handle EXCEPT ![h] =
                                      [buf |-> Len(buffer) + 1, off |-> 0, size |-> 0]]
                ELSE /\ blocks' = [ReleaseBlockIndex(now, i) EXCEPT !.failures = @ + 1]
                     /\ UNCHANGED <<buffer, handle>>
    /\ UNCHANGED poolOpen

\* SetSize, Resize: a reference may grow its buffer but not past its block.
SetSize(h, n) ==
    /\ handle[h].buf # 0
    /\ n <= BlockBytes - handle[h].off
    /\ buffer' = [buffer EXCEPT ![handle[h].buf].size =
                     IF handle[h].off + n > @ THEN handle[h].off + n ELSE @]
    /\ handle' = [handle EXCEPT ![h].size = n]
    /\ UNCHANGED <<blocks, poolOpen, acquires>>

\* Copy assignment: the new buffer is retained before the old one is released.
CopyRef(g, h) ==
    /\ g # h
    /\ buffer' = Drop(AddRef(buffer, handle[g].buf), handle[h].buf)
    /\ handle' = [handle EXCEPT ![h] = handle[g]]
    /\ UNCHANGED <<blocks, poolOpen, acquires>>

MoveRef(g, h) ==
    /\ g # h
    /\ buffer' = Drop(buffer, handle[h].buf)
    /\ handle' = [handle EXCEPT ![h] = handle[g], ![g] = Empty]
    /\ UNCHANGED <<blocks, poolOpen, acquires>>

\* A part of what g refers to, put into the empty reference h.
Slice(g, h, off, n) ==
    /\ g # h /\ handle[h] = Empty /\ handle[g].buf # 0
    /\ off <= handle[g].size /\ n <= handle[g].size - off
    /\ buffer' = AddRef(buffer, handle[g].buf)
    /\ handle' = [handle EXCEPT ![h] =
                     [buf |-> handle[g].buf, off |-> handle[g].off + off, size |-> n]]
    /\ UNCHANGED <<blocks, poolOpen, acquires>>

ResetRef(h) ==
    /\ handle[h] # Empty
    /\ buffer' = Drop(buffer, handle[h].buf)
    /\ handle' = [handle EXCEPT ![h] = Empty]
    /\ UNCHANGED <<blocks, poolOpen, acquires>>

\* FreePoolBlock, in two steps: the block goes back under the pool's lock ...
GiveBack(n) ==
    /\ buffer[n].pc = "return"
    /\ blocks' = ReturnBlock(blocks, buffer[n].block)
    /\ buffer' = [buffer EXCEPT ![n].pc = "unref"]
    /\ UNCHANGED <<poolOpen, handle, acquires>>

\* ... and the reference on the blocks object is released without it.
ReleaseBlocks(n) ==
    /\ buffer[n].pc = "unref"
    /\ blocks' = ReleaseRef(blocks)
    /\ buffer' = [buffer EXCEPT ![n].pc = "deleted"]
    /\ UNCHANGED <<poolOpen, handle, acquires>>

DestroyPool ==
    /\ poolOpen
    /\ poolOpen' = FALSE
    /\ blocks' = ReleaseRef(blocks)
    /\ UNCHANGED <<buffer, handle, acquires>>

BufferStep(n) == GiveBack(n) \/ ReleaseBlocks(n)

PoolNext ==
    \/ \E h \in Handles :
          \/ Acquire(h) \/ ResetRef(h)
          \/ \E n \in 0..BlockBytes : SetSize(h, n)
          \/ \E g \in Handles :
                \/ CopyRef(g, h) \/ MoveRef(g, h)
                \/ \E off, n \in 0..BlockBytes : Slice(g, h, off, n)
    \/ \E n \in DOMAIN buffer : BufferStep(n)
    \/ DestroyPool

----------------------------------------------------------------------------
(* Properties *)

\* Every variable has its type.
PoolTypeOK ==
    /\ blocks.refs \in 0..PoolSize + 1 + MaxAcquires
    /\ blocks.inUse \subseteq Indices /\ FreeBlocks(blocks) \subseteq Indices
    /\ blocks.high \in 0..PoolSize
    /\ acquires \in 0..MaxAcquires
    /\ \A h \in Handles : handle[h].buf \in 0..Len(buffer)

\* A block is in exactly one place: free, held by one buffer, or on its way back;
\* no block is handed out to two buffers and none is lost (Acquire, ReturnBlock).
BlockOnce ==
    LET holders(i) == {n \in DOMAIN buffer :
                          buffer[n].block = i /\ buffer[n].pc \in {"live", "return"}}
    IN  ~blocks.deleted =>
          /\ \A j, k \in DOMAIN blocks.free : blocks.free[j] = blocks.free[k] => j = k
          /\ \A i \in Indices :
                /\ (i \in blocks.inUse) # (i \in FreeBlocks(blocks))
                /\ Cardinality(holders(i)) = (IF i \in blocks.inUse THEN 1 ELSE 0)

\* The memory a reference points into exists and has the bytes it claims: its
\* buffer is not freed, the blocks object is not deleted although the pool may
\* be gone, and the range lies in the part of the block that was filled
\* (MediaBufferRef::Valid).
RefsPointIntoLiveMemory ==
    \A h \in Handles : handle[h].buf # 0 =>
       LET b == buffer[handle[h].buf] IN
       /\ b.pc = "live" /\ ~blocks.deleted
       /\ handle[h].off + handle[h].size <= b.size /\ b.size <= BlockBytes

\* No step touches the blocks object after it was deleted: a block on its way
\* back finds it (FreePoolBlock returns the block before it releases).
BlocksOutlive ==
    \A n \in DOMAIN buffer : buffer[n].pc # "deleted" => ~blocks.deleted

\* Nothing leaks: once the pool is gone and the last drop has returned, the
\* memory is freed, and until then every buffer that left the pool is either
\* referred to or on its way back (ReleaseMediaBuffer, FreePoolBlock).
PoolFreed ==
    /\ ~poolOpen /\ (\A n \in DOMAIN buffer : buffer[n].pc = "deleted") => blocks.deleted
    /\ \A n \in DOMAIN buffer :
          buffer[n].pc = "live" <=> \E h \in Handles : handle[h].buf = n

PoolSpec == PoolInit /\ [][PoolNext]_poolVars

\* Every block of the pool has exactly one owner, no reference outlives the
\* memory it points into, and nothing leaks, also when the pool is destroyed
\* while references are out and threads are returning blocks.
BlocksAccounted ==
    /\ PoolTypeOK /\ BlockOnce /\ RefsPointIntoLiveMemory /\ BlocksOutlive
    /\ PoolFreed
=============================================================================
