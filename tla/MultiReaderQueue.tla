-------------------------- MODULE MultiReaderQueue --------------------------
(***************************************************************************)
(* event::MultiReaderQueue (libs/event/include/multi_reader_queue.h): one  *)
(* writer, any number of readers that each keep their own cursor.  Every   *)
(* Push takes the next sequence number; a full queue evicts its oldest     *)
(* values, and a reader addresses a value by its sequence number.          *)
(*                                                                         *)
(* A queue is a record: items (the ring values_[head_ .. head_+size_)),    *)
(* first (first_sequence_) and next (next_sequence_).  A value is a record *)
(* with at least a field bytes.                                            *)
(***************************************************************************)
EXTENDS Naturals, Sequences, Totals

\* bytes_: the running byte total equals the sum over the values held.
Bytes(items) == Total([i \in 1..Len(items) |-> items[i].bytes])

EmptyQueue == [items |-> <<>>, first |-> 1, next |-> 1]

ClearQueue(q) == [q EXCEPT !.items = <<>>, !.first = q.next]

Suffix(items, k) == SubSeq(items, k + 1, Len(items))

\* The loop of Push stops after k evictions: the queue is empty, or one more
\* value of b bytes fits under both limits.
Fits(items, k, b, maxItems, maxBytes) ==
    \/ k = Len(items)
    \/ /\ Len(items) - k < maxItems
       /\ Bytes(Suffix(items, k)) + b <= maxBytes

DropOldest(items, b, maxItems, maxBytes) ==
    CHOOSE k \in 0..Len(items) :
        /\ Fits(items, k, b, maxItems, maxBytes)
        /\ \A j \in 0..Len(items) :
               Fits(items, j, b, maxItems, maxBytes) => k <= j

\* A value that can never fit still consumes its sequence number and empties
\* the queue.
Push(q, value, maxItems, maxBytes) ==
    IF maxItems = 0 \/ value.bytes > maxBytes
    THEN [items |-> <<>>, first |-> q.next + 1, next |-> q.next + 1]
    ELSE LET k == DropOldest(q.items, value.bytes, maxItems, maxBytes)
         IN  [items |-> Append(Suffix(q.items, k), value),
              first |-> IF k = Len(q.items) THEN q.next ELSE q.first + k,
              next  |-> q.next + 1]

CanRead(q, sequence) ==
    /\ q.first <= sequence
    /\ sequence < q.next
    /\ sequence - q.first < Len(q.items)

Read(q, sequence) == q.items[sequence - q.first + 1]
=============================================================================
