------------------------------- MODULE Totals -------------------------------
(* The total of a sequence of numbers, for the byte counts of the queues. *)
EXTENDS Naturals, Sequences

Total(v) ==
    LET sum[i \in 0..Len(v)] == IF i = 0 THEN 0 ELSE sum[i - 1] + v[i]
    IN  sum[Len(v)]
=============================================================================
