------------------------------ MODULE Minimum ------------------------------
(* The least element of a set of naturals, for the models that search one,   *)
(* and the totals of the queues.                                             *)
EXTENDS Naturals, Sequences, Totals, WellFoundedInduction, TLAPS

\* A nonempty set of naturals has a least element.
LEMMA LeastNatural ==
    ASSUME NEW S \in SUBSET Nat, S # {}
    PROVE  \E n \in S : \A m \in S : n <= m
<1> DEFINE R == {p \in Nat \X Nat : p[1] < p[2]}
<1>1. R = OpToRel(<, Nat)
  BY DEF OpToRel
<1>2. IsWellFoundedOn(R, Nat)
  BY <1>1, NatLessThanWellFounded
<1>3. \E n \in S : \A m \in S : ~(<<m, n>> \in R)
  <2> HIDE DEF R
  <2> QED BY <1>2, WFMin
<1>4. PICK n \in S : \A m \in S : ~(<<m, n>> \in R)
  BY <1>3
<1>5. ASSUME NEW m \in S PROVE n <= m
  <2>1. m \in Nat /\ n \in Nat
    OBVIOUS
  <2>2. <<m, n>> \in R <=> m < n
    BY <2>1
  <2>3. ~(m < n)
    BY <1>4, <2>2
  <2> QED BY <2>1, <2>3
<1> QED
  BY <1>5

-----------------------------------------------------------------------------
(* What the recursive function of Total computes, by a least counterexample. *)

\* f holds the running totals of the first n values.
Totals(f, v, n) ==
    /\ f \in [0..n -> Nat]
    /\ f[0] = 0
    /\ \A i \in 1..n : f[i] = f[i - 1] + v[i]

\* One value more extends the running totals by one.
LEMMA TotalsGrow ==
    ASSUME NEW v, NEW n \in Nat, NEW f, Totals(f, v, n),
           v[n + 1] \in Nat
    PROVE  LET g == [i \in 0..(n + 1) |->
                        IF i = n + 1 THEN f[n] + v[n + 1] ELSE f[i]]
           IN  /\ Totals(g, v, n + 1)
               /\ g[n + 1] = f[n] + v[n + 1]
<1> DEFINE b == v[n + 1]
           g == [i \in 0..(n + 1) |-> IF i = n + 1 THEN f[n] + b ELSE f[i]]
<1>1. f \in [0..n -> Nat] /\ f[n] \in Nat /\ f[0] = 0 /\ b \in Nat
  BY DEF Totals
<1>2. g \in [0..(n + 1) -> Nat]
  <2> SUFFICES ASSUME NEW i \in 0..(n + 1)
               PROVE  (IF i = n + 1 THEN f[n] + b ELSE f[i]) \in Nat
    OBVIOUS
  <2>1. i = n + 1 \/ i \in 0..n
    OBVIOUS
  <2> HIDE DEF b
  <2> QED BY <1>1, <2>1
<1>3. g[0] = 0
  BY <1>1
<1>4. ASSUME NEW i \in 1..(n + 1)
      PROVE  g[i] = g[i - 1] + v[i]
  <2>1. i - 1 \in 0..n /\ i \in 0..(n + 1) /\ i - 1 # n + 1 /\ i - 1 \in 0..(n + 1)
    OBVIOUS
  <2>2. g[i - 1] = f[i - 1]
    BY <2>1
  <2>3. CASE i = n + 1
    BY <2>1, <2>2, <2>3
  <2>4. CASE i # n + 1
    <3>1. i \in 1..n
      BY <2>4
    <3> QED BY <2>1, <2>2, <2>4, <3>1 DEF Totals
  <2> QED BY <2>3, <2>4
<1>5. g[n + 1] = f[n] + b
  OBVIOUS
<1> HIDE DEF g
<1>6. Totals(g, v, n + 1)
  BY <1>2, <1>3, <1>4 DEF Totals
<1> QED
  BY <1>5, <1>6 DEF g

\* Every sequence has running totals.
LEMMA TotalsExist ==
    ASSUME NEW v, Len(v) \in Nat,
           \A i \in 1..Len(v) : v[i] \in Nat
    PROVE  \E f : Totals(f, v, Len(v))
<1> DEFINE Has(n) == \E f : Totals(f, v, n)
           Bad == {n \in 0..Len(v) : ~Has(n)}
<1>1. Has(0)
  <2> DEFINE f == [i \in 0..0 |-> 0]
  <2>1. f \in [0..0 -> Nat] /\ f[0] = 0
    OBVIOUS
  <2>2. Totals(f, v, 0)
    BY <2>1 DEF Totals
  <2> QED BY <2>2
<1>2. ASSUME NEW n \in 0..(Len(v) - 1), Has(n) PROVE Has(n + 1)
  <2>1. PICK f : Totals(f, v, n)
    BY <1>2
  <2>2. v[n + 1] \in Nat /\ n \in Nat
    OBVIOUS
  <2> QED BY <2>1, <2>2, TotalsGrow
<1> HIDE DEF Has
<1>3. Bad = {}
  <2> SUFFICES ASSUME Bad # {} PROVE FALSE
    OBVIOUS
  <2>1. Bad \in SUBSET Nat
    OBVIOUS
  <2>2. \E n \in Bad : \A m \in Bad : n <= m
    <3> HIDE DEF Bad
    <3> QED BY <2>1, LeastNatural
  <2>3. PICK n \in Bad : \A m \in Bad : n <= m
    BY <2>2
  <2>4. n # 0 /\ n \in 0..Len(v) /\ ~Has(n)
    BY <1>1
  <2>5. n - 1 \in 0..(Len(v) - 1) /\ n - 1 \in 0..Len(v) /\ (n - 1) + 1 = n
    BY <2>4
  <2>6. n - 1 \notin Bad
    BY <2>3, <2>4, <2>5
  <2>7. Has(n - 1)
    BY <2>5, <2>6
  <2>8. Has((n - 1) + 1)
    BY <1>2, <2>5, <2>7
  <2> QED BY <2>4, <2>5, <2>8
<1>4. Len(v) \in 0..Len(v)
  OBVIOUS
<1> QED BY <1>3, <1>4 DEF Has

\* The recursive function of Total is the running totals, whichever they are.
LEMMA TotalIs ==
    ASSUME NEW v, Len(v) \in Nat, NEW f, Totals(f, v, Len(v))
    PROVE  Total(v) = f[Len(v)]
<1> DEFINE n == Len(v)
           Step(h) == [i \in 0..n |-> IF i = 0 THEN 0 ELSE h[i - 1] + v[i]]
           g == CHOOSE h : h = Step(h)
<1>1. Total(v) = g[n]
  BY DEF Total
<1>2. f = Step(f)
  <2>1. f \in [0..n -> Nat]
    BY DEF Totals
  <2>2. ASSUME NEW i \in 0..n
        PROVE  f[i] = IF i = 0 THEN 0 ELSE f[i - 1] + v[i]
    <3>1. i = 0 \/ i \in 1..n
      OBVIOUS
    <3> HIDE DEF n
    <3> QED BY <3>1 DEF Totals, n
  <2> QED BY <2>1, <2>2
<1>3. g = Step(g)
  <2> HIDE DEF Step
  <2> QED BY <1>2
<1>4. /\ g[0] = 0
      /\ \A i \in 1..n : g[i] = g[i - 1] + v[i]
  <2> HIDE DEF g
  <2>1. \A i \in 0..n : g[i] = IF i = 0 THEN 0 ELSE g[i - 1] + v[i]
    BY <1>3
  <2> QED BY <2>1
<1> HIDE DEF g
<1> DEFINE Bad == {i \in 0..n : g[i] # f[i]}
<1>5. Bad = {}
  <2> SUFFICES ASSUME Bad # {} PROVE FALSE
    OBVIOUS
  <2>1. Bad \in SUBSET Nat
    OBVIOUS
  <2>2. \E i \in Bad : \A j \in Bad : i <= j
    <3> HIDE DEF Bad
    <3> QED BY <2>1, LeastNatural
  <2>3. PICK i \in Bad : \A j \in Bad : i <= j
    BY <2>2
  <2>4. i # 0 /\ i \in 1..n /\ g[i] # f[i]
    BY <1>4 DEF Totals
  <2>5. i - 1 \in 0..n /\ ~(i <= i - 1)
    BY <2>4
  <2>6. i - 1 \notin Bad
    BY <2>3, <2>5
  <2>7. g[i - 1] = f[i - 1]
    BY <2>5, <2>6
  <2>8. f[i] = f[i - 1] + v[i] /\ g[i] = g[i - 1] + v[i]
    BY <1>4, <2>4 DEF Totals
  <2> QED BY <2>4, <2>7, <2>8
<1> QED
  BY <1>1, <1>5

\* The total of numbers is a number, none for none.
LEMMA TotalType ==
    /\ Total(<<>>) = 0
    /\ \A v \in Seq(Nat) : Total(v) \in Nat
<1>1. ASSUME NEW v \in Seq(Nat)
      PROVE  Total(v) \in Nat /\ (Len(v) = 0 => Total(v) = 0)
  <2>1. Len(v) \in Nat /\ \A i \in 1..Len(v) : v[i] \in Nat
    OBVIOUS
  <2>2. PICK f : Totals(f, v, Len(v))
    BY <2>1, TotalsExist
  <2>3. Total(v) = f[Len(v)]
    BY <2>1, <2>2, TotalIs
  <2>4. f[Len(v)] \in Nat /\ f[0] = 0
    BY <2>1, <2>2 DEF Totals
  <2> QED BY <2>3, <2>4
<1>2. <<>> \in Seq(Nat) /\ Len(<<>>) = 0
  OBVIOUS
<1> QED BY <1>1, <1>2

\* Appending a number adds it.
LEMMA TotalAppend ==
    ASSUME NEW v \in Seq(Nat), NEW x \in Nat
    PROVE  Total(Append(v, x)) = Total(v) + x
<1> DEFINE longer == Append(v, x)
           n == Len(v)
<1>1. n \in Nat /\ \A i \in 1..n : v[i] \in Nat
  OBVIOUS
<1>2. /\ Len(longer) = n + 1
      /\ \A i \in 1..n : longer[i] = v[i]
      /\ longer[n + 1] = x
  OBVIOUS
<1>3. PICK f : Totals(f, v, n)
  BY <1>1, TotalsExist
<1>4. Totals(f, longer, n)
  <2> HIDE DEF longer, n
  <2> QED BY <1>2, <1>3 DEF Totals
<1> DEFINE g == [i \in 0..(n + 1) |->
                    IF i = n + 1 THEN f[n] + longer[n + 1] ELSE f[i]]
<1>5. /\ Totals(g, longer, n + 1)
      /\ g[n + 1] = f[n] + longer[n + 1]
  <2>1. longer[n + 1] \in Nat
    BY <1>2
  <2> HIDE DEF longer, n
  <2> QED BY <1>1, <1>4, <2>1, TotalsGrow
<1>6. Total(v) = f[n]
  BY <1>1, <1>3, TotalIs
<1> HIDE DEF longer, g
<1>7. Total(longer) = g[n + 1]
  <2>1. Len(longer) \in Nat /\ Totals(g, longer, Len(longer))
    BY <1>1, <1>2, <1>5
  <2>2. Total(longer) = g[Len(longer)]
    BY <2>1, TotalIs
  <2> QED BY <1>2, <2>2
<1> QED BY <1>2, <1>5, <1>6, <1>7 DEF longer

\* A number put in front adds it.
LEMMA TotalCons ==
    ASSUME NEW v \in Seq(Nat), NEW x \in Nat
    PROVE  Total(<<x>> \o v) = x + Total(v)
<1> DEFINE longer == <<x>> \o v
           n == Len(v)
<1>1. n \in Nat /\ \A i \in 1..n : v[i] \in Nat
  OBVIOUS
<1>2. /\ Len(longer) = n + 1
      /\ longer[1] = x
      /\ \A i \in 1..n : longer[i + 1] = v[i]
  OBVIOUS
<1>3. PICK f : Totals(f, v, n)
  BY <1>1, TotalsExist
<1>4. f \in [0..n -> Nat] /\ f[0] = 0 /\ \A i \in 1..n : f[i] = f[i - 1] + v[i]
  BY <1>3 DEF Totals
<1> DEFINE g == [i \in 0..(n + 1) |-> IF i = 0 THEN 0 ELSE x + f[i - 1]]
<1>5. g \in [0..(n + 1) -> Nat] /\ g[0] = 0 /\ g[n + 1] = x + f[n]
  <2> HIDE DEF n, longer
  <2>1. ASSUME NEW i \in 0..(n + 1) PROVE (IF i = 0 THEN 0 ELSE x + f[i - 1]) \in Nat
    <3>1. i = 0 \/ i - 1 \in 0..n
      BY <1>1
    <3> QED BY <1>4, <3>1
  <2> QED BY <1>1, <2>1
<1>6. ASSUME NEW i \in 1..(n + 1)
      PROVE  g[i] = g[i - 1] + longer[i]
  <2> HIDE DEF longer, n
  <2>1. g[i] = x + f[i - 1]
    BY <1>1
  <2>2. CASE i = 1
    BY <1>1, <1>2, <1>4, <2>1, <2>2
  <2>3. CASE i # 1
    <3>1. i - 1 \in 1..n /\ (i - 1) + 1 = i /\ i - 1 \in 0..(n + 1) /\ i - 1 # 0
          /\ (i - 1) - 1 \in 0..n
      BY <1>1, <2>3
    <3>2. longer[i] = v[i - 1]
      BY <1>2, <3>1
    <3>3. g[i - 1] = x + f[(i - 1) - 1]
      BY <3>1
    <3>4. f[i - 1] = f[(i - 1) - 1] + v[i - 1]
      BY <1>4, <3>1
    <3>5. f[(i - 1) - 1] \in Nat /\ v[i - 1] \in Nat
      BY <1>1, <1>4, <3>1
    <3> HIDE DEF g
    <3> QED BY <2>1, <3>2, <3>3, <3>4, <3>5
  <2> QED BY <2>2, <2>3
<1> HIDE DEF g, longer
<1>7. Totals(g, longer, n + 1)
  BY <1>5, <1>6 DEF Totals
<1>8. Total(longer) = g[n + 1]
  <2>1. Len(longer) \in Nat /\ Totals(g, longer, Len(longer))
    BY <1>1, <1>2, <1>7
  <2>2. Total(longer) = g[Len(longer)]
    BY <2>1, TotalIs
  <2> QED BY <1>2, <2>2
<1>9. Total(v) = f[n]
  BY <1>1, <1>3, TotalIs
<1> QED BY <1>5, <1>8, <1>9 DEF longer

\* Taking the first number off takes it from the total.
LEMMA TotalTail ==
    ASSUME NEW v \in Seq(Nat), v # <<>>
    PROVE  /\ Head(v) \in Nat /\ Tail(v) \in Seq(Nat)
           /\ Total(v) = Head(v) + Total(Tail(v))
<1>1. /\ Head(v) \in Nat /\ Tail(v) \in Seq(Nat)
      /\ v = <<Head(v)>> \o Tail(v)
  OBVIOUS
<1>2. Total(<<Head(v)>> \o Tail(v)) = Head(v) + Total(Tail(v))
  BY <1>1, TotalCons
<1> QED BY <1>1, <1>2
=============================================================================
