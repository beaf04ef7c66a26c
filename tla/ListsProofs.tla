---------------------------- MODULE ListsProofs ----------------------------
(***************************************************************************)
(* What the list operations do to the set of linked elements, and that     *)
(* they keep every element linked once.  The other proofs rest on these    *)
(* lemmas, never on the shape of a sequence.  At the end, induction on the  *)
(* naturals in the form that the provers can use.                          *)
(***************************************************************************)
EXTENDS Lists, SequenceTheorems, WellFoundedInduction, TLAPS

\* What is linked, and when nothing is.
LEMMA ElementsFacts ==
    ASSUME NEW S, NEW list \in Seq(S)
    PROVE  /\ Elements(list) \subseteq S
           /\ list = <<>> <=> Elements(list) = {}
           /\ Distinct(<<>>)
           /\ list # <<>> => Head(list) \in Elements(list)
<1>1. Elements(list) \subseteq S
  BY DEF Elements
<1>2. list = <<>> => Elements(list) = {}
  BY DEF Elements
<1>3. list # <<>> => Head(list) \in Elements(list)
  <2>1. list # <<>> => Head(list) = list[1] /\ 1 \in DOMAIN list
    OBVIOUS
  <2>2. QED
    BY <2>1 DEF Elements
<1>4. Distinct(<<>>)
  BY DEF Distinct
<1>5. QED
  BY <1>1, <1>2, <1>3, <1>4

\* An element that is not linked may be added at the end ...
LEMMA AddLastFacts ==
    ASSUME NEW S, NEW list \in Seq(S), NEW x \in S
    PROVE  /\ AddLast(list, x) \in Seq(S)
           /\ Elements(AddLast(list, x)) = Elements(list) \cup {x}
           /\ Distinct(list) /\ x \notin Elements(list) => Distinct(AddLast(list, x))
<1>1. /\ AddLast(list, x) \in Seq(S)
      /\ DOMAIN AddLast(list, x) = DOMAIN list \cup {Len(list) + 1}
      /\ AddLast(list, x)[Len(list) + 1] = x
      /\ \A i \in DOMAIN list : AddLast(list, x)[i] = list[i] /\ i # Len(list) + 1
  BY DEF AddLast
<1>2. QED
  BY <1>1 DEF Elements, Distinct

\* ... or at the front.
LEMMA AddFirstFacts ==
    ASSUME NEW S, NEW list \in Seq(S), NEW x \in S
    PROVE  /\ AddFirst(list, x) \in Seq(S)
           /\ Len(AddFirst(list, x)) = Len(list) + 1
           /\ Elements(AddFirst(list, x)) = Elements(list) \cup {x}
           /\ Distinct(list) /\ x \notin Elements(list) => Distinct(AddFirst(list, x))
<1> DEFINE new == AddFirst(list, x)
<1>1. /\ new \in Seq(S) /\ Len(new) = Len(list) + 1 /\ new[1] = x
      /\ \A i \in DOMAIN new : i # 1 => i - 1 \in DOMAIN list /\ new[i] = list[i - 1]
      /\ \A i \in DOMAIN list : i + 1 \in DOMAIN new /\ new[i + 1] = list[i]
      /\ 1 \in DOMAIN new /\ DOMAIN new \subseteq Nat
  BY DEF AddFirst
<1> HIDE DEF new
<1>2. Elements(new) = Elements(list) \cup {x}
  <2>1. \A i \in DOMAIN new : new[i] \in Elements(list) \cup {x}
    BY <1>1 DEF Elements
  <2>2. \A i \in DOMAIN list : list[i] \in Elements(new)
    BY <1>1 DEF Elements
  <2>3. x \in Elements(new)
    BY <1>1 DEF Elements
  <2>4. QED
    BY <2>1, <2>2, <2>3 DEF Elements
<1>3. ASSUME Distinct(list), x \notin Elements(list),
             NEW i \in DOMAIN new, NEW j \in DOMAIN new, new[i] = new[j]
      PROVE  i = j
  <2>1. CASE i = 1 \/ j = 1
    BY <1>1, <1>3, <2>1 DEF Elements
  <2>2. CASE i # 1 /\ j # 1
    <3>1. i - 1 = j - 1
      BY <1>1, <1>3, <2>2 DEF Distinct
    <3>2. QED
      BY <1>1, <3>1
  <2>3. QED
    BY <2>1, <2>2
<1>4. QED
  BY <1>1, <1>2, <1>3 DEF Distinct, new

\* Where the elements of DelAt(list, k) come from.
LEMMA DelAtIndices ==
    ASSUME NEW S, NEW list \in Seq(S), NEW k \in DOMAIN list
    PROVE  /\ DelAt(list, k) \in Seq(S)
           /\ Len(DelAt(list, k)) = Len(list) - 1
           /\ \A i \in 1 .. Len(list) - 1 :
                 DelAt(list, k)[i] = list[IF i < k THEN i ELSE i + 1]
<1> DEFINE front == SubSeq(list, 1, k - 1)
           back  == SubSeq(list, k + 1, Len(list))
<1>1. front \in Seq(S) /\ Len(front) = k - 1
      /\ \A i \in 1 .. k - 1 : front[i] = list[i]
  OBVIOUS
<1>2. back \in Seq(S) /\ Len(back) = Len(list) - k
      /\ \A i \in 1 .. Len(list) - k : back[i] = list[k + i]
  OBVIOUS
<1>3. DelAt(list, k) = front \o back
  BY DEF DelAt
<1> HIDE DEF front, back
<1>4. /\ DelAt(list, k) \in Seq(S)
      /\ Len(DelAt(list, k)) = Len(front) + Len(back)
      /\ \A i \in 1 .. Len(front) + Len(back) : DelAt(list, k)[i] =
             IF i <= Len(front) THEN front[i] ELSE back[i - Len(front)]
  <2>1. /\ front \o back \in Seq(S)
        /\ Len(front \o back) = Len(front) + Len(back)
        /\ \A i \in 1 .. Len(front) + Len(back) : (front \o back)[i] =
               IF i <= Len(front) THEN front[i] ELSE back[i - Len(front)]
    BY <1>1, <1>2, ConcatProperties
  <2>2. QED
    BY <1>3, <2>1
<1>5. ASSUME NEW i \in 1 .. Len(list) - 1
      PROVE  DelAt(list, k)[i] = list[IF i < k THEN i ELSE i + 1]
  <2>1. CASE i < k
    BY <1>1, <1>2, <1>4, <2>1
  <2>2. CASE i >= k
    <3>1. i - Len(front) \in 1 .. Len(list) - k /\ ~(i <= Len(front)) /\ ~(i < k)
      BY <1>1, <2>2
    <3>2. DelAt(list, k)[i] = back[i - Len(front)]
      BY <1>1, <1>2, <1>4, <3>1
    <3>3. back[i - Len(front)] = list[k + (i - Len(front))]
      BY <1>2, <3>1
    <3>4. k + (i - Len(front)) = i + 1
      BY <1>1
    <3>5. QED
      BY <3>1, <3>2, <3>3, <3>4
  <2>3. QED
    BY <2>1, <2>2
<1>6. QED
  BY <1>1, <1>2, <1>4, <1>5

\* Deleting an element keeps the others, once each.
LEMMA DelAtFacts ==
    ASSUME NEW S, NEW list \in Seq(S), NEW k \in DOMAIN list, Distinct(list)
    PROVE  /\ DelAt(list, k) \in Seq(S)
           /\ Len(DelAt(list, k)) = Len(list) - 1
           /\ Elements(DelAt(list, k)) = Elements(list) \ {list[k]}
           /\ Distinct(DelAt(list, k))
<1> DEFINE new == DelAt(list, k)
           Old(i) == IF i < k THEN i ELSE i + 1
<1>1. new \in Seq(S) /\ Len(new) = Len(list) - 1 /\ DOMAIN new = 1 .. Len(list) - 1
  BY DelAtIndices
<1>2. \A i \in DOMAIN new : Old(i) \in DOMAIN list /\ new[i] = list[Old(i)] /\ Old(i) # k
  <2>1. \A i \in 1 .. Len(list) - 1 : new[i] = list[Old(i)]
    BY DelAtIndices
  <2>2. \A i \in 1 .. Len(list) - 1 : Old(i) \in DOMAIN list /\ Old(i) # k
    OBVIOUS
  <2>3. QED
    BY <1>1, <2>1, <2>2
<1>3. \A i, j \in DOMAIN new : Old(i) = Old(j) => i = j
  BY <1>1
<1>4. \A j \in DOMAIN list : j # k => \E i \in DOMAIN new : Old(i) = j
  <2>1. ASSUME NEW j \in DOMAIN list, j < k PROVE j \in DOMAIN new /\ Old(j) = j
    BY <1>1, <2>1
  <2>2. ASSUME NEW j \in DOMAIN list, j > k
        PROVE  j - 1 \in DOMAIN new /\ Old(j - 1) = j
    BY <1>1, <2>2
  <2>3. QED
    BY <2>1, <2>2
<1> HIDE DEF new, Old
<1>5. Elements(new) = Elements(list) \ {list[k]}
  BY <1>2, <1>4 DEF Elements, Distinct
<1>6. Distinct(new)
  BY <1>2, <1>3 DEF Distinct
<1>7. QED
  BY <1>1, <1>5, <1>6 DEF new

\* Unlinking removes exactly the element, whether it was linked or not.
LEMMA UnlinkFacts ==
    ASSUME NEW S, NEW list \in Seq(S), NEW x, Distinct(list)
    PROVE  /\ Unlink(list, x) \in Seq(S)
           /\ Elements(Unlink(list, x)) = Elements(list) \ {x}
           /\ Distinct(Unlink(list, x))
<1>1. CASE x \notin Elements(list)
  BY <1>1 DEF Unlink
<1>2. CASE x \in Elements(list)
  <2> DEFINE k == CHOOSE i \in DOMAIN list : list[i] = x
  <2>1. k \in DOMAIN list /\ list[k] = x
    BY <1>2 DEF Elements
  <2>2. Unlink(list, x) = DelAt(list, k)
    BY <1>2 DEF Unlink
  <2> HIDE DEF k
  <2>3. QED
    BY <2>1, <2>2, DelAtFacts
<1>3. QED
  BY <1>1, <1>2

\* Taking the first element away.
LEMMA TailFacts ==
    ASSUME NEW S, NEW list \in Seq(S), list # <<>>, Distinct(list)
    PROVE  /\ Tail(list) \in Seq(S)
           /\ Head(list) \in Elements(list)
           /\ Elements(Tail(list)) = Elements(list) \ {Head(list)}
           /\ Distinct(Tail(list))
<1>1. /\ Tail(list) \in Seq(S) /\ Len(list) \in Nat \ {0}
      /\ DOMAIN Tail(list) = 1 .. Len(list) - 1
      /\ Head(list) = list[1] /\ 1 \in DOMAIN list
      /\ \A i \in 1 .. Len(list) - 1 : Tail(list)[i] = list[i + 1] /\ i + 1 \in DOMAIN list
  OBVIOUS
<1>2. \A j \in DOMAIN list : j # 1 => j - 1 \in 1 .. Len(list) - 1 /\ j = (j - 1) + 1
  BY <1>1
<1>3. \A i, j \in 1 .. Len(list) - 1 : i + 1 = j + 1 => i = j
  OBVIOUS
<1>4. \A i \in 1 .. Len(list) - 1 : i + 1 # 1
  OBVIOUS
<1>5. Elements(Tail(list)) = Elements(list) \ {Head(list)}
  BY <1>1, <1>2, <1>4 DEF Elements, Distinct
<1>6. Distinct(Tail(list))
  BY <1>1, <1>3 DEF Distinct
<1>7. QED
  BY <1>1, <1>5, <1>6 DEF Elements

-----------------------------------------------------------------------------
(* Induction and recursion on the naturals, in the form of sets and        *)
(* functions                                                               *)

LEMMA NatSetInduction ==
    ASSUME NEW S \in SUBSET Nat, 0 \in S, \A n \in S : n + 1 \in S
    PROVE  S = Nat
<1>1. SUFFICES ASSUME Nat \ S # {} PROVE FALSE
  OBVIOUS
<1>2. PICK x \in Nat \ S : \A y \in Nat \ S : ~ (y < x)
  <2>1. PICK x \in Nat \ S : \A y \in Nat \ S : ~ (<<y, x>> \in OpToRel(<, Nat))
    BY <1>1, NatLessThanWellFounded, WFMin
  <2>2. QED
    BY <2>1 DEF OpToRel
<1>3. x # 0 /\ x - 1 \in Nat /\ x - 1 < x
  BY <1>2
<1>4. x - 1 \in S
  BY <1>2, <1>3
<1>5. (x - 1) + 1 \in S
  BY <1>4
<1>6. QED
  BY <1>2, <1>5

\* A function on the naturals may be defined by its first value and its steps.
Iterates(f, S, first, next) ==
    f \in [Nat -> S] /\ f[0] = first /\ \A n \in Nat : f[n + 1] = next[f[n]]

LEMMA NatRecursion ==
    ASSUME NEW S, NEW first \in S, NEW next \in [S -> S]
    PROVE  \E f : Iterates(f, S, first, next)
<1> DEFINE Chain(g, n) == /\ g \in [0 .. n -> S] /\ g[0] = first
                          /\ \A i \in 0 .. n - 1 : g[i + 1] = next[g[i]]
<1>1. ASSUME NEW n \in Nat PROVE \E g : Chain(g, n)
  <2> DEFINE Chained == {m \in Nat : \E g : Chain(g, m)}
  <2>1. 0 \in Chained
    <3>1. Chain([i \in 0 .. 0 |-> first], 0)
      OBVIOUS
    <3>2. QED
      BY <3>1
  <2>2. ASSUME NEW m \in Chained PROVE m + 1 \in Chained
    <3>1. PICK g : Chain(g, m)
      OBVIOUS
    <3> DEFINE h == [i \in 0 .. m + 1 |-> IF i = m + 1 THEN next[g[m]] ELSE g[i]]
    <3>2. m \in Nat /\ g[m] \in S
      BY <3>1
    <3>3. h \in [0 .. m + 1 -> S] /\ h[0] = first
      BY <3>1, <3>2
    <3>4. ASSUME NEW i \in 0 .. (m + 1) - 1 PROVE h[i + 1] = next[h[i]]
      BY <3>1, <3>2
    <3>5. Chain(h, m + 1)
      BY <3>3, <3>4
    <3> HIDE DEF h
    <3>6. \E k : Chain(k, m + 1)
      BY <3>5
    <3>7. QED
      BY <3>2, <3>6
  <2> HIDE DEF Chained
  <2>3. Chained = Nat
    <3>1. Chained \in SUBSET Nat
      BY DEF Chained
    <3>2. QED
      BY <2>1, <2>2, <3>1, NatSetInduction
  <2>4. QED
    BY <2>3 DEF Chained
<1>2. ASSUME NEW n \in Nat, NEW m \in Nat, NEW g, NEW h, Chain(g, n), Chain(h, m), n <= m
      PROVE  g[n] = h[n]
  <2> DEFINE Agree == {i \in Nat : i <= n => g[i] = h[i]}
  <2>1. 0 \in Agree
    BY <1>2
  <2>2. ASSUME NEW i \in Agree PROVE i + 1 \in Agree
    <3>1. CASE i + 1 <= n
      <4>1. i <= n /\ i \in 0 .. n - 1 /\ i \in 0 .. m - 1
        BY <1>2, <3>1
      <4>2. g[i + 1] = next[g[i]] /\ h[i + 1] = next[h[i]] /\ g[i] = h[i]
        BY <1>2, <4>1
      <4>3. QED
        BY <4>2
    <3>2. QED
      BY <3>1
  <2> HIDE DEF Agree
  <2>3. Agree = Nat
    <3>1. Agree \in SUBSET Nat
      BY DEF Agree
    <3>2. QED
      BY <2>1, <2>2, <3>1, NatSetInduction
  <2>4. QED
    BY <2>3 DEF Agree
<1> DEFINE G(n) == CHOOSE g : Chain(g, n)
           f == [n \in Nat |-> G(n)[n]]
<1>3. \A n \in Nat : Chain(G(n), n)
  BY <1>1
<1> HIDE DEF G
<1>4. f \in [Nat -> S] /\ f[0] = first
  <2>1. \A n \in Nat : G(n)[n] \in S
    BY <1>3
  <2>2. G(0)[0] = first
    BY <1>3
  <2>3. QED
    BY <2>1, <2>2
<1>5. ASSUME NEW n \in Nat PROVE f[n + 1] = next[f[n]]
  <2>1. Chain(G(n + 1), n + 1) /\ Chain(G(n), n) /\ n + 1 \in Nat /\ n <= n + 1
    BY <1>3
  <2>2. G(n)[n] = G(n + 1)[n]
    BY <1>2, <2>1, SMTT(40)
  <2>3. n \in 0 .. (n + 1) - 1
    OBVIOUS
  <2>4. G(n + 1)[n + 1] = next[G(n + 1)[n]]
    BY <2>1, <2>3
  <2>5. QED
    BY <2>2, <2>4
<1> HIDE DEF f
<1>6. Iterates(f, S, first, next)
  BY <1>4, <1>5 DEF Iterates
<1>7. QED
  BY <1>6
=============================================================================
