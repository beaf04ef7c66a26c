----------------------------- MODULE TimerProofs -----------------------------
(***************************************************************************)
(* The timer list counts every timer down exactly, and so does do_sleep()  *)
(* on top of it, for any processes and any sleeps; message boxes, whose    *)
(* timed calls use the same timers, lose no wakeup and no message.         *)
(***************************************************************************)
EXTENDS Sleep, Mbox, SchedulerProofs, ListsProofs, FiniteSetTheorems

-----------------------------------------------------------------------------
(* TimerList *)

\* What TicksUpTo computes: it is a function, and it adds the distances up.
LEMMA TicksFacts ==
    ASSUME NEW list \in Seq(Owners), NEW distance \in [Owners -> Nat]
    PROVE  /\ TicksUpTo(list, distance) \in [0 .. Len(list) -> Nat]
           /\ TicksUpTo(list, distance)[0] = 0
           /\ \A i \in 1 .. Len(list) : TicksUpTo(list, distance)[i] =
                  TicksUpTo(list, distance)[i - 1] + distance[list[i]]
<1> DEFINE S == Nat \X Nat
           d == [i \in Nat |-> IF i \in 1 .. Len(list) THEN distance[list[i]] ELSE 0]
           step == [x \in S |-> <<x[1] + 1, x[2] + d[x[1] + 1]>>]
           Sums(g) == g = [i \in 0 .. Len(list) |->
                              IF i = 0 THEN 0 ELSE g[i - 1] + distance[list[i]]]
<1>1. d \in [Nat -> Nat] /\ \A i \in 1 .. Len(list) : d[i] = distance[list[i]]
  OBVIOUS
<1> HIDE DEF d
<1>2. <<0, 0>> \in S /\ step \in [S -> S]
  <2>1. \A x \in S : x[1] \in Nat /\ x[2] \in Nat /\ x[1] + 1 \in Nat
    OBVIOUS
  <2>2. \A x \in S : d[x[1] + 1] \in Nat
    BY <1>1, <2>1
  <2>3. \A x \in S : <<x[1] + 1, x[2] + d[x[1] + 1]>> \in S
    BY <2>1, <2>2
  <2>4. <<0, 0>> \in S
    OBVIOUS
  <2> HIDE DEF S
  <2>5. QED
    BY <2>3, <2>4
<1>3. PICK f : Iterates(f, S, <<0, 0>>, step)
  <2> HIDE DEF S, step
  <2>1. QED
    BY <1>2, NatRecursion
<1>4. /\ \A i \in Nat : f[i] \in S
      /\ f[0] = <<0, 0>>
      /\ \A i \in Nat : f[i + 1] = <<f[i][1] + 1, f[i][2] + d[f[i][1] + 1]>>
  <2> HIDE DEF S
  <2>1. QED
    BY <1>3 DEF Iterates
<1>A. f[0][1] = 0 /\ f[0][2] = 0
  BY <1>4
<1>B. \A i \in Nat : f[i][1] \in Nat /\ f[i][2] \in Nat
  <2>1. \A x \in S : x[1] \in Nat /\ x[2] \in Nat
    OBVIOUS
  <2> HIDE DEF S
  <2>2. QED
    BY <1>4, <2>1
<1>C. ASSUME NEW i \in Nat
      PROVE  f[i + 1][1] = f[i][1] + 1 /\ f[i + 1][2] = f[i][2] + d[f[i][1] + 1]
  <2> DEFINE u == f[i][1] + 1
             v == f[i][2] + d[f[i][1] + 1]
  <2>1. f[i + 1] = <<u, v>>
    BY <1>4
  <2> HIDE DEF u, v
  <2>2. f[i + 1][1] = u /\ f[i + 1][2] = v
    BY <2>1
  <2>3. QED
    BY <2>2 DEF u, v
<1>5. \A i \in Nat : f[i][1] = i
  <2> DEFINE T == {i \in Nat : f[i][1] = i}
  <2>1. 0 \in T
    BY <1>A
  <2>2. ASSUME NEW i \in T PROVE i + 1 \in T
    <3>1. f[i][1] = i /\ i \in Nat
      OBVIOUS
    <3>2. f[i + 1][1] = i + 1
      BY <1>C, <3>1
    <3>3. QED
      BY <3>1, <3>2
  <2>3. T \in SUBSET Nat
    OBVIOUS
  <2> HIDE DEF T
  <2>4. T = Nat
    BY <2>1, <2>2, <2>3, NatSetInduction
  <2>5. QED
    BY <2>4 DEF T
<1> DEFINE g == [i \in 0 .. Len(list) |-> f[i][2]]
<1>6. \A i \in 0 .. Len(list) : g[i] = f[i][2]
  OBVIOUS
<1>7. g \in [0 .. Len(list) -> Nat] /\ g[0] = 0
  BY <1>A, <1>B, <1>6
<1>8. ASSUME NEW i \in 1 .. Len(list) PROVE g[i] = g[i - 1] + distance[list[i]]
  <2>1. i - 1 \in Nat /\ i - 1 \in 0 .. Len(list) /\ i = (i - 1) + 1 /\ i \in 0 .. Len(list)
    OBVIOUS
  <2>2. f[i][2] = f[i - 1][2] + d[f[i - 1][1] + 1]
    BY <1>C, <2>1
  <2>3. f[i - 1][1] = i - 1
    BY <1>5, <2>1
  <2>4. f[i][2] = f[i - 1][2] + d[i]
    BY <2>1, <2>2, <2>3
  <2>5. QED
    BY <1>1, <1>6, <2>1, <2>4
<1> HIDE DEF g
<1>9. Sums(g)
  <2>1. \A i \in 0 .. Len(list) : g[i] = IF i = 0 THEN 0 ELSE g[i - 1] + distance[list[i]]
    BY <1>7, <1>8
  <2>2. QED
    BY <1>7, <2>1
<1>10. TicksUpTo(list, distance) = CHOOSE h : Sums(h)
  BY DEF TicksUpTo
<1>11. Sums(TicksUpTo(list, distance))
  BY <1>9, <1>10
<1> DEFINE t == TicksUpTo(list, distance)
<1>12. t[0] = 0 /\ \A i \in 1 .. Len(list) : t[i] = t[i - 1] + distance[list[i]]
  BY <1>11
<1> HIDE DEF t
<1>13. \A i \in 0 .. Len(list) : t[i] = g[i]
  <2> DEFINE T == {i \in Nat : i <= Len(list) => t[i] = g[i]}
  <2>1. 0 \in T
    BY <1>7, <1>12
  <2>2. ASSUME NEW i \in T PROVE i + 1 \in T
    <3>1. i + 1 <= Len(list) =>
              i <= Len(list) /\ i + 1 \in 1 .. Len(list) /\ (i + 1) - 1 = i
      OBVIOUS
    <3>2. QED
      BY <1>8, <1>12, <3>1
  <2>3. T \in SUBSET Nat
    OBVIOUS
  <2> HIDE DEF T
  <2>4. T = Nat
    BY <2>1, <2>2, <2>3, NatSetInduction
  <2>5. QED
    BY <2>4 DEF T
<1>14. \A i \in 0 .. Len(list) : t[i] \in Nat
  BY <1>7, <1>13
<1>15. t \in [0 .. Len(list) -> Nat]
  <2>1. t = [i \in 0 .. Len(list) |-> t[i]]
    BY <1>11 DEF t
  <2>2. QED
    BY <1>14, <2>1
<1>16. QED
  BY <1>12, <1>15 DEF t

\* The countdowns that a list of distances stands for: a linked timer goes off
\* its distance after the one before it, the others are not armed.
CountedBy(due, list, distance) ==
    /\ due = [p \in Owners |-> due[p]]
    /\ \A i \in 1 .. Len(list) :
          due[list[i]] \in Nat /\ due[list[i]] =
              (IF i = 1 THEN 0 ELSE due[list[i - 1]]) + distance[list[i]]
    /\ \A p \in Owners : p \notin Elements(list) => due[p] = Off

DueIn(list, distance) ==
    [p \in Owners |->
        IF p \in Elements(list)
        THEN TicksUpTo(list, distance)[CHOOSE i \in DOMAIN list : list[i] = p] ELSE Off]

\* The sums are such countdowns ...
LEMMA DueFacts ==
    ASSUME NEW list \in Seq(Owners), NEW distance \in [Owners -> Nat], Distinct(list)
    PROVE  /\ CountedBy(DueIn(list, distance), list, distance)
           /\ \A i \in 1 .. Len(list) :
                 DueIn(list, distance)[list[i]] = TicksUpTo(list, distance)[i]
<1> DEFINE due == DueIn(list, distance)
           t == TicksUpTo(list, distance)
<1>1. ASSUME NEW i \in 1 .. Len(list) PROVE due[list[i]] = t[i]
  <2>1. i \in DOMAIN list /\ list[i] \in Owners /\ list[i] \in Elements(list)
    BY DEF Elements
  <2>2. (CHOOSE j \in DOMAIN list : list[j] = list[i]) = i
    BY <2>1 DEF Distinct
  <2>3. QED
    BY <2>1, <2>2 DEF DueIn
<1>2. due = [p \in Owners |-> due[p]] /\ \A p \in Owners : p \notin Elements(list) => due[p] = Off
  BY DEF DueIn
<1>3. /\ t \in [0 .. Len(list) -> Nat] /\ t[0] = 0
      /\ \A i \in 1 .. Len(list) : t[i] = t[i - 1] + distance[list[i]]
  BY TicksFacts
<1> HIDE DEF due, t
<1>4. ASSUME NEW i \in 1 .. Len(list)
      PROVE  due[list[i]] \in Nat /\ due[list[i]] =
                 (IF i = 1 THEN 0 ELSE due[list[i - 1]]) + distance[list[i]]
  <2>1. due[list[i]] = t[i] /\ t[i] \in Nat /\ t[i] = t[i - 1] + distance[list[i]]
    BY <1>1, <1>3
  <2>2. CASE i = 1
    <3>1. t[i - 1] = 0
      BY <1>3, <2>2
    <3>2. QED
      BY <2>1, <2>2, <3>1
  <2>3. CASE i # 1
    <3>1. i - 1 \in 1 .. Len(list)
      BY <2>3
    <3>2. due[list[i - 1]] = t[i - 1]
      BY <1>1, <3>1
    <3>3. QED
      BY <2>1, <2>3, <3>2
  <2>4. QED
    BY <2>2, <2>3
<1>5. QED
  BY <1>1, <1>2, <1>4 DEF CountedBy, due, t

\* ... and the only ones.
LEMMA DueUnique ==
    ASSUME NEW list \in Seq(Owners), NEW distance \in [Owners -> Nat], Distinct(list),
           NEW due, CountedBy(due, list, distance)
    PROVE  DueIn(list, distance) = due
<1> DEFINE due2 == DueIn(list, distance)
           T == {i \in Nat : i + 1 <= Len(list) => due2[list[i + 1]] = due[list[i + 1]]}
<1>1. CountedBy(due2, list, distance)
  BY DueFacts
<1>2. Len(list) \in Nat
  OBVIOUS
<1> HIDE DEF due2
<1>3. 0 \in T
  <2>1. ASSUME 1 <= Len(list) PROVE due2[list[1]] = due[list[1]]
    <3>1. 1 \in 1 .. Len(list)
      BY <1>2, <2>1
    <3>2. QED
      BY <1>1, <3>1 DEF CountedBy
  <2>2. 0 \in Nat /\ 0 + 1 = 1
    OBVIOUS
  <2>3. QED
    BY <2>1, <2>2
<1>4. ASSUME NEW k \in T PROVE k + 1 \in T
  <2>1. SUFFICES ASSUME (k + 1) + 1 <= Len(list)
                 PROVE  due2[list[(k + 1) + 1]] = due[list[(k + 1) + 1]]
    OBVIOUS
  <2>2. (k + 1) + 1 \in 1 .. Len(list) /\ (k + 1) + 1 # 1 /\ ((k + 1) + 1) - 1 = k + 1
        /\ k + 1 <= Len(list)
    BY <1>2, <2>1
  <2>3. due2[list[k + 1]] = due[list[k + 1]]
    BY <2>2
  <2>4. QED
    BY <1>1, <2>2, <2>3 DEF CountedBy
<1>5. T \in SUBSET Nat
  OBVIOUS
<1> HIDE DEF T
<1>6. T = Nat
  BY <1>3, <1>4, <1>5, NatSetInduction
<1>7. ASSUME NEW i \in 1 .. Len(list) PROVE due2[list[i]] = due[list[i]]
  <2>1. i - 1 \in T /\ (i - 1) + 1 = i /\ i <= Len(list)
    BY <1>2, <1>6
  <2>2. QED
    BY <2>1 DEF T
<1>8. \A p \in Owners : due2[p] = due[p]
  <2>1. \A p \in Elements(list) : due2[p] = due[p]
    BY <1>7 DEF Elements
  <2>2. QED
    BY <1>1, <2>1 DEF CountedBy
<1>9. due2 = due
  BY <1>1, <1>8 DEF CountedBy
<1>10. QED
  BY <1>9 DEF due2

\* Where the elements of InsertAt(list, k, x) come from.
InsertedAt(new, list, k, x) ==
    /\ Len(new) = Len(list) + 1
    /\ \A i \in 1 .. Len(list) + 1 :
          new[i] = IF i < k THEN list[i] ELSE IF i = k THEN x ELSE list[i - 1]

LEMMA InsertAtIndices ==
    ASSUME NEW S, NEW list \in Seq(S), NEW k \in 1 .. Len(list) + 1, NEW x \in S
    PROVE  /\ InsertAt(list, k, x) \in Seq(S)
           /\ InsertedAt(InsertAt(list, k, x), list, k, x)
<1> DEFINE front == SubSeq(list, 1, k - 1)
           back  == SubSeq(list, k, Len(list))
           start == front \o <<x>>
<1>1. front \in Seq(S) /\ Len(front) = k - 1
      /\ \A i \in 1 .. k - 1 : front[i] = list[i]
  OBVIOUS
<1>2. back \in Seq(S) /\ Len(back) = Len(list) - k + 1
      /\ \A i \in 1 .. Len(list) - k + 1 : back[i] = list[(k + i) - 1]
  OBVIOUS
<1>3. InsertAt(list, k, x) = start \o back
  BY DEF InsertAt
<1>4. <<x>> \in Seq(S) /\ Len(<<x>>) = 1 /\ <<x>>[1] = x
  OBVIOUS
<1> HIDE DEF front, back
<1>5. start \in Seq(S) /\ Len(start) = k
  BY <1>1, <1>4, ConcatProperties
<1>6. \A i \in 1 .. k - 1 : start[i] = list[i]
  <2>1. \A i \in 1 .. k : start[i] = IF i <= k - 1 THEN front[i] ELSE <<x>>[i - (k - 1)]
    BY <1>1, <1>4, ConcatProperties
  <2>2. QED
    BY <1>1, <2>1
<1>7. start[k] = x
  <2>1. start[k] = IF k <= k - 1 THEN front[k] ELSE <<x>>[k - (k - 1)]
    BY <1>1, <1>4, ConcatProperties
  <2>2. k - (k - 1) = 1 /\ ~ (k <= k - 1)
    OBVIOUS
  <2>3. QED
    BY <1>4, <2>1, <2>2
<1> HIDE DEF start
<1>8. /\ start \o back \in Seq(S)
      /\ Len(start \o back) = Len(list) + 1
      /\ \A i \in 1 .. Len(list) + 1 : (start \o back)[i] =
             IF i <= k THEN start[i] ELSE back[i - k]
  <2>1. Len(start) + Len(back) = Len(list) + 1
    BY <1>2, <1>5
  <2>2. /\ start \o back \in Seq(S)
        /\ Len(start \o back) = Len(start) + Len(back)
        /\ \A i \in 1 .. Len(start) + Len(back) : (start \o back)[i] =
               IF i <= Len(start) THEN start[i] ELSE back[i - Len(start)]
    BY <1>2, <1>5, ConcatProperties
  <2>3. QED
    BY <1>5, <2>1, <2>2
<1>9. ASSUME NEW i \in 1 .. Len(list) + 1
      PROVE  (start \o back)[i] = IF i < k THEN list[i] ELSE IF i = k THEN x ELSE list[i - 1]
  <2>1. CASE i < k
    <3>1. i \in 1 .. k - 1 /\ i <= k
      BY <2>1
    <3>2. QED
      BY <1>6, <1>8, <2>1, <3>1
  <2>2. CASE i = k
    BY <1>7, <1>8, <2>2
  <2>3. CASE i > k
    <3>1. i - k \in 1 .. Len(list) - k + 1 /\ (k + (i - k)) - 1 = i - 1 /\ ~ (i <= k)
      BY <2>3
    <3>2. (start \o back)[i] = back[i - k]
      BY <1>8, <3>1
    <3>3. back[i - k] = list[i - 1]
      BY <1>2, <3>1
    <3>4. ~ (i < k) /\ i # k
      BY <2>3
    <3>5. QED
      BY <3>2, <3>3, <3>4
  <2>4. i < k \/ i = k \/ i > k
    OBVIOUS
  <2>5. QED
    BY <2>1, <2>2, <2>3, <2>4
<1>10. QED
  BY <1>3, <1>8, <1>9 DEF InsertedAt

\* The new distances, and when the timer before the k-th is due.
SplitAt(new, list, distance, k, x, rest) ==
    \A q \in Owners : new[q] =
        IF q = x THEN rest
        ELSE IF k <= Len(list) /\ q = list[k] THEN distance[q] - rest ELSE distance[q]
Before(due, list, k) == IF k = 1 THEN 0 ELSE due[list[k - 1]]

\* A timer comes in: it goes off `rest' after the one before it, the next one
\* is counted from the new one, and all others are due as before.
LEMMA InsertDue ==
    ASSUME NEW list \in Seq(Owners), NEW distance \in [Owners -> Nat], Distinct(list),
           NEW due, CountedBy(due, list, distance),
           NEW k \in 1 .. Len(list) + 1, NEW x \in Owners, x \notin Elements(list),
           NEW rest \in Nat, k <= Len(list) => rest <= distance[list[k]],
           NEW new \in [Owners -> Nat],
           SplitAt(new, list, distance, k, x, rest), Before(due, list, k) \in Nat
    PROVE  /\ InsertAt(list, k, x) \in Seq(Owners)
           /\ Distinct(InsertAt(list, k, x))
           /\ CountedBy([due EXCEPT ![x] = Before(due, list, k) + rest], InsertAt(list, k, x), new)
<1> DEFINE list2 == InsertAt(list, k, x)
           before == Before(due, list, k)
           due2 == [due EXCEPT ![x] = before + rest]
<1>1. /\ list2 \in Seq(Owners)
      /\ Len(list2) = Len(list) + 1
      /\ \A i \in 1 .. Len(list) + 1 :
            list2[i] = IF i < k THEN list[i] ELSE IF i = k THEN x ELSE list[i - 1]
  <2>1. list2 \in Seq(Owners) /\ InsertedAt(list2, list, k, x)
    BY InsertAtIndices
  <2> HIDE DEF list2
  <2>2. QED
    BY <2>1 DEF InsertedAt
<1> HIDE DEF list2
<1>B. before \in Nat /\ before = IF k = 1 THEN 0 ELSE due[list[k - 1]]
  BY DEF Before
<1>2. PICK n \in Nat : n = Len(list)
  OBVIOUS
<1>3. k \in 1 .. n + 1 /\ DOMAIN list = 1 .. n /\ DOMAIN list2 = 1 .. n + 1
  BY <1>1, <1>2
<1>4. \A i \in 1 .. n : list[i] \in Owners /\ list[i] # x /\ distance[list[i]] \in Nat
  BY <1>2 DEF Elements
<1>5. \A i \in 1 .. n + 1 : /\ i < k => i \in 1 .. n /\ list2[i] = list[i]
                            /\ i = k => list2[i] = x
                            /\ i > k => i - 1 \in 1 .. n /\ list2[i] = list[i - 1]
  BY <1>1, <1>2, <1>3
<1>6. Distinct(list2)
  <2>1. SUFFICES ASSUME NEW i \in 1 .. n + 1, NEW j \in 1 .. n + 1, list2[i] = list2[j]
                 PROVE  i = j
    BY <1>3 DEF Distinct
  <2>2. \A a, b \in 1 .. n : list[a] = list[b] => a = b
    BY <1>3 DEF Distinct
  <2>3. i \in Int /\ j \in Int /\ k \in Int
    BY <1>3
  <2>4. CASE i < k /\ j < k
    BY <1>5, <2>1, <2>2, <2>4
  <2>5. CASE i < k /\ j > k
    <3>1. i = j - 1
      BY <1>5, <2>1, <2>2, <2>5
    <3>2. QED
      BY <2>3, <2>5, <3>1
  <2>6. CASE i > k /\ j < k
    <3>1. i - 1 = j
      BY <1>5, <2>1, <2>2, <2>6
    <3>2. QED
      BY <2>3, <2>6, <3>1
  <2>7. CASE i > k /\ j > k
    <3>1. i - 1 = j - 1
      BY <1>5, <2>1, <2>2, <2>7
    <3>2. QED
      BY <2>3, <3>1
  <2>8. \A h \in 1 .. n + 1 : h < k \/ h > k => list2[h] # x
    BY <1>4, <1>5
  <2>9. QED
    BY <1>5, <2>1, <2>3, <2>4, <2>5, <2>6, <2>7, <2>8
<1>7. /\ due = [p \in Owners |-> due[p]]
      /\ \A i \in 1 .. n : due[list[i]] \in Nat /\ due[list[i]] =
             (IF i = 1 THEN 0 ELSE due[list[i - 1]]) + distance[list[i]]
      /\ \A p \in Owners : p \notin Elements(list) => due[p] = Off
  BY <1>2 DEF CountedBy
<1>8. /\ due2 = [p \in Owners |-> due2[p]]
      /\ due2[x] = before + rest /\ \A p \in Owners \ {x} : due2[p] = due[p]
  BY <1>7
<1> HIDE DEF due2, before
<1>9. /\ new[x] = rest
      /\ k <= n => new[list[k]] = distance[list[k]] - rest /\ rest <= distance[list[k]]
      /\ \A i \in 1 .. n : i # k => new[list[i]] = distance[list[i]]
  <2>1. k <= n => k \in 1 .. n
    BY <1>3
  <2>2. \A i, j \in 1 .. n : list[i] = list[j] => i = j
    BY <1>3 DEF Distinct
  <2>3. \A i \in 1 .. n : i # k /\ k <= n => list[i] # list[k]
    BY <2>1, <2>2
  <2>4. QED
    BY <1>2, <1>4, <2>1, <2>3 DEF SplitAt
<1>10. \A i \in 1 .. n : due2[list[i]] = due[list[i]]
  BY <1>4, <1>8
<1>11. ASSUME NEW i \in 1 .. n + 1
       PROVE  due2[list2[i]] \in Nat /\ due2[list2[i]] =
                  (IF i = 1 THEN 0 ELSE due2[list2[i - 1]]) + new[list2[i]]
  <2>1. i \in Int /\ k \in Int /\ k >= 1
    BY <1>3
  <2>2. CASE i < k
    <3>0. i # k /\ (i # 1 => i - 1 \in 1 .. n + 1 /\ i - 1 < k)
      BY <2>1, <2>2
    <3>1. i \in 1 .. n /\ list2[i] = list[i] /\ i # k /\ (i # 1 => i - 1 \in 1 .. n + 1 /\ i - 1 < k)
      BY <1>5, <2>2, <3>0
    <3>2. i # 1 => i - 1 \in 1 .. n /\ list2[i - 1] = list[i - 1]
      BY <1>5, <3>1
    <3>3. due2[list[i]] = due[list[i]] /\ new[list[i]] = distance[list[i]]
      BY <1>9, <1>10, <3>1
    <3>4. i # 1 => due2[list[i - 1]] = due[list[i - 1]]
      BY <1>10, <3>2
    <3>5. due[list[i]] \in Nat /\ due[list[i]] =
              (IF i = 1 THEN 0 ELSE due[list[i - 1]]) + distance[list[i]]
      BY <1>7, <3>1
    <3>6. CASE i = 1
      BY <3>1, <3>3, <3>5, <3>6
    <3>7. CASE i # 1
      BY <3>1, <3>2, <3>3, <3>4, <3>5, <3>7
    <3>8. QED
      BY <3>6, <3>7
  <2>3. CASE i = k
    <3>1. list2[i] = x /\ new[x] = rest /\ due2[x] = before + rest
      BY <1>5, <1>8, <1>9, <2>3
    <3>2. ASSUME i # 1 PROVE due2[list2[i - 1]] = before
      <4>1. i - 1 \in 1 .. n + 1 /\ i - 1 < k
        BY <2>1, <2>3, <3>2
      <4>2. i - 1 \in 1 .. n /\ list2[i - 1] = list[i - 1]
        BY <1>5, <4>1
      <4>3. QED
        BY <1>B, <1>10, <2>3, <3>2, <4>2
    <3>3. i = 1 => before = 0
      BY <1>B, <2>3
    <3>4. before + rest \in Nat
      BY <1>B, SMTT(40)
    <3>5. QED
      BY <3>1, <3>2, <3>3, <3>4
  <2>4. CASE i > k
    <3>1. PICK j \in 1 .. n : j = i - 1
      BY <1>5, <2>4
    <3>2. list2[i] = list[j] /\ i # 1 /\ j >= k /\ j \in 1 .. n + 1
      BY <1>5, <2>1, <2>4, <3>1
    <3>3. due2[list[j]] = due[list[j]] /\ due[list[j]] \in Nat
          /\ due[list[j]] = (IF j = 1 THEN 0 ELSE due[list[j - 1]]) + distance[list[j]]
      BY <1>7, <1>10
    <3>4. CASE j = k
      <4>1. due2[list2[j]] = before + rest
        BY <1>5, <1>8, <3>2, <3>4
      <4>2. due[list[j]] = before + distance[list[j]]
        BY <1>B, <3>3, <3>4
      <4>3. new[list[j]] = distance[list[j]] - rest /\ distance[list[j]] \in Nat
        BY <1>4, <1>9, <3>4
      <4>4. due[list[j]] = (before + rest) + new[list[j]]
        <5>1. \A d \in Nat : before + d = (before + rest) + (d - rest)
          BY <1>B, SMTT(40)
        <5>2. QED
          BY <4>2, <4>3, <5>1
      <4>5. QED
        BY <3>1, <3>2, <3>3, <4>1, <4>4
    <3>5. CASE j # k
      <4>1. j > k /\ j # 1 /\ j - 1 \in 1 .. n
        <5>1. j >= k /\ j \in 1 .. n /\ k \in Int /\ k >= 1
          BY <2>1, <3>2
        <5>2. QED
          BY <3>5, <5>1
      <4>2. list2[j] = list[j - 1]
        BY <1>5, <3>2, <4>1
      <4>3. due2[list[j - 1]] = due[list[j - 1]] /\ new[list[j]] = distance[list[j]]
        BY <1>9, <1>10, <3>5, <4>1
      <4>4. QED
        BY <3>1, <3>2, <3>3, <4>1, <4>2, <4>3
    <3>6. QED
      BY <3>4, <3>5
  <2>5. QED
    BY <2>1, <2>2, <2>3, <2>4
<1>12. ASSUME NEW p \in Owners, p \notin Elements(list2) PROVE due2[p] = Off
  <2>1. \A i \in 1 .. n + 1 : list2[i] # p
    BY <1>3, <1>12 DEF Elements
  <2>2. p # x
    BY <1>3, <1>5, <2>1
  <2>3. ASSUME NEW i \in 1 .. n PROVE list[i] # p
    <3>1. CASE i < k
      <4>1. i \in 1 .. n + 1
        BY <1>3
      <4>2. list2[i] = list[i]
        BY <1>5, <3>1, <4>1
      <4>3. QED
        BY <2>1, <4>1, <4>2
    <3>2. CASE i >= k
      <4>1. i + 1 \in 1 .. n + 1 /\ i + 1 > k /\ (i + 1) - 1 = i
        BY <1>3, <3>2
      <4>2. QED
        BY <1>5, <2>1, <4>1
    <3>3. QED
      BY <1>3, <3>1, <3>2
  <2>4. QED
    BY <1>3, <1>7, <1>8, <2>2, <2>3 DEF Elements
<1>13. CountedBy(due2, list2, new)
  BY <1>1, <1>2, <1>8, <1>11, <1>12 DEF CountedBy
<1>14. QED
  BY <1>1, <1>6, <1>13 DEF list2, due2, before

\* A timer goes: the next one inherits its ticks, and all others are due as before.
LEMMA DeleteDue ==
    ASSUME NEW list \in Seq(Owners), NEW distance \in [Owners -> Nat], Distinct(list),
           NEW due, CountedBy(due, list, distance),
           NEW k \in DOMAIN list,
           NEW new \in [Owners -> Nat],
           new = [q \in Owners |-> IF k < Len(list) /\ q = list[k + 1]
                                   THEN distance[q] + distance[list[k]] ELSE distance[q]]
    PROVE  /\ DelAt(list, k) \in Seq(Owners)
           /\ Distinct(DelAt(list, k))
           /\ CountedBy([due EXCEPT ![list[k]] = Off], DelAt(list, k), new)
<1> DEFINE x == list[k]
           list2 == DelAt(list, k)
           due2 == [due EXCEPT ![x] = Off]
<1>1. /\ list2 \in Seq(Owners) /\ Len(list2) = Len(list) - 1
      /\ Elements(list2) = Elements(list) \ {x} /\ Distinct(list2)
  BY DelAtFacts
<1>2. \A i \in 1 .. Len(list) - 1 : list2[i] = list[IF i < k THEN i ELSE i + 1]
  BY DelAtIndices
<1> HIDE DEF list2
<1>3. PICK n \in Nat : n = Len(list)
  OBVIOUS
<1>4. k \in 1 .. n /\ DOMAIN list = 1 .. n /\ DOMAIN list2 = 1 .. n - 1 /\ x \in Owners
  BY <1>1, <1>3
<1>5. \A i \in 1 .. n : list[i] \in Owners /\ (i # k => list[i] # x) /\ distance[list[i]] \in Nat
  BY <1>4 DEF Distinct
<1>6. \A i \in 1 .. n - 1 : /\ i < k => list2[i] = list[i]
                            /\ i >= k => list2[i] = list[i + 1]
  BY <1>2, <1>3, <1>4
<1>7. /\ due = [p \in Owners |-> due[p]]
      /\ \A i \in 1 .. n : due[list[i]] \in Nat /\ due[list[i]] =
             (IF i = 1 THEN 0 ELSE due[list[i - 1]]) + distance[list[i]]
      /\ \A p \in Owners : p \notin Elements(list) => due[p] = Off
  BY <1>3 DEF CountedBy
<1>8. /\ due2 = [p \in Owners |-> due2[p]]
      /\ due2[x] = Off /\ \A p \in Owners \ {x} : due2[p] = due[p]
  BY <1>4, <1>7
<1>9. \A i \in 1 .. n : i # k => due2[list[i]] = due[list[i]]
  BY <1>5, <1>8
<1>10. /\ k < n => new[list[k + 1]] = distance[list[k + 1]] + distance[x]
       /\ \A i \in 1 .. n : i # k + 1 => new[list[i]] = distance[list[i]]
  <2>1. k < n => k + 1 \in 1 .. n
    BY <1>4
  <2>2. \A i, j \in 1 .. n : list[i] = list[j] => i = j
    BY <1>4 DEF Distinct
  <2>3. \A i \in 1 .. n : i # k + 1 /\ k < n => list[i] # list[k + 1]
    BY <2>1, <2>2
  <2>4. QED
    BY <1>3, <1>5, <2>1, <2>3
<1> HIDE DEF due2, x
<1>11. ASSUME NEW i \in 1 .. n - 1
       PROVE  due2[list2[i]] \in Nat /\ due2[list2[i]] =
                  (IF i = 1 THEN 0 ELSE due2[list2[i - 1]]) + new[list2[i]]
  <2>1. i \in Int /\ k \in Int /\ k >= 1 /\ i \in 1 .. n /\ i + 1 \in 1 .. n /\ (i + 1) - 1 = i
    BY <1>4
  <2>2. due[list[i]] \in Nat /\ due[list[i]] =
            (IF i = 1 THEN 0 ELSE due[list[i - 1]]) + distance[list[i]]
    BY <1>7, <2>1
  <2>3. due[list[i + 1]] \in Nat /\ due[list[i + 1]] = due[list[i]] + distance[list[i + 1]]
    <3>1. i + 1 # 1
      BY <2>1
    <3>2. QED
      BY <1>7, <2>1, <3>1
  <2>4. CASE i < k
    <3>1. i # k /\ i # k + 1 /\ (i # 1 => i - 1 \in 1 .. n - 1 /\ i - 1 < k /\ i - 1 # k /\ i - 1 \in 1 .. n)
      BY <2>1, <2>4
    <3>2. list2[i] = list[i] /\ due2[list[i]] = due[list[i]] /\ new[list[i]] = distance[list[i]]
      BY <1>6, <1>9, <1>10, <2>1, <2>4, <3>1
    <3>3. i # 1 => due2[list2[i - 1]] = due[list[i - 1]]
      BY <1>6, <1>9, <3>1
    <3>4. CASE i = 1
      BY <2>2, <3>2, <3>4
    <3>5. CASE i # 1
      BY <2>2, <3>2, <3>3, <3>5
    <3>6. QED
      BY <3>4, <3>5
  <2>5. CASE i = k
    <3>1. i + 1 # k /\ k < n /\ i >= k
      BY <2>1, <2>5
    <3>2. list2[i] = list[i + 1] /\ due2[list[i + 1]] = due[list[i + 1]]
          /\ new[list[i + 1]] = distance[list[i + 1]] + distance[list[i]]
      BY <1>6, <1>9, <1>10, <2>1, <2>5, <3>1 DEF x
    <3>3. distance[list[i]] \in Nat /\ distance[list[i + 1]] \in Nat
      BY <1>5, <2>1
    <3>4. CASE i = 1
      BY <2>2, <2>3, <3>2, <3>3, <3>4
    <3>5. CASE i # 1
      <4>1. i - 1 \in 1 .. n - 1 /\ i - 1 < k /\ i - 1 # k /\ i - 1 \in 1 .. n
        BY <2>1, <2>5, <3>5
      <4>2. due2[list2[i - 1]] = due[list[i - 1]] /\ due[list[i - 1]] \in Nat
        BY <1>6, <1>7, <1>9, <4>1
      <4>3. due[list[i]] = due[list[i - 1]] + distance[list[i]]
        BY <2>2, <3>5
      <4>4. \A a, b, c \in Nat : (a + b) + c = a + (c + b)
        OBVIOUS
      <4>5. due[list[i + 1]] =
                due[list[i - 1]] + (distance[list[i + 1]] + distance[list[i]])
        BY <2>3, <3>3, <4>2, <4>3, <4>4, SMTT(40)
      <4>6. QED
        BY <2>3, <3>2, <3>5, <4>2, <4>5
    <3>6. QED
      BY <3>4, <3>5
  <2>6. CASE i > k
    <3>1. i + 1 # k /\ i + 1 # k + 1 /\ i >= k /\ i # 1 /\ i # k
          /\ i - 1 \in 1 .. n - 1 /\ i - 1 >= k /\ (i - 1) + 1 = i
      BY <2>1, <2>6
    <3>2. list2[i] = list[i + 1] /\ due2[list[i + 1]] = due[list[i + 1]]
          /\ new[list[i + 1]] = distance[list[i + 1]]
      BY <1>6, <1>9, <1>10, <2>1, <3>1
    <3>3. list2[i - 1] = list[i]
      BY <1>6, <3>1
    <3>4. due2[list2[i - 1]] = due[list[i]]
      BY <1>9, <2>1, <3>1, <3>3
    <3>5. QED
      BY <2>3, <3>1, <3>2, <3>4
  <2>7. QED
    BY <2>1, <2>4, <2>5, <2>6
<1>12. CountedBy(due2, list2, new)
  <2>1. Len(list2) = n - 1
    BY <1>1, <1>3
  <2>2. \A p \in Owners : p \notin Elements(list2) => due2[p] = Off
    BY <1>1, <1>7, <1>8
  <2>3. QED
    BY <1>8, <1>11, <2>1, <2>2 DEF CountedBy
<1>13. QED
  BY <1>1, <1>12 DEF list2, due2, x

\* The timers that a tick sets off are the first ones of the list: the head,
\* if it has one tick to go, and those that are due with it.
IsDue(list, distance, i) ==
    \A j \in 1 .. i : distance[list[j]] = IF j = 1 THEN 1 ELSE 0

LEMMA DueArePrefix ==
    ASSUME NEW list \in Seq(Owners), NEW distance \in [Owners -> Nat], Distinct(list)
    PROVE  \E m \in 0 .. Len(list) :
              /\ m = Cardinality({list[i] : i \in {j \in DOMAIN list : IsDue(list, distance, j)}})
              /\ \A i \in 1 .. Len(list) : IsDue(list, distance, i) <=> i <= m
<1> DEFINE J == {j \in DOMAIN list : IsDue(list, distance, j)}
<1>1. PICK n \in Nat : n = Len(list)
  OBVIOUS
<1>2. DOMAIN list = 1 .. n
  BY <1>1
<1>3. \A i, j \in 1 .. n : j \in J /\ i <= j => i \in J
  BY <1>2 DEF IsDue
<1>4. \E m \in 0 .. n : \A i \in 1 .. n : i \in J <=> i <= m
  <2>1. CASE \E m \in 0 .. n - 1 : (m = 0 \/ m \in J) /\ m + 1 \notin J
    <3>1. PICK m \in 0 .. n - 1 : (m = 0 \/ m \in J) /\ m + 1 \notin J
      BY <2>1
    <3>2. ASSUME NEW i \in 1 .. n PROVE i \in J <=> i <= m
      <4>1. CASE i <= m
        <5>1. m # 0 /\ m \in 1 .. n
          BY <4>1
        <5>2. QED
          BY <1>3, <3>1, <4>1, <5>1
      <4>2. CASE ~ (i <= m)
        <5>1. m + 1 \in 1 .. n /\ m + 1 <= i
          BY <4>2
        <5>2. i \notin J
          BY <1>3, <3>1, <5>1
        <5>3. QED
          BY <4>2, <5>2
      <4>3. QED
        BY <4>1, <4>2
    <3>3. m \in 0 .. n
      OBVIOUS
    <3> HIDE DEF J
    <3>4. QED
      BY <3>2, <3>3
  <2>2. CASE \A m \in 0 .. n - 1 : m = 0 \/ m \in J => m + 1 \in J
    <3> DEFINE T == {i \in Nat : i <= n => i = 0 \/ i \in J}
    <3> HIDE DEF J
    <3>1. 0 \in T
      OBVIOUS
    <3>2. ASSUME NEW i \in T PROVE i + 1 \in T
      BY <2>2
    <3>3. T \in SUBSET Nat
      OBVIOUS
    <3> HIDE DEF T
    <3>4. T = Nat
      BY <3>1, <3>2, <3>3, NatSetInduction
    <3>5. \A i \in 1 .. n : i \in T
      BY <3>4
    <3>6. \A i \in 1 .. n : i \in J /\ i <= n
      BY <3>5 DEF T
    <3>7. n \in 0 .. n
      OBVIOUS
    <3>8. QED
      BY <3>6, <3>7
  <2>3. QED
    BY <2>1, <2>2
<1>5. PICK m \in 0 .. n : \A i \in 1 .. n : i \in J <=> i <= m
  BY <1>4
<1>6. J = 1 .. m
  <2>1. \A i \in J : i \in 1 .. n
    BY <1>2
  <2>2. \A i \in 1 .. m : i \in 1 .. n /\ i <= m
    OBVIOUS
  <2>3. \A i \in 1 .. n : i <= m => i \in 1 .. m
    OBVIOUS
  <2> HIDE DEF J
  <2>4. QED
    BY <1>5, <2>1, <2>2, <2>3
<1>7. m = Cardinality({list[i] : i \in J})
  <2> DEFINE S == {list[i] : i \in 1 .. m}
             f == [i \in 1 .. m |-> list[i]]
  <2>1. f \in Bijection(1 .. m, S)
    <3>1. f \in [1 .. m -> S]
      OBVIOUS
    <3>2. \A i, j \in 1 .. m : f[i] = f[j] => i = j
      <4>1. \A i \in 1 .. m : i \in DOMAIN list
        BY <1>2
      <4>2. QED
        BY <4>1 DEF Distinct
    <3>3. \A y \in S : \E i \in 1 .. m : f[i] = y
      OBVIOUS
    <3>4. QED
      BY <3>1, <3>2, <3>3 DEF Bijection, Injection, Surjection, IsInjective
  <2>2. IsFiniteSet(1 .. m) /\ Cardinality(1 .. m) = m
    <3>1. m \in Int /\ 1 \in Int /\ (1 > m => m = 0) /\ (m - 1) + 1 = m
      OBVIOUS
    <3>2. QED
      BY <3>1, FS_Interval
  <2>3. ExistsBijection(1 .. m, S)
    BY <2>1 DEF ExistsBijection
  <2>4. Cardinality(S) = m
    BY <2>2, <2>3, FS_Bijection
  <2> HIDE DEF J
  <2>5. QED
    BY <1>6, <2>4
<1>8. \A i \in 1 .. n : IsDue(list, distance, i) <=> i <= m
  BY <1>2, <1>5
<1>9. QED
  BY <1>1, <1>5, <1>7, <1>8

\* Nobody is due before the timers in front.
LEMMA DueGrows ==
    ASSUME NEW list \in Seq(Owners), NEW distance \in [Owners -> Nat],
           NEW due, CountedBy(due, list, distance),
           NEW i \in 1 .. Len(list), NEW j \in 1 .. Len(list), i <= j
    PROVE  due[list[i]] <= due[list[j]]
<1> DEFINE T == {k \in Nat : i + k <= Len(list) => due[list[i]] <= due[list[i + k]]}
<1>1. PICK n \in Nat : n = Len(list)
  OBVIOUS
<1>2. \A k \in 1 .. n : /\ list[k] \in Owners /\ distance[list[k]] \in Nat /\ due[list[k]] \in Nat
                        /\ k # 1 => due[list[k]] = due[list[k - 1]] + distance[list[k]]
  BY <1>1 DEF CountedBy
<1>3. 0 \in T
  <2>1. i + 0 = i /\ due[list[i]] \in Nat
    BY <1>1, <1>2
  <2>2. due[list[i]] <= due[list[i]]
    BY <2>1
  <2>3. QED
    BY <2>1, <2>2
<1>4. ASSUME NEW k \in T PROVE k + 1 \in T
  <2>1. SUFFICES ASSUME i + (k + 1) <= n PROVE due[list[i]] <= due[list[i + (k + 1)]]
    BY <1>1
  <2>2. i + (k + 1) \in 1 .. n /\ (i + (k + 1)) - 1 = i + k /\ i + k \in 1 .. n /\ i \in 1 .. n
        /\ i + (k + 1) # 1
    BY <1>1, <2>1
  <2>3. due[list[i]] <= due[list[i + k]]
    BY <1>1, <2>2
  <2>4. due[list[i + (k + 1)]] = due[list[i + k]] + distance[list[i + (k + 1)]]
    BY <1>2, <2>2
  <2>5. distance[list[i + (k + 1)]] \in Nat /\ due[list[i]] \in Nat /\ due[list[i + k]] \in Nat
    BY <1>2, <2>2
  <2>6. \A a, c, d \in Nat : a <= c => a <= c + d
    OBVIOUS
  <2>7. QED
    BY <2>3, <2>4, <2>5, <2>6
<1>5. T \in SUBSET Nat
  OBVIOUS
<1> HIDE DEF T
<1>6. T = Nat
  BY <1>3, <1>4, <1>5, NatSetInduction
<1>7. j - i \in T /\ i + (j - i) = j /\ j <= Len(list)
  BY <1>1, <1>6
<1>8. QED
  BY <1>7 DEF T

\* A tick: those that had one tick left go, the others are due a tick earlier,
\* and the new head has a tick to go.
LEMMA TickDue ==
    ASSUME NEW list \in Seq(Owners), NEW distance \in [Owners -> Nat], Distinct(list),
           NEW due, CountedBy(due, list, distance), Off \notin Nat,
           list # <<>>, distance[list[1]] > 0,
           NEW m \in 0 .. Len(list),
           \A i \in 1 .. Len(list) : IsDue(list, distance, i) <=> i <= m,
           NEW new \in [Owners -> Nat],
           new = [distance EXCEPT ![list[1]] = @ - 1]
    PROVE  LET list2 == SubSeq(list, m + 1, Len(list)) IN
           /\ list2 \in Seq(Owners) /\ Distinct(list2)
           /\ list2 # <<>> => new[list2[1]] > 0
           /\ CountedBy([p \in Owners |-> IF due[p] \in {Off, 1} THEN Off ELSE due[p] - 1],
                        list2, new)
<1> DEFINE list2 == SubSeq(list, m + 1, Len(list))
           due2 == [p \in Owners |-> IF due[p] \in {Off, 1} THEN Off ELSE due[p] - 1]
<1>1. PICK n \in Nat : n = Len(list)
  OBVIOUS
<1>2. /\ n >= 1 /\ m \in 0 .. n /\ DOMAIN list = 1 .. n /\ 1 \in 1 .. n
      /\ \A i \in 1 .. n : list[i] \in Owners /\ distance[list[i]] \in Nat
  BY <1>1
<1>3. /\ list2 \in Seq(Owners) /\ Len(list2) = n - m /\ DOMAIN list2 = 1 .. n - m
      /\ \A i \in 1 .. n - m : list2[i] = list[m + i]
  <2>1. \A i \in m + 1 .. n : list[i] \in Owners
    BY <1>2
  <2>2. m + 1 \in Int /\ n \in Int /\ (n - (m + 1)) + 1 = n - m
        /\ (IF m + 1 <= n THEN (n - (m + 1)) + 1 ELSE 0) = n - m
        /\ \A i \in 1 .. n - m : (m + 1) + i - 1 = m + i
    BY <1>2
  <2>3. /\ list2 \in Seq(Owners) /\ Len(list2) = n - m
        /\ \A i \in 1 .. n - m : list2[i] = list[m + i]
    BY <1>1, <2>1, <2>2, SubSeqProperties
  <2> HIDE DEF list2
  <2>4. QED
    BY <2>3
<1>4. \A i, j \in 1 .. n : list[i] = list[j] => i = j
  BY <1>2 DEF Distinct
<1> HIDE DEF list2
<1>5. Distinct(list2)
  <2>1. \A i, j \in 1 .. n - m : m + i \in 1 .. n /\ m + j \in 1 .. n /\ (m + i = m + j => i = j)
    BY <1>2
  <2>2. QED
    BY <1>3, <1>4, <2>1 DEF Distinct
<1>6. /\ due = [p \in Owners |-> due[p]]
      /\ \A i \in 1 .. n : due[list[i]] \in Nat /\ due[list[i]] =
             (IF i = 1 THEN 0 ELSE due[list[i - 1]]) + distance[list[i]]
      /\ \A p \in Owners : p \notin Elements(list) => due[p] = Off
  BY <1>1 DEF CountedBy
<1>F. due[list[1]] = distance[list[1]]
  <2>1. due[list[1]] = 0 + distance[list[1]] /\ distance[list[1]] \in Nat
    <3>1. 1 \in 1 .. n
      BY <1>2
    <3>2. due[list[1]] = (IF 1 = 1 THEN 0 ELSE due[list[1 - 1]]) + distance[list[1]]
      BY <1>6, <3>1
    <3>3. QED
      BY <1>2, <3>2
  <2>2. QED
    BY <2>1
<1>7. \A i \in 1 .. n : i <= m => distance[list[i]] = IF i = 1 THEN 1 ELSE 0
  <2>1. \A i \in 1 .. n : i <= m => IsDue(list, distance, i) /\ i \in 1 .. i
    BY <1>1
  <2>2. QED
    BY <2>1 DEF IsDue
<1>8. m < n => distance[list[m + 1]] # IF m + 1 = 1 THEN 1 ELSE 0
  <2>1. SUFFICES ASSUME m < n, distance[list[m + 1]] = IF m + 1 = 1 THEN 1 ELSE 0 PROVE FALSE
    OBVIOUS
  <2>2. \A i \in 1 .. m + 1 : i \in 1 .. n /\ (i <= m \/ i = m + 1)
    BY <1>2, <2>1
  <2>3. IsDue(list, distance, m + 1)
    BY <1>7, <2>1, <2>2 DEF IsDue
  <2>4. m + 1 \in 1 .. n /\ ~ (m + 1 <= m)
    BY <1>2, <2>1
  <2>5. QED
    BY <1>1, <2>3, <2>4
\* Those that go have one tick left ...
<1>9. \A i \in 1 .. n : i <= m => due[list[i]] = 1
  <2> DEFINE T == {i \in Nat : i + 1 <= m => due[list[i + 1]] = 1}
  <2>1. 0 \in T
    <3>1. 1 <= m => due[list[1]] = 1
      BY <1>2, <1>F, <1>7
    <3>2. QED
      BY <3>1
  <2>2. ASSUME NEW i \in T PROVE i + 1 \in T
    <3>1. SUFFICES ASSUME (i + 1) + 1 <= m PROVE due[list[(i + 1) + 1]] = 1
      OBVIOUS
    <3>2. (i + 1) + 1 \in 1 .. n /\ (i + 1) + 1 # 1 /\ ((i + 1) + 1) - 1 = i + 1 /\ i + 1 <= m
      BY <1>2, <3>1
    <3>3. due[list[i + 1]] = 1 /\ distance[list[(i + 1) + 1]] = 0
      BY <1>7, <3>1, <3>2
    <3>4. due[list[(i + 1) + 1]] = due[list[i + 1]] + distance[list[(i + 1) + 1]]
      BY <1>6, <3>2
    <3>5. QED
      BY <3>3, <3>4
  <2>3. T \in SUBSET Nat
    OBVIOUS
  <2> HIDE DEF T
  <2>4. T = Nat
    BY <2>1, <2>2, <2>3, NatSetInduction
  <2>5. ASSUME NEW i \in 1 .. n, i <= m PROVE due[list[i]] = 1
    <3>1. i - 1 \in T /\ (i - 1) + 1 = i
      BY <2>4
    <3>2. QED
      BY <2>5, <3>1 DEF T
  <2>6. QED
    BY <2>5
\* ... the next one has more, and so have all behind it.
<1>10. m < n => due[list[m + 1]] > 1
  <2>1. SUFFICES ASSUME m < n PROVE due[list[m + 1]] > 1
    OBVIOUS
  <2>2. m + 1 \in 1 .. n
    BY <1>2, <2>1
  <2>3. CASE m = 0
    <3>1. m + 1 = 1 /\ distance[list[1]] # 1 /\ distance[list[1]] \in Nat
      BY <1>2, <1>8, <2>1, <2>3
    <3>2. QED
      BY <1>F, <3>1
  <2>4. CASE m # 0
    <3>1. m \in 1 .. n /\ m <= m /\ m + 1 # 1 /\ (m + 1) - 1 = m
      BY <1>2, <2>4
    <3>2. due[list[m + 1]] = due[list[m]] + distance[list[m + 1]] /\ due[list[m]] = 1
      BY <1>6, <1>9, <2>2, <3>1
    <3>3. distance[list[m + 1]] # 0 /\ distance[list[m + 1]] \in Nat
      BY <1>2, <1>8, <2>1, <2>2, <3>1
    <3>4. QED
      BY <3>2, <3>3
  <2>5. QED
    BY <2>3, <2>4
<1>11. ASSUME NEW i \in 1 .. n, i > m PROVE due[list[i]] > 1
  <2>1. m < n /\ m + 1 \in 1 .. n /\ m + 1 <= i
    BY <1>2, <1>11
  <2>2. due[list[m + 1]] <= due[list[i]]
    BY <1>1, <2>1, DueGrows
  <2>3. due[list[m + 1]] \in Nat /\ due[list[i]] \in Nat
    BY <1>6, <2>1
  <2>4. QED
    BY <1>10, <2>1, <2>2, <2>3
<1>12. /\ new[list[1]] = distance[list[1]] - 1
       /\ \A i \in 1 .. n : i # 1 => new[list[i]] = distance[list[i]]
  BY <1>2, <1>4
<1>13. list2 # <<>> => new[list2[1]] > 0
  <2>1. SUFFICES ASSUME list2 # <<>> PROVE new[list2[1]] > 0
    OBVIOUS
  <2>2. m < n /\ m + 1 \in 1 .. n /\ 1 \in 1 .. n - m
    <3>1. n - m # 0
      BY <1>3, <2>1
    <3>2. QED
      BY <1>2, <3>1
  <2>3. list2[1] = list[m + 1] /\ distance[list[m + 1]] \in Nat
    BY <1>2, <1>3, <2>2
  <2>4. CASE m = 0
    <3>1. m + 1 = 1 /\ distance[list[1]] # 1 /\ distance[list[1]] \in Nat
      BY <1>2, <1>8, <2>2, <2>4
    <3>2. QED
      BY <1>12, <2>3, <3>1
  <2>5. CASE m # 0
    <3>1. m + 1 # 1
      BY <1>2, <2>5
    <3>2. QED
      BY <1>8, <1>12, <2>2, <2>3, <3>1
  <2>6. QED
    BY <2>4, <2>5
<1>14. ASSUME NEW i \in 1 .. n, i > m PROVE due2[list[i]] = due[list[i]] - 1
  <2>1. due[list[i]] \in Nat /\ due[list[i]] > 1 /\ list[i] \in Owners
    BY <1>2, <1>6, <1>11, <1>14
  <2>2. due[list[i]] \notin {Off, 1}
    BY <2>1
  <2>3. QED
    BY <2>1, <2>2
<1>15. \A p \in Owners : p \notin Elements(list2) => due2[p] = Off
  <2>1. SUFFICES ASSUME NEW p \in Owners, p \notin Elements(list2) PROVE due2[p] = Off
    OBVIOUS
  <2>2. CASE p \notin Elements(list)
    BY <1>6, <2>2
  <2>3. CASE p \in Elements(list)
    <3>1. PICK i \in 1 .. n : list[i] = p
      BY <1>2, <2>3 DEF Elements
    <3>2. i <= m
      <4>1. SUFFICES ASSUME i > m PROVE FALSE
        BY <1>2
      <4>2. i - m \in 1 .. n - m /\ m + (i - m) = i
        BY <1>2, <4>1
      <4>3. list2[i - m] = p
        BY <1>3, <3>1, <4>2
      <4>4. QED
        BY <1>3, <2>1, <4>2, <4>3 DEF Elements
    <3>3. due[p] = 1
      BY <1>9, <3>1, <3>2
    <3>4. QED
      BY <3>3
  <2>4. QED
    BY <2>2, <2>3
<1> DEFINE Fits(i) == due2[list2[i]] \in Nat /\ due2[list2[i]] =
                          (IF i = 1 THEN 0 ELSE due2[list2[i - 1]]) + new[list2[i]]
<1>16. ASSUME NEW i \in 1 .. n - m PROVE Fits(i)
  <2>1. PICK k \in 1 .. n : k = m + i
    BY <1>2
  <2>2. list2[i] = list[k] /\ k > m /\ k \in Nat /\ m \in Nat /\ i \in Nat
    BY <1>2, <1>3, <2>1
  <2>3. due2[list[k]] = due[list[k]] - 1 /\ due[list[k]] \in Nat /\ due[list[k]] > 1
    BY <1>6, <1>11, <1>14, <2>2
  <2>4. distance[list[k]] \in Nat
    BY <1>2
  <2> HIDE DEF due2
  <2>5. CASE i = 1 /\ m = 0
    <3>1. k = 1 /\ due[list[k]] = 0 + distance[list[k]] /\ new[list[k]] = distance[list[k]] - 1
      BY <1>6, <1>12, <2>1, <2>5
    <3>2. QED
      BY <2>2, <2>3, <2>4, <2>5, <3>1
  <2>6. CASE i = 1 /\ m # 0
    <3>1. k # 1 /\ k - 1 = m /\ m \in 1 .. n /\ m <= m
      BY <1>2, <2>1, <2>6
    <3>2. due[list[k]] = 1 + distance[list[k]] /\ new[list[k]] = distance[list[k]]
      BY <1>6, <1>9, <1>12, <3>1
    <3>3. QED
      BY <2>2, <2>3, <2>4, <2>6, <3>2
  <2>7. CASE i # 1
    <3>1. k # 1 /\ i - 1 \in 1 .. n - m /\ m + (i - 1) = k - 1 /\ k - 1 \in 1 .. n /\ k - 1 > m
      BY <1>2, <2>1, <2>2, <2>7
    <3>2. list2[i - 1] = list[k - 1] /\ new[list[k]] = distance[list[k]]
      BY <1>3, <1>12, <3>1
    <3>3. due2[list[k - 1]] = due[list[k - 1]] - 1 /\ due[list[k - 1]] \in Nat
      BY <1>6, <1>14, <3>1
    <3>4. due[list[k]] = due[list[k - 1]] + distance[list[k]]
      BY <1>6, <3>1
    <3>5. due2[list[k]] = due2[list[k - 1]] + new[list[k]] /\ due2[list[k]] \in Nat
      <4>1. \A a, b, c \in Nat : a = b + c /\ a > 1 => a - 1 = (b - 1) + c /\ a - 1 \in Nat
        OBVIOUS
      <4>2. PICK a \in Nat : a = due[list[k]]
        BY <2>3
      <4>3. PICK b \in Nat : b = due[list[k - 1]]
        BY <3>3
      <4>4. PICK c \in Nat : c = distance[list[k]]
        BY <2>4
      <4>5. a = b + c /\ a > 1
        BY <2>3, <3>4, <4>2, <4>3, <4>4
      <4>6. a - 1 = (b - 1) + c /\ a - 1 \in Nat
        BY <4>1, <4>5
      <4>7. QED
        BY <2>3, <3>2, <3>3, <4>2, <4>3, <4>4, <4>6
    <3>6. QED
      BY <2>2, <2>7, <3>2, <3>5
  <2>8. QED
    BY <2>5, <2>6, <2>7
<1>17. due2 = [p \in Owners |-> due2[p]]
  OBVIOUS
<1> HIDE DEF due2
<1>18. CountedBy(due2, list2, new)
  BY <1>3, <1>15, <1>16, <1>17 DEF CountedBy
<1>19. QED
  BY <1>3, <1>5, <1>13, <1>18 DEF list2, due2

-----------------------------------------------------------------------------

TimerInv == TimerTypeOK /\ Distinct(timer_list) /\ HeadNotExpired

TimersDue == DueIn(timer_list, expires)

LEMMA Counting ==
    ASSUME TimerInv
    PROVE  /\ CountedBy(TimersDue, timer_list, expires)
           /\ Linked = Elements(timer_list)
           /\ \A p \in Owners : IF p \in Linked THEN TimersDue[p] \in Nat ELSE TimersDue[p] = Off
<1>1. timer_list \in Seq(Owners) /\ expires \in [Owners -> Nat] /\ Distinct(timer_list)
  BY DEF TimerInv, TimerTypeOK
<1>2. CountedBy(TimersDue, timer_list, expires)
  BY <1>1, DueFacts DEF TimersDue
<1>3. Linked = Elements(timer_list)
  BY DEF Linked, Elements
<1>4. \A p \in Owners : p \in Elements(timer_list) => TimersDue[p] \in Nat
  <2>1. \A i \in DOMAIN timer_list : TimersDue[timer_list[i]] \in Nat
    <3>1. DOMAIN timer_list = 1 .. Len(timer_list)
      BY <1>1
    <3>2. QED
      BY <1>2, <3>1 DEF CountedBy
  <2>2. QED
    BY <2>1 DEF Elements
<1>5. QED
  BY <1>2, <1>3, <1>4 DEF CountedBy

\* What every operation has to show for its new list and distances.
LEMMA Counted ==
    ASSUME NEW list \in Seq(Owners), NEW distance \in [Owners -> Nat], Distinct(list),
           list # <<>> => distance[list[1]] > 0,
           NEW counts, CountedBy(counts, list, distance),
           timer_list' = list, expires' = distance
    PROVE  TimerInv' /\ TimersDue' = counts
<1>1. TimersDue' = counts
  <2>1. DueIn(list, distance) = counts
    BY DueUnique
  <2>2. QED
    BY <2>1 DEF TimersDue
<1>2. TimerTypeOK' /\ Distinct(timer_list)'
  BY DEF TimerTypeOK
<1>3. HeadNotExpired'
  <2>1. list # <<>> => Head(list) = list[1]
    OBVIOUS
  <2>2. QED
    BY <2>1 DEF HeadNotExpired
<1>4. QED
  BY <1>1, <1>2, <1>3 DEF TimerInv

LEMMA InitTimerStep ==
    ASSUME TimerInv, NEW p \in Owners, InitTimer(p)
    PROVE  TimerInv' /\ TimersDue' = TimersDue
<1>1. timer_list \in Seq(Owners) /\ expires \in [Owners -> Nat] /\ Distinct(timer_list)
      /\ (timer_list # <<>> => expires[timer_list[1]] > 0)
  BY DEF TimerInv, TimerTypeOK, HeadNotExpired
<1>2. CountedBy(TimersDue, timer_list, expires) /\ Linked = Elements(timer_list)
  BY Counting
<1>3. PICK new \in [Owners -> Nat] : /\ timer_list' = timer_list /\ expires' = new
                                     /\ \A q \in Owners \ {p} : new[q] = expires[q]
  BY <1>1 DEF InitTimer
<1>4. \A i \in 1 .. Len(timer_list) : timer_list[i] \in Owners \ {p}
  <2>1. \A i \in 1 .. Len(timer_list) : timer_list[i] \in Elements(timer_list)
    BY <1>1 DEF Elements
  <2>2. p \notin Elements(timer_list)
    BY <1>2 DEF InitTimer
  <2>3. QED
    BY <1>1, <2>1, <2>2
<1>5. CountedBy(TimersDue, timer_list, new)
  BY <1>2, <1>3, <1>4 DEF CountedBy
<1>6. timer_list # <<>> => new[timer_list[1]] > 0
  <2>1. timer_list # <<>> => 1 \in 1 .. Len(timer_list)
    BY <1>1
  <2>2. QED
    BY <1>1, <1>3, <1>4, <2>1
<1>7. QED
  BY <1>1, <1>3, <1>5, <1>6, Counted

LEMMA DelTimerStep ==
    ASSUME TimerInv, NEW p \in Owners, DelTimer(p)
    PROVE  TimerInv' /\ TimersDue' = [TimersDue EXCEPT ![p] = Off]
<1>1. timer_list \in Seq(Owners) /\ expires \in [Owners -> Nat] /\ Distinct(timer_list)
      /\ (timer_list # <<>> => expires[timer_list[1]] > 0)
  BY DEF TimerInv, TimerTypeOK, HeadNotExpired
<1>2. /\ CountedBy(TimersDue, timer_list, expires) /\ Linked = Elements(timer_list)
      /\ p \notin Linked => TimersDue[p] = Off
  BY Counting
<1>3. CASE p \notin Linked
  <2>1. timer_list' = timer_list /\ expires' = expires
    BY <1>3 DEF DelTimer, timer_vars
  <2>2. TimerInv' /\ TimersDue' = TimersDue
    BY <1>1, <1>2, <2>1, Counted
  <2>3. TimersDue = [TimersDue EXCEPT ![p] = Off]
    BY <1>2, <1>3 DEF CountedBy
  <2>4. QED
    BY <2>2, <2>3
<1>4. CASE p \in Linked
  <2> DEFINE k == CHOOSE i \in DOMAIN timer_list : timer_list[i] = p
             new == [q \in Owners |-> IF k < Len(timer_list) /\ q = timer_list[k + 1]
                                      THEN expires[q] + expires[timer_list[k]] ELSE expires[q]]
  <2>1. k \in DOMAIN timer_list /\ timer_list[k] = p
    BY <1>4 DEF Linked
  <2>2. timer_list' = DelAt(timer_list, k) /\ expires' = new
    BY <1>4, <2>1 DEF DelTimer, RemoveAt, DelAt
  <2> HIDE DEF k
  <2>3. new \in [Owners -> Nat]
    <3>1. expires[timer_list[k]] \in Nat
      BY <1>1, <2>1
    <3>2. QED
      BY <1>1, <3>1
  <2>4. new = [q \in Owners |-> IF k < Len(timer_list) /\ q = timer_list[k + 1]
                                THEN expires[q] + expires[timer_list[k]] ELSE expires[q]]
    OBVIOUS
  <2> HIDE DEF new
  <2>5. /\ DelAt(timer_list, k) \in Seq(Owners) /\ Distinct(DelAt(timer_list, k))
        /\ CountedBy([TimersDue EXCEPT ![p] = Off], DelAt(timer_list, k), new)
    BY <1>1, <1>2, <2>1, <2>3, <2>4, DeleteDue
  <2>6. ASSUME DelAt(timer_list, k) # <<>> PROVE new[DelAt(timer_list, k)[1]] > 0
    <3>1. PICK n \in Nat : n = Len(timer_list)
      BY <1>1
    <3>2. k \in 1 .. n /\ 1 \in 1 .. n - 1
      <4>1. Len(DelAt(timer_list, k)) = n - 1 /\ Len(DelAt(timer_list, k)) # 0
        BY <1>1, <2>1, <2>5, <2>6, <3>1, DelAtIndices
      <4>2. k \in 1 .. n
        BY <1>1, <2>1, <3>1
      <4>3. QED
        BY <4>1, <4>2
    <3>3. DelAt(timer_list, k)[1] = timer_list[IF 1 < k THEN 1 ELSE 2]
      <4>1. \A i \in 1 .. Len(timer_list) - 1 :
                DelAt(timer_list, k)[i] = timer_list[IF i < k THEN i ELSE i + 1]
        BY <1>1, <2>1, DelAtIndices
      <4>2. DelAt(timer_list, k)[1] = timer_list[IF 1 < k THEN 1 ELSE 1 + 1]
        BY <3>1, <3>2, <4>1
      <4>3. QED
        BY <4>2
    <3>4. /\ timer_list # <<>> /\ expires[timer_list[1]] > 0
          /\ \A i \in 1 .. n : timer_list[i] \in Owners /\ expires[timer_list[i]] \in Nat
      BY <1>1, <3>1, <3>2
    <3>5. CASE k = 1
      <4>1. 2 \in 1 .. n /\ k < n /\ k + 1 = 2
        BY <3>2, <3>5
      <4>2. new[timer_list[2]] = expires[timer_list[2]] + expires[timer_list[1]]
        BY <2>4, <3>1, <3>4, <3>5, <4>1
      <4>3. QED
        BY <3>3, <3>4, <3>5, <4>1, <4>2
    <3>6. CASE k # 1
      <4>1. 1 \in 1 .. n /\ 1 < k /\ k + 1 # 1 /\ (k < n => k + 1 \in 1 .. n)
        BY <3>2, <3>6
      <4>2. k < n => timer_list[k + 1] # timer_list[1]
        BY <1>1, <3>1, <4>1 DEF Distinct
      <4>3. new[timer_list[1]] = expires[timer_list[1]]
        BY <2>4, <3>1, <3>4, <4>1, <4>2
      <4>4. QED
        BY <3>3, <3>4, <4>1, <4>3
    <3>7. QED
      BY <3>5, <3>6
  <2>7. QED
    BY <2>2, <2>3, <2>5, <2>6, Counted
<1>5. QED
  BY <1>3, <1>4

\* The loop of add_timer() stops in front of the first timer that is due later.
LEMMA PlaceFacts ==
    ASSUME TimerInv, NEW ticks \in Nat
    PROVE  LET k == Place(ticks).position
               rest == Place(ticks).rest
               before == Before(TimersDue, timer_list, k) IN
           /\ k \in 1 .. Len(timer_list) + 1 /\ rest \in Nat /\ before \in Nat
           /\ before + rest = ticks
           /\ k <= Len(timer_list) => rest < expires[timer_list[k]]
<1> DEFINE t == TicksUpTo(timer_list, expires)
           stops == {i \in 1 .. Len(timer_list) : ticks < t[i]}
           k == CHOOSE i \in stops \cup {Len(timer_list) + 1} : \A j \in stops : i <= j
           before == Before(TimersDue, timer_list, k)
<1>1. timer_list \in Seq(Owners) /\ expires \in [Owners -> Nat] /\ Distinct(timer_list)
  BY DEF TimerInv, TimerTypeOK
<1>2. PICK n \in Nat : n = Len(timer_list)
  BY <1>1
<1>3. /\ t \in [0 .. n -> Nat] /\ t[0] = 0
      /\ \A i \in 1 .. n : t[i] = t[i - 1] + expires[timer_list[i]]
  BY <1>1, <1>2, TicksFacts
<1>4. \A i \in 1 .. n : TimersDue[timer_list[i]] = t[i]
  BY <1>1, <1>2, DueFacts DEF TimersDue
<1>5. \A i, j \in 0 .. n : i <= j => t[i] <= t[j]
  <2>1. ASSUME NEW i \in 1 .. n, NEW j \in 1 .. n, i <= j PROVE t[i] <= t[j]
    <3>1. TimersDue[timer_list[i]] <= TimersDue[timer_list[j]]
      <4>1. CountedBy(TimersDue, timer_list, expires)
        BY Counting
      <4>2. QED
        BY <1>1, <1>2, <2>1, <4>1, DueGrows
    <3>2. QED
      BY <1>4, <3>1
  <2>2. ASSUME NEW j \in 0 .. n PROVE t[0] <= t[j]
    BY <1>3
  <2>3. \A i \in 0 .. n : i = 0 \/ i \in 1 .. n
    OBVIOUS
  <2>4. \A i, j \in 0 .. n : i <= j /\ j = 0 => i = 0
    OBVIOUS
  <2>5. QED
    BY <2>1, <2>2, <2>3, <2>4
<1>6. Place(ticks) = [position |-> k, rest |-> ticks - t[k - 1]]
  BY DEF Place
<1> HIDE DEF t
<1>7. \E i \in stops \cup {n + 1} : \A j \in stops : i <= j
  <2>1. CASE stops = {}
    BY <2>1
  <2>2. CASE stops # {}
    <3>1. stops \in SUBSET Nat
      BY <1>2
    <3>2. PICK i \in stops : \A j \in stops : ~ (j < i)
      <4> HIDE DEF stops
      <4>1. PICK i \in stops : \A j \in stops : ~ (<<j, i>> \in OpToRel(<, Nat))
        BY <2>2, <3>1, NatLessThanWellFounded, WFMin
      <4>2. QED
        BY <3>1, <4>1 DEF OpToRel
    <3>3. \A j \in stops : i <= j
      BY <1>2, <3>2
    <3>4. QED
      BY <3>3
  <2>3. QED
    BY <2>1, <2>2
<1>8. k \in stops \cup {n + 1} /\ \A j \in stops : k <= j
  <2> HIDE DEF stops
  <2>1. QED
    BY <1>2, <1>7
<1> HIDE DEF k
<1>9. k \in 1 .. n + 1 /\ (k <= n => ticks < t[k])
  BY <1>2, <1>8
<1>10. t[k - 1] <= ticks
  <2>1. CASE k = 1
    BY <1>3, <2>1
  <2>2. CASE k # 1
    <3>1. k - 1 \in 1 .. n /\ ~ (k <= k - 1)
      BY <1>9, <2>2
    <3>2. k - 1 \notin stops
      <4> HIDE DEF stops
      <4>1. QED
        BY <1>8, <3>1
    <3>3. t[k - 1] \in Nat
      BY <1>3, <3>1
    <3>4. QED
      BY <1>2, <3>1, <3>2, <3>3
  <2>3. QED
    BY <2>1, <2>2
<1>11. k - 1 \in 0 .. n /\ t[k - 1] \in Nat /\ ticks - t[k - 1] \in Nat
  BY <1>3, <1>9, <1>10
<1>12. before = t[k - 1]
  <2> USE DEF Before
  <2>1. CASE k = 1
    BY <1>3, <2>1
  <2>2. CASE k # 1
    <3>1. k - 1 \in 1 .. n
      BY <1>9, <2>2
    <3>2. QED
      BY <1>4, <2>2, <3>1
  <2>3. QED
    BY <2>1, <2>2
<1>13. ASSUME k <= n PROVE ticks - t[k - 1] < expires[timer_list[k]]
  <2>1. k \in 1 .. n /\ ticks < t[k] /\ t[k] = t[k - 1] + expires[timer_list[k]]
    BY <1>3, <1>9, <1>13
  <2>2. expires[timer_list[k]] \in Nat
    BY <1>1, <1>2, <2>1
  <2>3. QED
    BY <1>11, <2>1, <2>2
<1> HIDE DEF before
<1>14. Place(ticks).position = k /\ Place(ticks).rest = ticks - t[k - 1]
  BY <1>6
<1>15. before + (ticks - t[k - 1]) = ticks
  BY <1>11, <1>12
<1>16. QED
  BY <1>2, <1>9, <1>11, <1>12, <1>13, <1>14, <1>15 DEF before

LEMMA AddTimerStep ==
    ASSUME TimerInv, NEW p \in Owners, NEW ticks \in Nat, AddTimer(p, ticks)
    PROVE  /\ TimerInv' /\ TimersDue' = [TimersDue EXCEPT ![p] = ticks]
           /\ TimersDue[p] = Off /\ ticks > 0
<1> DEFINE k == Place(ticks).position
           rest == Place(ticks).rest
           before == Before(TimersDue, timer_list, k)
           new == [q \in Owners |->
                      CASE q = p -> rest
                        [] k <= Len(timer_list) /\ q = timer_list[k] -> expires[q] - rest
                        [] OTHER -> expires[q]]
           list2 == InsertAt(timer_list, k, p)
<1>1. timer_list \in Seq(Owners) /\ expires \in [Owners -> Nat] /\ Distinct(timer_list)
      /\ (timer_list # <<>> => expires[timer_list[1]] > 0)
  BY DEF TimerInv, TimerTypeOK, HeadNotExpired
<1>2. /\ CountedBy(TimersDue, timer_list, expires) /\ p \notin Elements(timer_list)
      /\ TimersDue[p] = Off
  BY Counting DEF AddTimer
<1>3. timer_list' = list2 /\ expires' = new /\ ticks > 0
  BY DEF AddTimer
<1>4. /\ k \in 1 .. Len(timer_list) + 1 /\ rest \in Nat /\ before \in Nat
      /\ before + rest = ticks
      /\ k <= Len(timer_list) => rest < expires[timer_list[k]]
  BY PlaceFacts
<1> HIDE DEF k, rest
<1>5. PICK n \in Nat : n = Len(timer_list)
  BY <1>1
<1>6. \A i \in 1 .. n : timer_list[i] \in Owners /\ timer_list[i] # p /\ expires[timer_list[i]] \in Nat
  BY <1>1, <1>2, <1>5 DEF Elements
<1>7. k <= n => k \in 1 .. n /\ rest <= expires[timer_list[k]]
                /\ expires[timer_list[k]] - rest \in Nat /\ expires[timer_list[k]] - rest > 0
  <2>1. SUFFICES ASSUME k <= n
                 PROVE  k \in 1 .. n /\ rest <= expires[timer_list[k]]
                        /\ expires[timer_list[k]] - rest \in Nat /\ expires[timer_list[k]] - rest > 0
    OBVIOUS
  <2>2. k \in 1 .. n /\ rest < expires[timer_list[k]]
    BY <1>4, <1>5, <2>1
  <2>3. rest \in Nat /\ expires[timer_list[k]] \in Nat
    BY <1>4, <1>6, <2>2
  <2>4. QED
    BY <2>2, <2>3
<1>8. new \in [Owners -> Nat]
  BY <1>1, <1>4, <1>5, <1>7
<1>9. SplitAt(new, timer_list, expires, k, p, rest)
  <2>1. k <= Len(timer_list) => timer_list[k] # p
    BY <1>5, <1>6, <1>7
  <2>2. ASSUME NEW q \in Owners
        PROVE  new[q] = IF q = p THEN rest
                        ELSE IF k <= Len(timer_list) /\ q = timer_list[k]
                             THEN expires[q] - rest ELSE expires[q]
    <3>1. CASE q = p
      BY <2>1, <3>1
    <3>2. CASE q # p /\ k <= Len(timer_list) /\ q = timer_list[k]
      BY <3>2
    <3>3. CASE q # p /\ ~ (k <= Len(timer_list) /\ q = timer_list[k])
      BY <3>3
    <3>4. QED
      BY <3>1, <3>2, <3>3
  <2>3. QED
    BY <2>2 DEF SplitAt
<1> HIDE DEF new, before
<1>11. /\ list2 \in Seq(Owners) /\ Distinct(list2)
       /\ CountedBy([TimersDue EXCEPT ![p] = before + rest], list2, new)
  <2>1. k <= Len(timer_list) => rest <= expires[timer_list[k]]
    BY <1>5, <1>7
  <2>2. k \in 1 .. Len(timer_list) + 1 /\ rest \in Nat /\ before \in Nat
    BY <1>4
  <2>3. QED
    BY <1>1, <1>2, <1>8, <1>9, <2>1, <2>2, InsertDue DEF before
<1>12. list2 # <<>> => new[list2[1]] > 0
  <2>1. InsertedAt(list2, timer_list, k, p)
    BY <1>1, <1>4, InsertAtIndices
  <2> HIDE DEF list2
  <2>2. list2[1] = IF 1 < k THEN timer_list[1] ELSE p
    <3>1. 1 \in 1 .. n + 1 /\ k >= 1 /\ k \in Int
      BY <1>4, <1>5
    <3>2. list2[1] = IF 1 < k THEN timer_list[1] ELSE IF 1 = k THEN p ELSE timer_list[1 - 1]
      BY <1>5, <2>1, <3>1 DEF InsertedAt
    <3>3. QED
      BY <3>1, <3>2
  <2>3. CASE k = 1
    <3>1. before = 0 /\ list2[1] = p
      BY <2>2, <2>3 DEF before, Before
    <3>2. new[p] = rest
      BY <1>9 DEF SplitAt
    <3>3. QED
      BY <1>3, <1>4, <3>1, <3>2
  <2>4. CASE k # 1
    <3>1. 1 < k /\ 1 \in 1 .. n /\ 1 # k
      BY <1>4, <1>5, <2>4
    <3>2. list2[1] = timer_list[1] /\ expires[timer_list[1]] > 0
      BY <1>1, <1>5, <2>2, <3>1
    <3>3. k <= n => timer_list[1] # timer_list[k]
      BY <1>1, <1>5, <1>7, <3>1 DEF Distinct
    <3>4. new[timer_list[1]] = expires[timer_list[1]]
      BY <1>5, <1>6, <1>9, <3>1, <3>3 DEF SplitAt
    <3>5. QED
      BY <3>2, <3>4
  <2>5. QED
    BY <2>3, <2>4
<1> HIDE DEF list2
<1>13. TimerInv' /\ TimersDue' = [TimersDue EXCEPT ![p] = before + rest]
  BY <1>3, <1>8, <1>11, <1>12, Counted
<1>14. QED
  BY <1>2, <1>3, <1>4, <1>13 DEF before

LEMMA RunTimersStep ==
    ASSUME TimerInv, RunTimers
    PROVE  /\ TimerInv'
           /\ TimersDue' = [p \in Owners |->
                  IF TimersDue[p] \in {Off, 1} THEN Off ELSE TimersDue[p] - 1]
<1>1. timer_list \in Seq(Owners) /\ expires \in [Owners -> Nat] /\ Distinct(timer_list)
      /\ (timer_list # <<>> => expires[timer_list[1]] > 0)
  BY DEF TimerInv, TimerTypeOK, HeadNotExpired
<1>2. CountedBy(TimersDue, timer_list, expires)
  BY Counting
<1>3. CASE timer_list = <<>>
  <2>1. timer_list' = timer_list /\ expires' = expires
    BY <1>3 DEF RunTimers, timer_vars
  <2>2. TimerInv' /\ TimersDue' = TimersDue
    BY <1>1, <1>2, <2>1, Counted
  <2>3. \A p \in Owners : TimersDue[p] = Off
    BY <1>2, <1>3 DEF CountedBy, Elements
  <2>4. TimersDue = [p \in Owners |-> TimersDue[p]]
    BY <1>2 DEF CountedBy
  <2>5. QED
    BY <2>2, <2>3, <2>4
<1>4. CASE timer_list # <<>>
  <2>1. PICK m \in 0 .. Len(timer_list) :
            /\ m = Cardinality({timer_list[i] :
                       i \in {j \in DOMAIN timer_list : IsDue(timer_list, expires, j)}})
            /\ \A i \in 1 .. Len(timer_list) : IsDue(timer_list, expires, i) <=> i <= m
    BY <1>1, DueArePrefix
  <2>2. m = Cardinality(Expired)
    BY <2>1 DEF Expired, IsDue
  <2> DEFINE list2 == SubSeq(timer_list, m + 1, Len(timer_list))
             new == [expires EXCEPT ![timer_list[1]] = @ - 1]
             counts == [p \in Owners |->
                           IF TimersDue[p] \in {Off, 1} THEN Off ELSE TimersDue[p] - 1]
  <2>3. timer_list' = list2 /\ expires' = new
    <3>1. Head(timer_list) = timer_list[1]
      BY <1>1, <1>4
    <3>2. QED
      BY <1>4, <2>2, <3>1 DEF RunTimers
  <2>4. new \in [Owners -> Nat]
    <3>1. timer_list[1] \in Owners /\ expires[timer_list[1]] \in Nat /\ expires[timer_list[1]] > 0
      BY <1>1, <1>4
    <3>2. expires[timer_list[1]] - 1 \in Nat
      BY <3>1
    <3>3. QED
      BY <1>1, <3>2
  <2>5. new = [expires EXCEPT ![timer_list[1]] = @ - 1]
    OBVIOUS
  <2> HIDE DEF new
  <2>6. /\ list2 \in Seq(Owners) /\ Distinct(list2)
        /\ list2 # <<>> => new[list2[1]] > 0
        /\ CountedBy(counts, list2, new)
    BY <1>1, <1>2, <1>4, <2>1, <2>4, <2>5, TickDue, TimerAssumption
  <2> HIDE DEF list2, counts
  <2>7. TimerInv' /\ TimersDue' = counts
    BY <2>3, <2>4, <2>6, Counted
  <2>8. QED
    BY <2>7 DEF counts
<1>5. QED
  BY <1>3, <1>4

LEMMA TimerInvInductive ==
    /\ TimerInit => TimerInv /\ Countdowns!Init
    /\ TimerInv /\ [TimerNext]_timer_vars =>
           TimerInv' /\ [Countdowns!Next]_([p \in Owners |-> IF p \in Linked THEN Remaining(p) ELSE Off])
<1> DEFINE mapped == [p \in Owners |-> IF p \in Linked THEN Remaining(p) ELSE Off]
<1>0. mapped = TimersDue
  BY DEF TimersDue, DueIn, Linked, Elements, Remaining
<1>1. mapped' = TimersDue'
  BY DEF TimersDue, DueIn, Linked, Elements, Remaining
<1>2. ASSUME TimerInit PROVE TimerInv /\ Countdowns!Init
  <2>1. TimerInv
    BY <1>2 DEF TimerInit, TimerInv, TimerTypeOK, Distinct, HeadNotExpired
  <2>2. mapped = [p \in Owners |-> Off]
    BY <1>2 DEF TimerInit, Linked
  <2>3. QED
    BY <2>1, <2>2 DEF Countdowns!Init
<1>3. ASSUME TimerInv, [TimerNext]_timer_vars
      PROVE  TimerInv' /\ [Countdowns!Next]_mapped
  <2>1. CASE UNCHANGED timer_vars
    <3>1. timer_list' = timer_list /\ expires' = expires
      BY <2>1 DEF timer_vars
    <3>2. TimerInv' /\ TimersDue' = TimersDue
      BY <1>3, <3>1 DEF TimerInv, TimerTypeOK, HeadNotExpired, TimersDue
    <3>3. QED
      BY <1>0, <1>1, <3>2
  <2>2. CASE \E p \in Owners : InitTimer(p)
    <3>1. TimerInv' /\ TimersDue' = TimersDue
      BY <1>3, <2>2, InitTimerStep
    <3>2. QED
      BY <1>0, <1>1, <3>1
  <2>3. CASE \E p \in Owners : DelTimer(p)
    <3>1. PICK p \in Owners : TimerInv' /\ TimersDue' = [TimersDue EXCEPT ![p] = Off]
      BY <1>3, <2>3, DelTimerStep
    <3>2. mapped' = [mapped EXCEPT ![p] = Off]
      BY <1>0, <1>1, <3>1
    <3>3. Countdowns!Delete(p)
      BY <3>2 DEF Countdowns!Delete
    <3>4. QED
      BY <3>1, <3>3 DEF Countdowns!Next
  <2>4. CASE \E p \in Owners : \E ticks \in Nat : AddTimer(p, ticks)
    <3>1. PICK p \in Owners, ticks \in Nat :
              /\ TimerInv' /\ TimersDue' = [TimersDue EXCEPT ![p] = ticks]
              /\ TimersDue[p] = Off /\ ticks > 0
      BY <1>3, <2>4, AddTimerStep
    <3>2. mapped[p] = Off /\ mapped' = [mapped EXCEPT ![p] = ticks]
      BY <1>0, <1>1, <3>1
    <3>3. mapped'[p] = ticks /\ ticks \in Nat \ {0}
      BY <3>1, <3>2
    <3>4. Countdowns!Add(p)
      BY <3>2, <3>3 DEF Countdowns!Add
    <3>5. QED
      BY <3>1, <3>4 DEF Countdowns!Next
  <2>5. CASE RunTimers
    <3>1. /\ TimerInv'
          /\ TimersDue' = [p \in Owners |->
                 IF TimersDue[p] \in {Off, 1} THEN Off ELSE TimersDue[p] - 1]
      BY <1>3, <2>5, RunTimersStep
    <3>2. mapped' = [p \in Owners |-> IF mapped[p] \in {Off, 1} THEN Off ELSE mapped[p] - 1]
      BY <1>0, <1>1, <3>1
    <3>3. Countdowns!Tick
      BY <3>2 DEF Countdowns!Tick
    <3>4. QED
      BY <3>1, <3>3 DEF Countdowns!Next
  <2>6. QED
    BY <1>3, <2>1, <2>2, <2>3, <2>4, <2>5 DEF TimerNext
<1>4. QED
  BY <1>2, <1>3

\* However timers are added, removed and ticked, the list of distances is the
\* countdowns of its timers, and run_timer_list() finds no expired head.
THEOREM TimersCountDown == TimerSpec => ImplementsAlarms /\ []HeadNotExpired
<1>1. TimerInit => TimerInv /\ Countdowns!Init
  BY TimerInvInductive
<1>2. TimerInv /\ [TimerNext]_timer_vars =>
          TimerInv' /\ [Countdowns!Next]_([p \in Owners |-> IF p \in Linked THEN Remaining(p) ELSE Off])
  BY TimerInvInductive
<1>3. TimerInv => HeadNotExpired
  BY DEF TimerInv
<1>4. QED
  BY <1>1, <1>2, <1>3, PTL DEF TimerSpec, ImplementsAlarms, Countdowns!Spec

\* A linked timer has a tick to go, like the head before it.
LEMMA LinkedHaveTicks ==
    ASSUME TimerInv
    PROVE  \A p \in Owners : TimersDue[p] # 0 /\ (p \in Linked => TimersDue[p] > 0)
<1>1. timer_list \in Seq(Owners) /\ expires \in [Owners -> Nat] /\ Distinct(timer_list)
      /\ (timer_list # <<>> => expires[timer_list[1]] > 0)
  BY DEF TimerInv, TimerTypeOK, HeadNotExpired
<1>2. /\ CountedBy(TimersDue, timer_list, expires) /\ Linked = Elements(timer_list)
      /\ \A p \in Owners : p \notin Linked => TimersDue[p] = Off
  BY Counting
<1>3. ASSUME NEW p \in Linked PROVE TimersDue[p] \in Nat /\ TimersDue[p] > 0
  <2>1. PICK n \in Nat : n = Len(timer_list) /\ DOMAIN timer_list = 1 .. n
    BY <1>1
  <2>2. PICK j \in 1 .. n : timer_list[j] = p
    BY <1>2, <2>1 DEF Elements
  <2>3. timer_list # <<>> /\ 1 \in 1 .. n /\ 1 <= j
    BY <1>1, <2>1, <2>2
  <2>4. /\ TimersDue[timer_list[1]] \in Nat /\ TimersDue[p] \in Nat
        /\ TimersDue[timer_list[1]] = 0 + expires[timer_list[1]]
    BY <1>2, <2>1, <2>2, <2>3 DEF CountedBy
  <2>5. expires[timer_list[1]] \in Nat /\ expires[timer_list[1]] > 0
    BY <1>1, <2>1, <2>3
  <2>6. TimersDue[timer_list[1]] <= TimersDue[p]
    BY <1>1, <1>2, <2>1, <2>2, <2>3, DueGrows
  <2>7. QED
    BY <2>4, <2>5, <2>6
<1>4. QED
  BY <1>2, <1>3, TimerAssumption

\* The timers that go off at a tick are those with one tick left.
LEMMA ExpiredAreDue ==
    ASSUME TimerInv, RunTimers
    PROVE  \A p \in Owners : p \in Expired <=> TimersDue[p] = 1
<1> DEFINE after == [p \in Owners |-> IF TimersDue[p] \in {Off, 1} THEN Off ELSE TimersDue[p] - 1]
<1>1. timer_list \in Seq(Owners) /\ expires \in [Owners -> Nat] /\ Distinct(timer_list)
  BY DEF TimerInv, TimerTypeOK
<1>2. \A p \in Owners : IF p \in Elements(timer_list) THEN TimersDue[p] \in Nat ELSE TimersDue[p] = Off
  BY Counting
<1>3. CASE timer_list = <<>>
  BY <1>2, <1>3, TimerAssumption DEF Expired, Elements
<1>4. CASE timer_list # <<>>
  <2>1. PICK m \in 0 .. Len(timer_list) :
            /\ m = Cardinality({timer_list[i] :
                       i \in {j \in DOMAIN timer_list : IsDue(timer_list, expires, j)}})
            /\ \A i \in 1 .. Len(timer_list) : IsDue(timer_list, expires, i) <=> i <= m
    BY <1>1, DueArePrefix
  <2>2. m = Cardinality(Expired)
    BY <2>1 DEF Expired, IsDue
  <2>3. timer_list' = SubSeq(timer_list, m + 1, Len(timer_list))
    BY <1>4, <2>2 DEF RunTimers
  <2>4. PICK n \in Nat : n = Len(timer_list) /\ DOMAIN timer_list = 1 .. n
    BY <1>1
  <2>5. m \in 0 .. n /\ Expired = {timer_list[i] : i \in 1 .. m}
    <3>1. \A i \in 1 .. n : IsDue(timer_list, expires, i) <=> i <= m
      BY <2>1, <2>4
    <3>2. {j \in DOMAIN timer_list : IsDue(timer_list, expires, j)} = 1 .. m
      BY <2>1, <2>4, <3>1
    <3>3. QED
      BY <2>1, <2>4, <3>2 DEF Expired, IsDue
  <2>6. Elements(timer_list') = {timer_list[i] : i \in m + 1 .. n}
    <3>1. /\ DOMAIN timer_list' = 1 .. n - m
          /\ \A i \in 1 .. n - m : timer_list'[i] = timer_list[m + i]
      <4>1. \A i \in m + 1 .. n : timer_list[i] \in Owners
        BY <1>1, <2>4
      <4>2. QED
        BY <2>3, <2>4, <2>5, <4>1
    <3>2. \A i \in m + 1 .. n : i - m \in 1 .. n - m /\ m + (i - m) = i
      BY <2>4, <2>5
    <3>3. \A i \in m + 1 .. n : timer_list'[i - m] = timer_list[i]
      BY <3>1, <3>2
    <3>4. \A i \in 1 .. n - m : m + i \in m + 1 .. n
      BY <2>4, <2>5
    <3>5. ASSUME NEW i \in 1 .. n - m
          PROVE  timer_list'[i] \in {timer_list[j] : j \in m + 1 .. n}
      BY <3>1, <3>4
    <3>6. ASSUME NEW i \in m + 1 .. n PROVE timer_list[i] \in Elements(timer_list')
      BY <3>1, <3>2, <3>3 DEF Elements
    <3>7. QED
      BY <3>1, <3>5, <3>6 DEF Elements
  <2>7. TimersDue' = after /\ TimerInv'
    BY RunTimersStep
  <2>8. \A p \in Owners : p \in Elements(timer_list') <=> after[p] # Off
    <3>1. timer_list' \in Seq(Owners) /\ expires' \in [Owners -> Nat] /\ Distinct(timer_list')
      BY <2>7 DEF TimerInv, TimerTypeOK
    <3>2. CountedBy(after, timer_list', expires')
      BY <2>7, <3>1, DueFacts DEF TimersDue
    <3>3. \A p \in Elements(timer_list') : after[p] \in Nat
      <4>1. DOMAIN timer_list' = 1 .. Len(timer_list')
        BY <3>1
      <4>2. QED
        BY <3>2, <4>1 DEF CountedBy, Elements
    <3>4. QED
      BY <3>2, <3>3, TimerAssumption DEF CountedBy
  <2>9. \A p \in Owners : after[p] = Off <=> TimersDue[p] \in {Off, 1}
    <3>1. \A k \in Nat \ {0, 1} : k - 1 \in Nat
      OBVIOUS
    <3>2. \A p \in Owners : TimersDue[p] # 0
      BY LinkedHaveTicks
    <3>3. QED
      BY <1>2, <3>1, <3>2, TimerAssumption
  <2>10. ASSUME NEW p \in Owners PROVE p \in Expired <=> TimersDue[p] = 1
    <3>1. CASE p \in Elements(timer_list)
      <4>1. PICK i \in 1 .. n : timer_list[i] = p
        BY <2>4, <3>1 DEF Elements
      <4>2. p \in Expired <=> i <= m
        <5>1. \A j \in 1 .. m : j \in 1 .. n /\ (timer_list[j] = p => j = i)
          BY <1>1, <2>4, <2>5, <4>1 DEF Distinct
        <5>2. i <= m => i \in 1 .. m
          BY <2>5, <4>1
        <5>3. QED
          BY <2>5, <4>1, <5>1, <5>2
      <4>3. p \in Elements(timer_list') <=> i \in m + 1 .. n
        <5>1. \A j \in m + 1 .. n : timer_list[j] = p => j = i
          BY <1>1, <2>4, <2>5, <4>1 DEF Distinct
        <5>2. QED
          BY <2>6, <4>1, <5>1
      <4>4. TimersDue[p] # Off
        BY <1>2, <3>1, TimerAssumption
      <4>5. QED
        BY <2>4, <2>5, <2>8, <2>9, <4>1, <4>2, <4>3, <4>4
    <3>2. CASE p \notin Elements(timer_list)
      <4>1. p \notin Expired
        BY <3>2, <2>4, <2>5 DEF Elements
      <4>2. QED
        BY <1>2, <3>2, <4>1, TimerAssumption
    <3>3. QED
      BY <3>1, <3>2
  <2>11. QED
    BY <2>10
<1>5. QED
  BY <1>3, <1>4

-----------------------------------------------------------------------------
(* Sleep *)

\* What do_sleep() does to the timers: what any user of them may do.
LEMMA SleepUsesTimers ==
    /\ SleepInit => TimerInit
    /\ [SleepNext]_sleep_vars => [TimerNext]_timer_vars
<1>1. SleepInit => TimerInit
  BY DEF SleepInit
<1>2. ASSUME [SleepNext]_sleep_vars PROVE [TimerNext]_timer_vars
  <2>1. ASSUME NEW p \in Procs, DoSleep(p) PROVE TimerNext
    BY <2>1, SleepAssumption DEF DoSleep, TimerNext
  <2>2. ASSUME NEW p \in Procs, Resume(p) PROVE TimerNext
    BY <2>2, SleepAssumption DEF Resume, TimerNext
  <2>3. ASSUME NEW p \in Procs, SleepSchedule(p) PROVE UNCHANGED timer_vars
    BY <2>3 DEF SleepSchedule
  <2>4. ASSUME NEW p \in Procs, Interrupt(p) PROVE UNCHANGED timer_vars
    BY <2>4 DEF Interrupt
  <2>5. ASSUME SleepTick PROVE TimerNext
    BY <2>5 DEF SleepTick, TimerNext
  <2>6. ASSUME SleepIdle PROVE UNCHANGED timer_vars
    BY <2>6 DEF SleepIdle
  <2>7. ASSUME UNCHANGED sleep_vars PROVE UNCHANGED timer_vars
    BY <2>7 DEF sleep_vars
  <2>8. QED
    BY <1>2, <2>1, <2>2, <2>3, <2>4, <2>5, <2>6, <2>7 DEF SleepNext, SleepRunning
<1>3. QED
  BY <1>1, <1>2

\* SleepsExactly needs to know who runs: between Block and schedule() it is the
\* sleeper itself, and everyone else who runs is runnable; a process out of
\* do_sleep() does not sleep and has no timer.
Sleeper(p) ==
    /\ state[p] \in {"SLEEPING", "RUNNABLE"}
    /\ p \in Linked => sleep_pc[p] \in {"schedule", "resume"}
    /\ state[p] = "SLEEPING" => p \in Linked /\ left[p] = TimersDue[p]
    /\ sleep_pc[p] # "run" /\ state[p] = "RUNNABLE" /\ p \notin interrupted => left[p] = 0
    /\ p = current /\ state[p] = "SLEEPING" => sleep_pc[p] = "schedule"

SleepTypes ==
    /\ sleep_pc \in [Procs -> {"run", "schedule", "resume"}]
    /\ left \in [Procs -> Nat]
    /\ interrupted \subseteq Procs

SleepInv == SchedInv /\ TimerInv /\ SleepTypes /\ \A p \in Procs : Sleeper(p)

\* Linked and Remaining in terms of the countdowns.
TimersAgree ==
    \A p \in Procs : /\ p \in Linked <=> TimersDue[p] # Off
                     /\ p \in Linked => /\ TimersDue[p] \in Nat /\ TimersDue[p] > 0
                                        /\ TimersDue[p] = Remaining(p)

LEMMA Armed == TimerInv => TimersAgree
<1>1. TimerInv => \A p \in Procs : /\ p \in Linked => TimersDue[p] \in Nat /\ TimersDue[p] > 0
                                   /\ p \notin Linked => TimersDue[p] = Off
  BY Counting, LinkedHaveTicks, SleepAssumption
<1>2. \A p \in Procs : p \in Linked => TimersDue[p] = Remaining(p)
  BY SleepAssumption DEF TimersDue, DueIn, Linked, Elements, Remaining
<1>3. QED
  BY <1>1, <1>2, TimerAssumption DEF TimersAgree

LEMMA ArmedNext == TimerInv' => TimersAgree'
  BY Armed, PTL

LEMMA SleepStarts == SleepInit => SleepInv
<1>1. ASSUME SleepInit PROVE SleepInv
  <2>1. SchedInv
    BY <1>1, SchedInvInductive DEF SleepInit
  <2>2. TimerInv /\ Linked = {}
    BY <1>1, TimerInvInductive DEF SleepInit, TimerInit, Linked
  <2>3. SleepTypes /\ \A p \in Procs : state[p] = "RUNNABLE" /\ sleep_pc[p] = "run"
    BY <1>1 DEF SleepInit, SleepTypes, SchedInit
  <2>4. QED
    BY <2>1, <2>2, <2>3 DEF SleepInv, Sleeper
<1>2. QED
  BY <1>1

LEMMA DoSleepKeeps ==
    ASSUME SleepInv, NEW p \in Procs, current = p, DoSleep(p)
    PROVE  SleepInv'
<1>1. PICK time \in SleepTimes : AddTimer(p, time) /\ left' = [left EXCEPT ![p] = time]
  BY DEF DoSleep
<1>2. /\ time \in Nat \ {0} /\ sleep_pc[p] = "run" /\ p \in Owners
      /\ sleep_pc' = [sleep_pc EXCEPT ![p] = "schedule"] /\ interrupted' = interrupted \ {p}
  BY <1>1, SleepAssumption DEF DoSleep
<1>3. TimerInv' /\ TimersDue' = [TimersDue EXCEPT ![p] = time]
  BY <1>1, <1>2, AddTimerStep DEF SleepInv
<1>4. state[p] = "RUNNABLE" /\ Block("WT_TIMER")
  BY <1>2 DEF SleepInv, Sleeper, DoSleep
<1>5. SchedInv'
  <2>1. SchedNext
    BY <1>4, SleepAssumption DEF SchedNext
  <2>2. QED
    BY <2>1, SchedInvInductive DEF SleepInv
<1>6. SleepTypes'
  BY <1>1, <1>2 DEF SleepInv, SleepTypes
<1>7. ASSUME NEW q \in Procs PROVE Sleeper(q)'
  <2>1. TimersAgree /\ TimersAgree'
    BY <1>3, Armed, ArmedNext DEF SleepInv
  <2>2. TimersDue'[q] = IF q = p THEN time ELSE TimersDue[q]
    <3>1. TimersDue = [r \in Procs |-> TimersDue[r]]
      BY SleepAssumption DEF TimersDue, DueIn
    <3>2. QED
      BY <1>2, <1>3, <3>1
  <2>3. /\ current' = current
        /\ state'[q] = IF q = p THEN "SLEEPING" ELSE state[q]
    BY <1>4 DEF Block, SleepInv, SchedInv, SchedTypeOK
  <2>4. /\ sleep_pc'[q] = IF q = p THEN "schedule" ELSE sleep_pc[q]
        /\ left'[q] = IF q = p THEN time ELSE left[q]
    BY <1>1, <1>2 DEF SleepInv, SleepTypes
  <2>5. q \in Linked' <=> q \in Linked \/ q = p
    BY <1>2, <2>1, <2>2, TimerAssumption DEF TimersAgree
  <2>6. Sleeper(q)
    BY DEF SleepInv
  <2>7. QED
    BY <1>2, <2>2, <2>3, <2>4, <2>5, <2>6 DEF Sleeper
<1>8. QED
  BY <1>3, <1>5, <1>6, <1>7 DEF SleepInv

\* schedule(): the new current process is runnable.
LEMMA ScheduleKeeps ==
    ASSUME SleepInv, Reschedule, UNCHANGED <<timer_vars, left, interrupted>>,
           NEW p \in Procs \cup {Idle}, current = p,
           sleep_pc' \in [Procs -> {"run", "schedule", "resume"}],
           \A q \in Procs : IF q = p /\ sleep_pc[q] # "run" THEN sleep_pc'[q] = "resume" ELSE sleep_pc'[q] = sleep_pc[q]
    PROVE  SleepInv'
<1>1. SchedInv' /\ UNCHANGED state
  BY RescheduleKeepsQueue DEF SleepInv, Reschedule
<1>2. \A q \in Procs : q = current' => state[q] = "RUNNABLE"
  BY RescheduledRuns DEF SleepInv
<1>3. TimerInv' /\ UNCHANGED <<Linked, TimersDue>>
  BY DEF SleepInv, timer_vars, TimerInv, TimerTypeOK, HeadNotExpired, Linked, TimersDue
<1>4. SleepTypes'
  BY DEF SleepInv, SleepTypes
<1>5. \A q \in Procs : Sleeper(q)'
  BY <1>1, <1>2, <1>3 DEF SleepInv, Sleeper
<1>6. QED
  BY <1>1, <1>3, <1>4, <1>5 DEF SleepInv

LEMMA ResumeKeeps ==
    ASSUME SleepInv, NEW p \in Procs, current = p, Resume(p)
    PROVE  SleepInv'
<1>1. p \in Owners /\ DelTimer(p) /\ sleep_pc[p] = "resume" /\ sleep_pc' = [sleep_pc EXCEPT ![p] = "run"]
      /\ UNCHANGED <<sched_vars, left, interrupted>>
  BY SleepAssumption DEF Resume
<1>2. TimerInv' /\ TimersDue' = [TimersDue EXCEPT ![p] = Off]
  BY <1>1, DelTimerStep DEF SleepInv
<1>3. SchedInv'
  BY <1>1, SchedInvInductive DEF SleepInv
<1>4. SleepTypes'
  BY <1>1 DEF SleepInv, SleepTypes
<1>5. state[p] = "RUNNABLE"
  BY <1>1 DEF SleepInv, Sleeper
<1>6. ASSUME NEW q \in Procs PROVE Sleeper(q)'
  <2>1. TimersAgree /\ TimersAgree'
    BY <1>2, Armed, ArmedNext DEF SleepInv
  <2>2. TimersDue'[q] = IF q = p THEN Off ELSE TimersDue[q]
    <3>1. TimersDue = [r \in Procs |-> TimersDue[r]]
      BY SleepAssumption DEF TimersDue, DueIn
    <3>2. QED
      BY <1>1, <1>2, <3>1
  <2>3. /\ current' = current /\ state' = state /\ left' = left /\ interrupted' = interrupted
        /\ sleep_pc'[q] = IF q = p THEN "run" ELSE sleep_pc[q]
    BY <1>1 DEF sched_vars, SleepInv, SleepTypes
  <2>4. q \in Linked' <=> q \in Linked /\ q # p
    BY <2>1, <2>2 DEF TimersAgree
  <2>5. Sleeper(q)
    BY DEF SleepInv
  <2>6. QED
    BY <1>5, <2>2, <2>3, <2>4, <2>5 DEF Sleeper
<1>7. QED
  BY <1>2, <1>3, <1>4, <1>6 DEF SleepInv

LEMMA InterruptKeeps ==
    ASSUME SleepInv, NEW p \in Procs, Interrupt(p)
    PROVE  SleepInv'
<1>1. /\ Wakeup({p}) /\ interrupted' = interrupted \cup {p}
      /\ UNCHANGED <<timer_vars, sleep_pc, left>>
  BY DEF Interrupt
<1>2. SchedInv'
  BY <1>1, WakeupKeepsQueue DEF SleepInv
<1>3. TimerInv' /\ UNCHANGED <<Linked, TimersDue>>
  BY <1>1 DEF SleepInv, timer_vars, TimerInv, TimerTypeOK, HeadNotExpired, Linked, TimersDue
<1>4. SleepTypes'
  BY <1>1 DEF SleepInv, SleepTypes
<1>5. \A q \in Procs : state'[q] = IF q = p THEN "RUNNABLE" ELSE state[q]
  BY <1>1 DEF Wakeup, SleepInv, SchedInv, SchedTypeOK
<1>6. current' = current
  BY <1>1 DEF Wakeup
<1>7. \A q \in Procs : Sleeper(q)'
  BY <1>1, <1>3, <1>5, <1>6 DEF SleepInv, Sleeper
<1>8. QED
  BY <1>2, <1>3, <1>4, <1>7 DEF SleepInv

\* A tick wakes the sleepers with one tick left, and only them.
LEMMA TickKeeps ==
    ASSUME SleepInv, SleepTick
    PROVE  SleepInv'
<1>1. /\ RunTimers /\ Wakeup(Expired) /\ UNCHANGED <<sleep_pc, interrupted>>
      /\ left' = [p \in Procs |-> IF state[p] = "SLEEPING" THEN left[p] - 1 ELSE left[p]]
  BY DEF SleepTick
<1>2. /\ TimerInv'
      /\ TimersDue' = [p \in Owners |-> IF TimersDue[p] \in {Off, 1} THEN Off ELSE TimersDue[p] - 1]
      /\ \A p \in Owners : p \in Expired <=> TimersDue[p] = 1
  BY <1>1, RunTimersStep, ExpiredAreDue DEF SleepInv
<1>3. TimersAgree /\ TimersAgree'
  BY <1>2, Armed, ArmedNext DEF SleepInv
<1>4. SchedInv' /\ current' = current
  <2>1. Expired \subseteq Procs
    BY SleepAssumption DEF SleepInv, TimerInv, TimerTypeOK, Expired
  <2>2. QED
    BY <1>1, <2>1, WakeupKeepsQueue DEF SleepInv, Wakeup
<1>5. ASSUME NEW p \in Procs
      PROVE  /\ Sleeper(p)' /\ left'[p] \in Nat
  <2>1. Sleeper(p) /\ left[p] \in Nat
    BY DEF SleepInv, SleepTypes
  <2>2. TimersDue'[p] = IF TimersDue[p] \in {Off, 1} THEN Off ELSE TimersDue[p] - 1
    BY <1>2, SleepAssumption
  <2>3. left'[p] = IF state[p] = "SLEEPING" THEN left[p] - 1 ELSE left[p]
    BY <1>1
  <2>4. state'[p] = IF TimersDue[p] = 1 THEN "RUNNABLE" ELSE state[p]
    <3>1. p \in Expired <=> TimersDue[p] = 1
      BY <1>2, SleepAssumption
    <3>2. QED
      BY <1>1, <3>1 DEF Wakeup, SleepInv, SchedInv, SchedTypeOK
  <2>5. p \in Linked' => p \in Linked
    BY <1>3, <2>2 DEF TimersAgree
  <2>6. CASE state[p] = "SLEEPING"
    <3>1. p \in Linked /\ left[p] = TimersDue[p] /\ TimersDue[p] \in Nat /\ TimersDue[p] > 0
      BY <1>3, <2>1, <2>6 DEF Sleeper, TimersAgree
    <3>2. left'[p] = TimersDue[p] - 1 /\ left'[p] \in Nat /\ TimersDue[p] # Off
      BY <2>3, <2>6, <3>1, TimerAssumption
    <3>3. TimersDue[p] # 1 => TimersDue'[p] = left'[p] /\ TimersDue'[p] # Off
      BY <2>2, <3>2, TimerAssumption
    <3>4. TimersDue[p] # 1 => p \in Linked'
      BY <1>3, <3>3 DEF TimersAgree
    <3>5. TimersDue[p] = 1 => left'[p] = 0
      BY <3>2
    <3>6. QED
      BY <1>1, <1>4, <2>1, <2>4, <2>5, <2>6, <3>2, <3>3, <3>4, <3>5 DEF Sleeper
  <2>7. CASE state[p] = "RUNNABLE"
    <3>1. state'[p] = "RUNNABLE" /\ left'[p] = left[p]
      BY <2>3, <2>4, <2>7
    <3>2. QED
      BY <1>1, <2>1, <2>5, <2>7, <3>1 DEF Sleeper
  <2>8. QED
    BY <2>1, <2>6, <2>7 DEF Sleeper
<1>6. SleepTypes'
  <2>1. left' = [p \in Procs |-> left'[p]]
    BY <1>1
  <2>2. QED
    BY <1>1, <1>5, <2>1 DEF SleepInv, SleepTypes
<1>7. QED
  BY <1>2, <1>4, <1>5, <1>6 DEF SleepInv

LEMMA SleepStep == SleepInv /\ [SleepNext]_sleep_vars => SleepInv'
<1>1. ASSUME SleepInv, NEW p \in Procs, current = p, SleepSchedule(p) PROVE SleepInv'
  <2>1. /\ Reschedule /\ UNCHANGED <<timer_vars, left, interrupted>>
        /\ sleep_pc[p] \in {"run", "schedule"}
        /\ sleep_pc' = [sleep_pc EXCEPT ![p] = IF sleep_pc[p] = "run" THEN "run" ELSE "resume"]
    BY <1>1 DEF SleepSchedule
  <2>2. /\ sleep_pc' \in [Procs -> {"run", "schedule", "resume"}]
        /\ \A q \in Procs : IF q = p /\ sleep_pc[q] # "run" THEN sleep_pc'[q] = "resume" ELSE sleep_pc'[q] = sleep_pc[q]
    BY <1>1, <2>1 DEF SleepInv, SleepTypes
  <2>3. QED
    BY <1>1, <2>1, <2>2, ScheduleKeeps
<1>2. ASSUME SleepInv, SleepIdle PROVE SleepInv'
  <2>1. /\ Reschedule /\ current = Idle /\ sleep_pc' = sleep_pc
        /\ UNCHANGED <<timer_vars, left, interrupted>>
        /\ sleep_pc \in [Procs -> {"run", "schedule", "resume"}]
    BY <1>2 DEF SleepIdle, SleepInv, SleepTypes
  <2>2. \A q \in Procs : q # Idle
    BY SchedAssumption
  <2>3. QED
    BY <1>2, <2>1, <2>2, ScheduleKeeps
<1>3. ASSUME SleepInv, UNCHANGED sleep_vars PROVE SleepInv'
  <2>1. /\ SchedInv' /\ UNCHANGED <<current, state, sleep_pc, left, interrupted>>
        /\ TimerInv' /\ UNCHANGED <<Linked, TimersDue>>
    <3>1. UNCHANGED <<sched_vars, timer_vars, sleep_pc, left, interrupted>>
      BY <1>3 DEF sleep_vars
    <3>2. SchedInv'
      BY <1>3, <3>1, SchedInvInductive DEF SleepInv
    <3>3. QED
      BY <1>3, <3>1, <3>2 DEF SleepInv, sched_vars, timer_vars, TimerInv, TimerTypeOK, HeadNotExpired, Linked, TimersDue
  <2>2. QED
    BY <1>3, <2>1 DEF SleepInv, SleepTypes, Sleeper
<1>4. QED
  BY <1>1, <1>2, <1>3, DoSleepKeeps, ResumeKeeps, InterruptKeeps, TickKeeps DEF SleepNext, SleepRunning

\* A sleep lasts the ticks asked for, whoever else sleeps, is interrupted or
\* removes its timer meanwhile.
THEOREM SleepsAreExact == SleepSpec => []SleepsExactly
<1>1. SleepInv => SleepsExactly
  <2>1. ASSUME SleepInv PROVE SleepsExactly
    <3>1. SleepTypeOK /\ HeadNotExpired
      BY <2>1 DEF SleepInv, SchedInv, TimerInv, SleepTypes, SleepTypeOK
    <3>2. \A i, j \in DOMAIN timer_list : timer_list[i] = timer_list[j] => i = j
      BY <2>1 DEF SleepInv, TimerInv, Distinct
    <3>3. TimersAgree
      BY <2>1, Armed DEF SleepInv
    <3>4. \A p \in Linked : p \in Procs
      BY <2>1, SleepAssumption DEF SleepInv, TimerInv, TimerTypeOK, Linked
    <3>5. QED
      BY <2>1, <3>1, <3>2, <3>3, <3>4 DEF SleepInv, Sleeper, SleepsExactly, TimersAgree
  <2>2. QED
    BY <2>1
<1>2. QED
  BY <1>1, SleepStarts, SleepStep, PTL DEF SleepSpec

\* The timers of all sleepers are independent countdowns.
THEOREM SleepersCountDown == SleepSpec => ImplementsAlarms
<1>1. SleepSpec => TimerSpec
  BY SleepUsesTimers, PTL DEF SleepSpec, TimerSpec
<1>2. QED
  BY <1>1, TimersCountDown, PTL

-----------------------------------------------------------------------------
(* MESSAGE BOXES                                                           *)

(* The inductive invariant.  The three properties of a box are not         *)
(* inductive: who is in a queue has to be in the call that the queue is of, *)
(* with its flags still unset (BoxOK), what a process does without giving  *)
(* the CPU away has to find the box as it left it (CallOK), and a message  *)
(* and a timer belong to a phase of the call.                              *)

SendWait == {"s_schedule", "s_resume"}
RecvWait == {"r_schedule", "r_resume"}
Looking == {"s_loop", "r_loop"}
Holding == {"s_loop", "s_schedule", "s_resume", "r_copy"}

BoxType ==
    [state : {"CLOSED", "OPENED", "CLOSING"}, inuse : Nat, max_slots : MaxSlots \cup {0},
     slots : Nat, msgs : Seq(Messages), senders : Seq(Procs), receivers : Seq(Procs)]

MboxTypes ==
    /\ SchedTypeOK /\ TimerInv
    /\ mbox_map \subseteq DOMAIN Pages
    /\ free_mbox_list \in Seq(Boxes)
    /\ mbox \in [Boxes -> BoxType]
    /\ bytes \in [Messages -> Sizes]
    /\ pc \in [Procs -> {"user", "return", "i_page", "dead"} \cup Sending \cup Receiving]
    /\ id \in [Procs -> Boxes]
    /\ msg \in [Procs -> Messages \cup {None}]
    /\ wakeup_flags \in [Procs -> WaitStates \cup {"WT_INTERRUPTED"}]
    /\ timed \subseteq Procs /\ killed \subseteq Procs
    /\ size \in [Procs -> Sizes]

\* A process in the middle of a call: a timer only around schedule(), a message
\* only in the phases that have one, a flag only of its own kind, and nothing
\* changes between the head of a loop and the next schedule().
CallOK(p) ==
    /\ p \in Linked => pc[p] \in SendWait \cup RecvWait
    /\ msg[p] # None <=> pc[p] \in Holding
    /\ pc[p] \in {"user", "s_load", "r_check", "i_page"} => wakeup_flags[p] = "WT_INTERRUPTED"
    /\ pc[p] \in SendWait \cup {"s_loop"} => wakeup_flags[p] # "WT_MBOX_RECV"
    /\ pc[p] \in RecvWait \cup {"r_loop"} => wakeup_flags[p] # "WT_MBOX_SEND"
    /\ pc[p] \in Looking => p = current /\ mbox[id[p]].state = "OPENED"
    /\ pc[p] = "i_page" => mbox_map # DOMAIN Pages

\* sem_mbox_map.
OneOpens == \A p, q \in Procs : pc[p] = "i_page" /\ pc[q] = "i_page" => p = q

Members(b) == {p \in Procs : id[p] = b /\ pc[p] \in Inside}

QueuesOK(b) ==
    /\ Distinct(mbox[b].senders) /\ Distinct(mbox[b].receivers)
    /\ \A p \in Elements(mbox[b].senders) :
          id[p] = b /\ pc[p] \in SendWait /\ wakeup_flags[p] = "WT_INTERRUPTED"
    /\ \A p \in Elements(mbox[b].receivers) :
          id[p] = b /\ pc[p] \in RecvWait /\ wakeup_flags[p] = "WT_INTERRUPTED"

UsesOK(b) ==
    /\ mbox[b].inuse = Cardinality(Members(b))
    /\ mbox[b].state = "CLOSING" => mbox[b].inuse # 0
    /\ mbox[b].state = "CLOSED" => mbox[b].inuse = 0 /\ mbox[b].slots = 0
    /\ mbox[b].state # "OPENED" =>
          mbox[b].senders = <<>> /\ mbox[b].receivers = <<>> /\ mbox[b].msgs = <<>>
    /\ mbox[b].state = "OPENED" => mbox[b].slots = Len(mbox[b].msgs)

\* NoMissedMeeting of one box.
Met(b) ==
    panic = "none" /\ mbox[b].state = "OPENED" =>
        /\ (\E p \in Elements(mbox[b].receivers) : state[p] = "SLEEPING")
              => Cardinality(Woken(b, "WT_MBOX_RECV")) >= mbox[b].slots
        /\ (\E p \in Elements(mbox[b].senders) : state[p] = "SLEEPING")
              => Cardinality(Woken(b, "WT_MBOX_SEND")) + mbox[b].slots >= mbox[b].max_slots

BoxOK(b) == QueuesOK(b) /\ UsesOK(b) /\ Met(b)

FreeListOK ==
    /\ Distinct(free_mbox_list)
    /\ Elements(free_mbox_list) = {b \in Boxes : Mapped(b) /\ mbox[b].state = "CLOSED"}
    /\ \A b \in Boxes : mbox[b].state # "CLOSED" => Mapped(b)

HeldOnce ==
    /\ \A p, q \in Procs : msg[p] = msg[q] /\ msg[p] # None => p = q
    /\ \A b \in Boxes : Distinct(mbox[b].msgs)
    /\ \A b \in Boxes, p \in Procs : msg[p] \notin Elements(mbox[b].msgs)
    /\ \A b, c \in Boxes :
          b # c => Elements(mbox[b].msgs) \cap Elements(mbox[c].msgs) = {}

MboxInv ==
    /\ MboxTypes /\ OneOpens /\ FreeListOK /\ HeldOnce
    /\ \A p \in Procs : CallOK(p)
    /\ \A b \in Boxes : BoxOK(b)

-----------------------------------------------------------------------------
(* What the parts of the invariant say of one process and of one box.      *)

LEMMA CallFacts ==
    ASSUME MboxInv, NEW p \in Procs
    PROVE  /\ CallOK(p) /\ id[p] \in Boxes /\ msg[p] \in Messages \cup {None}
           /\ pc[p] \in {"user", "return", "i_page", "dead"} \cup Sending \cup Receiving
           /\ wakeup_flags[p] \in WaitStates \cup {"WT_INTERRUPTED"}
           /\ size[p] \in Sizes
  BY DEF MboxInv, MboxTypes

LEMMA BoxFacts ==
    ASSUME MboxInv, NEW b \in Boxes
    PROVE  /\ mbox[b] \in BoxType /\ mbox[b].inuse \in Nat /\ mbox[b].slots \in Nat
           /\ mbox[b].max_slots \in MaxSlots \cup {0} /\ mbox[b].max_slots \in Nat
           /\ mbox[b].state \in {"CLOSED", "OPENED", "CLOSING"}
           /\ mbox[b].msgs \in Seq(Messages)
           /\ mbox[b].senders \in Seq(Procs) /\ mbox[b].receivers \in Seq(Procs)
           /\ QueuesOK(b) /\ UsesOK(b) /\ Met(b)
<1>1. mbox[b] \in BoxType /\ QueuesOK(b) /\ UsesOK(b) /\ Met(b)
  BY DEF MboxInv, MboxTypes, BoxOK
<1>2. /\ mbox[b].inuse \in Nat /\ mbox[b].slots \in Nat
      /\ mbox[b].max_slots \in MaxSlots \cup {0}
      /\ mbox[b].state \in {"CLOSED", "OPENED", "CLOSING"}
      /\ mbox[b].msgs \in Seq(Messages)
      /\ mbox[b].senders \in Seq(Procs) /\ mbox[b].receivers \in Seq(Procs)
  BY <1>1 DEF BoxType
<1>3. mbox[b].max_slots \in Nat
  <2>1. \A n \in MaxSlots \cup {0} : n \in Nat
    BY MboxAssumption
  <2>2. mbox[b].max_slots \in MaxSlots \cup {0}
    BY <1>2
  <2>3. QED
    BY <2>1, <2>2, Zenon
<1>4. QED
  BY <1>1, <1>2, <1>3

LEMMA MemberFacts ==
    ASSUME NEW b
    PROVE  /\ IsFiniteSet(Members(b)) /\ Cardinality(Members(b)) \in Nat
           /\ Cardinality(Members(b)) = 0 <=> Members(b) = {}
           /\ \A flags : /\ IsFiniteSet(Woken(b, flags))
                         /\ Cardinality(Woken(b, flags)) \in Nat
                         /\ Woken(b, flags) = {p \in Members(b) : wakeup_flags[p] = flags}
<1>1. IsFiniteSet(Members(b))
  BY MboxAssumption, FS_Subset DEF Members
<1>2. \A flags : Woken(b, flags) = {p \in Members(b) : wakeup_flags[p] = flags}
  BY DEF Woken, Members
<1>3. \A flags : IsFiniteSet(Woken(b, flags))
  BY <1>1, <1>2, FS_Subset
<1>4. QED
  BY <1>1, <1>2, <1>3, FS_CardinalityType, FS_EmptySet

LEMMA MemberFactsNext ==
    ASSUME NEW b
    PROVE  /\ IsFiniteSet(Members(b)') /\ Cardinality(Members(b)') \in Nat
           /\ Cardinality(Members(b)') = 0 <=> Members(b)' = {}
           /\ \A flags : /\ IsFiniteSet(Woken(b, flags)')
                         /\ Cardinality(Woken(b, flags)') \in Nat
                         /\ Woken(b, flags)' = {p \in Members(b)' : wakeup_flags'[p] = flags}
<1>1. IsFiniteSet(Members(b)')
  BY MboxAssumption, FS_Subset DEF Members
<1>2. \A flags : Woken(b, flags)' = {p \in Members(b)' : wakeup_flags'[p] = flags}
  BY DEF Woken, Members
<1>3. \A flags : IsFiniteSet(Woken(b, flags)')
  BY <1>1, <1>2, FS_Subset
<1>4. QED
  BY <1>1, <1>2, <1>3, FS_CardinalityType, FS_EmptySet

\* The constants.
LEMMA PageFacts ==
    /\ \A i \in DOMAIN Pages : /\ Pages[i] \in Seq(Boxes) /\ Pages[i] # <<>>
                               /\ Distinct(Pages[i]) /\ Elements(Pages[i]) \subseteq Boxes
    /\ (CHOOSE b \in Boxes : TRUE) \in Boxes
<1>1. \A i \in DOMAIN Pages : Pages[i] \in Seq(Boxes) /\ Pages[i] # <<>>
  BY MboxAssumption
<1>2. \A i \in DOMAIN Pages : Distinct(Pages[i])
  BY MboxAssumption
<1>3. \A i \in DOMAIN Pages : Elements(Pages[i]) \subseteq Boxes
  BY DEF Boxes
<1>4. 1 \in DOMAIN Pages
  BY MboxAssumption
<1>5. Head(Pages[1]) \in Boxes
  BY <1>1, <1>4
<1>6. QED
  BY <1>1, <1>2, <1>3, <1>5

LEMMA LeastNumber ==
    ASSUME NEW S \in SUBSET Nat, S # {}
    PROVE  \E x \in S : \A y \in S : x <= y
<1>1. PICK x \in S : \A y \in S : ~ (<<y, x>> \in OpToRel(<, Nat))
  BY NatLessThanWellFounded, WFMin
<1>2. \A y \in S : ~ (y < x) /\ x \in Nat /\ y \in Nat
  BY <1>1 DEF OpToRel
<1>3. QED
  BY <1>2

LEMMA SmallestFacts == Smallest \in Sizes
  BY MboxAssumption, LeastNumber DEF Smallest

LEMMA NextPageFacts ==
    ASSUME mbox_map \subseteq DOMAIN Pages, mbox_map # DOMAIN Pages
    PROVE  NextPage \in DOMAIN Pages /\ NextPage \notin mbox_map
<1>1. DOMAIN Pages \subseteq Nat
  BY MboxAssumption
<1>2. DOMAIN Pages \ mbox_map \in SUBSET Nat /\ DOMAIN Pages \ mbox_map # {}
  BY <1>1
<1>3. QED
  BY <1>2, LeastNumber DEF NextPage

\* What the operations of the scheduler do to the sleepers.
LEMMA WakeupTypes ==
    ASSUME SchedTypeOK, NEW W \in SUBSET Procs, Wakeup(W)
    PROVE  /\ SchedTypeOK' /\ current' = current
           /\ \A q \in Procs : state'[q] = "SLEEPING" => state[q] = "SLEEPING" /\ q \notin W
           /\ panic' = "none" => panic = "none"
  BY DEF Wakeup, SchedTypeOK, ProcStates, Assertions

LEMMA RescheduleTypes ==
    ASSUME SchedTypeOK, Reschedule \/ UNCHANGED sched_vars
    PROVE  SchedTypeOK' /\ state' = state /\ panic' = panic
  BY DEF Reschedule, SchedTypeOK, sched_vars

LEMMA BlockTypes ==
    ASSUME SchedTypeOK, NEW ws \in WaitStates, Block(ws)
    PROVE  /\ SchedTypeOK' /\ current' = current /\ panic' = panic
           /\ \A q \in Procs \ {current} : state'[q] = state[q]
  BY DEF Block, SchedTypeOK, ProcStates

\* What the operations on timers do to the set of linked timers.
LEMMA TimersMove ==
    ASSUME TimerInv
    PROVE  /\ Linked \subseteq Procs
           /\ UNCHANGED timer_vars => TimerInv' /\ Linked' = Linked
           /\ \A p \in Procs : DelTimer(p) => TimerInv' /\ Linked' = Linked \ {p}
           /\ \A p \in Procs, t \in Nat :
                 AddTimer(p, t) => TimerInv' /\ Linked' = Linked \cup {p}
           /\ \A p \in Procs : InitTimer(p) => TimerInv' /\ Linked' = Linked
           /\ RunTimers => TimerInv' /\ Linked' \subseteq Linked /\ Expired \subseteq Procs
<1>0. Owners = Procs
  BY MboxAssumption
<1>1. Linked \subseteq Procs /\ (TimerInv' => Linked' \subseteq Procs)
  BY <1>0 DEF TimerInv, TimerTypeOK, Linked
<1>2. TimersAgree /\ (TimerInv' => TimersAgree')
  BY Armed, ArmedNext
<1>3. TimersDue = [q \in Procs |-> TimersDue[q]]
  BY <1>0 DEF TimersDue, DueIn
<1>4. UNCHANGED timer_vars => TimerInv' /\ Linked' = Linked
  BY DEF timer_vars, TimerInv, TimerTypeOK, HeadNotExpired, Linked
<1>5. ASSUME NEW p \in Procs, DelTimer(p) PROVE TimerInv' /\ Linked' = Linked \ {p}
  <2>1. TimerInv' /\ TimersDue' = [TimersDue EXCEPT ![p] = Off]
    BY <1>0, <1>5, DelTimerStep
  <2>2. \A q \in Procs : TimersDue'[q] = IF q = p THEN Off ELSE TimersDue[q]
    BY <1>3, <2>1
  <2>3. QED
    BY <1>1, <1>2, <2>1, <2>2 DEF TimersAgree
<1>6. ASSUME NEW p \in Procs, NEW t \in Nat, AddTimer(p, t)
      PROVE  TimerInv' /\ Linked' = Linked \cup {p}
  <2>1. TimerInv' /\ TimersDue' = [TimersDue EXCEPT ![p] = t]
    BY <1>0, <1>6, AddTimerStep
  <2>2. \A q \in Procs : TimersDue'[q] = IF q = p THEN t ELSE TimersDue[q]
    BY <1>3, <2>1
  <2>3. t # Off
    BY TimerAssumption
  <2>4. QED
    BY <1>1, <1>2, <2>1, <2>2, <2>3 DEF TimersAgree
<1>7. ASSUME NEW p \in Procs, InitTimer(p) PROVE TimerInv' /\ Linked' = Linked
  <2>1. TimerInv'
    BY <1>0, <1>7, InitTimerStep
  <2>2. QED
    BY <1>7, <2>1 DEF InitTimer, Linked
<1>8. ASSUME RunTimers PROVE TimerInv' /\ Linked' \subseteq Linked /\ Expired \subseteq Procs
  <2>1. /\ TimerInv'
        /\ \A q \in Procs : TimersDue[q] = Off => TimersDue'[q] = Off
    BY <1>0, <1>8, RunTimersStep
  <2>2. Expired \subseteq Procs
    BY <1>0 DEF TimerInv, TimerTypeOK, Expired
  <2>3. QED
    BY <1>1, <1>2, <2>1, <2>2 DEF TimersAgree
<1>9. QED
  BY <1>1, <1>4, <1>5, <1>6, <1>7, <1>8

-----------------------------------------------------------------------------
(* What a step leaves alone.                                               *)

\* A wakeup sets the flags of somebody who waits.
FlagStep(q) ==
    \/ wakeup_flags'[q] = wakeup_flags[q]
    \/ pc[q] \in SendWait /\ wakeup_flags'[q] \in {"WT_MBOX_SEND", "WT_INTERRUPTED"}
    \/ pc[q] \in RecvWait /\ wakeup_flags'[q] \in {"WT_MBOX_RECV", "WT_INTERRUPTED"}

\* Somebody else than the running process.
Elsewhere(q) ==
    /\ pc'[q] = pc[q] /\ id'[q] = id[q] /\ msg'[q] = msg[q]
    /\ FlagStep(q)
    /\ q \in Linked' => q \in Linked
    /\ state'[q] = "SLEEPING" => state[q] = "SLEEPING"

LEMMA CallStays ==
    ASSUME MboxInv, NEW q \in Procs, q # current, Elsewhere(q),
           mbox_map' = mbox_map \/ pc[q] # "i_page" \/ mbox_map' # DOMAIN Pages
    PROVE  CallOK(q)'
<1>1. CallOK(q)
  BY CallFacts
<1>2. pc[q] \notin Looking
  BY <1>1 DEF CallOK
<1>3. FlagStep(q) /\ pc'[q] = pc[q] /\ msg'[q] = msg[q] /\ (q \in Linked' => q \in Linked)
  BY DEF Elsewhere
<1>4. QED
  BY <1>1, <1>2, <1>3 DEF CallOK, FlagStep, SendWait, RecvWait, Looking, Holding

\* A box and those inside it.
Kept(b) ==
    /\ mbox'[b] = mbox[b]
    /\ Members(b)' = Members(b)
    /\ \A q \in Members(b) :
          /\ wakeup_flags'[q] = wakeup_flags[q]
          /\ pc[q] \in SendWait => pc'[q] \in SendWait
          /\ pc[q] \in RecvWait => pc'[q] \in RecvWait
          /\ state'[q] = "SLEEPING" => state[q] = "SLEEPING"
    /\ panic' = "none" => panic = "none"

\* Those who are queued are inside.
LEMMA QueuedAreMembers ==
    ASSUME MboxInv, NEW b \in Boxes
    PROVE  Elements(mbox[b].senders) \cup Elements(mbox[b].receivers) \subseteq Members(b)
<1>1. QueuesOK(b) /\ mbox[b].senders \in Seq(Procs) /\ mbox[b].receivers \in Seq(Procs)
  BY BoxFacts
<1>2. Elements(mbox[b].senders) \cup Elements(mbox[b].receivers) \subseteq Procs
  BY <1>1, ElementsFacts
<1>3. QED
  BY <1>1, <1>2 DEF QueuesOK, Members, SendWait, RecvWait, Inside

LEMMA BoxStays ==
    ASSUME MboxInv, NEW b \in Boxes, Kept(b)
    PROVE  BoxOK(b)'
<1>1. QueuesOK(b) /\ UsesOK(b) /\ Met(b)
  BY BoxFacts
<1>2. Elements(mbox[b].senders) \cup Elements(mbox[b].receivers) \subseteq Members(b)
  BY QueuedAreMembers
<1>3. \A q \in Members(b) : id'[q] = b /\ id[q] = b
  BY DEF Kept, Members
<1>4. QueuesOK(b)'
  BY <1>1, <1>2, <1>3 DEF Kept, QueuesOK
<1>5. UsesOK(b)'
  BY <1>1 DEF Kept, UsesOK
<1>6. ASSUME NEW flags PROVE Woken(b, flags)' = Woken(b, flags)
  <2>1. /\ Woken(b, flags) = {p \in Members(b) : wakeup_flags[p] = flags}
        /\ Woken(b, flags)' = {p \in Members(b)' : wakeup_flags'[p] = flags}
    BY MemberFacts, MemberFactsNext
  <2>2. QED
    BY <2>1 DEF Kept
<1>7. Met(b)'
  BY <1>1, <1>2, <1>6 DEF Kept, Met
<1>8. QED
  BY <1>4, <1>5, <1>7 DEF BoxOK

LEMMA FreeListStays ==
    ASSUME MboxInv, UNCHANGED <<free_mbox_list, mbox_map>>,
           \A b \in Boxes : mbox'[b].state = mbox[b].state
    PROVE  FreeListOK'
  BY DEF MboxInv, FreeListOK, Mapped

\* Messages are freed, or stay where they are.
LEMMA MessagesStay ==
    ASSUME MboxInv, \A p \in Procs : msg'[p] \in {msg[p], None},
           \A b \in Boxes : mbox'[b].msgs \in {mbox[b].msgs, <<>>}
    PROVE  HeldOnce'
<1>1. HeldOnce /\ \A b \in Boxes : mbox[b].msgs \in Seq(Messages)
  BY BoxFacts DEF MboxInv
<1>2. \A b \in Boxes : None \notin Elements(mbox[b].msgs)
  BY <1>1, ElementsFacts, MboxAssumption
<1>3. Elements(<<>>) = {} /\ Distinct(<<>>)
  BY DEF Elements, Distinct
<1>4. \A b \in Boxes : /\ Elements(mbox'[b].msgs) \subseteq Elements(mbox[b].msgs)
                       /\ Distinct(mbox[b].msgs) => Distinct(mbox'[b].msgs)
  BY <1>3
<1>5. \A p, q \in Procs : msg'[p] = msg'[q] /\ msg'[p] # None => p = q
  BY <1>1 DEF HeldOnce
<1>6. \A b \in Boxes : Distinct(mbox'[b].msgs)
  BY <1>1, <1>4 DEF HeldOnce
<1>7. \A b \in Boxes, p \in Procs : msg'[p] \notin Elements(mbox'[b].msgs)
  BY <1>1, <1>2, <1>4 DEF HeldOnce
<1>8. \A b, c \in Boxes :
          b # c => Elements(mbox'[b].msgs) \cap Elements(mbox'[c].msgs) = {}
  BY <1>1, <1>4 DEF HeldOnce
<1>9. QED
  BY <1>5, <1>6, <1>7, <1>8 DEF HeldOnce

\* A step that no box notices.
LEMMA SideStep ==
    ASSUME MboxInv, MboxTypes', NEW p \in Procs \cup {Idle}, current = p,
           UNCHANGED <<mbox, free_mbox_list, mbox_map>>,
           \A q \in Procs \ {p} : Elsewhere(q) /\ wakeup_flags'[q] = wakeup_flags[q],
           panic' = "none" => panic = "none",
           p \in Procs => /\ CallOK(p)' /\ msg'[p] \in {msg[p], None}
                          /\ pc'[p] = "i_page" => \A q \in Procs \ {p} : pc[q] # "i_page",
           p \in Procs => \/ pc[p] \notin Inside /\ pc'[p] \notin Inside
                          \/ /\ \/ pc'[p] = pc[p]
                                \/ pc[p] \in SendWait /\ pc'[p] \in SendWait
                                \/ pc[p] \in RecvWait /\ pc'[p] \in RecvWait
                             /\ id'[p] = id[p] /\ wakeup_flags'[p] = wakeup_flags[p]
                             /\ state'[p] = "SLEEPING" => state[p] = "SLEEPING"
    PROVE  MboxInv'
<1>1. ASSUME NEW q \in Procs PROVE CallOK(q)'
  BY CallStays
<1>2. OneOpens'
  BY DEF MboxInv, OneOpens, Elsewhere
<1>3. ASSUME NEW b \in Boxes PROVE BoxOK(b)'
  <2>1. \A q \in Procs : /\ id'[q] = b /\ pc'[q] \in Inside <=> id[q] = b /\ pc[q] \in Inside
                         /\ pc[q] \in Inside =>
                               /\ wakeup_flags'[q] = wakeup_flags[q]
                               /\ pc[q] \in SendWait => pc'[q] \in SendWait
                               /\ pc[q] \in RecvWait => pc'[q] \in RecvWait
                               /\ state'[q] = "SLEEPING" => state[q] = "SLEEPING"
    BY DEF Elsewhere, SendWait, RecvWait, Inside
  <2>2. Kept(b)
    BY <2>1 DEF Kept, Members
  <2>3. QED
    BY <2>2, BoxStays
<1>4. FreeListOK'
  BY FreeListStays
<1>5. HeldOnce'
  <2>1. \A q \in Procs : msg'[q] \in {msg[q], None}
    BY DEF Elsewhere
  <2>2. QED
    BY <2>1, MessagesStay
<1>6. QED
  BY <1>1, <1>2, <1>3, <1>4, <1>5 DEF MboxInv

\* A step of a process at one box.
LEMMA BoxStep ==
    ASSUME MboxInv, MboxTypes', NEW p \in Procs, current = p, NEW b \in Boxes,
           \A c \in Boxes \ {b} : mbox'[c] = mbox[c],
           \A q \in Procs \ {p} : /\ Elsewhere(q)
                                  /\ wakeup_flags'[q] # wakeup_flags[q] => id[q] = b,
           panic' = "none" => panic = "none",
           mbox_map' = mbox_map \/ \A q \in Procs \ {p} : pc[q] # "i_page",
           pc[p] \in Inside \/ pc'[p] \in Inside => id[p] = b /\ id'[p] = b,
           pc'[p] # "i_page",
           CallOK(p)', BoxOK(b)', FreeListOK', HeldOnce'
    PROVE  MboxInv'
<1>1. ASSUME NEW q \in Procs PROVE CallOK(q)'
  BY CallStays
<1>2. OneOpens'
  BY DEF MboxInv, OneOpens, Elsewhere
<1>3. ASSUME NEW c \in Boxes PROVE BoxOK(c)'
  <2>1. CASE c = b
    BY <2>1
  <2>2. CASE c # b
    <3>1. \A q \in Procs : /\ id'[q] = c /\ pc'[q] \in Inside <=> id[q] = c /\ pc[q] \in Inside
                           /\ id[q] = c /\ pc[q] \in Inside => q # p
      BY <2>2 DEF Elsewhere
    <3>2. Members(c)' = Members(c)
      BY <3>1 DEF Members
    <3>3. \A q \in Members(c) : /\ wakeup_flags'[q] = wakeup_flags[q]
                                /\ pc'[q] = pc[q]
                                /\ state'[q] = "SLEEPING" => state[q] = "SLEEPING"
      BY <2>2, <3>1 DEF Elsewhere, Members
    <3>4. Kept(c)
      BY <2>2, <3>2, <3>3 DEF Kept
    <3>5. QED
      BY <3>4, BoxStays
  <2>3. QED
    BY <2>1, <2>2
<1>4. QED
  BY <1>1, <1>2, <1>3 DEF MboxInv

-----------------------------------------------------------------------------
(* Steps that no box notices.                                              *)

LEMMA MboxStarts == Init => MboxInv
<1> SUFFICES ASSUME Init PROVE MboxInv
  OBVIOUS
<1>1. SchedTypeOK /\ current = Idle /\ Idle \notin Procs /\ panic = "none"
  BY SchedAssumption DEF Init, SchedInit, SchedTypeOK, ProcStates
<1>2. TimerInv /\ Linked = {}
  BY TimerInvInductive DEF Init, TimerInit, Linked
<1>3. /\ mbox_map = {} /\ free_mbox_list = <<>> /\ mbox = [b \in Boxes |-> ClosedBox]
      /\ \A p \in Procs : /\ pc[p] = "user" /\ msg[p] = None
                          /\ wakeup_flags[p] = "WT_INTERRUPTED"
  BY DEF Init
<1>4. ClosedBox \in BoxType
  BY DEF ClosedBox, BoxType
<1>5. MboxTypes
  BY <1>1, <1>2, <1>4, PageFacts, SmallestFacts DEF Init, MboxTypes
<1>6. \A p \in Procs : CallOK(p)
  BY <1>2, <1>3 DEF CallOK, SendWait, RecvWait, Looking, Holding
<1>7. OneOpens
  BY <1>3 DEF OneOpens
<1>8. Elements(<<>>) = {} /\ Distinct(<<>>)
  BY DEF Elements, Distinct
<1>9. ASSUME NEW b \in Boxes PROVE BoxOK(b)
  <2>1. /\ mbox[b].state = "CLOSED" /\ mbox[b].inuse = 0 /\ mbox[b].slots = 0
        /\ mbox[b].senders = <<>> /\ mbox[b].receivers = <<>> /\ mbox[b].msgs = <<>>
    BY <1>3 DEF ClosedBox
  <2>2. Cardinality(Members(b)) = 0
    <3>1. Members(b) = {}
      BY <1>3 DEF Members, Inside
    <3>2. QED
      BY <3>1, MemberFacts
  <2>3. QED
    BY <1>8, <2>1, <2>2 DEF BoxOK, QueuesOK, UsesOK, Met
<1>10. FreeListOK
  BY <1>3, <1>8 DEF FreeListOK, Mapped, ClosedBox
<1>11. HeldOnce
  BY <1>3, <1>8 DEF HeldOnce, ClosedBox
<1>12. QED
  BY <1>5, <1>6, <1>7, <1>9, <1>10, <1>11 DEF MboxInv

LEMMA NothingMoves ==
    ASSUME MboxInv, UNCHANGED <<sched_vars, timer_vars>>
    PROVE  /\ SchedTypeOK' /\ TimerInv' /\ Linked' = Linked
           /\ current' = current /\ state' = state /\ panic' = panic
  BY RescheduleTypes, TimersMove DEF MboxInv, MboxTypes, sched_vars

\* A process goes on outside of all boxes.
LEMMA PlainStep ==
    ASSUME MboxInv, NEW p \in Procs, current = p,
           UNCHANGED <<sched_vars, timer_vars, mbox, mbox_map, free_mbox_list>>,
           UNCHANGED <<bytes, wakeup_flags, timed, killed>>,
           NEW l \in {"return", "s_load", "r_check", "i_page"}, pc' = [pc EXCEPT ![p] = l],
           pc[p] \notin Inside, l = "return" \/ pc[p] = "user",
           l = "i_page" =>
               mbox_map # DOMAIN Pages /\ \A q \in Procs \ {p} : pc[q] # "i_page",
           NEW b \in Boxes, id' = [id EXCEPT ![p] = b], size' \in [Procs -> Sizes],
           msg' = IF pc[p] = "r_copy" THEN [msg EXCEPT ![p] = None] ELSE msg
    PROVE  MboxInv'
<1>1. /\ SchedTypeOK' /\ TimerInv' /\ Linked' = Linked
      /\ current' = current /\ state' = state /\ panic' = panic
  BY NothingMoves
<1>2. MboxTypes'
  BY <1>1 DEF MboxInv, MboxTypes, Sending, Receiving
<1>3. \A q \in Procs \ {p} : Elsewhere(q) /\ wakeup_flags'[q] = wakeup_flags[q]
  BY <1>1 DEF MboxInv, MboxTypes, Elsewhere, FlagStep
<1>4. pc'[p] = l /\ CallOK(p)
  BY CallFacts DEF MboxInv, MboxTypes
<1>5. msg'[p] = None
  BY <1>4 DEF CallOK, Holding, Inside, MboxInv, MboxTypes
<1>6. CallOK(p)'
  BY <1>1, <1>4, <1>5
  DEF CallOK, Inside, Looking, Holding, SendWait, RecvWait
<1>7. QED
  BY <1>1, <1>2, <1>3, <1>4, <1>5, <1>6, SideStep DEF Inside

LEMMA CallsKeep ==
    ASSUME MboxInv, NEW p \in Procs, current = p, NEW b \in Boxes,
           SendCall(p, b) \/ RecvCall(p, b)
    PROVE  MboxInv'
<1>1. /\ pc[p] = "user" /\ id' = [id EXCEPT ![p] = b]
      /\ UNCHANGED <<sched_vars, timer_vars, mbox, mbox_map, free_mbox_list>>
      /\ UNCHANGED <<bytes, wakeup_flags, timed, killed, msg>>
  BY DEF SendCall, RecvCall, box_vars
<1>2. pc' = [pc EXCEPT ![p] = "s_load"] \/ pc' = [pc EXCEPT ![p] = "r_check"]
  BY DEF SendCall, RecvCall, Goto
<1>3. size' \in [Procs -> Sizes]
  BY DEF SendCall, RecvCall, MboxInv, MboxTypes
<1>4. QED
  BY <1>1, <1>2, <1>3, PlainStep DEF Inside

\* What the other ways out of a call have in common.
LEMMA BackKeeps ==
    ASSUME MboxInv, NEW p \in Procs, current = p,
           pc[p] \in {"user", "s_load", "r_check", "r_copy", "i_page"},
           NEW l \in {"return", "i_page"}, pc' = [pc EXCEPT ![p] = l],
           l = "i_page" => /\ pc[p] = "user" /\ mbox_map # DOMAIN Pages
                           /\ \A q \in Procs : pc[q] # "i_page",
           UNCHANGED <<sched_vars, timer_vars, mbox, mbox_map, free_mbox_list>>,
           UNCHANGED <<id, bytes, wakeup_flags, timed, size, killed>>,
           msg' = IF pc[p] = "r_copy" THEN [msg EXCEPT ![p] = None] ELSE msg
    PROVE  MboxInv'
<1>1. id' = [id EXCEPT ![p] = id[p]] /\ id[p] \in Boxes /\ size' \in [Procs -> Sizes]
  BY DEF MboxInv, MboxTypes
<1>2. QED
  BY <1>1, PlainStep DEF Inside

LEMMA SendFailsKeeps ==
    ASSUME MboxInv, NEW p \in Procs, current = p, SendFails(p)
    PROVE  MboxInv'
<1>1. /\ pc[p] = "s_load" /\ pc' = [pc EXCEPT ![p] = "return"] /\ msg' = msg
      /\ UNCHANGED <<sched_vars, timer_vars, mbox, mbox_map, free_mbox_list>>
      /\ UNCHANGED <<id, bytes, wakeup_flags, timed, size, killed>>
  BY DEF SendFails, Goto, box_vars, call_vars
<1>2. QED
  BY <1>1, BackKeeps

LEMMA RecvDoneKeeps ==
    ASSUME MboxInv, NEW p \in Procs, current = p, RecvDone(p)
    PROVE  MboxInv'
<1>1. /\ pc[p] = "r_copy" /\ pc' = [pc EXCEPT ![p] = "return"]
      /\ msg' = [msg EXCEPT ![p] = None]
      /\ UNCHANGED <<sched_vars, timer_vars, mbox, mbox_map, free_mbox_list>>
      /\ UNCHANGED <<id, bytes, wakeup_flags, timed, size, killed>>
  BY DEF RecvDone, Goto, Drop, box_vars, call_vars
<1>2. QED
  BY <1>1, BackKeeps

LEMMA MboxScheduleKeeps ==
    ASSUME MboxInv, NEW p \in Procs, current = p, Schedule(p)
    PROVE  MboxInv'
<1>1. /\ Reschedule
      /\ UNCHANGED <<timer_vars, mbox, mbox_map, free_mbox_list>>
      /\ UNCHANGED <<id, msg, bytes, wakeup_flags, timed, size, killed>>
  BY DEF Schedule, box_vars, call_vars
<1>2. \/ pc[p] = "s_schedule" /\ pc' = [pc EXCEPT ![p] = "s_resume"]
      \/ pc[p] = "r_schedule" /\ pc' = [pc EXCEPT ![p] = "r_resume"]
      \/ pc[p] \in {"s_load", "r_check", "r_copy", "i_page", "dead"} /\ pc' = pc
  BY DEF Schedule, Goto
<1>3. /\ SchedTypeOK' /\ state' = state /\ panic' = panic /\ TimerInv' /\ Linked' = Linked
  BY <1>1, RescheduleTypes, TimersMove DEF MboxInv, MboxTypes
<1>4. MboxTypes'
  BY <1>1, <1>2, <1>3 DEF MboxInv, MboxTypes, Sending, Receiving
<1>5. \A q \in Procs \ {p} : Elsewhere(q) /\ wakeup_flags'[q] = wakeup_flags[q]
  BY <1>1, <1>2, <1>3 DEF MboxInv, MboxTypes, Elsewhere, FlagStep
<1>6. \/ pc[p] = "s_schedule" /\ pc'[p] = "s_resume"
      \/ pc[p] = "r_schedule" /\ pc'[p] = "r_resume"
      \/ pc[p] \in {"s_load", "r_check", "r_copy", "i_page", "dead"} /\ pc'[p] = pc[p]
  BY <1>2 DEF MboxInv, MboxTypes
<1>7. CallOK(p)'
  <2>1. CallOK(p)
    BY CallFacts
  <2>2. QED
    BY <1>1, <1>3, <1>6, <2>1 DEF CallOK, Looking, Holding, SendWait, RecvWait
<1>8. pc'[p] = "i_page" => \A q \in Procs \ {p} : pc[q] # "i_page"
  BY <1>6 DEF MboxInv, OneOpens
<1>9. QED
  BY <1>1, <1>3, <1>4, <1>5, <1>6, <1>7, <1>8, SideStep DEF Inside, SendWait, RecvWait

LEMMA MboxIdleKeeps ==
    ASSUME MboxInv, IdleLoop
    PROVE  MboxInv'
<1>1. /\ Reschedule /\ current = Idle
      /\ UNCHANGED <<timer_vars, mbox, mbox_map, free_mbox_list, pc>>
      /\ UNCHANGED <<id, msg, bytes, wakeup_flags, timed, size, killed>>
  BY DEF IdleLoop, box_vars, call_vars
<1>2. /\ SchedTypeOK' /\ state' = state /\ panic' = panic /\ TimerInv' /\ Linked' = Linked
  BY <1>1, RescheduleTypes, TimersMove DEF MboxInv, MboxTypes
<1>3. MboxTypes'
  BY <1>1, <1>2 DEF MboxInv, MboxTypes
<1>4. \A q \in Procs : Elsewhere(q) /\ wakeup_flags'[q] = wakeup_flags[q]
  BY <1>1, <1>2 DEF MboxInv, MboxTypes, Elsewhere, FlagStep
<1>5. QED
  BY <1>1, <1>2, <1>3, <1>4, SideStep, SchedAssumption

LEMMA MboxKillKeeps ==
    ASSUME MboxInv, NEW p \in Procs, current = p, NEW victim \in Procs, Kill(p, victim)
    PROVE  MboxInv'
<1> DEFINE W == IF wait_state[victim] # "none" THEN {victim} ELSE {}
<1>1. /\ pc[p] = "user" /\ Wakeup(W) /\ W \in SUBSET Procs
      /\ pc' = [pc EXCEPT ![p] = "return"] /\ killed' = killed \cup {victim}
      /\ UNCHANGED <<timer_vars, mbox, mbox_map, free_mbox_list>>
      /\ UNCHANGED <<id, msg, bytes, wakeup_flags, timed, size>>
  BY DEF Kill, Goto, box_vars, call_vars
<1> HIDE DEF W
<1>2. /\ SchedTypeOK' /\ current' = current
      /\ \A q \in Procs : state'[q] = "SLEEPING" => state[q] = "SLEEPING"
      /\ panic' = "none" => panic = "none"
      /\ TimerInv' /\ Linked' = Linked
  BY <1>1, WakeupTypes, TimersMove DEF MboxInv, MboxTypes
<1>3. MboxTypes'
  BY <1>1, <1>2 DEF MboxInv, MboxTypes
<1>4. \A q \in Procs \ {p} : Elsewhere(q) /\ wakeup_flags'[q] = wakeup_flags[q]
  BY <1>1, <1>2 DEF MboxInv, MboxTypes, Elsewhere, FlagStep
<1>5. pc'[p] = "return" /\ CallOK(p)
  BY <1>1, CallFacts DEF MboxInv, MboxTypes
<1>6. CallOK(p)'
  BY <1>1, <1>2, <1>5 DEF CallOK, Looking, Holding, SendWait, RecvWait
<1>7. QED
  BY <1>1, <1>2, <1>3, <1>4, <1>5, <1>6, SideStep DEF Inside

LEMMA MboxReturnKeeps ==
    ASSUME MboxInv, NEW p \in Procs, current = p, Return(p)
    PROVE  MboxInv'
<1>1. /\ pc[p] = "return" /\ id' = [id EXCEPT ![p] = CHOOSE b \in Boxes : TRUE]
      /\ size' = [size EXCEPT ![p] = Smallest]
      /\ wakeup_flags' = [wakeup_flags EXCEPT ![p] = "WT_INTERRUPTED"]
      /\ expires' = [expires EXCEPT ![p] = 0] /\ timed' = timed \ {p}
      /\ UNCHANGED <<timer_list, mbox, mbox_map, free_mbox_list, msg, bytes, killed>>
  BY DEF Return, box_vars
<1>2. \/ Exit /\ pc' = [pc EXCEPT ![p] = "dead"]
      \/ (Reschedule \/ UNCHANGED sched_vars) /\ pc' = [pc EXCEPT ![p] = "user"]
  BY DEF Return, Goto
<1>3. CallOK(p) /\ p \notin Linked
  BY <1>1, CallFacts DEF CallOK, SendWait, RecvWait
<1>4. TimerInv' /\ Linked' = Linked
  <2>1. InitTimer(p)
    BY <1>1, <1>3 DEF InitTimer
  <2>2. QED
    BY <2>1, TimersMove DEF MboxInv, MboxTypes
<1>5. /\ SchedTypeOK' /\ panic' = panic
      /\ \A q \in Procs \ {p} : state'[q] = state[q]
  <2>1. CASE Exit
    BY <2>1 DEF Exit, MboxInv, MboxTypes, SchedTypeOK, ProcStates
  <2>2. CASE Reschedule \/ UNCHANGED sched_vars
    BY <2>2, RescheduleTypes DEF MboxInv, MboxTypes
  <2>3. QED
    BY <1>2, <2>1, <2>2
<1>6. pc'[p] \in {"dead", "user"} /\ \A q \in Procs \ {p} : pc'[q] = pc[q]
  BY <1>2 DEF MboxInv, MboxTypes
<1>7. MboxTypes'
  BY <1>1, <1>2, <1>4, <1>5, PageFacts, SmallestFacts DEF MboxInv, MboxTypes
<1>8. \A q \in Procs \ {p} : Elsewhere(q) /\ wakeup_flags'[q] = wakeup_flags[q]
  BY <1>1, <1>4, <1>5, <1>6 DEF MboxInv, MboxTypes, Elsewhere, FlagStep
<1>9. CallOK(p)'
  BY <1>1, <1>3, <1>4, <1>6
  DEF CallOK, Looking, Holding, SendWait, RecvWait, MboxInv, MboxTypes
<1>10. QED
  BY <1>1, <1>4, <1>5, <1>6, <1>7, <1>8, <1>9, SideStep DEF Inside

LEMMA MboxTickKeeps ==
    ASSUME MboxInv, Tick
    PROVE  MboxInv'
<1>1. /\ RunTimers /\ Wakeup(Expired)
      /\ pc' = [q \in Procs |-> IF q = current /\ pc[q] = "user" THEN "return" ELSE pc[q]]
      /\ UNCHANGED <<mbox, mbox_map, free_mbox_list>>
      /\ UNCHANGED <<id, msg, bytes, wakeup_flags, timed, size, killed>>
  BY DEF Tick, box_vars, call_vars
<1>2. /\ TimerInv' /\ Linked' \subseteq Linked /\ Expired \in SUBSET Procs
  BY <1>1, TimersMove DEF MboxInv, MboxTypes
<1>3. /\ SchedTypeOK' /\ current' = current
      /\ \A q \in Procs : state'[q] = "SLEEPING" => state[q] = "SLEEPING"
      /\ panic' = "none" => panic = "none"
  BY <1>1, <1>2, WakeupTypes DEF MboxInv, MboxTypes
<1>4. MboxTypes'
  BY <1>1, <1>2, <1>3 DEF MboxInv, MboxTypes
<1>5. PICK p \in Procs \cup {Idle} : current = p
  BY DEF MboxInv, MboxTypes, SchedTypeOK
<1>6. \A q \in Procs \ {p} : Elsewhere(q) /\ wakeup_flags'[q] = wakeup_flags[q]
  BY <1>1, <1>2, <1>3, <1>5 DEF Elsewhere, FlagStep
<1>7. ASSUME p \in Procs
      PROVE  /\ pc'[p] = pc[p] \/ (pc[p] = "user" /\ pc'[p] = "return")
             /\ CallOK(p)' /\ msg'[p] = msg[p] /\ id'[p] = id[p]
             /\ pc'[p] = "i_page" => \A q \in Procs \ {p} : pc[q] # "i_page"
  <2>1. pc'[p] = pc[p] \/ (pc[p] = "user" /\ pc'[p] = "return")
    BY <1>1, <1>7
  <2>2. CallOK(p)
    BY <1>7, CallFacts
  <2>3. CallOK(p)'
    BY <1>1, <1>2, <1>3, <2>1, <2>2 DEF CallOK, Looking, Holding, SendWait, RecvWait
  <2>4. QED
    BY <1>1, <1>7, <2>1, <2>3 DEF MboxInv, OneOpens
<1>8. QED
  BY <1>1, <1>3, <1>4, <1>5, <1>6, <1>7, SideStep DEF Inside

LEMMA MboxStutterKeeps ==
    ASSUME MboxInv, UNCHANGED vars
    PROVE  MboxInv'
<1>1. /\ UNCHANGED <<sched_vars, timer_vars, mbox, mbox_map, free_mbox_list, pc>>
      /\ UNCHANGED <<id, msg, bytes, wakeup_flags, timed, size, killed>>
  BY DEF vars, box_vars, call_vars
<1>2. /\ SchedTypeOK' /\ TimerInv' /\ Linked' = Linked
      /\ current' = current /\ state' = state /\ panic' = panic
  BY <1>1, NothingMoves
<1>3. MboxTypes'
  BY <1>1, <1>2 DEF MboxInv, MboxTypes
<1>4. PICK p \in Procs \cup {Idle} : current = p
  BY DEF MboxInv, MboxTypes, SchedTypeOK
<1>5. \A q \in Procs : Elsewhere(q) /\ wakeup_flags'[q] = wakeup_flags[q]
  BY <1>1, <1>2 DEF Elsewhere, FlagStep
<1>6. ASSUME p \in Procs
      PROVE  /\ CallOK(p)'
             /\ pc'[p] = "i_page" => \A q \in Procs \ {p} : pc[q] # "i_page"
  <2>1. CallOK(p)
    BY <1>6, CallFacts
  <2>2. CallOK(p)'
    BY <1>1, <1>2, <2>1 DEF CallOK
  <2>3. QED
    BY <1>1, <1>6, <2>2 DEF MboxInv, OneOpens
<1>7. QED
  BY <1>1, <1>2, <1>3, <1>4, <1>5, <1>6, SideStep

-----------------------------------------------------------------------------
(* Into a box and to sleep in it.                                          *)

\* The structure of a box is replaced.
LEMMA Replaced ==
    ASSUME MboxInv, NEW b \in Boxes, NEW box \in BoxType, mbox' = [mbox EXCEPT ![b] = box]
    PROVE  /\ mbox' \in [Boxes -> BoxType] /\ mbox'[b] = box
           /\ \A c \in Boxes \ {b} : mbox'[c] = mbox[c]
  BY DEF MboxInv, MboxTypes

\* Where nobody's flags of either kind change, nor who is inside but for p.
LEMMA WokenStay ==
    ASSUME MboxInv, NEW b \in Boxes, NEW p \in Procs,
           Members(b)' \ {p} = Members(b) \ {p},
           \A q \in Procs \ {p} : wakeup_flags'[q] = wakeup_flags[q],
           NEW flags, wakeup_flags[p] # flags, wakeup_flags'[p] # flags
    PROVE  Woken(b, flags)' = Woken(b, flags)
<1>1. /\ Woken(b, flags) = {q \in Members(b) : wakeup_flags[q] = flags}
      /\ Woken(b, flags)' = {q \in Members(b)' : wakeup_flags'[q] = flags}
  BY MemberFacts, MemberFactsNext
<1>2. Members(b) \subseteq Procs /\ Members(b)' \subseteq Procs
  BY DEF Members
<1>3. QED
  BY <1>1, <1>2

\* The message that a caller brings is in no other place.
LEMMA NewMessage ==
    ASSUME MboxInv, NEW p \in Procs, NEW m \in FreeMessages, msg' = [msg EXCEPT ![p] = m],
           \A b \in Boxes : mbox'[b].msgs = mbox[b].msgs
    PROVE  HeldOnce'
<1>1. /\ \A q \in Procs : msg[q] # m
      /\ \A b \in Boxes : m \notin Elements(mbox[b].msgs)
  BY DEF FreeMessages
<1>2. /\ msg'[p] = m
      /\ \A q \in Procs \ {p} : msg'[q] = msg[q]
  BY DEF MboxInv, MboxTypes
<1>3. QED
  BY <1>1, <1>2 DEF MboxInv, HeldOnce

LEMMA EnterKeeps ==
    ASSUME MboxInv, NEW p \in Procs, current = p, get_mbox(id[p]),
           NEW label, \/ pc[p] = "s_load" /\ label = "s_loop"
                      \/ pc[p] = "r_check" /\ label = "r_loop",
           Enter(p, label),
           UNCHANGED <<sched_vars, mbox_map, free_mbox_list>>,
           UNCHANGED <<id, wakeup_flags, size, killed>>,
           bytes' \in [Messages -> Sizes],
           \/ label = "s_loop" /\ \E m \in FreeMessages : msg' = [msg EXCEPT ![p] = m]
           \/ label = "r_loop" /\ msg' = msg
    PROVE  MboxInv'
<1>0. PICK b \in Boxes : id[p] = b
  BY CallFacts
<1> DEFINE box == [mbox[b] EXCEPT !.inuse = @ + 1]
<1>1. CallOK(p) /\ mbox[b].state = "OPENED" /\ id'[p] = b
  BY <1>0, CallFacts DEF get_mbox
<1>2. /\ mbox' = [mbox EXCEPT ![b] = box]
      /\ pc' = [pc EXCEPT ![p] = label]
      /\ timer_list' = timer_list
  BY <1>0 DEF Enter, Goto
<1>3. /\ box \in BoxType /\ box.inuse = mbox[b].inuse + 1 /\ box.state = mbox[b].state
      /\ box.max_slots = mbox[b].max_slots /\ box.slots = mbox[b].slots
      /\ box.msgs = mbox[b].msgs
      /\ box.senders = mbox[b].senders /\ box.receivers = mbox[b].receivers
  BY <1>1, BoxFacts DEF BoxType
<1> HIDE DEF box
<1>4. /\ mbox' \in [Boxes -> BoxType] /\ mbox'[b] = box
      /\ \A c \in Boxes \ {b} : mbox'[c] = mbox[c]
  BY <1>1, <1>2, <1>3, Replaced
<1>5. p \notin Linked
  BY <1>1 DEF CallOK, SendWait, RecvWait
<1>6. timed' \subseteq Procs /\ TimerInv' /\ Linked' = Linked
  <2>1. timed' \subseteq Procs
    BY DEF Enter, MboxInv, MboxTypes
  <2>2. UNCHANGED timer_vars \/ InitTimer(p)
    <3>1. expires' = expires \/ \E t \in Timeouts : expires' = [expires EXCEPT ![p] = t]
      BY DEF Enter
    <3>2. Timeouts \subseteq Nat
      BY MboxAssumption
    <3>3. QED
      BY <1>2, <1>5, <3>1, <3>2 DEF timer_vars, InitTimer
  <2>3. QED
    BY <2>1, <2>2, TimersMove DEF MboxInv, MboxTypes
<1>7. /\ current' = current /\ state' = state /\ panic' = panic /\ SchedTypeOK'
  BY RescheduleTypes DEF sched_vars, MboxInv, MboxTypes
<1>8. /\ pc'[p] = label /\ \A q \in Procs \ {p} : pc'[q] = pc[q]
      /\ pc' \in [Procs -> {"user", "return", "i_page", "dead"} \cup Sending \cup Receiving]
  BY <1>2 DEF MboxInv, MboxTypes, Sending, Receiving
<1>9. /\ msg' \in [Procs -> Messages \cup {None}]
      /\ \A q \in Procs \ {p} : msg'[q] = msg[q]
      /\ msg'[p] # None <=> label = "s_loop"
      /\ HeldOnce'
  <2>1. \A c \in Boxes : mbox'[c].msgs = mbox[c].msgs
    BY <1>3, <1>4
  <2>2. CASE label = "s_loop"
    <3>1. PICK m \in FreeMessages : msg' = [msg EXCEPT ![p] = m]
      BY <2>2
    <3>2. m \in Messages /\ m # None
      BY MboxAssumption DEF FreeMessages
    <3>3. HeldOnce'
      BY <2>1, <3>1, NewMessage
    <3>4. QED
      BY <2>2, <3>1, <3>2, <3>3 DEF MboxInv, MboxTypes
  <2>3. CASE label = "r_loop"
    <3>1. msg' = msg /\ msg[p] = None
      BY <1>1, <2>3 DEF CallOK, Holding
    <3>2. HeldOnce'
      BY <2>1, <3>1, MessagesStay
    <3>3. QED
      BY <2>3, <3>1, <3>2 DEF MboxInv, MboxTypes
  <2>4. QED
    BY <2>2, <2>3
<1>10. MboxTypes'
  BY <1>4, <1>6, <1>7, <1>8, <1>9 DEF MboxInv, MboxTypes
<1>11. \A q \in Procs \ {p} : Elsewhere(q) /\ wakeup_flags'[q] = wakeup_flags[q]
  BY <1>6, <1>7, <1>8, <1>9 DEF Elsewhere, FlagStep
<1>12. wakeup_flags'[p] = "WT_INTERRUPTED" /\ wakeup_flags[p] = "WT_INTERRUPTED"
  BY <1>1 DEF CallOK
<1>13. CallOK(p)'
  <2>1. mbox'[b].state = "OPENED"
    BY <1>1, <1>3, <1>4
  <2>2. QED
    BY <1>5, <1>6, <1>7, <1>8, <1>9, <1>12, <1>1, <2>1
    DEF CallOK, SendWait, RecvWait, Looking, Holding
<1>14. Members(b)' = Members(b) \cup {p} /\ p \notin Members(b)
  BY <1>0, <1>8 DEF Members, Inside
<1>15. BoxOK(b)'
  <2>1. QueuesOK(b) /\ UsesOK(b) /\ Met(b)
    BY <1>1, BoxFacts
  <2>2. QueuesOK(b)'
    <3>1. \A q \in Elements(mbox[b].senders) \cup Elements(mbox[b].receivers) :
              q \in Procs /\ pc'[q] = pc[q] /\ wakeup_flags'[q] = wakeup_flags[q]
      BY <1>8, <1>14, QueuedAreMembers DEF Members
    <3>2. QED
      BY <1>3, <1>4, <2>1, <3>1 DEF QueuesOK
  <2>3. Cardinality(Members(b)') = Cardinality(Members(b)) + 1
    BY <1>14, MemberFacts, FS_AddElement
  <2>4. UsesOK(b)'
    BY <1>1, <1>3, <1>4, <2>1, <2>3 DEF UsesOK
  <2>5. /\ Woken(b, "WT_MBOX_RECV")' = Woken(b, "WT_MBOX_RECV")
        /\ Woken(b, "WT_MBOX_SEND")' = Woken(b, "WT_MBOX_SEND")
    BY <1>1, <1>12, <1>14, WokenStay
  <2>6. Met(b)'
    BY <1>3, <1>4, <1>7, <2>1, <2>5 DEF Met
  <2>7. QED
    BY <2>2, <2>4, <2>6 DEF BoxOK
<1>16. FreeListOK'
  <2>1. \A c \in Boxes : mbox'[c].state = mbox[c].state
    BY <1>3, <1>4
  <2>2. QED
    BY <2>1, FreeListStays
<1>17. (pc[p] \in Inside \/ pc'[p] \in Inside => id[p] = b /\ id'[p] = b) /\ pc'[p] # "i_page"
  BY <1>0, <1>1, <1>8
<1>18. QED
  BY <1>1, <1>4, <1>7, <1>9, <1>10, <1>11, <1>13, <1>15, <1>16, <1>17, BoxStep

LEMMA SendLoadKeeps ==
    ASSUME MboxInv, NEW p \in Procs, current = p, SendLoad(p)
    PROVE  MboxInv'
<1>1. /\ pc[p] = "s_load"
      /\ UNCHANGED <<sched_vars, mbox_map, free_mbox_list>>
      /\ UNCHANGED <<id, wakeup_flags, size, killed>>
  BY DEF SendLoad
<1>2. CASE get_mbox(id[p])
  <2>1. PICK m \in FreeMessages, s \in Sizes :
            /\ bytes' = [bytes EXCEPT ![m] = s]
            /\ msg' = [msg EXCEPT ![p] = m]
            /\ Enter(p, "s_loop")
    BY <1>2 DEF SendLoad
  <2>2. bytes' \in [Messages -> Sizes]
    BY <2>1 DEF MboxInv, MboxTypes
  <2>3. QED
    BY <1>1, <1>2, <2>1, <2>2, EnterKeeps
<1>3. CASE ~ get_mbox(id[p])
  <2>1. /\ pc' = [pc EXCEPT ![p] = "return"]
        /\ UNCHANGED <<timer_vars, mbox, bytes, msg, timed>>
    BY <1>3 DEF SendLoad, Goto
  <2>2. QED
    BY <1>1, <2>1, BackKeeps
<1>4. QED
  BY <1>2, <1>3

LEMMA RecvCheckKeeps ==
    ASSUME MboxInv, NEW p \in Procs, current = p, RecvCheck(p)
    PROVE  MboxInv'
<1>1. /\ pc[p] = "r_check"
      /\ UNCHANGED <<sched_vars, mbox_map, free_mbox_list>>
      /\ UNCHANGED <<id, msg, bytes, wakeup_flags, size, killed>>
  BY DEF RecvCheck
<1>2. CASE get_mbox(id[p]) /\ Enter(p, "r_loop")
  <2>1. bytes' \in [Messages -> Sizes]
    BY <1>1 DEF MboxInv, MboxTypes
  <2>2. QED
    BY <1>1, <1>2, <2>1, EnterKeeps
<1>3. CASE Goto(p, "return") /\ UNCHANGED <<timer_vars, mbox, timed>>
  BY <1>1, <1>3, BackKeeps DEF Goto
<1>4. QED
  BY <1>2, <1>3 DEF RecvCheck

\* Going to sleep again: the timer is armed, or its assertion fails.
LEMMA SleepInFacts ==
    ASSUME MboxInv, NEW p \in Procs, current = p,
           NEW reason \in WaitStates, SleepIn(p, reason)
    PROVE  /\ SchedTypeOK' /\ TimerInv' /\ Linked' \subseteq Linked \cup {p}
           /\ current' = current
           /\ panic' = "none" => panic = "none"
           /\ \A q \in Procs \ {p} : state'[q] = state[q]
           /\ wakeup_flags' = [wakeup_flags EXCEPT ![p] = "WT_INTERRUPTED"]
<1>1. wakeup_flags' = [wakeup_flags EXCEPT ![p] = "WT_INTERRUPTED"]
  BY DEF SleepIn
<1>2. CASE p \in timed /\ expires[p] = 0
  <2>1. panic' = "add_timer" /\ UNCHANGED <<current, state, wait_state, runq, timer_vars>>
    BY <1>2 DEF SleepIn
  <2>2. SchedTypeOK'
    BY <2>1 DEF MboxInv, MboxTypes, SchedTypeOK, Assertions
  <2>3. QED
    BY <1>1, <2>1, <2>2, TimersMove DEF MboxInv, MboxTypes
<1>3. CASE ~ (p \in timed /\ expires[p] = 0)
  <2>1. Block(reason) /\ (UNCHANGED timer_vars \/ AddTimer(p, expires[p]))
    BY <1>3 DEF SleepIn
  <2>2. expires[p] \in Nat
    BY MboxAssumption DEF MboxInv, MboxTypes, TimerInv, TimerTypeOK
  <2>3. QED
    BY <1>1, <2>1, <2>2, BlockTypes, TimersMove DEF MboxInv, MboxTypes
<1>4. QED
  BY <1>2, <1>3

LEMMA SendBlockKeeps ==
    ASSUME MboxInv, NEW p \in Procs, current = p, SendBlock(p)
    PROVE  MboxInv'
<1>0. PICK b \in Boxes : id[p] = b
  BY CallFacts
<1> DEFINE box == [mbox[b] EXCEPT !.senders = AddLast(@, p)]
<1>1. /\ CallOK(p) /\ pc[p] = "s_loop" /\ mbox[b].state = "OPENED"
      /\ mbox[b].slots >= mbox[b].max_slots
      /\ id'[p] = b /\ SleepIn(p, "WT_MBOX_SEND")
      /\ UNCHANGED <<mbox_map, free_mbox_list, id, msg, bytes, timed, size, killed>>
  BY <1>0, CallFacts DEF SendBlock, CallOK, Looking
<1>2. mbox' = [mbox EXCEPT ![b] = box] /\ pc' = [pc EXCEPT ![p] = "s_schedule"]
  BY <1>0 DEF SendBlock, Goto
<1>3. /\ box \in BoxType /\ box.inuse = mbox[b].inuse /\ box.state = mbox[b].state
      /\ box.max_slots = mbox[b].max_slots /\ box.slots = mbox[b].slots
      /\ box.msgs = mbox[b].msgs
      /\ box.senders = AddLast(mbox[b].senders, p) /\ box.receivers = mbox[b].receivers
  BY BoxFacts, AddLastFacts DEF BoxType
<1> HIDE DEF box
<1>4. /\ mbox' \in [Boxes -> BoxType] /\ mbox'[b] = box
      /\ \A c \in Boxes \ {b} : mbox'[c] = mbox[c]
  BY <1>2, <1>3, Replaced
<1>5. /\ SchedTypeOK' /\ TimerInv' /\ Linked' \subseteq Linked \cup {p} /\ current' = current
      /\ panic' = "none" => panic = "none"
      /\ \A q \in Procs \ {p} : state'[q] = state[q]
      /\ wakeup_flags' = [wakeup_flags EXCEPT ![p] = "WT_INTERRUPTED"]
  <2>1. "WT_MBOX_SEND" \in WaitStates
    BY MboxAssumption
  <2>2. QED
    BY <1>1, <2>1, SleepInFacts
<1>6. /\ pc'[p] = "s_schedule" /\ \A q \in Procs \ {p} : pc'[q] = pc[q]
      /\ pc' \in [Procs -> {"user", "return", "i_page", "dead"} \cup Sending \cup Receiving]
  BY <1>2 DEF MboxInv, MboxTypes, Sending, Receiving
<1>7. /\ wakeup_flags' \in [Procs -> WaitStates \cup {"WT_INTERRUPTED"}]
      /\ wakeup_flags'[p] = "WT_INTERRUPTED"
      /\ \A q \in Procs \ {p} : wakeup_flags'[q] = wakeup_flags[q]
  BY <1>5 DEF MboxInv, MboxTypes
<1>8. MboxTypes'
  BY <1>1, <1>4, <1>5, <1>6, <1>7 DEF MboxInv, MboxTypes
<1>9. \A q \in Procs \ {p} : Elsewhere(q) /\ wakeup_flags'[q] = wakeup_flags[q]
  BY <1>1, <1>5, <1>6, <1>7 DEF Elsewhere, FlagStep
<1>10. CallOK(p)'
  BY <1>1, <1>5, <1>6, <1>7 DEF CallOK, SendWait, RecvWait, Looking, Holding
<1>11. Members(b)' = Members(b) /\ p \in Members(b)
  BY <1>0, <1>1, <1>6 DEF Members, Inside
<1>12. BoxOK(b)'
  <2>1. QueuesOK(b) /\ UsesOK(b) /\ Met(b)
    BY BoxFacts
  <2>2. p \notin Elements(mbox[b].senders) /\ p \notin Elements(mbox[b].receivers)
    BY <1>1, <2>1 DEF QueuesOK, SendWait, RecvWait
  <2>3. /\ Distinct(AddLast(mbox[b].senders, p))
        /\ Elements(AddLast(mbox[b].senders, p)) = Elements(mbox[b].senders) \cup {p}
    BY <2>1, <2>2, BoxFacts, AddLastFacts DEF QueuesOK
  <2>4. \A q \in Elements(mbox[b].senders) \cup Elements(mbox[b].receivers) :
            /\ q \in Procs \ {p} /\ id'[q] = id[q]
            /\ pc'[q] = pc[q] /\ wakeup_flags'[q] = wakeup_flags[q]
    BY <1>1, <1>6, <1>7, <2>2, QueuedAreMembers DEF Members
  <2>5. QueuesOK(b)'
    BY <1>1, <1>3, <1>4, <1>6, <1>7, <2>1, <2>3, <2>4
    DEF QueuesOK, SendWait, RecvWait
  <2>6. UsesOK(b)'
    BY <1>1, <1>3, <1>4, <1>11, <2>1 DEF UsesOK
  <2>7. Woken(b, "WT_MBOX_RECV")' = Woken(b, "WT_MBOX_RECV")
    <3>1. wakeup_flags[p] # "WT_MBOX_RECV"
      BY <1>1 DEF CallOK, Looking, SendWait, RecvWait
    <3>2. QED
      BY <1>7, <1>11, <3>1, WokenStay
  <2>8. Met(b)'
    <3>1. /\ Cardinality(Woken(b, "WT_MBOX_SEND")') \in Nat /\ Cardinality(Woken(b, "WT_MBOX_RECV")') \in Nat
          /\ mbox[b].slots \in Nat /\ mbox[b].max_slots \in Nat
      BY MemberFactsNext, BoxFacts
    <3>2. \A q \in Elements(mbox'[b].receivers) : state'[q] = "SLEEPING" => state[q] = "SLEEPING"
      BY <1>3, <1>4, <1>5, <2>4
    <3>3. QED
      BY <1>1, <1>3, <1>4, <1>5, <2>1, <2>7, <3>1, <3>2 DEF Met
  <2>9. QED
    BY <2>5, <2>6, <2>8 DEF BoxOK
<1>13. FreeListOK'
  <2>1. \A c \in Boxes : mbox'[c].state = mbox[c].state
    BY <1>3, <1>4
  <2>2. QED
    BY <1>1, <2>1, FreeListStays
<1>14. HeldOnce'
  <2>1. \A c \in Boxes : mbox'[c].msgs = mbox[c].msgs
    BY <1>3, <1>4
  <2>2. QED
    BY <1>1, <2>1, MessagesStay
<1>15. (pc[p] \in Inside \/ pc'[p] \in Inside => id[p] = b /\ id'[p] = b) /\ pc'[p] # "i_page"
  BY <1>0, <1>1, <1>6
<1>16. QED
  BY <1>1, <1>4, <1>5, <1>8, <1>9, <1>10, <1>12, <1>13, <1>14, <1>15, BoxStep

LEMMA RecvBlockKeeps ==
    ASSUME MboxInv, NEW p \in Procs, current = p, RecvBlock(p)
    PROVE  MboxInv'
<1>0. PICK b \in Boxes : id[p] = b
  BY CallFacts
<1> DEFINE box == [mbox[b] EXCEPT !.receivers = AddLast(@, p)]
<1>1. /\ CallOK(p) /\ pc[p] = "r_loop" /\ mbox[b].state = "OPENED"
      /\ mbox[b].slots = 0
      /\ id'[p] = b /\ SleepIn(p, "WT_MBOX_RECV")
      /\ UNCHANGED <<mbox_map, free_mbox_list, id, msg, bytes, timed, size, killed>>
  BY <1>0, CallFacts DEF RecvBlock, CallOK, Looking
<1>2. mbox' = [mbox EXCEPT ![b] = box] /\ pc' = [pc EXCEPT ![p] = "r_schedule"]
  BY <1>0 DEF RecvBlock, Goto
<1>3. /\ box \in BoxType /\ box.inuse = mbox[b].inuse /\ box.state = mbox[b].state
      /\ box.max_slots = mbox[b].max_slots /\ box.slots = mbox[b].slots
      /\ box.msgs = mbox[b].msgs
      /\ box.receivers = AddLast(mbox[b].receivers, p) /\ box.senders = mbox[b].senders
  BY BoxFacts, AddLastFacts DEF BoxType
<1> HIDE DEF box
<1>4. /\ mbox' \in [Boxes -> BoxType] /\ mbox'[b] = box
      /\ \A c \in Boxes \ {b} : mbox'[c] = mbox[c]
  BY <1>2, <1>3, Replaced
<1>5. /\ SchedTypeOK' /\ TimerInv' /\ Linked' \subseteq Linked \cup {p} /\ current' = current
      /\ panic' = "none" => panic = "none"
      /\ \A q \in Procs \ {p} : state'[q] = state[q]
      /\ wakeup_flags' = [wakeup_flags EXCEPT ![p] = "WT_INTERRUPTED"]
  <2>1. "WT_MBOX_RECV" \in WaitStates
    BY MboxAssumption
  <2>2. QED
    BY <1>1, <2>1, SleepInFacts
<1>6. /\ pc'[p] = "r_schedule" /\ \A q \in Procs \ {p} : pc'[q] = pc[q]
      /\ pc' \in [Procs -> {"user", "return", "i_page", "dead"} \cup Sending \cup Receiving]
  BY <1>2 DEF MboxInv, MboxTypes, Sending, Receiving
<1>7. /\ wakeup_flags' \in [Procs -> WaitStates \cup {"WT_INTERRUPTED"}]
      /\ wakeup_flags'[p] = "WT_INTERRUPTED"
      /\ \A q \in Procs \ {p} : wakeup_flags'[q] = wakeup_flags[q]
  BY <1>5 DEF MboxInv, MboxTypes
<1>8. MboxTypes'
  BY <1>1, <1>4, <1>5, <1>6, <1>7 DEF MboxInv, MboxTypes
<1>9. \A q \in Procs \ {p} : Elsewhere(q) /\ wakeup_flags'[q] = wakeup_flags[q]
  BY <1>1, <1>5, <1>6, <1>7 DEF Elsewhere, FlagStep
<1>10. CallOK(p)'
  BY <1>1, <1>5, <1>6, <1>7 DEF CallOK, SendWait, RecvWait, Looking, Holding
<1>11. Members(b)' = Members(b) /\ p \in Members(b)
  BY <1>0, <1>1, <1>6 DEF Members, Inside
<1>12. BoxOK(b)'
  <2>1. QueuesOK(b) /\ UsesOK(b) /\ Met(b)
    BY BoxFacts
  <2>2. p \notin Elements(mbox[b].senders) /\ p \notin Elements(mbox[b].receivers)
    BY <1>1, <2>1 DEF QueuesOK, SendWait, RecvWait
  <2>3. /\ Distinct(AddLast(mbox[b].receivers, p))
        /\ Elements(AddLast(mbox[b].receivers, p)) = Elements(mbox[b].receivers) \cup {p}
    BY <2>1, <2>2, BoxFacts, AddLastFacts DEF QueuesOK
  <2>4. \A q \in Elements(mbox[b].senders) \cup Elements(mbox[b].receivers) :
            /\ q \in Procs \ {p} /\ id'[q] = id[q]
            /\ pc'[q] = pc[q] /\ wakeup_flags'[q] = wakeup_flags[q]
    BY <1>1, <1>6, <1>7, <2>2, QueuedAreMembers DEF Members
  <2>5. QueuesOK(b)'
    BY <1>1, <1>3, <1>4, <1>6, <1>7, <2>1, <2>3, <2>4
    DEF QueuesOK, SendWait, RecvWait
  <2>6. UsesOK(b)'
    BY <1>1, <1>3, <1>4, <1>11, <2>1 DEF UsesOK
  <2>7. Woken(b, "WT_MBOX_SEND")' = Woken(b, "WT_MBOX_SEND")
    <3>1. wakeup_flags[p] # "WT_MBOX_SEND"
      BY <1>1 DEF CallOK, Looking, SendWait, RecvWait
    <3>2. QED
      BY <1>7, <1>11, <3>1, WokenStay
  <2>8. Met(b)'
    <3>1. /\ Cardinality(Woken(b, "WT_MBOX_RECV")') \in Nat /\ Cardinality(Woken(b, "WT_MBOX_SEND")') \in Nat
          /\ mbox[b].slots \in Nat /\ mbox[b].max_slots \in Nat
      BY MemberFactsNext, BoxFacts
    <3>2. \A q \in Elements(mbox'[b].senders) : state'[q] = "SLEEPING" => state[q] = "SLEEPING"
      BY <1>3, <1>4, <1>5, <2>4
    <3>3. QED
      BY <1>1, <1>3, <1>4, <1>5, <2>1, <2>7, <3>1, <3>2 DEF Met
  <2>9. QED
    BY <2>5, <2>6, <2>8 DEF BoxOK
<1>13. FreeListOK'
  <2>1. \A c \in Boxes : mbox'[c].state = mbox[c].state
    BY <1>3, <1>4
  <2>2. QED
    BY <1>1, <2>1, FreeListStays
<1>14. HeldOnce'
  <2>1. \A c \in Boxes : mbox'[c].msgs = mbox[c].msgs
    BY <1>3, <1>4
  <2>2. QED
    BY <1>1, <2>1, MessagesStay
<1>15. (pc[p] \in Inside \/ pc'[p] \in Inside => id[p] = b /\ id'[p] = b) /\ pc'[p] # "i_page"
  BY <1>0, <1>1, <1>6
<1>16. QED
  BY <1>1, <1>4, <1>5, <1>8, <1>9, <1>10, <1>12, <1>13, <1>14, <1>15, BoxStep

-----------------------------------------------------------------------------
(* Awake again.                                                            *)

\* A queue that p has left.
LEMMA LeftQueue ==
    ASSUME MboxInv, NEW p \in Procs, NEW b \in Boxes,
           NEW queue, queue = mbox[b].senders \/ queue = mbox[b].receivers
    PROVE  /\ Unlink(queue, p) \in Seq(Procs) /\ Distinct(Unlink(queue, p))
           /\ Elements(Unlink(queue, p)) = Elements(queue) \ {p}
           /\ queue = <<>> => Unlink(queue, p) = <<>>
<1>1. queue \in Seq(Procs) /\ Distinct(queue)
  BY BoxFacts DEF QueuesOK
<1>2. queue = <<>> => Unlink(queue, p) = <<>>
  BY DEF Unlink, Elements
<1>3. QED
  BY <1>1, <1>2, UnlinkFacts

\* What the resumed caller of either kind has done before it looks.
LEMMA ResumedFacts ==
    ASSUME MboxInv, NEW p \in Procs, current = p, DelTimer(p), UNCHANGED sched_vars
    PROVE  /\ SchedTypeOK' /\ TimerInv' /\ Linked' = Linked \ {p}
           /\ current' = current /\ state' = state /\ panic' = panic
  BY RescheduleTypes, TimersMove DEF sched_vars, MboxInv, MboxTypes

\* One field of a box is assigned.
LEMMA FieldFacts ==
    ASSUME NEW x \in BoxType
    PROVE  /\ \A n \in Nat :
                 /\ [x EXCEPT !.inuse = n] \in BoxType
                 /\ [x EXCEPT !.inuse = n].state = x.state
                 /\ [x EXCEPT !.inuse = n].inuse = n
                 /\ [x EXCEPT !.inuse = n].max_slots = x.max_slots
                 /\ [x EXCEPT !.inuse = n].slots = x.slots
                 /\ [x EXCEPT !.inuse = n].msgs = x.msgs
                 /\ [x EXCEPT !.inuse = n].senders = x.senders
                 /\ [x EXCEPT !.inuse = n].receivers = x.receivers
           /\ \A n \in Nat :
                 /\ [x EXCEPT !.slots = n] \in BoxType
                 /\ [x EXCEPT !.slots = n].state = x.state
                 /\ [x EXCEPT !.slots = n].inuse = x.inuse
                 /\ [x EXCEPT !.slots = n].max_slots = x.max_slots
                 /\ [x EXCEPT !.slots = n].slots = n
                 /\ [x EXCEPT !.slots = n].msgs = x.msgs
                 /\ [x EXCEPT !.slots = n].senders = x.senders
                 /\ [x EXCEPT !.slots = n].receivers = x.receivers
           /\ \A l \in Seq(Messages) :
                 /\ [x EXCEPT !.msgs = l] \in BoxType
                 /\ [x EXCEPT !.msgs = l].state = x.state
                 /\ [x EXCEPT !.msgs = l].inuse = x.inuse
                 /\ [x EXCEPT !.msgs = l].max_slots = x.max_slots
                 /\ [x EXCEPT !.msgs = l].slots = x.slots
                 /\ [x EXCEPT !.msgs = l].msgs = l
                 /\ [x EXCEPT !.msgs = l].senders = x.senders
                 /\ [x EXCEPT !.msgs = l].receivers = x.receivers
           /\ \A l \in Seq(Procs) :
                 /\ [x EXCEPT !.senders = l] \in BoxType
                 /\ [x EXCEPT !.senders = l].state = x.state
                 /\ [x EXCEPT !.senders = l].inuse = x.inuse
                 /\ [x EXCEPT !.senders = l].max_slots = x.max_slots
                 /\ [x EXCEPT !.senders = l].slots = x.slots
                 /\ [x EXCEPT !.senders = l].msgs = x.msgs
                 /\ [x EXCEPT !.senders = l].senders = l
                 /\ [x EXCEPT !.senders = l].receivers = x.receivers
           /\ \A l \in Seq(Procs) :
                 /\ [x EXCEPT !.receivers = l] \in BoxType
                 /\ [x EXCEPT !.receivers = l].state = x.state
                 /\ [x EXCEPT !.receivers = l].inuse = x.inuse
                 /\ [x EXCEPT !.receivers = l].max_slots = x.max_slots
                 /\ [x EXCEPT !.receivers = l].slots = x.slots
                 /\ [x EXCEPT !.receivers = l].msgs = x.msgs
                 /\ [x EXCEPT !.receivers = l].senders = x.senders
                 /\ [x EXCEPT !.receivers = l].receivers = l
<1>1. ASSUME NEW n \in Nat
      PROVE  /\ [x EXCEPT !.inuse = n] \in BoxType
             /\ [x EXCEPT !.inuse = n].state = x.state /\ [x EXCEPT !.inuse = n].inuse = n
             /\ [x EXCEPT !.inuse = n].max_slots = x.max_slots
             /\ [x EXCEPT !.inuse = n].slots = x.slots
             /\ [x EXCEPT !.inuse = n].msgs = x.msgs
             /\ [x EXCEPT !.inuse = n].senders = x.senders
             /\ [x EXCEPT !.inuse = n].receivers = x.receivers
  BY DEF BoxType
<1>2. ASSUME NEW n \in Nat
      PROVE  /\ [x EXCEPT !.slots = n] \in BoxType
             /\ [x EXCEPT !.slots = n].state = x.state
             /\ [x EXCEPT !.slots = n].inuse = x.inuse
             /\ [x EXCEPT !.slots = n].max_slots = x.max_slots
             /\ [x EXCEPT !.slots = n].slots = n
             /\ [x EXCEPT !.slots = n].msgs = x.msgs
             /\ [x EXCEPT !.slots = n].senders = x.senders
             /\ [x EXCEPT !.slots = n].receivers = x.receivers
  BY DEF BoxType
<1>3. ASSUME NEW l \in Seq(Messages)
      PROVE  /\ [x EXCEPT !.msgs = l] \in BoxType
             /\ [x EXCEPT !.msgs = l].state = x.state
             /\ [x EXCEPT !.msgs = l].inuse = x.inuse
             /\ [x EXCEPT !.msgs = l].max_slots = x.max_slots
             /\ [x EXCEPT !.msgs = l].slots = x.slots
             /\ [x EXCEPT !.msgs = l].msgs = l /\ [x EXCEPT !.msgs = l].senders = x.senders
             /\ [x EXCEPT !.msgs = l].receivers = x.receivers
  BY DEF BoxType
<1>4. ASSUME NEW l \in Seq(Procs)
      PROVE  /\ [x EXCEPT !.senders = l] \in BoxType
             /\ [x EXCEPT !.senders = l].state = x.state
             /\ [x EXCEPT !.senders = l].inuse = x.inuse
             /\ [x EXCEPT !.senders = l].max_slots = x.max_slots
             /\ [x EXCEPT !.senders = l].slots = x.slots
             /\ [x EXCEPT !.senders = l].msgs = x.msgs
             /\ [x EXCEPT !.senders = l].senders = l
             /\ [x EXCEPT !.senders = l].receivers = x.receivers
  BY DEF BoxType
<1>5. ASSUME NEW l \in Seq(Procs)
      PROVE  /\ [x EXCEPT !.receivers = l] \in BoxType
             /\ [x EXCEPT !.receivers = l].state = x.state
             /\ [x EXCEPT !.receivers = l].inuse = x.inuse
             /\ [x EXCEPT !.receivers = l].max_slots = x.max_slots
             /\ [x EXCEPT !.receivers = l].slots = x.slots
             /\ [x EXCEPT !.receivers = l].msgs = x.msgs
             /\ [x EXCEPT !.receivers = l].senders = x.senders
             /\ [x EXCEPT !.receivers = l].receivers = l
  BY DEF BoxType
<1>6. QED
  BY <1>1, <1>2, <1>3, <1>4, <1>5

\* The caller gives up: it is counted out of the box, and frees the box if it
\* is the last one of a box that is being closed.
LEMMA LeaveKeeps ==
    ASSUME MboxInv, NEW p \in Procs, current = p, NEW b \in Boxes, id[p] = b,
           \/ /\ pc[p] = "s_resume"
              /\ ~ (mbox[b].state = "OPENED" /\ wakeup_flags[p] = "WT_MBOX_SEND")
           \/ /\ pc[p] = "r_resume"
              /\ ~ (mbox[b].state = "OPENED" /\ wakeup_flags[p] = "WT_MBOX_RECV"),
           DelTimer(p), Leave(b), pc' = [pc EXCEPT ![p] = "return"],
           msg' = [msg EXCEPT ![p] = None],
           UNCHANGED <<sched_vars, mbox_map, id, bytes, wakeup_flags, timed, size, killed>>
    PROVE  MboxInv'
<1> DEFINE out == [mbox[b] EXCEPT !.inuse = @ - 1, !.senders = Unlink(@, p),
                                  !.receivers = Unlink(@, p)]
           last == out.state # "OPENED" /\ out.inuse = 0
           box == IF last THEN Freed(out) ELSE out
<1>1. CallOK(p) /\ QueuesOK(b) /\ UsesOK(b) /\ Met(b) /\ mbox[b] \in BoxType
  BY CallFacts, BoxFacts
<1>2. p \in Members(b)
  BY DEF Members, Inside
<1>3. mbox[b].inuse \in Nat /\ mbox[b].inuse # 0 /\ mbox[b].state \in {"OPENED", "CLOSING"}
  <2>1. Cardinality(Members(b)) # 0
    BY <1>2, MemberFacts
  <2>2. QED
    BY <1>1, <2>1, BoxFacts DEF UsesOK
<1>4. /\ Unlink(mbox[b].senders, p) \in Seq(Procs)
      /\ Unlink(mbox[b].receivers, p) \in Seq(Procs)
  BY LeftQueue
<1>5. /\ out \in BoxType /\ out.inuse = mbox[b].inuse - 1 /\ out.state = mbox[b].state
      /\ out.max_slots = mbox[b].max_slots /\ out.slots = mbox[b].slots
      /\ out.msgs = mbox[b].msgs
      /\ out.senders = Unlink(mbox[b].senders, p)
      /\ out.receivers = Unlink(mbox[b].receivers, p)
  <2>1. mbox[b].inuse - 1 \in Nat
    BY <1>3
  <2> DEFINE y == [mbox[b] EXCEPT !.inuse = mbox[b].inuse - 1]
             z == [y EXCEPT !.senders = Unlink(mbox[b].senders, p)]
  <2>5. out = [z EXCEPT !.receivers = Unlink(mbox[b].receivers, p)]
    BY <1>1 DEF BoxType
  <2>6. /\ y \in BoxType /\ y.inuse = mbox[b].inuse - 1 /\ y.state = mbox[b].state
        /\ y.max_slots = mbox[b].max_slots /\ y.slots = mbox[b].slots
        /\ y.msgs = mbox[b].msgs
        /\ y.senders = mbox[b].senders /\ y.receivers = mbox[b].receivers
    BY <1>1, <2>1, FieldFacts
  <2> HIDE DEF y
  <2>7. /\ z \in BoxType /\ z.inuse = y.inuse /\ z.state = y.state
        /\ z.max_slots = y.max_slots /\ z.slots = y.slots /\ z.msgs = y.msgs
        /\ z.senders = Unlink(mbox[b].senders, p) /\ z.receivers = y.receivers
    BY <1>4, <2>6, FieldFacts
  <2> HIDE DEF out, z
  <2>8. QED
    BY <1>4, <2>5, <2>6, <2>7, FieldFacts
<1>6. /\ mbox' = [mbox EXCEPT ![b] = box]
      /\ free_mbox_list' = IF last THEN AddLast(free_mbox_list, b) ELSE free_mbox_list
  BY DEF Leave
<1> HIDE DEF out
<1>7. /\ box \in BoxType /\ box.inuse = mbox[b].inuse - 1 /\ box.msgs = mbox[b].msgs
      /\ box.senders = Unlink(mbox[b].senders, p)
      /\ box.receivers = Unlink(mbox[b].receivers, p)
      /\ last => box.state = "CLOSED" /\ box.slots = 0
      /\ ~ last => /\ box.state = mbox[b].state /\ box.slots = mbox[b].slots
                   /\ box.max_slots = mbox[b].max_slots
  BY <1>5 DEF Freed, BoxType
<1>8. last <=> mbox[b].state = "CLOSING" /\ mbox[b].inuse - 1 = 0
  BY <1>3, <1>5
<1> HIDE DEF box, last
<1>9. /\ mbox' \in [Boxes -> BoxType] /\ mbox'[b] = box
      /\ \A c \in Boxes \ {b} : mbox'[c] = mbox[c]
  BY <1>6, <1>7, Replaced
<1>10. /\ SchedTypeOK' /\ TimerInv' /\ Linked' = Linked \ {p}
       /\ current' = current /\ state' = state /\ panic' = panic
  BY ResumedFacts
<1>11. /\ pc'[p] = "return" /\ \A q \in Procs \ {p} : pc'[q] = pc[q]
       /\ pc' \in [Procs -> {"user", "return", "i_page", "dead"} \cup Sending \cup Receiving]
       /\ msg' \in [Procs -> Messages \cup {None}]
       /\ msg'[p] = None /\ \A q \in Procs \ {p} : msg'[q] = msg[q]
  BY DEF MboxInv, MboxTypes
<1>12. free_mbox_list' \in Seq(Boxes) /\ FreeListOK'
  <2>1. FreeListOK /\ free_mbox_list \in Seq(Boxes)
    BY DEF MboxInv, MboxTypes
  <2>2. CASE last
    <3>1. mbox'[b].state = "CLOSED" /\ mbox[b].state = "CLOSING"
      BY <1>7, <1>8, <1>9, <2>2
    <3>2. b \notin Elements(free_mbox_list) /\ Mapped(b)
      BY <2>1, <3>1 DEF FreeListOK
    <3>3. /\ free_mbox_list' \in Seq(Boxes)
          /\ Elements(free_mbox_list') = Elements(free_mbox_list) \cup {b}
          /\ Distinct(free_mbox_list')
      BY <1>6, <2>1, <2>2, <3>2, AddLastFacts DEF FreeListOK
    <3>4. \A c \in Boxes : Mapped(c)' <=> Mapped(c)
      BY DEF Mapped
    <3>5. QED
      BY <1>9, <2>1, <3>1, <3>2, <3>3, <3>4 DEF FreeListOK
  <2>3. CASE ~ last
    <3>1. \A c \in Boxes : mbox'[c].state = mbox[c].state
      BY <1>7, <1>9, <2>3
    <3>2. QED
      BY <1>6, <2>1, <2>3, <3>1, FreeListStays
  <2>4. QED
    BY <2>2, <2>3
<1>13. MboxTypes'
  BY <1>9, <1>10, <1>11, <1>12 DEF MboxInv, MboxTypes
<1>14. \A q \in Procs \ {p} : Elsewhere(q) /\ wakeup_flags'[q] = wakeup_flags[q]
  BY <1>10, <1>11 DEF Elsewhere, FlagStep
<1>15. CallOK(p)'
  BY <1>10, <1>11 DEF CallOK, SendWait, RecvWait, Looking, Holding
<1>16. Members(b)' = Members(b) \ {p}
  BY <1>11 DEF Members, Inside
<1>17. BoxOK(b)'
  <2>1. /\ Distinct(box.senders) /\ Elements(box.senders) = Elements(mbox[b].senders) \ {p}
        /\ Distinct(box.receivers)
        /\ Elements(box.receivers) = Elements(mbox[b].receivers) \ {p}
        /\ mbox[b].senders = <<>> => box.senders = <<>>
        /\ mbox[b].receivers = <<>> => box.receivers = <<>>
    BY <1>7, LeftQueue
  <2>2. \A q \in Elements(mbox[b].senders) \cup Elements(mbox[b].receivers) : q \in Procs
    BY QueuedAreMembers DEF Members
  <2>3. QueuesOK(b)'
    BY <1>1, <1>9, <1>11, <2>1, <2>2 DEF QueuesOK
  <2>4. Cardinality(Members(b)') = Cardinality(Members(b)) - 1
    BY <1>2, <1>16, MemberFacts, FS_RemoveElement
  <2>5. UsesOK(b)'
    <3>1. CASE mbox[b].state = "OPENED"
      BY <1>1, <1>7, <1>8, <1>9, <2>4, <3>1 DEF UsesOK
    <3>2. CASE mbox[b].state = "CLOSING"
      BY <1>1, <1>3, <1>7, <1>8, <1>9, <2>1, <2>4, <3>2 DEF UsesOK
    <3>3. QED
      BY <1>3, <3>1, <3>2
  <2>6. Met(b)'
    <3>1. SUFFICES ASSUME panic' = "none", mbox'[b].state = "OPENED" PROVE Met(b)'
      BY DEF Met
    <3>2. mbox[b].state = "OPENED" /\ ~ last
      BY <1>7, <1>9, <3>1
    <3>3. wakeup_flags[p] \notin {"WT_MBOX_SEND", "WT_MBOX_RECV"}
      BY <1>1, <3>2 DEF CallOK, SendWait, RecvWait
    <3>4. /\ Woken(b, "WT_MBOX_RECV")' = Woken(b, "WT_MBOX_RECV")
          /\ Woken(b, "WT_MBOX_SEND")' = Woken(b, "WT_MBOX_SEND")
      BY <1>16, <3>3, WokenStay
    <3>5. QED
      BY <1>1, <1>7, <1>9, <1>10, <2>1, <3>2, <3>4 DEF Met
  <2>7. QED
    BY <2>3, <2>5, <2>6 DEF BoxOK
<1>18. HeldOnce'
  <2>1. \A c \in Boxes : mbox'[c].msgs = mbox[c].msgs
    BY <1>7, <1>9
  <2>2. \A q \in Procs : msg'[q] \in {msg[q], None}
    BY <1>11
  <2>3. QED
    BY <2>1, <2>2, MessagesStay
<1>19. (pc[p] \in Inside \/ pc'[p] \in Inside => id[p] = b /\ id'[p] = b) /\ pc'[p] # "i_page"
  BY <1>11
<1>20. QED
  BY <1>9, <1>10, <1>12, <1>13, <1>14, <1>15, <1>17, <1>18, <1>19, BoxStep

\* Woken by one of the other side, it looks at the box again.
LEMMA SendResumeKeeps ==
    ASSUME MboxInv, NEW p \in Procs, current = p, SendResume(p)
    PROVE  MboxInv'
<1>0. PICK b \in Boxes : id[p] = b
  BY CallFacts
<1>1. /\ CallOK(p) /\ pc[p] = "s_resume" /\ DelTimer(p)
      /\ UNCHANGED <<sched_vars, mbox_map, id, bytes, wakeup_flags, timed, size, killed>>
  BY CallFacts DEF SendResume
<1>2. CASE mbox[b].state = "OPENED" /\ wakeup_flags[p] = "WT_MBOX_SEND"
  <2> DEFINE box == [mbox[b] EXCEPT !.senders = Unlink(@, p)]
  <2>1. /\ mbox' = [mbox EXCEPT ![b] = box] /\ pc' = [pc EXCEPT ![p] = "s_loop"]
        /\ UNCHANGED <<free_mbox_list, msg>>
    BY <1>0, <1>2 DEF SendResume, Goto
  <2>2. /\ Unlink(mbox[b].senders, p) \in Seq(Procs) /\ Distinct(Unlink(mbox[b].senders, p))
        /\ Elements(Unlink(mbox[b].senders, p)) = Elements(mbox[b].senders) \ {p}
    BY LeftQueue
  <2>3. /\ box \in BoxType /\ box.inuse = mbox[b].inuse /\ box.state = mbox[b].state
        /\ box.max_slots = mbox[b].max_slots /\ box.slots = mbox[b].slots
        /\ box.msgs = mbox[b].msgs
        /\ box.senders = Unlink(mbox[b].senders, p) /\ box.receivers = mbox[b].receivers
    BY <2>2, BoxFacts DEF BoxType
  <2> HIDE DEF box
  <2>4. /\ mbox' \in [Boxes -> BoxType] /\ mbox'[b] = box
        /\ \A c \in Boxes \ {b} : mbox'[c] = mbox[c]
    BY <2>1, <2>3, Replaced
  <2>5. /\ SchedTypeOK' /\ TimerInv' /\ Linked' = Linked \ {p}
        /\ current' = current /\ state' = state /\ panic' = panic
    BY <1>1, ResumedFacts
  <2>6. /\ pc'[p] = "s_loop" /\ \A q \in Procs \ {p} : pc'[q] = pc[q]
        /\ pc' \in [Procs -> {"user", "return", "i_page", "dead"} \cup Sending \cup Receiving]
    BY <2>1 DEF MboxInv, MboxTypes, Sending, Receiving
  <2>7. MboxTypes'
    BY <1>1, <2>1, <2>4, <2>5, <2>6 DEF MboxInv, MboxTypes
  <2>8. \A q \in Procs \ {p} : Elsewhere(q) /\ wakeup_flags'[q] = wakeup_flags[q]
    BY <1>1, <2>1, <2>5, <2>6 DEF Elsewhere, FlagStep
  <2>9. CallOK(p)'
    BY <1>0, <1>1, <1>2, <2>1, <2>3, <2>4, <2>5, <2>6
    DEF CallOK, SendWait, RecvWait, Looking, Holding
  <2>10. Members(b)' = Members(b)
    BY <1>0, <1>1, <2>6 DEF Members, Inside
  <2>11. BoxOK(b)'
    <3>1. QueuesOK(b) /\ UsesOK(b) /\ Met(b)
      BY BoxFacts
    <3>2. p \notin Elements(mbox[b].receivers)
      BY <1>1, <3>1 DEF QueuesOK, SendWait, RecvWait
    <3>3. \A q \in Elements(mbox[b].senders) \cup Elements(mbox[b].receivers) : q \in Procs
      BY QueuedAreMembers DEF Members
    <3>4. QueuesOK(b)'
      BY <1>1, <2>2, <2>3, <2>4, <2>6, <3>1, <3>2, <3>3 DEF QueuesOK
    <3>5. UsesOK(b)'
      BY <1>2, <2>3, <2>4, <2>10, <3>1 DEF UsesOK
    <3>6. \A flags : Woken(b, flags)' = Woken(b, flags)
      <4>1. ASSUME NEW flags PROVE Woken(b, flags)' = Woken(b, flags)
        BY <1>1, <2>10, MemberFacts, MemberFactsNext
      <4>2. QED
        BY <4>1
    <3>7. Met(b)'
      BY <1>2, <2>2, <2>3, <2>4, <2>5, <3>1, <3>6 DEF Met
    <3>8. QED
      BY <3>4, <3>5, <3>7 DEF BoxOK
  <2>12. FreeListOK'
    <3>1. \A c \in Boxes : mbox'[c].state = mbox[c].state
      BY <2>3, <2>4
    <3>2. QED
      BY <1>1, <2>1, <3>1, FreeListStays
  <2>13. HeldOnce'
    <3>1. \A c \in Boxes : mbox'[c].msgs = mbox[c].msgs
      BY <2>3, <2>4
    <3>2. QED
      BY <2>1, <3>1, MessagesStay
  <2>14. (pc[p] \in Inside \/ pc'[p] \in Inside => id[p] = b /\ id'[p] = b) /\ pc'[p] # "i_page"
    BY <1>0, <1>1, <2>6
  <2>15. QED
    BY <1>1, <2>4, <2>5, <2>7, <2>8, <2>9, <2>11, <2>12, <2>13, <2>14, BoxStep
<1>3. CASE ~ (mbox[b].state = "OPENED" /\ wakeup_flags[p] = "WT_MBOX_SEND")
  <2>1. /\ Leave(b) /\ pc' = [pc EXCEPT ![p] = "return"]
        /\ msg' = [msg EXCEPT ![p] = None]
    BY <1>0, <1>3 DEF SendResume, Goto, Drop
  <2>2. msg' = [msg EXCEPT ![p] = None]
    BY <2>1
  <2>3. QED
    BY <1>0, <1>1, <1>3, <2>1, <2>2, LeaveKeeps
<1>4. QED
  BY <1>2, <1>3

LEMMA RecvResumeKeeps ==
    ASSUME MboxInv, NEW p \in Procs, current = p, RecvResume(p)
    PROVE  MboxInv'
<1>0. PICK b \in Boxes : id[p] = b
  BY CallFacts
<1>1. /\ CallOK(p) /\ pc[p] = "r_resume" /\ DelTimer(p)
      /\ UNCHANGED <<sched_vars, mbox_map, id, bytes, wakeup_flags, timed, size, killed>>
  BY CallFacts DEF RecvResume, call_vars
<1>2. CASE mbox[b].state = "OPENED" /\ wakeup_flags[p] = "WT_MBOX_RECV"
  <2> DEFINE box == [mbox[b] EXCEPT !.receivers = Unlink(@, p)]
  <2>1. /\ mbox' = [mbox EXCEPT ![b] = box] /\ pc' = [pc EXCEPT ![p] = "r_loop"]
        /\ UNCHANGED <<free_mbox_list, msg>>
    BY <1>0, <1>2 DEF RecvResume, Goto, call_vars
  <2>2. /\ Unlink(mbox[b].receivers, p) \in Seq(Procs) /\ Distinct(Unlink(mbox[b].receivers, p))
        /\ Elements(Unlink(mbox[b].receivers, p)) = Elements(mbox[b].receivers) \ {p}
    BY LeftQueue
  <2>3. /\ box \in BoxType /\ box.inuse = mbox[b].inuse /\ box.state = mbox[b].state
        /\ box.max_slots = mbox[b].max_slots /\ box.slots = mbox[b].slots
        /\ box.msgs = mbox[b].msgs
        /\ box.receivers = Unlink(mbox[b].receivers, p) /\ box.senders = mbox[b].senders
    BY <2>2, BoxFacts DEF BoxType
  <2> HIDE DEF box
  <2>4. /\ mbox' \in [Boxes -> BoxType] /\ mbox'[b] = box
        /\ \A c \in Boxes \ {b} : mbox'[c] = mbox[c]
    BY <2>1, <2>3, Replaced
  <2>5. /\ SchedTypeOK' /\ TimerInv' /\ Linked' = Linked \ {p}
        /\ current' = current /\ state' = state /\ panic' = panic
    BY <1>1, ResumedFacts
  <2>6. /\ pc'[p] = "r_loop" /\ \A q \in Procs \ {p} : pc'[q] = pc[q]
        /\ pc' \in [Procs -> {"user", "return", "i_page", "dead"} \cup Sending \cup Receiving]
    BY <2>1 DEF MboxInv, MboxTypes, Sending, Receiving
  <2>7. MboxTypes'
    BY <1>1, <2>1, <2>4, <2>5, <2>6 DEF MboxInv, MboxTypes
  <2>8. \A q \in Procs \ {p} : Elsewhere(q) /\ wakeup_flags'[q] = wakeup_flags[q]
    BY <1>1, <2>1, <2>5, <2>6 DEF Elsewhere, FlagStep
  <2>9. CallOK(p)'
    BY <1>0, <1>1, <1>2, <2>1, <2>3, <2>4, <2>5, <2>6
    DEF CallOK, SendWait, RecvWait, Looking, Holding
  <2>10. Members(b)' = Members(b)
    BY <1>0, <1>1, <2>6 DEF Members, Inside
  <2>11. BoxOK(b)'
    <3>1. QueuesOK(b) /\ UsesOK(b) /\ Met(b)
      BY BoxFacts
    <3>2. p \notin Elements(mbox[b].senders)
      BY <1>1, <3>1 DEF QueuesOK, SendWait, RecvWait
    <3>3. \A q \in Elements(mbox[b].senders) \cup Elements(mbox[b].receivers) : q \in Procs
      BY QueuedAreMembers DEF Members
    <3>4. QueuesOK(b)'
      BY <1>1, <2>2, <2>3, <2>4, <2>6, <3>1, <3>2, <3>3 DEF QueuesOK
    <3>5. UsesOK(b)'
      BY <1>2, <2>3, <2>4, <2>10, <3>1 DEF UsesOK
    <3>6. \A flags : Woken(b, flags)' = Woken(b, flags)
      <4>1. ASSUME NEW flags PROVE Woken(b, flags)' = Woken(b, flags)
        BY <1>1, <2>10, MemberFacts, MemberFactsNext
      <4>2. QED
        BY <4>1
    <3>7. Met(b)'
      BY <1>2, <2>2, <2>3, <2>4, <2>5, <3>1, <3>6 DEF Met
    <3>8. QED
      BY <3>4, <3>5, <3>7 DEF BoxOK
  <2>12. FreeListOK'
    <3>1. \A c \in Boxes : mbox'[c].state = mbox[c].state
      BY <2>3, <2>4
    <3>2. QED
      BY <1>1, <2>1, <3>1, FreeListStays
  <2>13. HeldOnce'
    <3>1. \A c \in Boxes : mbox'[c].msgs = mbox[c].msgs
      BY <2>3, <2>4
    <3>2. QED
      BY <2>1, <3>1, MessagesStay
  <2>14. (pc[p] \in Inside \/ pc'[p] \in Inside => id[p] = b /\ id'[p] = b) /\ pc'[p] # "i_page"
    BY <1>0, <1>1, <2>6
  <2>15. QED
    BY <1>1, <2>4, <2>5, <2>7, <2>8, <2>9, <2>11, <2>12, <2>13, <2>14, BoxStep
<1>3. CASE ~ (mbox[b].state = "OPENED" /\ wakeup_flags[p] = "WT_MBOX_RECV")
  <2>1. /\ Leave(b) /\ pc' = [pc EXCEPT ![p] = "return"]
        /\ msg' = msg
    BY <1>0, <1>3 DEF RecvResume, Goto, call_vars
  <2>2. msg' = [msg EXCEPT ![p] = None]
    BY <1>1, <2>1 DEF CallOK, Holding, MboxInv, MboxTypes
  <2>3. QED
    BY <1>0, <1>1, <1>3, <2>1, <2>2, LeaveKeeps
<1>4. QED
  BY <1>2, <1>3

-----------------------------------------------------------------------------
(* Messages go in and out, and the next one is woken.                      *)

LEMMA FirstFacts ==
    ASSUME NEW queue \in Seq(Procs), Distinct(queue)
    PROVE  /\ First(queue) \in SUBSET Procs /\ First(queue) \subseteq Elements(queue)
           /\ Rest(queue) \in Seq(Procs) /\ Distinct(Rest(queue))
           /\ Elements(Rest(queue)) = Elements(queue) \ First(queue)
           /\ First(queue) = {} <=> queue = <<>>
           /\ IsFiniteSet(First(queue))
           /\ Cardinality(First(queue)) = IF queue = <<>> THEN 0 ELSE 1
<1>1. CASE queue = <<>>
  BY <1>1, FS_EmptySet DEF First, Rest, Elements, Distinct
<1>2. CASE queue # <<>>
  <2>1. First(queue) = {Head(queue)} /\ Rest(queue) = Tail(queue)
    BY <1>2 DEF First, Rest
  <2>2. /\ Head(queue) \in Elements(queue) /\ Elements(queue) \subseteq Procs
        /\ Tail(queue) \in Seq(Procs) /\ Distinct(Tail(queue))
        /\ Elements(Tail(queue)) = Elements(queue) \ {Head(queue)}
    BY <1>2, TailFacts, ElementsFacts
  <2>3. QED
    BY <1>2, <2>1, <2>2, FS_Singleton
<1>3. QED
  BY <1>1, <1>2

LEMMA WokenMembers ==
    ASSUME NEW b, NEW flags
    PROVE  /\ Woken(b, flags) = {q \in Members(b) : wakeup_flags[q] = flags}
           /\ Woken(b, flags)' = {q \in Members(b)' : wakeup_flags'[q] = flags}
  BY MemberFacts, MemberFactsNext

\* How many have been woken, when the first of a queue is woken and p goes.
Exchanged(W, x, F) == (W \ {x}) \cup F
Apart(W, F) == W \cap F = {}

LEMMA CountChange ==
    ASSUME NEW W, NEW V, NEW F, NEW x, IsFiniteSet(W), IsFiniteSet(F),
           Apart(W, F), V = Exchanged(W, x, F)
    PROVE  /\ Cardinality(V) \in Nat /\ Cardinality(W) \in Nat /\ Cardinality(F) \in Nat
           /\ Cardinality(V) = Cardinality(W) + Cardinality(F) - (IF x \in W THEN 1 ELSE 0)
<1>1. Cardinality(W) \in Nat /\ Cardinality(F) \in Nat
  BY FS_CardinalityType
<1>2. /\ IsFiniteSet(W \ {x})
      /\ Cardinality(W \ {x}) = Cardinality(W) - (IF x \in W THEN 1 ELSE 0)
  BY <1>1, FS_RemoveElement
<1>3. Cardinality(V) = Cardinality(W \ {x}) + Cardinality(F)
  <2>1. /\ IsFiniteSet(V)
        /\ Cardinality(V) =
               Cardinality(W \ {x}) + Cardinality(F) - Cardinality((W \ {x}) \cap F)
    BY <1>2, FS_Union DEF Exchanged
  <2>2. Cardinality((W \ {x}) \cap F) = 0
    <3>1. (W \ {x}) \cap F = {}
      BY DEF Apart
    <3>2. QED
      BY <3>1, FS_EmptySet
  <2>3. Cardinality(W \ {x}) \in Nat
    BY <1>2, FS_CardinalityType
  <2>4. QED
    BY <1>1, <2>1, <2>2, <2>3
<1>4. Cardinality(V) \in Nat
  <2>1. IsFiniteSet(V)
    BY <1>2, FS_Union DEF Exchanged
  <2>2. QED
    BY <2>1, FS_CardinalityType
<1>5. QED
  BY <1>1, <1>2, <1>3, <1>4

\* p hands on: the first of the queue is woken to look at the box, which has a
\* message more, or a free slot more, or stays as it is for another receiver.
LEMMA HandOver ==
    ASSUME MboxInv, NEW p \in Procs, current = p, NEW b \in Boxes, id[p] = b,
           mbox[b].state = "OPENED", pc[p] \in {"s_loop", "r_loop", "r_copy"},
           NEW w \in {"WT_MBOX_SEND", "WT_MBOX_RECV"},
           NEW queue, w = "WT_MBOX_SEND" => queue = mbox[b].senders,
           w = "WT_MBOX_RECV" => queue = mbox[b].receivers,
           NEW box \in BoxType, mbox' = [mbox EXCEPT ![b] = box],
           box.state = "OPENED", box.max_slots = mbox[b].max_slots,
           box.inuse = mbox[b].inuse - (IF pc[p] = "r_copy" THEN 0 ELSE 1),
           box.senders = IF w = "WT_MBOX_SEND" THEN Rest(queue) ELSE mbox[b].senders,
           box.receivers = IF w = "WT_MBOX_RECV" THEN Rest(queue) ELSE mbox[b].receivers,
           box.slots = Len(box.msgs),
           \/ w = "WT_MBOX_RECV" /\ pc[p] # "r_loop" /\ box.slots = mbox[b].slots + 1
           \/ w = "WT_MBOX_SEND" /\ pc[p] = "r_loop" /\ box.slots = mbox[b].slots - 1
           \/ w = "WT_MBOX_RECV" /\ pc[p] = "r_loop" /\ box.slots = mbox[b].slots,
           NEW l \in {"return", "r_copy"}, pc' = [pc EXCEPT ![p] = l],
           msg' \in [Procs -> Messages \cup {None}], msg'[p] # None <=> l = "r_copy",
           \A q \in Procs \ {p} : msg'[q] = msg[q], HeldOnce',
           Wakeup(First(queue)), Flag(First(queue), w),
           UNCHANGED <<timer_vars, mbox_map, free_mbox_list, id, bytes, timed, size, killed>>
    PROVE  MboxInv'
<1> DEFINE F == First(queue)
<1>1. CallOK(p) /\ QueuesOK(b) /\ UsesOK(b) /\ Met(b)
  BY CallFacts, BoxFacts
<1>2. /\ mbox' \in [Boxes -> BoxType] /\ mbox'[b] = box
      /\ \A c \in Boxes \ {b} : mbox'[c] = mbox[c]
  BY Replaced
<1>3. queue \in Seq(Procs) /\ Distinct(queue)
  BY <1>1, BoxFacts DEF QueuesOK
<1>4. /\ F \in SUBSET Procs /\ F \subseteq Elements(queue) /\ IsFiniteSet(F)
      /\ Rest(queue) \in Seq(Procs) /\ Distinct(Rest(queue))
      /\ Elements(Rest(queue)) = Elements(queue) \ F
      /\ F = {} <=> queue = <<>>
      /\ Cardinality(F) = IF queue = <<>> THEN 0 ELSE 1
  BY <1>3, FirstFacts
<1>5. Wakeup(F) /\ wakeup_flags' = [q \in Procs |-> IF q \in F THEN w ELSE wakeup_flags[q]]
  BY DEF Flag
<1> HIDE DEF F
<1>6. \A q \in Elements(queue) :
          /\ q \in Procs /\ q # p /\ id[q] = b /\ wakeup_flags[q] = "WT_INTERRUPTED"
          /\ pc[q] \in IF w = "WT_MBOX_SEND" THEN SendWait ELSE RecvWait
  <2>1. \A q \in Elements(queue) : q \in Procs
    BY <1>3, ElementsFacts
  <2>2. \A q \in Elements(queue) :
            /\ id[q] = b /\ wakeup_flags[q] = "WT_INTERRUPTED"
            /\ pc[q] \in IF w = "WT_MBOX_SEND" THEN SendWait ELSE RecvWait
    BY <1>1 DEF QueuesOK
  <2>3. QED
    BY <2>1, <2>2 DEF SendWait, RecvWait
<1>7. /\ SchedTypeOK' /\ current' = current
      /\ \A q \in Procs : state'[q] = "SLEEPING" => state[q] = "SLEEPING"
      /\ panic' = "none" => panic = "none"
      /\ TimerInv' /\ Linked' = Linked
  BY <1>4, <1>5, WakeupTypes, TimersMove DEF MboxInv, MboxTypes
<1>8. /\ pc'[p] = l /\ \A q \in Procs \ {p} : pc'[q] = pc[q]
      /\ pc' \in [Procs -> {"user", "return", "i_page", "dead"} \cup Sending \cup Receiving]
  BY DEF MboxInv, MboxTypes, Receiving
<1>9. /\ wakeup_flags' \in [Procs -> WaitStates \cup {"WT_INTERRUPTED"}]
      /\ wakeup_flags'[p] = wakeup_flags[p]
      /\ \A q \in F : wakeup_flags'[q] = w
      /\ \A q \in Procs \ F : wakeup_flags'[q] = wakeup_flags[q]
  <2>1. w \in WaitStates
    BY MboxAssumption
  <2>2. QED
    BY <1>4, <1>5, <1>6, <2>1 DEF MboxInv, MboxTypes
<1>10. MboxTypes'
  BY <1>2, <1>7, <1>8, <1>9 DEF MboxInv, MboxTypes
<1>11. \A q \in Procs \ {p} : /\ Elsewhere(q)
                              /\ wakeup_flags'[q] # wakeup_flags[q] => id[q] = b
  <2>1. \A q \in Procs \ {p} : FlagStep(q)
    BY <1>4, <1>6, <1>9 DEF FlagStep
  <2>2. QED
    BY <1>4, <1>6, <1>7, <1>8, <1>9, <2>1 DEF Elsewhere
<1>12. CallOK(p)'
  BY <1>1, <1>7, <1>8 DEF CallOK, SendWait, RecvWait, Looking, Holding
<1>13. /\ Members(b)' = Members(b) \ {p}
       /\ p \in Members(b) <=> pc[p] # "r_copy"
  BY <1>8 DEF Members, Inside
<1>14. FreeListOK'
  <2>1. \A c \in Boxes : mbox'[c].state = mbox[c].state
    BY <1>2
  <2>2. QED
    BY <2>1, FreeListStays
<1>15. QueuesOK(b)'
  <2>1. /\ Distinct(box.senders) /\ Elements(box.senders) \subseteq Elements(mbox[b].senders)
        /\ Distinct(box.receivers)
        /\ Elements(box.receivers) \subseteq Elements(mbox[b].receivers)
    BY <1>1, <1>4 DEF QueuesOK
  <2>2. \A q \in Elements(box.senders) \cup Elements(box.receivers) :
            q \in Procs \ {p} /\ q \notin F
    <3>1. \A q \in Elements(mbox[b].senders) \cup Elements(mbox[b].receivers) :
              q \in Procs \ {p}
      BY <1>1, QueuedAreMembers DEF QueuesOK, Members, SendWait, RecvWait
    <3>2. Elements(mbox[b].senders) \cap Elements(mbox[b].receivers) = {}
      BY <1>1 DEF QueuesOK, SendWait, RecvWait
    <3>3. QED
      BY <1>4, <2>1, <3>1, <3>2
  <2>3. QED
    BY <1>1, <1>2, <1>8, <1>9, <2>1, <2>2 DEF QueuesOK
<1>16. UsesOK(b)'
  <2>1. Cardinality(Members(b)') =
            Cardinality(Members(b)) - (IF pc[p] = "r_copy" THEN 0 ELSE 1)
    <3>1. CASE pc[p] = "r_copy"
      <4>1. Members(b)' = Members(b) /\ Cardinality(Members(b)) \in Nat
        BY <1>13, <3>1, MemberFacts
      <4>2. QED
        BY <3>1, <4>1
    <3>2. CASE pc[p] # "r_copy"
      <4>1. p \in Members(b) /\ IsFiniteSet(Members(b))
        BY <1>13, <3>2, MemberFacts
      <4>2. Cardinality(Members(b) \ {p}) = Cardinality(Members(b)) - 1
        BY <4>1, FS_RemoveElement
      <4>3. QED
        BY <1>13, <3>2, <4>2
    <3>3. QED
      BY <3>1, <3>2
  <2>2. QED
    BY <1>1, <1>2, <2>1 DEF UsesOK
<1>17. \A f \in {"WT_MBOX_SEND", "WT_MBOX_RECV"} :
           /\ F \cap Woken(b, f) = {}
           /\ Woken(b, f)' = (Woken(b, f) \ {p}) \cup (IF f = w THEN F ELSE {})
  <2>1. SUFFICES ASSUME NEW f \in {"WT_MBOX_SEND", "WT_MBOX_RECV"}
                 PROVE  /\ F \cap Woken(b, f) = {}
                        /\ Woken(b, f)' = (Woken(b, f) \ {p}) \cup (IF f = w THEN F ELSE {})
    OBVIOUS
  <2>2. /\ Woken(b, f) = {q \in Members(b) : wakeup_flags[q] = f}
        /\ Woken(b, f)' = {q \in Members(b)' : wakeup_flags'[q] = f}
    BY WokenMembers
  <2>3. F \subseteq Members(b) \ {p} /\ Members(b) \subseteq Procs
    BY <1>4, <1>6 DEF Members, Inside, SendWait, RecvWait
  <2>4. F \cap Woken(b, f) = {}
    BY <1>4, <1>6, <2>2
  <2>5. QED
    BY <1>9, <1>13, <2>2, <2>3, <2>4
<1>18. Met(b)'
  <2>0. PICK v \in {"WT_MBOX_SEND", "WT_MBOX_RECV"}, n \in {0, 1} :
            v # w /\ n = IF queue = <<>> THEN 0 ELSE 1
    OBVIOUS
  <2>1. /\ Cardinality(Woken(b, w)') \in Nat /\ Cardinality(Woken(b, w)) \in Nat
        /\ Cardinality(Woken(b, w)') =
               Cardinality(Woken(b, w)) + n - (IF p \in Woken(b, w) THEN 1 ELSE 0)
    <3>1. Cardinality(F) = n /\ IsFiniteSet(Woken(b, w))
      BY <1>4, <2>0, MemberFacts
    <3>2. Apart(Woken(b, w), F) /\ Woken(b, w)' = Exchanged(Woken(b, w), p, F)
      BY <1>17 DEF Apart, Exchanged
    <3>3. QED
      <4>1. IsFiniteSet(F)
        BY <1>4
      <4>2. QED
        BY ONLY <3>1, <3>2, <4>1, CountChange
  <2>2. /\ Cardinality(Woken(b, v)') \in Nat /\ Cardinality(Woken(b, v)) \in Nat
        /\ Cardinality(Woken(b, v)') =
               Cardinality(Woken(b, v)) - (IF p \in Woken(b, v) THEN 1 ELSE 0)
    <3>1. /\ Apart(Woken(b, v), {}) /\ Woken(b, v)' = Exchanged(Woken(b, v), p, {})
          /\ IsFiniteSet(Woken(b, v)) /\ Cardinality(Woken(b, v)) \in Nat
      BY <1>17, <2>0, MemberFacts DEF Apart, Exchanged
    <3>2. IsFiniteSet({}) /\ Cardinality({}) = 0
      BY FS_EmptySet
    <3>3. /\ Cardinality(Woken(b, v)') \in Nat
          /\ Cardinality(Woken(b, v)') =
                 Cardinality(Woken(b, v)) + Cardinality({})
                     - (IF p \in Woken(b, v) THEN 1 ELSE 0)
      BY ONLY <3>1, <3>2, CountChange
    <3>4. QED
      BY <3>1, <3>2, <3>3
  <2>3. /\ pc[p] = "r_copy" => p \notin Woken(b, "WT_MBOX_RECV") /\ p \notin Woken(b, "WT_MBOX_SEND")
        /\ pc[p] = "s_loop" => p \notin Woken(b, "WT_MBOX_RECV")
        /\ pc[p] = "r_loop" => p \notin Woken(b, "WT_MBOX_SEND")
    BY <1>1 DEF Woken, Inside, CallOK
  <2>4. /\ (\E q \in Elements(box.receivers) : state'[q] = "SLEEPING") =>
               /\ \E q \in Elements(mbox[b].receivers) : state[q] = "SLEEPING"
               /\ w = "WT_MBOX_RECV" => queue # <<>>
        /\ (\E q \in Elements(box.senders) : state'[q] = "SLEEPING") =>
               /\ \E q \in Elements(mbox[b].senders) : state[q] = "SLEEPING"
               /\ w = "WT_MBOX_SEND" => queue # <<>>
    <3>1. /\ Elements(box.senders) \subseteq Elements(mbox[b].senders)
          /\ Elements(box.receivers) \subseteq Elements(mbox[b].receivers)
      BY <1>4
    <3>2. \A q \in Elements(mbox[b].senders) \cup Elements(mbox[b].receivers) : q \in Procs
      BY QueuedAreMembers DEF Members
    <3>3. queue = <<>> => Elements(queue) = {}
      BY DEF Elements
    <3>4. QED
      BY <1>7, <3>1, <3>2, <3>3
  <2>5. mbox[b].slots \in Nat /\ mbox[b].max_slots \in Nat
    BY BoxFacts
  <2>6. SUFFICES ASSUME panic' = "none"
                 PROVE  /\ (\E q \in Elements(box.receivers) : state'[q] = "SLEEPING")
                              => Cardinality(Woken(b, "WT_MBOX_RECV")') >= box.slots
                        /\ (\E q \in Elements(box.senders) : state'[q] = "SLEEPING")
                              => Cardinality(Woken(b, "WT_MBOX_SEND")') + box.slots >= box.max_slots
    BY <1>2 DEF Met
  <2>7. /\ (\E q \in Elements(mbox[b].receivers) : state[q] = "SLEEPING")
              => Cardinality(Woken(b, "WT_MBOX_RECV")) >= mbox[b].slots
        /\ (\E q \in Elements(mbox[b].senders) : state[q] = "SLEEPING")
              => Cardinality(Woken(b, "WT_MBOX_SEND")) + mbox[b].slots >= mbox[b].max_slots
    BY <1>1, <1>7, <2>6 DEF Met
  <2>8. CASE w = "WT_MBOX_RECV"
    <3>1. v = "WT_MBOX_SEND" /\ box.slots \in Nat
      BY <2>0, <2>5, <2>8
    <3>2. ASSUME \E q \in Elements(box.receivers) : state'[q] = "SLEEPING"
          PROVE  Cardinality(Woken(b, "WT_MBOX_RECV")') >= box.slots
      <4>1. n = 1 /\ Cardinality(Woken(b, "WT_MBOX_RECV")) >= mbox[b].slots
        BY <2>0, <2>4, <2>7, <2>8, <3>2
      <4>2. /\ Cardinality(Woken(b, "WT_MBOX_RECV")) \in Nat
            /\ Cardinality(Woken(b, "WT_MBOX_RECV")') =
                   Cardinality(Woken(b, "WT_MBOX_RECV")) + 1
                       - (IF p \in Woken(b, "WT_MBOX_RECV") THEN 1 ELSE 0)
        BY <2>1, <2>8, <4>1
      <4>3. QED
        BY <2>3, <2>5, <2>8, <4>1, <4>2
    <3>3. ASSUME \E q \in Elements(box.senders) : state'[q] = "SLEEPING"
          PROVE  Cardinality(Woken(b, "WT_MBOX_SEND")') + box.slots >= box.max_slots
      <4>1. Cardinality(Woken(b, "WT_MBOX_SEND")) + mbox[b].slots >= mbox[b].max_slots
        BY <2>4, <2>7, <3>3
      <4>2. /\ Cardinality(Woken(b, "WT_MBOX_SEND")) \in Nat
            /\ Cardinality(Woken(b, "WT_MBOX_SEND")') =
                   Cardinality(Woken(b, "WT_MBOX_SEND"))
                       - (IF p \in Woken(b, "WT_MBOX_SEND") THEN 1 ELSE 0)
        BY <2>2, <3>1
      <4>3. QED
        BY <2>3, <2>5, <2>8, <4>1, <4>2, SMTT(40)
    <3>4. QED
      BY <3>2, <3>3
  <2>9. CASE w = "WT_MBOX_SEND"
    <3>1. v = "WT_MBOX_RECV" /\ pc[p] = "r_loop" /\ box.slots = mbox[b].slots - 1
      BY <2>0, <2>9
    <3>2. ASSUME \E q \in Elements(box.receivers) : state'[q] = "SLEEPING"
          PROVE  Cardinality(Woken(b, "WT_MBOX_RECV")') >= box.slots
      <4>1. Cardinality(Woken(b, "WT_MBOX_RECV")) >= mbox[b].slots
        BY <2>4, <2>7, <3>2
      <4>2. /\ Cardinality(Woken(b, "WT_MBOX_RECV")) \in Nat
            /\ Cardinality(Woken(b, "WT_MBOX_RECV")') =
                   Cardinality(Woken(b, "WT_MBOX_RECV"))
                       - (IF p \in Woken(b, "WT_MBOX_RECV") THEN 1 ELSE 0)
        BY <2>2, <3>1
      <4>3. QED
        BY <2>5, <3>1, <4>1, <4>2
    <3>3. ASSUME \E q \in Elements(box.senders) : state'[q] = "SLEEPING"
          PROVE  Cardinality(Woken(b, "WT_MBOX_SEND")') + box.slots >= box.max_slots
      <4>1. /\ n = 1
            /\ Cardinality(Woken(b, "WT_MBOX_SEND")) + mbox[b].slots >= mbox[b].max_slots
        BY <2>0, <2>4, <2>7, <2>9, <3>3
      <4>2. /\ Cardinality(Woken(b, "WT_MBOX_SEND")) \in Nat
            /\ Cardinality(Woken(b, "WT_MBOX_SEND")') =
                   Cardinality(Woken(b, "WT_MBOX_SEND")) + 1
        BY <2>1, <2>3, <2>9, <3>1, <4>1
      <4>3. QED
        BY <2>5, <3>1, <4>1, <4>2
    <3>4. QED
      BY <3>2, <3>3
  <2>10. QED
    BY <2>8, <2>9
<1>19. BoxOK(b)'
  BY <1>15, <1>16, <1>18 DEF BoxOK
<1>20. (pc[p] \in Inside \/ pc'[p] \in Inside => id[p] = b /\ id'[p] = b) /\ pc'[p] # "i_page"
  BY <1>8
<1>21. QED
  BY <1>2, <1>7, <1>10, <1>11, <1>12, <1>14, <1>19, <1>20, BoxStep

\* A message goes from the hands of p into a box ...
LEMMA PutMessage ==
    ASSUME MboxInv, NEW p \in Procs, NEW b \in Boxes, NEW m \in Messages, m = msg[p],
           NEW l, l = AddLast(mbox[b].msgs, m) \/ l = AddFirst(mbox[b].msgs, m)
    PROVE  /\ l \in Seq(Messages) /\ Len(l) = Len(mbox[b].msgs) + 1
           /\ /\ msg' = [msg EXCEPT ![p] = None] /\ mbox'[b].msgs = l
              /\ \A c \in Boxes \ {b} : mbox'[c].msgs = mbox[c].msgs
              => HeldOnce'
<1>1. HeldOnce /\ m # None /\ mbox[b].msgs \in Seq(Messages)
  BY BoxFacts, MboxAssumption DEF MboxInv
<1>2. Distinct(mbox[b].msgs) /\ m \notin Elements(mbox[b].msgs)
  BY <1>1 DEF HeldOnce
<1>3. /\ l \in Seq(Messages) /\ Len(l) = Len(mbox[b].msgs) + 1
      /\ Elements(l) = Elements(mbox[b].msgs) \cup {m} /\ Distinct(l)
  <2>1. Len(AddLast(mbox[b].msgs, m)) = Len(mbox[b].msgs) + 1
    BY <1>1 DEF AddLast
  <2>2. PICK queue \in Seq(Messages) : queue = mbox[b].msgs
    BY <1>1
  <2>3. Distinct(queue) /\ m \notin Elements(queue)
    BY <1>2, <2>2
  <2>4. /\ AddLast(queue, m) \in Seq(Messages) /\ Distinct(AddLast(queue, m))
        /\ Elements(AddLast(queue, m)) = Elements(queue) \cup {m}
    BY <2>3, AddLastFacts
  <2>5. /\ AddFirst(queue, m) \in Seq(Messages) /\ Distinct(AddFirst(queue, m))
        /\ Elements(AddFirst(queue, m)) = Elements(queue) \cup {m}
        /\ Len(AddFirst(queue, m)) = Len(queue) + 1
    <3>1. /\ AddFirst(queue, m) \in Seq(Messages)
          /\ Elements(AddFirst(queue, m)) = Elements(queue) \cup {m}
          /\ Len(AddFirst(queue, m)) = Len(queue) + 1
      BY ONLY queue \in Seq(Messages), m \in Messages, AddFirstFacts
    <3>2. Distinct(queue) /\ m \notin Elements(queue) => Distinct(AddFirst(queue, m))
      BY ONLY queue \in Seq(Messages), m \in Messages, AddFirstFacts
    <3>3. QED
      BY <2>3, <3>1, <3>2
  <2>6. CASE l = AddLast(mbox[b].msgs, m)
    BY <2>1, <2>2, <2>4, <2>6
  <2>7. CASE l = AddFirst(mbox[b].msgs, m)
    BY <2>2, <2>5, <2>7
  <2>8. QED
    BY <2>6, <2>7
<1>4. ASSUME msg' = [msg EXCEPT ![p] = None], mbox'[b].msgs = l,
             \A c \in Boxes \ {b} : mbox'[c].msgs = mbox[c].msgs
      PROVE  HeldOnce'
  <2>1. msg'[p] = None /\ \A q \in Procs \ {p} : msg'[q] = msg[q] /\ msg[q] # m
    BY <1>1, <1>4 DEF MboxInv, MboxTypes, HeldOnce
  <2>2. \A c \in Boxes : Elements(mbox[c].msgs) \subseteq Messages
    BY BoxFacts, ElementsFacts
  <2>3. \A c \in Boxes : None \notin Elements(mbox[c].msgs)
    BY <2>2, MboxAssumption
  <2>4. \A c \in Boxes : m \notin Elements(mbox[c].msgs)
    BY <1>1 DEF HeldOnce
  <2>5. \A c \in Boxes : /\ Distinct(mbox'[c].msgs)
                         /\ Elements(mbox'[c].msgs) =
                               Elements(mbox[c].msgs) \cup (IF c = b THEN {m} ELSE {})
    BY <1>1, <1>3, <1>4 DEF HeldOnce
  <2>6. \A q, r \in Procs : msg'[q] = msg'[r] /\ msg'[q] # None => q = r
    BY <1>1, <2>1 DEF HeldOnce
  <2>7. \A c \in Boxes, q \in Procs : msg'[q] \notin Elements(mbox'[c].msgs)
    <3>1. ASSUME NEW c \in Boxes, NEW q \in Procs
          PROVE  msg'[q] \notin Elements(mbox[c].msgs) /\ msg'[q] # m
      <4>1. CASE q = p
        BY <1>1, <2>1, <2>3, <4>1
      <4>2. CASE q # p
        BY <1>1, <2>1, <4>2 DEF HeldOnce
      <4>3. QED
        BY <4>1, <4>2
    <3>2. QED
      BY <2>5, <3>1
  <2>8. \A c, d \in Boxes :
            c # d => Elements(mbox'[c].msgs) \cap Elements(mbox'[d].msgs) = {}
    <3>1. ASSUME NEW c \in Boxes, NEW d \in Boxes, c # d
          PROVE  Elements(mbox'[c].msgs) \cap Elements(mbox'[d].msgs) = {}
      <4>1. /\ Elements(mbox[c].msgs) \cap Elements(mbox[d].msgs) = {}
            /\ m \notin Elements(mbox[c].msgs) /\ m \notin Elements(mbox[d].msgs)
        BY <1>1, <2>4, <3>1 DEF HeldOnce
      <4>2. /\ Elements(mbox'[c].msgs) =
                   Elements(mbox[c].msgs) \cup (IF c = b THEN {m} ELSE {})
            /\ Elements(mbox'[d].msgs) =
                   Elements(mbox[d].msgs) \cup (IF d = b THEN {m} ELSE {})
        BY <2>5
      <4>3. QED
        BY <3>1, <4>1, <4>2
    <3>2. QED
      BY <3>1
  <2>9. QED
    BY <2>5, <2>6, <2>7, <2>8 DEF HeldOnce
<1>5. QED
  BY <1>3, <1>4

\* ... or from the head of a box into the hands of p.
LEMMA TakeMessage ==
    ASSUME MboxInv, NEW p \in Procs, NEW b \in Boxes, mbox[b].msgs # <<>>, msg[p] = None
    PROVE  /\ Head(mbox[b].msgs) \in Messages /\ Head(mbox[b].msgs) # None
           /\ Tail(mbox[b].msgs) \in Seq(Messages)
           /\ Len(Tail(mbox[b].msgs)) = Len(mbox[b].msgs) - 1
           /\ /\ msg' = [msg EXCEPT ![p] = Head(mbox[b].msgs)]
              /\ mbox'[b].msgs = Tail(mbox[b].msgs)
              /\ \A c \in Boxes \ {b} : mbox'[c].msgs = mbox[c].msgs
              => HeldOnce'
<1> DEFINE m == Head(mbox[b].msgs)
<1>1. HeldOnce /\ mbox[b].msgs \in Seq(Messages)
  BY BoxFacts DEF MboxInv
<1>2. Distinct(mbox[b].msgs)
  BY <1>1 DEF HeldOnce
<1>3. /\ Tail(mbox[b].msgs) \in Seq(Messages) /\ m \in Elements(mbox[b].msgs)
      /\ Elements(Tail(mbox[b].msgs)) = Elements(mbox[b].msgs) \ {m}
      /\ Distinct(Tail(mbox[b].msgs))
  BY <1>1, <1>2, TailFacts
<1>4. m \in Messages /\ m # None
  BY <1>1, <1>3, ElementsFacts, MboxAssumption
<1>5. Len(Tail(mbox[b].msgs)) = Len(mbox[b].msgs) - 1
  BY <1>1
<1>6. ASSUME msg' = [msg EXCEPT ![p] = Head(mbox[b].msgs)],
             mbox'[b].msgs = Tail(mbox[b].msgs),
             \A c \in Boxes \ {b} : mbox'[c].msgs = mbox[c].msgs
      PROVE  HeldOnce'
  <2>0. PICK x : x = m
    OBVIOUS
  <2>1. msg'[p] = x /\ \A q \in Procs \ {p} : msg'[q] = msg[q] /\ msg[q] # x
    BY <1>1, <1>3, <1>6, <2>0 DEF MboxInv, MboxTypes, HeldOnce
  <2>2. \A c \in Boxes : /\ Distinct(mbox'[c].msgs)
                         /\ Elements(mbox'[c].msgs) =
                               Elements(mbox[c].msgs) \ (IF c = b THEN {x} ELSE {})
    BY <1>1, <1>3, <1>6, <2>0 DEF HeldOnce
  <2>3. \A c \in Boxes \ {b} : x \notin Elements(mbox[c].msgs)
    BY <1>1, <1>3, <2>0 DEF HeldOnce
  <2>4. QED
    BY <1>1, <2>1, <2>2, <2>3 DEF HeldOnce
<1>7. QED
  BY <1>3, <1>4, <1>5, <1>6

\* What add_msg() makes of a box.
Added(x, l) == [x EXCEPT !.slots = x.slots + 1, !.msgs = l, !.receivers = Rest(x.receivers)]

LEMMA AddedFacts ==
    ASSUME NEW x \in BoxType, NEW l \in Seq(Messages), Rest(x.receivers) \in Seq(Procs)
    PROVE  /\ Added(x, l) \in BoxType /\ Added(x, l).slots = x.slots + 1
           /\ Added(x, l).msgs = l /\ Added(x, l).receivers = Rest(x.receivers)
           /\ Added(x, l).state = x.state /\ Added(x, l).inuse = x.inuse
           /\ Added(x, l).max_slots = x.max_slots /\ Added(x, l).senders = x.senders
<1> DEFINE v == [x EXCEPT !.slots = x.slots + 1]
           z == [v EXCEPT !.msgs = l]
<1>1. Added(x, l) = [z EXCEPT !.receivers = Rest(x.receivers)] /\ x.slots + 1 \in Nat
  BY DEF Added, BoxType
<1>2. /\ v \in BoxType /\ v.slots = x.slots + 1 /\ v.msgs = x.msgs
      /\ v.receivers = x.receivers /\ v.state = x.state /\ v.inuse = x.inuse
      /\ v.max_slots = x.max_slots /\ v.senders = x.senders
  BY <1>1, FieldFacts
<1> HIDE DEF v
<1>3. /\ z \in BoxType /\ z.slots = v.slots /\ z.msgs = l /\ z.receivers = v.receivers
      /\ z.state = v.state /\ z.inuse = v.inuse /\ z.max_slots = v.max_slots
      /\ z.senders = v.senders
  BY <1>2, FieldFacts
<1> HIDE DEF z
<1>4. QED
  BY <1>1, <1>2, <1>3, FieldFacts

\* The caller that is about to look or to put back is at an open box.
LEMMA AtBox ==
    ASSUME MboxInv, NEW p \in Procs, NEW b \in Boxes, id[p] = b,
           pc[p] \in Looking \/ get_mbox(b)
    PROVE  /\ mbox[b].state = "OPENED" /\ mbox[b] \in BoxType
           /\ mbox[b].slots = Len(mbox[b].msgs) /\ mbox[b].slots \in Nat
           /\ mbox[b].inuse = Cardinality(Members(b)) /\ mbox[b].inuse \in Nat
           /\ pc[p] \in Looking => mbox[b].inuse - 1 \in Nat
           /\ mbox[b].msgs \in Seq(Messages)
           /\ Rest(mbox[b].senders) \in Seq(Procs) /\ Rest(mbox[b].receivers) \in Seq(Procs)
<1>1. CallOK(p) /\ QueuesOK(b) /\ UsesOK(b)
  BY CallFacts, BoxFacts
<1>2. mbox[b].state = "OPENED"
  BY <1>1 DEF CallOK, get_mbox
<1>3. Rest(mbox[b].senders) \in Seq(Procs) /\ Rest(mbox[b].receivers) \in Seq(Procs)
  BY <1>1, BoxFacts, FirstFacts DEF QueuesOK
<1>4. pc[p] \in Looking => mbox[b].inuse - 1 \in Nat
  <2>1. pc[p] \in Looking => p \in Members(b)
    BY DEF Members, Looking, Inside
  <2>2. pc[p] \in Looking => Cardinality(Members(b)) # 0
    BY <2>1, MemberFacts
  <2>3. QED
    BY <1>1, <2>2, BoxFacts DEF UsesOK
<1>5. QED
  BY <1>1, <1>2, <1>3, <1>4, BoxFacts DEF UsesOK

LEMMA SendAddKeeps ==
    ASSUME MboxInv, NEW p \in Procs, current = p, SendAdd(p)
    PROVE  MboxInv'
<1>0. PICK b \in Boxes : id[p] = b
  BY CallFacts
<1> DEFINE x == [mbox[b] EXCEPT !.inuse = @ - 1]
           m == msg[p]
           l == AddLast(x.msgs, m)
           y == Added(x, l)
<1>1. /\ pc[p] = "s_loop" /\ add_msg(b, x, m, TRUE)
      /\ msg' = [msg EXCEPT ![p] = None] /\ pc' = [pc EXCEPT ![p] = "return"]
      /\ UNCHANGED <<timer_vars, mbox_map, free_mbox_list, id, bytes, timed, size, killed>>
  BY <1>0 DEF SendAdd, Goto, Drop
<1>2. m \in Messages
  BY <1>1, CallFacts DEF CallOK, Holding
<1>3. /\ mbox[b].state = "OPENED" /\ mbox[b] \in BoxType
      /\ mbox[b].slots = Len(mbox[b].msgs) /\ mbox[b].slots \in Nat
      /\ mbox[b].inuse - 1 \in Nat /\ Rest(mbox[b].receivers) \in Seq(Procs)
  BY <1>0, <1>1, AtBox DEF Looking
<1>4. /\ x \in BoxType /\ x.slots = mbox[b].slots /\ x.msgs = mbox[b].msgs
      /\ x.receivers = mbox[b].receivers /\ x.senders = mbox[b].senders
      /\ x.state = "OPENED" /\ x.max_slots = mbox[b].max_slots
      /\ x.inuse = mbox[b].inuse - 1
  BY <1>3, FieldFacts
<1>5. /\ mbox' = [mbox EXCEPT ![b] = y]
      /\ Wakeup(First(x.receivers)) /\ Flag(First(x.receivers), "WT_MBOX_RECV")
  BY <1>1 DEF add_msg, Added
<1> HIDE DEF x
<1>6. l \in Seq(Messages) /\ Len(l) = mbox[b].slots + 1
  BY <1>2, <1>3, <1>4, PutMessage
<1> HIDE DEF l
<1>7. /\ y \in BoxType /\ y.slots = x.slots + 1 /\ y.msgs = l
      /\ y.receivers = Rest(x.receivers) /\ y.state = x.state /\ y.inuse = x.inuse
      /\ y.max_slots = x.max_slots /\ y.senders = x.senders
  <2>1. Rest(x.receivers) \in Seq(Procs)
    BY <1>3, <1>4
  <2>2. QED
    BY <1>4, <1>6, <2>1, AddedFacts
<1> HIDE DEF y
<1>8. /\ mbox'[b] = y /\ \A c \in Boxes \ {b} : mbox'[c] = mbox[c]
  BY <1>5, <1>7, Replaced
<1>9. HeldOnce'
  <2>1. l = AddLast(mbox[b].msgs, m)
    BY <1>4 DEF l
  <2>2. mbox'[b].msgs = l /\ \A c \in Boxes \ {b} : mbox'[c].msgs = mbox[c].msgs
    BY <1>7, <1>8
  <2>3. QED
    BY <1>1, <1>2, <2>1, <2>2, PutMessage
<1>10. /\ msg' \in [Procs -> Messages \cup {None}] /\ msg'[p] = None
       /\ \A q \in Procs \ {p} : msg'[q] = msg[q]
  BY <1>1 DEF MboxInv, MboxTypes
<1>11. /\ y.state = "OPENED" /\ y.max_slots = mbox[b].max_slots
       /\ y.inuse = mbox[b].inuse - (IF pc[p] = "r_copy" THEN 0 ELSE 1)
       /\ y.senders = mbox[b].senders /\ y.receivers = Rest(mbox[b].receivers)
       /\ y.slots = Len(y.msgs) /\ y.slots = mbox[b].slots + 1
  BY <1>1, <1>3, <1>4, <1>6, <1>7
<1>12. Wakeup(First(mbox[b].receivers)) /\ Flag(First(mbox[b].receivers), "WT_MBOX_RECV")
  BY <1>4, <1>5
<1>13. QED
  BY <1>0, <1>1, <1>3, <1>5, <1>7, <1>9, <1>10, <1>11, <1>12, HandOver

LEMMA RecvPutBackKeeps ==
    ASSUME MboxInv, NEW p \in Procs, current = p, RecvPutBack(p)
    PROVE  MboxInv'
<1>0. PICK b \in Boxes : id[p] = b
  BY CallFacts
<1> DEFINE x == mbox[b]
           m == msg[p]
           l == AddFirst(x.msgs, m)
           y == Added(x, l)
<1>1. /\ pc[p] = "r_copy" /\ get_mbox(b) /\ add_msg(b, x, m, FALSE)
      /\ msg' = [msg EXCEPT ![p] = None] /\ pc' = [pc EXCEPT ![p] = "return"]
      /\ UNCHANGED <<timer_vars, mbox_map, free_mbox_list, id, bytes, timed, size, killed>>
  BY <1>0 DEF RecvPutBack, Goto, Drop
<1>2. m \in Messages
  BY <1>1, CallFacts DEF CallOK, Holding
<1>3. /\ x.state = "OPENED" /\ x \in BoxType /\ x.slots = Len(x.msgs) /\ x.slots \in Nat
      /\ x.inuse \in Nat /\ Rest(x.receivers) \in Seq(Procs)
  BY <1>0, <1>1, AtBox
<1>4. /\ mbox' = [mbox EXCEPT ![b] = y]
      /\ Wakeup(First(x.receivers)) /\ Flag(First(x.receivers), "WT_MBOX_RECV")
  BY <1>1 DEF add_msg, Added
<1>5. l \in Seq(Messages) /\ Len(l) = x.slots + 1
  BY <1>2, <1>3, PutMessage
<1> HIDE DEF l
<1>6. /\ y \in BoxType /\ y.slots = x.slots + 1 /\ y.msgs = l
      /\ y.receivers = Rest(x.receivers) /\ y.state = x.state /\ y.inuse = x.inuse
      /\ y.max_slots = x.max_slots /\ y.senders = x.senders
  BY <1>3, <1>5, AddedFacts
<1> HIDE DEF y
<1>7. /\ mbox'[b] = y /\ \A c \in Boxes \ {b} : mbox'[c] = mbox[c]
  BY <1>4, <1>6, Replaced
<1>8. HeldOnce'
  BY <1>1, <1>2, <1>6, <1>7, PutMessage DEF l
<1>9. /\ msg' \in [Procs -> Messages \cup {None}] /\ msg'[p] = None
      /\ \A q \in Procs \ {p} : msg'[q] = msg[q]
  BY <1>1 DEF MboxInv, MboxTypes
<1>10. /\ y.state = "OPENED" /\ y.max_slots = x.max_slots
       /\ y.inuse = x.inuse - (IF pc[p] = "r_copy" THEN 0 ELSE 1)
       /\ y.senders = x.senders /\ y.receivers = Rest(x.receivers)
       /\ y.slots = Len(y.msgs) /\ y.slots = x.slots + 1
  BY <1>1, <1>3, <1>5, <1>6
<1>11. QED
  BY <1>0, <1>1, <1>3, <1>4, <1>6, <1>8, <1>9, <1>10, HandOver

LEMMA RecvTakeKeeps ==
    ASSUME MboxInv, NEW p \in Procs, current = p, RecvTake(p)
    PROVE  MboxInv'
<1>0. PICK b \in Boxes : id[p] = b
  BY CallFacts
<1> DEFINE x == mbox[b]
           m == Head(x.msgs)
           v == [x EXCEPT !.slots = x.slots - 1]
           w == [v EXCEPT !.msgs = Tail(x.msgs)]
           z == [w EXCEPT !.senders = Rest(x.senders)]
           y == [x EXCEPT !.slots = x.slots - 1, !.msgs = Tail(x.msgs),
                          !.senders = Rest(x.senders), !.inuse = x.inuse - 1]
<1>1. /\ pc[p] = "r_loop" /\ x.slots > 0
      /\ msg' = [msg EXCEPT ![p] = m] /\ pc' = [pc EXCEPT ![p] = "r_copy"]
      /\ mbox' = [mbox EXCEPT ![b] = y]
      /\ Wakeup(First(x.senders)) /\ Flag(First(x.senders), "WT_MBOX_SEND")
      /\ UNCHANGED <<timer_vars, mbox_map, free_mbox_list, id, bytes, timed, size, killed>>
  BY <1>0 DEF RecvTake, Goto
<1>2. msg[p] = None
  BY <1>1, CallFacts DEF CallOK, Holding
<1>3. /\ x.state = "OPENED" /\ x \in BoxType /\ x.slots = Len(x.msgs) /\ x.slots \in Nat
      /\ x.inuse - 1 \in Nat /\ Rest(x.senders) \in Seq(Procs) /\ x.msgs \in Seq(Messages)
  BY <1>0, <1>1, AtBox DEF Looking
<1>4. x.msgs # <<>> /\ x.slots - 1 \in Nat
  BY <1>1, <1>3
<1>5. /\ m \in Messages /\ m # None /\ Tail(x.msgs) \in Seq(Messages)
      /\ Len(Tail(x.msgs)) = x.slots - 1
  BY <1>2, <1>3, <1>4, TakeMessage
<1>6. y = [z EXCEPT !.inuse = x.inuse - 1]
  BY <1>3 DEF BoxType
<1>7. /\ v \in BoxType /\ v.slots = x.slots - 1 /\ v.msgs = x.msgs /\ v.senders = x.senders
      /\ v.receivers = x.receivers /\ v.state = x.state /\ v.inuse = x.inuse
      /\ v.max_slots = x.max_slots
  <2>1. PICK n \in Nat : n = x.slots - 1
    BY <1>4
  <2>2. v = [x EXCEPT !.slots = n]
    BY <2>1
  <2> HIDE DEF v, x
  <2>3. LET u == [x EXCEPT !.slots = n]
        IN  /\ u \in BoxType /\ u.slots = n /\ u.msgs = x.msgs /\ u.senders = x.senders
            /\ u.receivers = x.receivers /\ u.state = x.state /\ u.inuse = x.inuse
            /\ u.max_slots = x.max_slots
    <3>1. x \in BoxType
      BY <1>3
    <3>2. QED
      BY ONLY <3>1, n \in Nat, FieldFacts
  <2>4. QED
    BY <2>1, <2>2, <2>3
<1> HIDE DEF v
<1>8. /\ w \in BoxType /\ w.slots = v.slots /\ w.msgs = Tail(x.msgs)
      /\ w.senders = v.senders /\ w.receivers = v.receivers /\ w.state = v.state
      /\ w.inuse = v.inuse /\ w.max_slots = v.max_slots
  BY <1>5, <1>7, FieldFacts
<1> HIDE DEF w
<1>9. /\ z \in BoxType /\ z.slots = w.slots /\ z.msgs = w.msgs
      /\ z.senders = Rest(x.senders) /\ z.receivers = w.receivers /\ z.state = w.state
      /\ z.inuse = w.inuse /\ z.max_slots = w.max_slots
  BY <1>3, <1>8, FieldFacts
<1> HIDE DEF z, y
<1>10. /\ y \in BoxType /\ y.slots = z.slots /\ y.msgs = z.msgs /\ y.senders = z.senders
       /\ y.receivers = z.receivers /\ y.state = z.state /\ y.inuse = x.inuse - 1
       /\ y.max_slots = z.max_slots
  BY <1>3, <1>6, <1>9, FieldFacts
<1>11. /\ y.slots = x.slots - 1 /\ y.msgs = Tail(x.msgs) /\ y.senders = Rest(x.senders)
       /\ y.receivers = x.receivers /\ y.state = "OPENED" /\ y.max_slots = x.max_slots
  BY <1>3, <1>7, <1>8, <1>9, <1>10
<1>12. mbox'[b] = y /\ \A c \in Boxes \ {b} : mbox'[c] = mbox[c]
  BY <1>1, <1>10, Replaced
<1>13. HeldOnce'
  BY <1>1, <1>2, <1>4, <1>11, <1>12, TakeMessage
<1>14. /\ msg' \in [Procs -> Messages \cup {None}] /\ msg'[p] # None
       /\ \A q \in Procs \ {p} : msg'[q] = msg[q]
  BY <1>1, <1>5 DEF MboxInv, MboxTypes
<1>15. /\ y.inuse = x.inuse - (IF pc[p] = "r_copy" THEN 0 ELSE 1)
       /\ y.slots = Len(y.msgs)
  BY <1>1, <1>5, <1>10, <1>11
<1>16. QED
  BY <1>0, <1>1, <1>3, <1>10, <1>11, <1>13, <1>14, <1>15, HandOver

LEMMA RecvTooBigKeeps ==
    ASSUME MboxInv, NEW p \in Procs, current = p, RecvTooBig(p)
    PROVE  MboxInv'
<1>0. PICK b \in Boxes : id[p] = b
  BY CallFacts
<1> DEFINE x == mbox[b]
           z == [x EXCEPT !.receivers = Rest(x.receivers)]
           y == [x EXCEPT !.receivers = Rest(x.receivers), !.inuse = x.inuse - 1]
<1>1. /\ pc[p] = "r_loop"
      /\ msg' = msg /\ pc' = [pc EXCEPT ![p] = "return"]
      /\ mbox' = [mbox EXCEPT ![b] = y]
      /\ Wakeup(First(x.receivers)) /\ Flag(First(x.receivers), "WT_MBOX_RECV")
      /\ UNCHANGED <<timer_vars, mbox_map, free_mbox_list, id, bytes, timed, size, killed>>
  BY <1>0 DEF RecvTooBig, Goto
<1>2. msg[p] = None
  BY <1>1, CallFacts DEF CallOK, Holding
<1>3. /\ x.state = "OPENED" /\ x \in BoxType /\ x.slots = Len(x.msgs) /\ x.slots \in Nat
      /\ x.inuse - 1 \in Nat /\ Rest(x.receivers) \in Seq(Procs)
  BY <1>0, <1>1, AtBox DEF Looking
<1>4. y = [z EXCEPT !.inuse = x.inuse - 1]
  BY <1>3 DEF BoxType
<1>5. /\ z \in BoxType /\ z.slots = x.slots /\ z.msgs = x.msgs /\ z.senders = x.senders
      /\ z.receivers = Rest(x.receivers) /\ z.state = x.state
      /\ z.max_slots = x.max_slots
  BY <1>3, FieldFacts
<1> HIDE DEF z, y
<1>6. /\ y \in BoxType /\ y.slots = x.slots /\ y.msgs = x.msgs /\ y.senders = x.senders
      /\ y.receivers = Rest(x.receivers) /\ y.state = "OPENED" /\ y.inuse = x.inuse - 1
      /\ y.max_slots = x.max_slots
  BY <1>3, <1>4, <1>5, FieldFacts
<1>7. mbox'[b] = y /\ \A c \in Boxes \ {b} : mbox'[c] = mbox[c]
  BY <1>1, <1>6, Replaced
<1>8. HeldOnce'
  <2>1. \A c \in Boxes : mbox'[c].msgs = mbox[c].msgs
    BY <1>6, <1>7
  <2>2. QED
    BY <1>1, <2>1, MessagesStay
<1>9. msg' \in [Procs -> Messages \cup {None}] /\ msg'[p] = None
  BY <1>1, <1>2 DEF MboxInv, MboxTypes
<1>10. QED
  BY <1>0, <1>1, <1>3, <1>6, <1>8, <1>9, HandOver

-----------------------------------------------------------------------------
(* Boxes are opened, closed and given back.                                *)

\* Two lists without a common element are put together.
LEMMA JoinFacts ==
    ASSUME NEW s \in Seq(Boxes), NEW t \in Seq(Boxes), Distinct(s), Distinct(t),
           Elements(s) \cap Elements(t) = {}
    PROVE  /\ s \o t \in Seq(Boxes) /\ Distinct(s \o t)
           /\ Elements(s \o t) = Elements(s) \cup Elements(t)
<1>1. /\ Len(s) \in Nat /\ Len(t) \in Nat /\ s \o t \in Seq(Boxes)
      /\ Len(s \o t) = Len(s) + Len(t)
      /\ DOMAIN s = 1 .. Len(s) /\ DOMAIN t = 1 .. Len(t)
      /\ DOMAIN (s \o t) = 1 .. Len(s) + Len(t)
  OBVIOUS
<1>2. \A i \in DOMAIN s : i \in DOMAIN (s \o t) /\ (s \o t)[i] = s[i]
  BY <1>1
<1>3. \A i \in DOMAIN t : Len(s) + i \in DOMAIN (s \o t) /\ (s \o t)[Len(s) + i] = t[i]
  BY <1>1
<1>4. \A i \in DOMAIN (s \o t) :
          i \in DOMAIN s \/ (i - Len(s) \in DOMAIN t /\ i = Len(s) + (i - Len(s)))
  BY <1>1
<1>5. Elements(s \o t) = Elements(s) \cup Elements(t)
  <2>1. \A i \in DOMAIN (s \o t) : (s \o t)[i] \in Elements(s) \cup Elements(t)
    BY <1>2, <1>3, <1>4 DEF Elements
  <2>2. \A i \in DOMAIN s : s[i] \in Elements(s \o t)
    BY <1>2 DEF Elements
  <2>3. \A i \in DOMAIN t : t[i] \in Elements(s \o t)
    BY <1>3 DEF Elements
  <2>4. QED
    BY <2>1, <2>2, <2>3 DEF Elements
<1>6. Distinct(s \o t)
  <2>1. SUFFICES ASSUME NEW i \in DOMAIN (s \o t), NEW j \in DOMAIN (s \o t),
                        (s \o t)[i] = (s \o t)[j]
                 PROVE  i = j
    BY DEF Distinct
  <2>2. CASE i \in DOMAIN s /\ j \in DOMAIN s
    BY <1>2, <2>1, <2>2 DEF Distinct
  <2>3. CASE i \notin DOMAIN s /\ j \notin DOMAIN s
    <3>1. i - Len(s) = j - Len(s)
      BY <1>3, <1>4, <2>1, <2>3 DEF Distinct
    <3>2. QED
      BY <1>1, <3>1
  <2>4. CASE i \in DOMAIN s /\ j \notin DOMAIN s
    <3>1. (s \o t)[i] \in Elements(s) /\ (s \o t)[j] \in Elements(t)
      BY <1>2, <1>3, <1>4, <2>4 DEF Elements
    <3>2. QED
      BY <2>1, <3>1
  <2>5. CASE i \notin DOMAIN s /\ j \in DOMAIN s
    <3>1. (s \o t)[j] \in Elements(s) /\ (s \o t)[i] \in Elements(t)
      BY <1>2, <1>3, <1>4, <2>5 DEF Elements
    <3>2. QED
      BY <2>1, <3>1
  <2>6. QED
    BY <2>2, <2>3, <2>4, <2>5
<1>7. QED
  BY <1>1, <1>5, <1>6

\* The first of a list of closed boxes is opened, the others stay free.
LEMMA OpenKeeps ==
    ASSUME MboxInv, NEW p \in Procs, current = p, pc[p] \in {"user", "i_page"},
           \A q \in Procs \ {p} : pc[q] # "i_page",
           NEW list \in Seq(Boxes), list # <<>>, Distinct(list), Open(p, list),
           mbox_map' \subseteq DOMAIN Pages,
           Elements(list) = {b \in Boxes : Mapped(b)' /\ mbox[b].state = "CLOSED"},
           \A b \in Boxes : mbox[b].state # "CLOSED" => Mapped(b)',
           UNCHANGED <<sched_vars, timer_vars>>,
           UNCHANGED <<id, msg, bytes, wakeup_flags, timed, size, killed>>
    PROVE  MboxInv'
<1>1. PICK b \in Boxes : b = Head(list)
  BY ElementsFacts
<1>2. /\ Tail(list) \in Seq(Boxes) /\ Distinct(Tail(list))
      /\ b \in Elements(list) /\ Elements(Tail(list)) = Elements(list) \ {b}
  BY <1>1, TailFacts
<1>3. PICK n \in MaxSlots :
          mbox' = [mbox EXCEPT ![b].state = "OPENED", ![b].max_slots = n]
  BY <1>1 DEF Open
<1>4. free_mbox_list' = Tail(list) /\ pc' = [pc EXCEPT ![p] = "return"]
  BY DEF Open, Goto
<1> DEFINE box == [mbox[b] EXCEPT !.state = "OPENED", !.max_slots = n]
<1>5. mbox[b].state = "CLOSED" /\ mbox[b] \in BoxType /\ UsesOK(b) /\ CallOK(p)
  BY <1>2, BoxFacts, CallFacts
<1>6. /\ box \in BoxType /\ box.state = "OPENED" /\ box.inuse = mbox[b].inuse
      /\ box.slots = mbox[b].slots /\ box.msgs = mbox[b].msgs
      /\ box.senders = mbox[b].senders /\ box.receivers = mbox[b].receivers
  BY <1>5 DEF BoxType
<1>7. mbox' = [mbox EXCEPT ![b] = box]
  BY <1>3 DEF MboxInv, MboxTypes
<1> HIDE DEF box
<1>8. /\ mbox' \in [Boxes -> BoxType] /\ mbox'[b] = box
      /\ \A c \in Boxes \ {b} : mbox'[c] = mbox[c]
  BY <1>6, <1>7, Replaced
<1>9. /\ SchedTypeOK' /\ TimerInv' /\ Linked' = Linked
      /\ current' = current /\ state' = state /\ panic' = panic
  BY NothingMoves
<1>10. /\ pc'[p] = "return" /\ \A q \in Procs \ {p} : pc'[q] = pc[q]
       /\ pc' \in [Procs -> {"user", "return", "i_page", "dead"} \cup Sending \cup Receiving]
  BY <1>4 DEF MboxInv, MboxTypes
<1>11. MboxTypes'
  BY <1>2, <1>4, <1>8, <1>9, <1>10 DEF MboxInv, MboxTypes
<1>12. \A q \in Procs \ {p} : Elsewhere(q) /\ wakeup_flags'[q] = wakeup_flags[q]
  BY <1>9, <1>10 DEF Elsewhere, FlagStep
<1>13. CallOK(p)'
  BY <1>5, <1>9, <1>10 DEF CallOK, SendWait, RecvWait, Looking, Holding
<1>14. Members(b)' = Members(b)
  BY <1>10 DEF Members, Inside
<1>15. BoxOK(b)'
  <2>1. /\ mbox'[b].senders = <<>> /\ mbox'[b].receivers = <<>> /\ mbox'[b].msgs = <<>>
        /\ mbox'[b].slots = 0 /\ mbox'[b].inuse = 0 /\ mbox'[b].state = "OPENED"
    BY <1>5, <1>6, <1>8 DEF UsesOK
  <2>2. Elements(<<>>) = {} /\ Distinct(<<>>) /\ Len(<<>>) = 0
    BY DEF Elements, Distinct
  <2>3. QueuesOK(b)'
    BY <2>1, <2>2 DEF QueuesOK
  <2>4. UsesOK(b)'
    BY <1>5, <1>14, <2>1, <2>2 DEF UsesOK
  <2>5. Met(b)'
    BY <2>1, <2>2 DEF Met
  <2>6. QED
    BY <2>3, <2>4, <2>5 DEF BoxOK
<1>16. FreeListOK'
  <2>1. \A c \in Boxes : mbox'[c].state = IF c = b THEN "OPENED" ELSE mbox[c].state
    BY <1>6, <1>8
  <2>2. Mapped(b)'
    BY <1>2
  <2>3. QED
    BY <1>2, <1>4, <2>1, <2>2 DEF FreeListOK
<1>17. HeldOnce'
  <2>1. \A c \in Boxes : mbox'[c].msgs = mbox[c].msgs
    BY <1>6, <1>8
  <2>2. QED
    BY <2>1, MessagesStay
<1>18. (pc[p] \in Inside \/ pc'[p] \in Inside => id[p] = b /\ id'[p] = b) /\ pc'[p] # "i_page"
  BY <1>10 DEF Inside
<1>19. QED
  BY <1>8, <1>9, <1>11, <1>12, <1>13, <1>15, <1>16, <1>17, <1>18, BoxStep

\* new_mbox() finds a box on the free list.
LEMMA OpenFreeKeeps ==
    ASSUME MboxInv, NEW p \in Procs, current = p, pc[p] \in {"user", "i_page"},
           \A q \in Procs \ {p} : pc[q] # "i_page",
           free_mbox_list # <<>>, Open(p, free_mbox_list),
           UNCHANGED <<sched_vars, timer_vars, mbox_map>>,
           UNCHANGED <<id, msg, bytes, wakeup_flags, timed, size, killed>>
    PROVE  MboxInv'
<1>1. /\ free_mbox_list \in Seq(Boxes) /\ Distinct(free_mbox_list)
      /\ Elements(free_mbox_list) = {b \in Boxes : Mapped(b) /\ mbox[b].state = "CLOSED"}
      /\ \A b \in Boxes : mbox[b].state # "CLOSED" => Mapped(b)
      /\ mbox_map \subseteq DOMAIN Pages
  BY DEF MboxInv, MboxTypes, FreeListOK
<1>2. \A b \in Boxes : Mapped(b)' <=> Mapped(b)
  BY DEF Mapped
<1>3. QED
  BY <1>1, <1>2, OpenKeeps

LEMMA InitCallKeeps ==
    ASSUME MboxInv, NEW p \in Procs, current = p, InitCall(p)
    PROVE  MboxInv'
<1>1. /\ pc[p] = "user" /\ \A q \in Procs : pc[q] # "i_page"
      /\ UNCHANGED <<sched_vars, timer_vars, mbox_map>>
      /\ UNCHANGED <<id, msg, bytes, wakeup_flags, timed, size, killed>>
  BY DEF InitCall, call_vars
<1>2. CASE free_mbox_list # <<>>
  <2>1. Open(p, free_mbox_list)
    BY <1>2 DEF InitCall
  <2>2. QED
    BY <1>1, <1>2, <2>1, OpenFreeKeeps
<1>3. CASE free_mbox_list = <<>>
  <2>1. /\ mbox_map # DOMAIN Pages /\ pc' = [pc EXCEPT ![p] = "i_page"]
        /\ UNCHANGED <<mbox, free_mbox_list>>
    BY <1>3 DEF InitCall, Goto
  <2>2. QED
    BY <1>1, <2>1, BackKeeps
<1>4. QED
  BY <1>2, <1>3

LEMMA InitNoPageKeeps ==
    ASSUME MboxInv, NEW p \in Procs, current = p, InitNoPage(p)
    PROVE  MboxInv'
<1>1. /\ pc[p] = "i_page" /\ \A q \in Procs \ {p} : pc[q] # "i_page"
      /\ UNCHANGED <<sched_vars, timer_vars, mbox_map>>
      /\ UNCHANGED <<id, msg, bytes, wakeup_flags, timed, size, killed>>
  BY DEF InitNoPage, call_vars, MboxInv, OneOpens
<1>2. CASE free_mbox_list # <<>>
  <2>1. Open(p, free_mbox_list)
    BY <1>2 DEF InitNoPage
  <2>2. QED
    BY <1>1, <1>2, <2>1, OpenFreeKeeps
<1>3. CASE free_mbox_list = <<>>
  <2>1. pc' = [pc EXCEPT ![p] = "return"] /\ UNCHANGED <<mbox, free_mbox_list>>
    BY <1>3 DEF InitNoPage, Goto
  <2>2. QED
    BY <1>1, <2>1, BackKeeps
<1>4. QED
  BY <1>2, <1>3

\* The new page brings closed boxes that no list holds.
LEMMA InitPageKeeps ==
    ASSUME MboxInv, NEW p \in Procs, current = p, InitPage(p)
    PROVE  MboxInv'
<1>1. /\ pc[p] = "i_page" /\ \A q \in Procs \ {p} : pc[q] # "i_page"
      /\ UNCHANGED <<sched_vars, timer_vars>>
      /\ UNCHANGED <<id, msg, bytes, wakeup_flags, timed, size, killed>>
  BY DEF InitPage, call_vars, MboxInv, OneOpens
<1>2. /\ mbox_map \subseteq DOMAIN Pages /\ mbox_map # DOMAIN Pages
      /\ free_mbox_list \in Seq(Boxes) /\ Distinct(free_mbox_list)
      /\ Elements(free_mbox_list) = {b \in Boxes : Mapped(b) /\ mbox[b].state = "CLOSED"}
      /\ \A b \in Boxes : mbox[b].state # "CLOSED" => Mapped(b)
  BY <1>1, CallFacts DEF MboxInv, MboxTypes, FreeListOK, CallOK
<1>3. PICK new \in DOMAIN Pages : new = NextPage /\ new \notin mbox_map
  BY <1>2, NextPageFacts
<1> DEFINE page == Pages[new]
           list == free_mbox_list \o page
<1>4. /\ page \in Seq(Boxes) /\ page # <<>> /\ Distinct(page)
      /\ Elements(page) \subseteq Boxes
  BY PageFacts
<1>5. mbox_map' = mbox_map \cup {new} /\ Open(p, list)
  BY <1>3 DEF InitPage
<1>6. \A b \in Boxes : Mapped(b)' <=> Mapped(b) \/ b \in Elements(page)
  BY <1>5 DEF Mapped
<1>7. \A b \in Elements(page) : ~ Mapped(b)
  <2>1. \A i \in mbox_map : Elements(Pages[i]) \cap Elements(Pages[new]) = {}
    BY <1>2, <1>3, MboxAssumption
  <2>2. QED
    BY <2>1 DEF Mapped
<1> HIDE DEF page
<1>8. Elements(free_mbox_list) \cap Elements(page) = {}
  BY <1>2, <1>7
<1>9. /\ list \in Seq(Boxes) /\ Distinct(list)
      /\ Elements(list) = Elements(free_mbox_list) \cup Elements(page)
  BY <1>2, <1>4, <1>8, JoinFacts
<1>10. Elements(page) # {}
  BY <1>4, ElementsFacts
<1> HIDE DEF list
<1>11. list # <<>>
  BY <1>9, <1>10, ElementsFacts
<1>12. Elements(list) = {b \in Boxes : Mapped(b)' /\ mbox[b].state = "CLOSED"}
  BY <1>2, <1>4, <1>6, <1>7, <1>9
<1>13. /\ mbox_map' \subseteq DOMAIN Pages
       /\ \A b \in Boxes : mbox[b].state # "CLOSED" => Mapped(b)'
  BY <1>2, <1>5, <1>6
<1>14. QED
  BY <1>1, <1>5, <1>9, <1>11, <1>12, <1>13, OpenKeeps

\* ipc_mbox_free() empties the box, its message count stays.
LEMMA ClosingFacts ==
    ASSUME NEW x \in BoxType,
           NEW y, y = [x EXCEPT !.state = "CLOSING", !.msgs = <<>>,
                                !.senders = <<>>, !.receivers = <<>>]
    PROVE  /\ y \in BoxType /\ y.inuse = x.inuse /\ y.state = "CLOSING"
           /\ y.msgs = <<>> /\ y.senders = <<>> /\ y.receivers = <<>>
<1> DEFINE v == [x EXCEPT !.state = "CLOSING"]
           w == [v EXCEPT !.msgs = <<>>]
           z == [w EXCEPT !.senders = <<>>]
<1>1. /\ v \in BoxType /\ v.inuse = x.inuse /\ v.state = "CLOSING"
      /\ <<>> \in Seq(Messages) /\ <<>> \in Seq(Procs)
  BY DEF BoxType
<1>2. y = [z EXCEPT !.receivers = <<>>]
  BY DEF BoxType
<1> HIDE DEF v
<1>3. w \in BoxType /\ w.inuse = x.inuse /\ w.state = "CLOSING" /\ w.msgs = <<>>
  BY <1>1, FieldFacts
<1> HIDE DEF w
<1>4. /\ z \in BoxType /\ z.inuse = x.inuse /\ z.state = "CLOSING" /\ z.msgs = <<>>
      /\ z.senders = <<>>
  BY <1>1, <1>3, FieldFacts
<1> HIDE DEF z
<1>5. LET u == [z EXCEPT !.receivers = <<>>]
      IN  /\ u \in BoxType /\ u.inuse = z.inuse /\ u.state = z.state
          /\ u.msgs = z.msgs /\ u.senders = z.senders /\ u.receivers = <<>>
  BY <1>1, <1>4, FieldFacts
<1>6. QED
  BY <1>2, <1>4, <1>5

\* A box is closed: those who wait in it are sent home, the last one frees it.
LEMMA MboxFreeKeeps ==
    ASSUME MboxInv, NEW p \in Procs, current = p, NEW b \in Boxes, MboxFree(p, b)
    PROVE  MboxInv'
<1> DEFINE closing == [mbox[b] EXCEPT !.state = "CLOSING", !.msgs = <<>>,
                                      !.senders = <<>>, !.receivers = <<>>]
           waiting == Elements(mbox[b].senders) \cup Elements(mbox[b].receivers)
           box == IF closing.inuse = 0 THEN Freed(closing) ELSE closing
<1>1. /\ pc[p] = "user" /\ mbox[b].state = "OPENED" /\ Mapped(b)
      /\ Wakeup(waiting) /\ Flag(waiting, "WT_INTERRUPTED")
      /\ pc' = [pc EXCEPT ![p] = "return"]
      /\ UNCHANGED <<timer_vars, id, msg, bytes, timed, size, mbox_map, killed>>
  BY DEF MboxFree, get_mbox, Goto
<1>2. /\ mbox' = [mbox EXCEPT ![b] = box]
      /\ free_mbox_list' = IF closing.inuse = 0 THEN AddLast(free_mbox_list, b)
                                                ELSE free_mbox_list
  BY DEF MboxFree
<1>3. mbox[b] \in BoxType /\ QueuesOK(b) /\ UsesOK(b) /\ CallOK(p)
  BY BoxFacts, CallFacts
<1>4. waiting \in SUBSET Procs /\ \A q \in waiting : wakeup_flags[q] = "WT_INTERRUPTED"
  BY <1>3, QueuedAreMembers DEF QueuesOK, Members
<1> HIDE DEF waiting
<1>5. /\ closing \in BoxType /\ closing.inuse = mbox[b].inuse
      /\ closing.state = "CLOSING"
      /\ closing.msgs = <<>> /\ closing.senders = <<>> /\ closing.receivers = <<>>
  BY <1>3, ClosingFacts
<1> HIDE DEF closing
<1>6. closing.inuse \in Nat
  BY <1>5 DEF BoxType
<1>7. /\ box \in BoxType /\ box.inuse = mbox[b].inuse
      /\ box.msgs = <<>> /\ box.senders = <<>> /\ box.receivers = <<>>
      /\ mbox[b].inuse = 0 => box.state = "CLOSED" /\ box.slots = 0
      /\ mbox[b].inuse # 0 => box.state = "CLOSING"
  BY <1>5, <1>6 DEF Freed, BoxType
<1> HIDE DEF box
<1>8. /\ mbox' \in [Boxes -> BoxType] /\ mbox'[b] = box
      /\ \A c \in Boxes \ {b} : mbox'[c] = mbox[c]
  BY <1>2, <1>7, Replaced
<1>9. /\ SchedTypeOK' /\ current' = current
      /\ \A q \in Procs : state'[q] = "SLEEPING" => state[q] = "SLEEPING"
      /\ panic' = "none" => panic = "none"
      /\ TimerInv' /\ Linked' = Linked
  BY <1>1, <1>4, WakeupTypes, TimersMove DEF MboxInv, MboxTypes
<1>10. /\ pc'[p] = "return" /\ \A q \in Procs \ {p} : pc'[q] = pc[q]
       /\ pc' \in [Procs -> {"user", "return", "i_page", "dead"} \cup Sending \cup Receiving]
  BY <1>1 DEF MboxInv, MboxTypes
<1>11. /\ wakeup_flags' \in [Procs -> WaitStates \cup {"WT_INTERRUPTED"}]
       /\ \A q \in Procs : wakeup_flags'[q] = wakeup_flags[q]
  BY <1>1, <1>4 DEF Flag, MboxInv, MboxTypes
<1>12. free_mbox_list' \in Seq(Boxes) /\ FreeListOK'
  <2>1. FreeListOK /\ free_mbox_list \in Seq(Boxes)
    BY DEF MboxInv, MboxTypes
  <2>2. \A c \in Boxes : Mapped(c)' <=> Mapped(c)
    BY <1>1 DEF Mapped
  <2>3. CASE mbox[b].inuse = 0
    <3>1. b \notin Elements(free_mbox_list)
      BY <1>1, <2>1 DEF FreeListOK
    <3>2. /\ free_mbox_list' \in Seq(Boxes)
          /\ Elements(free_mbox_list') = Elements(free_mbox_list) \cup {b}
          /\ Distinct(free_mbox_list')
      BY <1>2, <1>5, <2>1, <2>3, <3>1, AddLastFacts DEF FreeListOK
    <3>3. \A c \in Boxes : mbox'[c].state = IF c = b THEN "CLOSED" ELSE mbox[c].state
      BY <1>7, <1>8, <2>3
    <3>4. QED
      BY <1>1, <2>1, <2>2, <3>2, <3>3 DEF FreeListOK
  <2>4. CASE mbox[b].inuse # 0
    <3>1. free_mbox_list' = free_mbox_list
      BY <1>2, <1>5, <2>4
    <3>2. \A c \in Boxes : mbox'[c].state = IF c = b THEN "CLOSING" ELSE mbox[c].state
      BY <1>7, <1>8, <2>4
    <3>3. QED
      BY <1>1, <2>1, <2>2, <3>1, <3>2 DEF FreeListOK
  <2>5. QED
    BY <2>3, <2>4
<1>13. MboxTypes'
  BY <1>1, <1>8, <1>9, <1>10, <1>11, <1>12 DEF MboxInv, MboxTypes
<1>14. \A q \in Procs \ {p} : Elsewhere(q) /\ wakeup_flags'[q] = wakeup_flags[q]
  BY <1>1, <1>9, <1>10, <1>11 DEF Elsewhere, FlagStep
<1>15. CallOK(p)'
  BY <1>1, <1>3, <1>9, <1>10 DEF CallOK, SendWait, RecvWait, Looking, Holding
<1>16. Members(b)' = Members(b)
  BY <1>1, <1>10 DEF Members, Inside
<1>17. BoxOK(b)'
  <2>1. Elements(<<>>) = {} /\ Distinct(<<>>)
    BY DEF Elements, Distinct
  <2>2. /\ mbox'[b].senders = <<>> /\ mbox'[b].receivers = <<>> /\ mbox'[b].msgs = <<>>
        /\ mbox'[b].inuse = mbox[b].inuse
        /\ mbox[b].inuse = 0 => mbox'[b].state = "CLOSED" /\ mbox'[b].slots = 0
        /\ mbox[b].inuse # 0 => mbox'[b].state = "CLOSING"
    BY <1>7, <1>8
  <2>3. QueuesOK(b)'
    BY <2>1, <2>2 DEF QueuesOK
  <2>4. UsesOK(b)'
    BY <1>3, <1>16, <2>2 DEF UsesOK
  <2>5. Met(b)'
    BY <2>2 DEF Met
  <2>6. QED
    BY <2>3, <2>4, <2>5 DEF BoxOK
<1>18. HeldOnce'
  <2>1. \A c \in Boxes : mbox'[c].msgs \in {mbox[c].msgs, <<>>}
    BY <1>7, <1>8
  <2>2. QED
    BY <1>1, <2>1, MessagesStay
<1>19. (pc[p] \in Inside \/ pc'[p] \in Inside => id[p] = b /\ id'[p] = b) /\ pc'[p] # "i_page"
  BY <1>1, <1>10 DEF Inside
<1>20. QED
  BY <1>1, <1>8, <1>9, <1>13, <1>14, <1>15, <1>17, <1>12, <1>18, <1>19, BoxStep

-----------------------------------------------------------------------------
(* Taking a set of boxes off the free list goes through them one by one.   *)

Picked(s) == CHOOSE b \in s : TRUE

UnlinkStep(list, it, s) ==
    IF s = {} THEN list ELSE Unlink(it[s \ {Picked(s)}], Picked(s))

UpTo(P, n) == {s \in SUBSET P : Cardinality(s) <= n}

LEMMA UpToFacts ==
    ASSUME NEW P, IsFiniteSet(P), NEW s \in SUBSET P
    PROVE  /\ Cardinality(s) \in Nat /\ Cardinality(s) <= Cardinality(P)
           /\ Cardinality(P) \in Nat
           /\ Cardinality(s) <= 0 => s = {}
           /\ s # {} => /\ Picked(s) \in s /\ s \ {Picked(s)} \in SUBSET P
                        /\ Cardinality(s \ {Picked(s)}) = Cardinality(s) - 1
<1>1. IsFiniteSet(s) /\ Cardinality(s) \in Nat /\ Cardinality(P) \in Nat
      /\ Cardinality(s) <= Cardinality(P)
  BY FS_Subset, FS_CardinalityType
<1>2. s # {} => Picked(s) \in s
  BY DEF Picked
<1>3. s # {} => Cardinality(s \ {Picked(s)}) = Cardinality(s) - 1
  BY <1>1, <1>2, FS_RemoveElement
<1>4. Cardinality(s) <= 0 => s = {}
  <2>1. Cardinality(s) = 0 => s = {}
    BY <1>1, FS_EmptySet
  <2>2. QED
    BY <1>1, <2>1
<1>5. QED
  BY <1>1, <1>2, <1>3, <1>4

\* The recursive function that FoldSet() chooses exists.
LEMMA UnlinkStepsExist ==
    ASSUME NEW list, NEW P, IsFiniteSet(P)
    PROVE  \E it : it = [s \in SUBSET P |-> UnlinkStep(list, it, s)]
<1> DEFINE Done(n) == \E it : it = [s \in UpTo(P, n) |-> UnlinkStep(list, it, s)]
           D == {n \in Nat : Done(n)}
<1>1. 0 \in D
  <2> DEFINE it == [s \in UpTo(P, 0) |-> list]
  <2>1. \A s \in UpTo(P, 0) : s = {}
    BY UpToFacts DEF UpTo
  <2>2. it = [s \in UpTo(P, 0) |-> UnlinkStep(list, it, s)]
    BY <2>1 DEF UnlinkStep
  <2>3. QED
    BY <2>2
<1>2. ASSUME NEW n \in D PROVE n + 1 \in D
  <2>1. PICK it : it = [s \in UpTo(P, n) |-> UnlinkStep(list, it, s)]
    OBVIOUS
  <2> DEFINE next == [s \in UpTo(P, n + 1) |-> UnlinkStep(list, it, s)]
  <2>2. \A s \in UpTo(P, n) : s \in UpTo(P, n + 1) /\ next[s] = it[s]
    <3>1. ASSUME NEW s \in UpTo(P, n) PROVE s \in UpTo(P, n + 1)
      <4>1. Cardinality(s) \in Nat /\ Cardinality(s) <= n
        BY UpToFacts DEF UpTo
      <4>2. QED
        BY <4>1 DEF UpTo
    <3>2. QED
      BY <2>1, <3>1
  <2>3. ASSUME NEW s \in UpTo(P, n + 1)
        PROVE  UnlinkStep(list, it, s) = UnlinkStep(list, next, s)
    <3>1. CASE s = {}
      BY <3>1 DEF UnlinkStep
    <3>2. CASE s # {}
      <4>1. s \ {Picked(s)} \in UpTo(P, n)
        <5>1. s \in SUBSET P /\ Cardinality(s) <= n + 1
          BY DEF UpTo
        <5>2. /\ Cardinality(s) \in Nat /\ s \ {Picked(s)} \in SUBSET P
              /\ Cardinality(s \ {Picked(s)}) = Cardinality(s) - 1
          BY <3>2, <5>1, UpToFacts
        <5>3. QED
          BY <5>1, <5>2 DEF UpTo
      <4>2. next[s \ {Picked(s)}] = it[s \ {Picked(s)}]
        BY <2>2, <4>1
      <4> HIDE DEF next
      <4>3. QED
        BY <4>2 DEF UnlinkStep
    <3>3. QED
      BY <3>1, <3>2
  <2>4. next = [s \in UpTo(P, n + 1) |-> UnlinkStep(list, next, s)]
    BY <2>3
  <2>5. n + 1 \in Nat
    OBVIOUS
  <2> HIDE DEF next
  <2>6. Done(n + 1)
    BY <2>4
  <2>7. QED
    BY <2>5, <2>6
<1> HIDE DEF Done
<1>3. D = Nat
  BY <1>1, <1>2, NatSetInduction
<1>4. Cardinality(P) \in Nat /\ UpTo(P, Cardinality(P)) = SUBSET P
  <2>1. \A s \in SUBSET P : Cardinality(s) <= Cardinality(P)
    BY UpToFacts
  <2>2. QED
    BY <2>1, FS_CardinalityType DEF UpTo
<1>5. Done(Cardinality(P))
  BY <1>3, <1>4
<1>6. QED
  BY <1>4, <1>5 DEF Done

\* What is left of list without the boxes of s.
LeftOf(list, s, r) ==
    r \in Seq(Boxes) /\ Distinct(r) /\ Elements(r) = Elements(list) \ s

UnlinkAll(list, s) == FoldSet(LAMBDA b, acc : Unlink(acc, b), list, s)

LEMMA UnlinkAllFacts ==
    ASSUME NEW list \in Seq(Boxes), Distinct(list), NEW P, IsFiniteSet(P),
           NEW r, r = UnlinkAll(list, P)
    PROVE  LeftOf(list, P, r)
<1> DEFINE it == CHOOSE it : it = [s \in SUBSET P |-> UnlinkStep(list, it, s)]
<1>1. it = [s \in SUBSET P |-> UnlinkStep(list, it, s)]
  BY UnlinkStepsExist
<1>2. r = it[P]
  BY DEF UnlinkAll, FoldSet, MapThenFoldSet, UnlinkStep, Picked
<1> HIDE DEF it
<1> DEFINE Good(s) == LeftOf(list, s, it[s])
           D == {n \in Nat : \A s \in UpTo(P, n) : Good(s)}
<1>3. 0 \in D
  <2>1. ASSUME NEW s \in UpTo(P, 0) PROVE Good(s)
    <3>1. s = {} /\ s \in SUBSET P
      BY UpToFacts DEF UpTo
    <3>2. it[s] = list
      BY <1>1, <3>1 DEF UnlinkStep
    <3>3. QED
      BY <3>1, <3>2 DEF LeftOf
  <2>2. QED
    BY <2>1
<1>4. ASSUME NEW n \in D PROVE n + 1 \in D
  <2>1. ASSUME NEW s \in UpTo(P, n + 1), s # {} PROVE Good(s)
    <3> DEFINE b == Picked(s)
               t == s \ {b}
    <3>1. b \in s /\ t \in UpTo(P, n) /\ s \in SUBSET P
      <4>1. s \in SUBSET P /\ Cardinality(s) <= n + 1
        BY DEF UpTo
      <4>2. /\ Cardinality(s) \in Nat /\ t \in SUBSET P /\ b \in s
            /\ Cardinality(t) = Cardinality(s) - 1
        BY <2>1, <4>1, UpToFacts
      <4>3. QED
        BY <4>1, <4>2 DEF UpTo
    <3>2. it[s] = Unlink(it[t], b)
      BY <1>1, <2>1, <3>1 DEF UnlinkStep
    <3>3. s = t \cup {b}
      BY <3>1
    <3> HIDE DEF b, t
    <3>4. it[t] \in Seq(Boxes) /\ Distinct(it[t]) /\ Elements(it[t]) = Elements(list) \ t
      BY <3>1 DEF LeftOf
    <3>5. /\ it[s] \in Seq(Boxes) /\ Distinct(it[s])
          /\ Elements(it[s]) = Elements(it[t]) \ {b}
      BY <3>2, <3>4, UnlinkFacts
    <3>6. QED
      BY <3>3, <3>4, <3>5 DEF LeftOf
  <2>2. ASSUME NEW s \in UpTo(P, n + 1), s = {} PROVE Good(s)
    <3>1. s \in UpTo(P, 0)
      BY <2>2, FS_EmptySet DEF UpTo
    <3>2. QED
      BY <1>3, <3>1
  <2> HIDE DEF Good
  <2>3. QED
    BY <2>1, <2>2
<1> HIDE DEF Good
<1>5. D = Nat
  BY <1>3, <1>4, NatSetInduction
<1>6. Cardinality(P) \in Nat /\ P \in UpTo(P, Cardinality(P))
  BY UpToFacts DEF UpTo
<1>7. Good(P)
  BY <1>5, <1>6
<1>8. QED
  BY <1>2, <1>7 DEF Good

\* The boxes of some of the pages are finitely many.
LEMMA PagesFinite ==
    ASSUME NEW I \in SUBSET (DOMAIN Pages)
    PROVE  IsFiniteSet(UNION {Elements(Pages[i]) : i \in I})
<1> DEFINE sets == {Elements(Pages[i]) : i \in I}
           elements == [i \in I |-> Elements(Pages[i])]
<1>1. IsFiniteSet(I)
  <2>1. Len(Pages) \in Nat /\ DOMAIN Pages = 1 .. Len(Pages)
    BY MboxAssumption
  <2>2. IsFiniteSet(1 .. Len(Pages))
    BY <2>1, FS_Interval
  <2>3. QED
    BY <2>1, <2>2, FS_Subset
<1>2. \A i \in I : IsFiniteSet(Elements(Pages[i]))
  <2>1. ASSUME NEW i \in I PROVE IsFiniteSet(Elements(Pages[i]))
    <3>1. PICK page \in Seq(Boxes) : page = Pages[i]
      BY PageFacts
    <3> DEFINE at == [k \in 1 .. Len(page) |-> page[k]]
    <3>2. Len(page) \in Nat /\ DOMAIN page = 1 .. Len(page)
      OBVIOUS
    <3>3. at \in Surjection(1 .. Len(page), Elements(page))
      BY <3>2 DEF Surjection, Elements
    <3>4. IsFiniteSet(1 .. Len(page))
      BY <3>2, FS_Interval
    <3> HIDE DEF at
    <3>5. QED
      BY <3>1, <3>3, <3>4, FS_Surjection
  <2>2. QED
    BY <2>1
<1>3. elements \in Surjection(I, sets)
  BY DEF Surjection
<1>4. \A s \in sets : IsFiniteSet(s)
  BY <1>2
<1>5. IsFiniteSet(sets)
  <2> HIDE DEF elements, sets
  <2>1. QED
    BY <1>1, <1>3, FS_Surjection
<1>6. QED
  <2> HIDE DEF elements, sets
  <2>1. IsFiniteSet(UNION sets)
    BY <1>4, <1>5, FS_UNION
  <2>2. QED
    BY <2>1 DEF sets

\* mbox_cleanup() gives back pages of closed boxes: nobody is inside, and the
\* boxes of the other pages stay on the free list.
LEMMA CleanupKeeps ==
    ASSUME MboxInv, NEW p \in Procs, current = p, Cleanup(p)
    PROVE  MboxInv'
<1>1. PICK idle :
          /\ idle = {i \in mbox_map : \A b \in Elements(Pages[i]) : mbox[b].state = "CLOSED"}
          /\ idle # {} /\ mbox_map' = mbox_map \ idle
          /\ free_mbox_list' = FoldSet(LAMBDA b, list : Unlink(list, b), free_mbox_list,
                                       UNION {Elements(Pages[i]) : i \in idle})
  BY Zenon DEF Cleanup
<1>2. /\ pc[p] = "user" /\ pc' = [pc EXCEPT ![p] = "return"]
      /\ UNCHANGED <<sched_vars, timer_vars, mbox>>
      /\ UNCHANGED <<id, msg, bytes, wakeup_flags, timed, size, killed>>
  BY Zenon DEF Cleanup, Goto, call_vars
<1> DEFINE gone == UNION {Elements(Pages[i]) : i \in idle}
<1>3. /\ mbox_map \subseteq DOMAIN Pages /\ free_mbox_list \in Seq(Boxes)
      /\ Distinct(free_mbox_list)
      /\ Elements(free_mbox_list) = {b \in Boxes : Mapped(b) /\ mbox[b].state = "CLOSED"}
      /\ \A b \in Boxes : mbox[b].state # "CLOSED" => Mapped(b)
  BY DEF MboxInv, MboxTypes, FreeListOK
<1>4. /\ idle \in SUBSET (DOMAIN Pages) /\ mbox_map' # DOMAIN Pages
      /\ mbox_map' \subseteq DOMAIN Pages
  BY <1>1, <1>3
<1>5. IsFiniteSet(gone)
  BY <1>4, PagesFinite
<1>6. \A b \in Boxes : Mapped(b)' <=> Mapped(b) /\ b \notin gone
  <2>1. \A i, j \in DOMAIN Pages :
            i # j => Elements(Pages[i]) \cap Elements(Pages[j]) = {}
    BY MboxAssumption
  <2>2. ASSUME NEW b \in Boxes, NEW i \in mbox_map \ idle, b \in Elements(Pages[i])
        PROVE  b \notin gone
    BY <1>3, <1>4, <2>1, <2>2
  <2>3. ASSUME NEW b \in Boxes PROVE Mapped(b)' <=> Mapped(b) /\ b \notin gone
    <3>1. Mapped(b)' <=> \E i \in mbox_map \ idle : b \in Elements(Pages[i])
      BY <1>1 DEF Mapped
    <3>2. QED
      BY <2>2, <3>1 DEF Mapped
  <2>4. QED
    BY <2>3
<1>7. \A b \in gone : mbox[b].state = "CLOSED"
  BY <1>1
<1>8. LeftOf(free_mbox_list, gone, free_mbox_list')
  <2> DEFINE list == free_mbox_list'
  <2>1. list = UnlinkAll(free_mbox_list, gone)
    BY <1>1, Zenon DEF UnlinkAll
  <2> HIDE DEF gone, list
  <2>2. LeftOf(free_mbox_list, gone, list)
    BY <1>3, <1>5, <2>1, UnlinkAllFacts
  <2>3. QED
    BY <2>2 DEF list
<1> HIDE DEF gone
<1>9. free_mbox_list' \in Seq(Boxes) /\ FreeListOK'
  BY <1>2, <1>3, <1>6, <1>7, <1>8 DEF FreeListOK, LeftOf
<1>10. /\ SchedTypeOK' /\ TimerInv' /\ Linked' = Linked
       /\ current' = current /\ state' = state /\ panic' = panic
  BY <1>2, NothingMoves
<1>11. /\ pc'[p] = "return" /\ \A q \in Procs \ {p} : pc'[q] = pc[q]
       /\ pc' \in [Procs -> {"user", "return", "i_page", "dead"} \cup Sending \cup Receiving]
  BY <1>2 DEF MboxInv, MboxTypes
<1>12. MboxTypes'
  BY <1>2, <1>4, <1>9, <1>10, <1>11 DEF MboxInv, MboxTypes
<1>13. OneOpens'
  BY <1>11 DEF OneOpens, MboxInv
<1>14. HeldOnce'
  BY <1>2, MessagesStay
<1>15. \A q \in Procs : CallOK(q)'
  <2>1. ASSUME NEW q \in Procs, q # p PROVE CallOK(q)'
    <3>1. Elsewhere(q)
      BY <1>2, <1>10, <1>11, <2>1 DEF Elsewhere, FlagStep
    <3>2. QED
      BY <1>4, <2>1, <3>1, CallStays
  <2>2. CallOK(p)'
    <3>1. CallOK(p)
      BY CallFacts
    <3>2. QED
      BY <1>2, <1>10, <1>11, <3>1 DEF CallOK, SendWait, RecvWait, Looking, Holding
  <2>3. QED
    BY <2>1, <2>2
<1>16. \A b \in Boxes : BoxOK(b)'
  <2>1. ASSUME NEW b \in Boxes PROVE BoxOK(b)'
    <3>1. Members(b)' = Members(b) /\ p \notin Members(b)
      BY <1>2, <1>11 DEF Members, Inside
    <3>2. Kept(b)
      BY <1>2, <1>10, <1>11, <3>1 DEF Kept, Members
    <3>3. QED
      BY <3>2, BoxStays
  <2>2. QED
    BY <2>1
<1>17. QED
  BY <1>9, <1>12, <1>13, <1>14, <1>15, <1>16 DEF MboxInv

-----------------------------------------------------------------------------
(* Every step keeps the invariant.                                         *)

LEMMA MboxStep == MboxInv /\ [Next]_vars => MboxInv'
<1> SUFFICES ASSUME MboxInv, [Next]_vars PROVE MboxInv'
  OBVIOUS
<1>1. ASSUME NEW p \in Procs, current = p, Running(p) PROVE MboxInv'
  <2>1. CASE InitCall(p) \/ InitPage(p) \/ InitNoPage(p) \/ Cleanup(p)
    BY <1>1, <2>1, InitCallKeeps, InitPageKeeps, InitNoPageKeeps, CleanupKeeps
  <2>2. CASE \E b \in Boxes : MboxFree(p, b) \/ SendCall(p, b) \/ RecvCall(p, b)
    BY <1>1, <2>2, MboxFreeKeeps, CallsKeep
  <2>3. CASE SendLoad(p) \/ SendFails(p)
    BY <1>1, <2>3, SendLoadKeeps, SendFailsKeeps
  <2>4. CASE SendAdd(p) \/ SendBlock(p) \/ SendResume(p)
    BY <1>1, <2>4, SendAddKeeps, SendBlockKeeps, SendResumeKeeps
  <2>5. CASE RecvCheck(p) \/ RecvTake(p) \/ RecvTooBig(p)
    BY <1>1, <2>5, RecvCheckKeeps, RecvTakeKeeps, RecvTooBigKeeps
  <2>6. CASE RecvBlock(p) \/ RecvResume(p)
    BY <1>1, <2>6, RecvBlockKeeps, RecvResumeKeeps
  <2>7. CASE RecvDone(p) \/ RecvPutBack(p)
    BY <1>1, <2>7, RecvDoneKeeps, RecvPutBackKeeps
  <2>8. CASE Schedule(p) \/ Return(p) \/ \E victim \in Procs : Kill(p, victim)
    BY <1>1, <2>8, MboxScheduleKeeps, MboxReturnKeeps, MboxKillKeeps
  <2>9. QED
    BY <1>1, <2>1, <2>2, <2>3, <2>4, <2>5, <2>6, <2>7, <2>8 DEF Running
<1>2. CASE Tick
  BY <1>2, MboxTickKeeps
<1>3. CASE IdleLoop
  BY <1>3, MboxIdleKeeps
<1>4. CASE UNCHANGED vars
  BY <1>4, MboxStutterKeeps
<1>5. QED
  BY <1>1, <1>2, <1>3, <1>4 DEF Next

-----------------------------------------------------------------------------
(* What the invariant says of the properties.                              *)

LEMMA MboxInvMeets == MboxInv => NoMissedMeeting
BY DEF MboxInv, BoxOK, Met, NoMissedMeeting

LEMMA MboxInvHolds == MboxInv => MessagesHeldOnce
<1> SUFFICES ASSUME MboxInv PROVE MessagesHeldOnce
  OBVIOUS
<1>1. HeldOnce
  BY DEF MboxInv
<1>2. \A p \in Procs : msg[p] # None => pc[p] \in Inside \cup {"r_copy"}
  BY CallFacts DEF CallOK, Holding, Inside
<1>3. \A b \in Boxes : mbox[b].state = "OPENED" => mbox[b].slots = Len(mbox[b].msgs)
  BY BoxFacts DEF UsesOK
<1>4. QED
  BY <1>1, <1>2, <1>3 DEF HeldOnce, MessagesHeldOnce

LEMMA MboxInvOutlives == MboxInv => BoxesOutliveCallers
<1> SUFFICES ASSUME MboxInv PROVE BoxesOutliveCallers
  OBVIOUS
<1>1. TypeOK
  <2>1. TimerTypeOK
    BY DEF MboxInv, MboxTypes, TimerInv
  <2>2. QED
    BY <2>1, BoxFacts DEF MboxInv, MboxTypes, TypeOK
<1>2. ASSUME NEW b \in Boxes
      PROVE  /\ mbox[b].inuse = Cardinality(Members(b))
             /\ Elements(mbox[b].senders) \cup Elements(mbox[b].receivers) \subseteq Members(b)
             /\ mbox[b].state = "CLOSING" => Members(b) # {}
             /\ mbox[b].state # "OPENED" =>
                    mbox[b].senders = <<>> /\ mbox[b].receivers = <<>>
             /\ mbox[b].state # "OPENED" => mbox[b].msgs = <<>>
  <2>1. UsesOK(b)
    BY BoxFacts
  <2>2. mbox[b].state = "CLOSING" => Members(b) # {}
    BY <2>1, MemberFacts DEF UsesOK
  <2>3. QED
    BY <2>1, <2>2, QueuedAreMembers DEF UsesOK
<1>3. FreeListOK
  BY DEF MboxInv
<1>4. QED
  BY <1>1, <1>2, <1>3 DEF BoxesOutliveCallers, Members, FreeListOK

\* No wakeup of a message box is lost: while a process sleeps in an open box for
\* a message (for a free slot), at least as many receivers (senders) as there are
\* messages (free slots) have been woken and will look again.  Callers whose
\* time is up, that are killed, whose buffer is too small, whose copy fails: all
\* of send_msg() and recv_msg(), with any timers, kills and closing in between.
THEOREM MeetingsAreNotMissed == Spec => []NoMissedMeeting
<1>1. Init => MboxInv
  BY MboxStarts
<1>2. MboxInv /\ [Next]_vars => MboxInv'
  BY MboxStep
<1>3. MboxInv => NoMissedMeeting
  BY MboxInvMeets
<1>4. QED
  BY <1>1, <1>2, <1>3, PTL DEF Spec

\* A message structure is in the hands of one process or in one box, once, and
\* the slots of an open box count its messages: load_msg(), add_msg(), pick_msg()
\* and the ways back of a failed call lose and duplicate nothing.
THEOREM MessagesAreHeldOnce == Spec => []MessagesHeldOnce
<1>1. Init => MboxInv
  BY MboxStarts
<1>2. MboxInv /\ [Next]_vars => MboxInv'
  BY MboxStep
<1>3. MboxInv => MessagesHeldOnce
  BY MboxInvHolds
<1>4. QED
  BY <1>1, <1>2, <1>3, PTL DEF Spec

\* A box is not freed and used again under its callers: inuse counts those who
\* are inside, a closing box waits for the last one, and the free list of
\* new_mbox() and mbox_cleanup() holds just the closed boxes of mapped pages.
THEOREM BoxesOutliveTheirCallers == Spec => []BoxesOutliveCallers
<1>1. Init => MboxInv
  BY MboxStarts
<1>2. MboxInv /\ [Next]_vars => MboxInv'
  BY MboxStep
<1>3. MboxInv => BoxesOutliveCallers
  BY MboxInvOutlives
<1>4. QED
  BY <1>1, <1>2, <1>3, PTL DEF Spec

=============================================================================
